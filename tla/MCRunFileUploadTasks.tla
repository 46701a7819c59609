------------------------ MODULE MCRunFileUploadTasks ------------------------
(* Values of the constants of RunFileUploadTasks for TLC.                  *)
EXTENDS RunFileUploadTasks, TLC

CONSTANTS t1, t2, j1, j2

JobSymmetry == Permutations(Jobs)

=============================================================================
