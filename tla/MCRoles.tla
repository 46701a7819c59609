------------------------------ MODULE MCRoles ------------------------------
(* Values of the constants of Roles for TLC.                               *)
EXTENDS Roles

CONSTANTS s1, r1, r2, editRole, editUser

NoneOrEditRole == {{}, {editRole}}

\* One request for Admin and a role that is created, one for the latter alone.
TwoThenOne == [r \in Requests |-> IF r = r1 THEN {<<1, 3>>} ELSE {<<3>>}]
=============================================================================
