------------------------------- MODULE Roles -------------------------------
(***************************************************************************)
(* The roles of a tenant, the actions they allow, and who may change them  *)
(* (src/handler/role.go, src/pkg/router/session.go).                       *)
(*                                                                         *)
(* Every server caches the roles as objects that its requests share by     *)
(* pointer (src/repo/role.go).  UpdateRoles changes the objects first,     *)
(* writes them in one transaction and puts each in the cache right after   *)
(* its UPDATE; neither is undone when the transaction fails, and it is the *)
(* cached object the session middleware asks what a user may do.           *)
(***************************************************************************)
EXTENDS Naturals, Sequences, FiniteSets

CONSTANTS
  Actions,     \* action codes; UpdateRolesValidator lets no others through
  EditRole,
  EditUser,
  Choices,     \* bound on the sets of actions the requests ask for
  ListsOf,     \* bound on the lists of roles each of them names
  MaxRoles,    \* bound on the ids of role_tab
  Servers,
  Requests,    \* bound on the UpdateRoles calls under way at a time
  None

ASSUME RolesAssumption ==
  /\ {EditRole, EditUser} \subseteq Actions
  /\ Choices \subseteq SUBSET Actions
  /\ MaxRoles \in Nat /\ MaxRoles >= 2
  /\ ListsOf \in [Requests -> SUBSET (Seq(1..MaxRoles) \ {<<>>})]
  /\ None \notin Servers \cup Actions
  /\ Servers \cap Requests = {}

Ids == 1..MaxRoles
Admin == 1
Member == 2

\* A server holds a role in its cache, a request between the steps of its handler.
Holders == (Servers \cup Requests) \X Ids

VARIABLES
  role,       \* role_tab as committed: the actions of each role
  alias,      \* alias[h]: the holders of the object h points to, if any
  object,     \* object[h]: the actions that object holds
  refresh,    \* refresh[s]: the goroutine that refreshes the cache of s
  req,        \* req[r]: an UpdateRoles call
  given       \* history: the actions somebody entitled to has given a role

memory == <<alias, object>>
vars == <<role, memory, refresh, req, given>>

\* The actions of a role, or that there is no such role or object.
Sets == SUBSET Actions
Absent == {None}
MaybeSets == Sets \cup {Absent}
NoRoles == [i \in Ids |-> Absent]

Request ==
  [pc : {"none", "change", "marshal", "write", "commit", "again"},
   server : Servers \cup {None},
   todo : Seq(Ids),                  \* roles the current loop has left
   updated : Seq(Ids),               \* updatedRoles
   new : [Ids -> Sets],              \* the actions it asks for
   image : [Ids -> MaybeSets]]  \* rows it has written or is about to write
NoActions == [i \in Ids |-> {}]
NoRequest == [pc |-> "none", server |-> None, todo |-> <<>>, updated |-> <<>>,
              new |-> NoActions, image |-> NoRoles]

Refresh == [pc : {"idle", "flush", "set"}, read : [Ids -> MaybeSets]]
IdleRefresh == [pc |-> "idle", read |-> NoRoles]

\* CreateTenant has stored its two roles and made its users Admin.
Init ==
  /\ role = [i \in Ids |-> IF i = Admin THEN {EditRole, EditUser}
                           ELSE IF i = Member THEN {} ELSE Absent]
  /\ alias = [h \in Holders |-> {}]
  /\ object = [h \in Holders |-> Absent]
  /\ refresh = [s \in Servers |-> IdleRefresh]
  /\ req = [r \in Requests |-> NoRequest]
  /\ given = {Admin} \X {EditRole, EditUser}

-----------------------------------------------------------------------------
(* Pointers, up to renaming: the holders of one object are one set.        *)

Entries(x) == {x} \X Ids
Cached(h) == alias[h] # {}

Detached(H) ==
  /\ alias' = [h \in Holders |-> IF h \in H THEN {} ELSE alias[h] \ H]
  /\ object' = [h \in Holders |-> IF h \in H THEN Absent ELSE object[h]]

\* Request r gets the roles I: the objects its server has in the cache, and objects
\* of its own for the rest; getMany puts nothing in the cache.
Fetched(r, s, I) ==
  LET Mine(i) == IF i \in I THEN {<<r, i>>} ELSE {}
      Hit(i) == i \in I /\ Cached(<<s, i>>)
  IN  /\ alias' = [h \in Holders |->
                     IF Hit(h[2]) /\ h \in alias[<<s, h[2]>>] \cup Mine(h[2])
                     THEN alias[<<s, h[2]>>] \cup Mine(h[2])
                     ELSE IF h \in Mine(h[2]) THEN {h} ELSE alias[h]]
      /\ object' = [h \in Holders |->
                      IF h \notin Mine(h[2]) THEN object[h]
                      ELSE IF Hit(h[2]) THEN object[<<s, h[2]>>] ELSE role[h[2]]]

\* setCache for the roles I of request r at server s; r lets go of the holders H.
SetCache(r, s, I, H) ==
  LET All(i) == (alias[<<r, i>>] \cup {<<s, i>>}) \ H
  IN  /\ alias' = [h \in Holders |-> IF h[2] \in I /\ h \in All(h[2]) THEN All(h[2])
                                     ELSE IF h \in H THEN {} ELSE alias[h] \ (H \cup {s} \X I)]
      /\ object' = [h \in Holders |-> IF h \in {s} \X I THEN object[<<r, h[2]>>]
                                      ELSE IF h \in H THEN Absent ELSE object[h]]

Step(r, q) == req' = [req EXCEPT ![r] = q]

-----------------------------------------------------------------------------
(* The session middleware.                                                 *)

\* GetByID: the cached object, the row on a miss.
ActionsOf(s, i) == IF Cached(<<s, i>>) THEN object[<<s, i>>] ELSE role[i]

\* A route without allowedActions.
AllowedAnyway(s, i, action) == ActionsOf(s, i) # Absent

\* A user whose role is i has one action in common with the route; a role that is not
\* found makes the session invalid.
Allowed(s, i, action) ==
  /\ ActionsOf(s, i) # Absent
  /\ action \in ActionsOf(s, i)

\* Role i was given the right to edit roles by somebody who had it.
Gives(i, pairs) ==
  given' = IF <<i, EditRole>> \in given THEN given \cup pairs ELSE given

-----------------------------------------------------------------------------
(* Handlers.  The user who calls has role u in user_role_tab, whose rows    *)
(* never change; whatever CreateUsers has put there, u is any role.         *)

\* At least one action.  The row is not cached.
CreateRole(s, u, A) ==
  LET i == Cardinality({j \in Ids : role[j] # Absent}) + 1
  IN  /\ Allowed(s, u, EditRole)
      /\ i \in Ids
      /\ role' = [role EXCEPT ![i] = A]
      /\ Gives(u, {i} \X A)
      /\ UNCHANGED <<memory, refresh, req>>

SetOf(q) == {q[n] : n \in DOMAIN q}

\* Roles that do not exist are left out of the result and nobody counts.
NotCounted(s, I) == TRUE

\* "role ids not match" unless each is found.
AllFound(s, I) == \A i \in I : ActionsOf(s, i) # Absent

\* GetManyByIDs: the roles come in the order of the request, those that were cached
\* first.
UpdateRoles(r, s, u, ids, new) ==
  /\ req[r] = NoRequest
  /\ Allowed(s, u, EditRole)
  /\ AllFound(s, SetOf(ids))
  /\ Fetched(r, s, SetOf(ids))
  /\ Step(r, [NoRequest EXCEPT !.pc = "change", !.server = s, !.todo = ids, !.new = new])
  /\ Gives(u, UNION {{i} \X new[i] : i \in SetOf(ids)})
  /\ UNCHANGED <<role, refresh>>

\* Role.Update on the object.  A request without actions asks for none: ToRole makes
\* an empty slice, never nil.  Apart from the actions the name may have changed.
ChangeRole(r) ==
  LET q == req[r]
      i == Head(q.todo)
      A == q.new[i]
  IN  /\ q.pc = "change"
      /\ q.todo # <<>>
      /\ object' = [h \in Holders |-> IF h \in alias[<<r, i>>] THEN A ELSE object[h]]
      /\ \E changed \in {TRUE, A # object[<<r, i>>]} :
           Step(r, [q EXCEPT !.todo = Tail(@),
                             !.updated = IF changed THEN Append(@, i) ELSE @])
      /\ UNCHANGED <<role, alias, refresh, given>>

\* "no changes detected" ends a request that changed no role: see Answer.
BeginTx(q) ==
  IF q.pc = "change" /\ q.todo = <<>> /\ q.updated # <<>>
  THEN [q EXCEPT !.pc = "marshal", !.todo = q.updated, !.new = NoActions] ELSE q

\* ToRoleModel copies what the object holds now.
Marshal(r) ==
  LET q == BeginTx(req[r])
      i == Head(q.todo)
  IN  /\ q.pc = "marshal"
      /\ Step(r, [q EXCEPT !.pc = "write", !.image[i] = object[<<r, i>>]])
      /\ UNCHANGED <<role, memory, refresh, given>>

\* Rows the transaction of r has written and not committed.
Locked(r) ==
  LET q == req[r]
  IN  {i \in Ids : q.image[i] # Absent /\ ~(q.pc = "write" /\ i = Head(q.todo))}

\* The UPDATE waits for the row; then roleRepo.Update sets the cache although nothing
\* is committed.
WriteRole(r) ==
  LET q == req[r]
      i == Head(q.todo)
  IN  /\ q.pc = "write"
      /\ \A w \in Requests \ {r} : i \notin Locked(w)
      /\ SetCache(r, q.server, {i}, {})
      /\ Step(r, [q EXCEPT !.pc = IF Tail(q.todo) = <<>> THEN "commit" ELSE "marshal",
                           !.todo = Tail(q.todo)])
      /\ UNCHANGED <<role, refresh, given>>

Commit(r) ==
  LET q == req[r]
  IN  /\ q.pc = "commit"
      /\ role' = [i \in Ids |-> IF q.image[i] # Absent THEN q.image[i] ELSE role[i]]
      /\ Step(r, [q EXCEPT !.pc = "again", !.image = NoRoles])
      /\ UNCHANGED <<memory, refresh, given>>

\* UpdateMany sets the cache again, and the request ends.
CacheAgain(r) ==
  /\ req[r].pc = "again"
  /\ SetCache(r, req[r].server, SetOf(req[r].updated), Entries(r))
  /\ Step(r, NoRequest)
  /\ UNCHANGED <<role, refresh, given>>

\* The answer: success without a change, or an error at any step, which may follow a
\* commit.  RunTx rolls back; objects and caches stay as they are.
Answer(r) ==
  /\ req[r] # NoRequest
  /\ Step(r, NoRequest)
  /\ Detached(Entries(r))
  /\ UNCHANGED <<role, refresh, given>>

-----------------------------------------------------------------------------
(* The refresh of the cache of a server.                                   *)

\* The roles as the cache has them, the rows on a miss.
ThroughCache(s) == [i \in Ids |-> ActionsOf(s, i)]

\* getMany reads the table; when that fails the cache stays as it is.
StoredRoles(s) == role

ReadRoles(s) ==
  /\ refresh[s].pc = "idle"
  /\ refresh' = [refresh EXCEPT ![s] = [pc |-> "flush", read |-> StoredRoles(s)]]
  /\ UNCHANGED <<role, memory, req, given>>

Flush(s) ==
  /\ refresh[s].pc = "flush"
  /\ refresh' = [refresh EXCEPT ![s].pc = "set"]
  /\ Detached(Entries(s))
  /\ UNCHANGED <<role, req, given>>

\* An object for every row that was read.
SetEntries(s) ==
  LET t == refresh[s].read
      set == {h \in Entries(s) : t[h[2]] # Absent}
  IN  /\ refresh[s].pc = "set"
      /\ refresh' = [refresh EXCEPT ![s] = IdleRefresh]
      /\ alias' = [h \in Holders |-> IF h \in set THEN {h} ELSE alias[h] \ set]
      /\ object' = [h \in Holders |-> IF h \in set THEN t[h[2]] ELSE object[h]]
      /\ UNCHANGED <<role, req, given>>

\* The server dies with its requests, whose transactions are rolled back, and reads
\* the roles before it serves.
Restart(s) ==
  LET mine == {r \in Requests : req[r].server = s}
  IN  /\ refresh' = [refresh EXCEPT ![s] = [pc |-> "set", read |-> role]]
      /\ req' = [r \in Requests |-> IF r \in mine THEN NoRequest ELSE req[r]]
      /\ Detached(({s} \cup mine) \X Ids)
      /\ UNCHANGED <<role, given>>

-----------------------------------------------------------------------------
HandlerStep(r) ==
  \/ ChangeRole(r)
  \/ Marshal(r) \/ WriteRole(r)
  \/ Commit(r) \/ CacheAgain(r) \/ Answer(r)

RefreshStep(s) == ReadRoles(s) \/ Flush(s) \/ SetEntries(s)

Next ==
  \/ \E s \in Servers, u \in Ids :
       \/ \E A \in Choices \ {{}} : CreateRole(s, u, A)
       \/ \E r \in Requests : \E ids \in ListsOf[r] : \E new \in [SetOf(ids) -> Choices] :
            UpdateRoles(r, s, u, ids, [i \in Ids |-> IF i \in SetOf(ids) THEN new[i] ELSE {}])
  \/ \E r \in Requests : HandlerStep(r)
  \/ \E s \in Servers : RefreshStep(s) \/ Restart(s)

Spec == Init /\ [][Next]_vars

\* The ticker fires for ever and the database is not down for ever.  Nothing is
\* assumed of the handlers.
FairSpec == Spec /\ \A s \in Servers : WF_vars(RefreshStep(s))

-----------------------------------------------------------------------------
(* Properties.                                                             *)

\* The table, the memory and the requests keep the shape the code gives them: no
\* holder points to nothing, and the holders of one object see the same actions.
TypeOK ==
  /\ role \in [Ids -> MaybeSets]
  /\ alias \in [Holders -> SUBSET Holders]
  /\ object \in [Holders -> MaybeSets]
  /\ \A h \in Holders :
       /\ Cached(h) <=> object[h] # Absent
       /\ \A g \in alias[h] : alias[g] = alias[h] /\ object[g] = object[h]
  /\ refresh \in [Servers -> Refresh]
  /\ req \in [Requests -> Request]
  /\ given \subseteq Ids \X Actions

\* No role has an action, in the table or in a cache that was left behind by a failed
\* transaction or a late entry, that nobody entitled to edit roles gave it.
ActionsGiven ==
  \A i \in Ids :
    /\ role[i] # Absent => {i} \X role[i] \subseteq given
    /\ \A s \in Servers : Cached(<<s, i>>) => {i} \X object[<<s, i>>] \subseteq given

\* When the requests end, every server lets through what the table says in the end,
\* whatever failed transactions and late entries left in its cache.
Quiet == \A r \in Requests : req[r] = NoRequest
Coherent == \A s \in Servers, i \in Ids : Cached(<<s, i>>) => object[<<s, i>>] = role[i]
RolesConverge == <>[]Quiet => <>[]Coherent

-----------------------------------------------------------------------------
(* The inductive invariant behind TypeOK and ActionsGiven.                 *)

\* Who points to an object is one of its holders, and all of them hold it for the
\* same role.
PointersSound ==
  \A h \in Holders :
    /\ Cached(h) => h \in alias[h]
    /\ \A g \in alias[h] : g[2] = h[2]

\* A request r that has ended holds nothing; one under way has a server, holds an
\* object for each role it still has to do, and is never past its last one.
RequestSound(r, q, ob) ==
  /\ q.pc = "none" => q = NoRequest /\ \A i \in Ids : ob[<<r, i>>] = Absent
  /\ q.pc # "none" => q.server \in Servers
  /\ \A i \in SetOf(q.todo) \cup SetOf(q.updated) : ob[<<r, i>>] # Absent
  /\ q.pc \in {"marshal", "write"} => q.todo # <<>>

RequestsSound == \A r \in Requests : RequestSound(r, req[r], object)

\* The actions A of role i were given to it, according to the history g.
Given(g, i, A) == A # Absent => {i} \X A \subseteq g

\* Whatever may become the actions of a role, in the table or in a cache, was given:
\* the objects, what a refresh has read, what a request asks for or has written.
CopiesGiven ==
  /\ \A i \in Ids : Given(given, i, role[i])
  /\ \A h \in Holders : Given(given, h[2], object[h])
  /\ \A s \in Servers, i \in Ids : Given(given, i, refresh[s].read[i])
  /\ \A r \in Requests, i \in Ids :
       Given(given, i, req[r].image[i]) /\ Given(given, i, req[r].new[i])

RolesInv == TypeOK /\ PointersSound /\ RequestsSound /\ CopiesGiven
=============================================================================
