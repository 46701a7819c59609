------------------------ MODULE SessionCacheProofs ------------------------
(***************************************************************************)
(* Theorems about the session caches, for any users, servers, sessions and *)
(* any number of log outs under way.                                       *)
(***************************************************************************)
EXTENDS SessionCache, TLAPS

-----------------------------------------------------------------------------
(* Type correctness.                                                       *)

\* What a refresh has read and what a log out has found are sessions.
WithinCreated ==
  /\ \A s \in Servers : refresh[s].todo \cup refresh[s].dead \subseteq Created
  /\ \A r \in Requests : logout[r] # NoLogOut => logout[r].found \in {0} \cup Created

TypeInv == TypeOK /\ WithinCreated

\* The state of a log out: none, or a record with a step, a server and a user.
LEMMA LogOutFields ==
  ASSUME NEW x \in LogOut \cup {NoLogOut}
  PROVE  /\ x.pc # "none" => x \in LogOut /\ x # NoLogOut
         /\ x # NoLogOut => x \in LogOut
         /\ x \in LogOut => /\ x # NoLogOut
                            /\ x.pc \in {"lookup", "user", "token"}
                            /\ x.server \in Servers /\ x.user \in Users
                            /\ x.found \in Nat
BY DEF LogOut, NoLogOut

\* A log in appends the user of the new session and changes no other.
LEMMA OwnerGrows ==
  ASSUME TypeOK, NEW u \in Users, LogIn(u)
  PROVE  /\ owner' \in Seq(Users) /\ Len(owner') = Len(owner) + 1
         /\ Len(owner') <= MaxSessions /\ Len(owner) \in Nat
         /\ owner'[NewId] = u
         /\ \A i \in Created : owner'[i] = owner[i]
         /\ Created' = Created \cup {NewId} /\ NewId \notin Created
<1>1. owner \in Seq(Users) /\ Len(owner) \in Nat /\ owner' = Append(owner, u)
  BY DEF TypeOK, LogIn
<1>2. /\ owner' \in Seq(Users) /\ Len(owner') = Len(owner) + 1
      /\ owner'[Len(owner) + 1] = u
      /\ \A i \in 1..Len(owner) : owner'[i] = owner[i]
  BY <1>1
<1>3. Len(owner') <= MaxSessions
  BY <1>1, <1>2, BoundsAssumption DEF LogIn
<1>4. 1..(Len(owner) + 1) = 1..Len(owner) \cup {Len(owner) + 1}
  BY <1>1
<1>5. QED
  BY <1>1, <1>2, <1>3, <1>4 DEF Created, NewId

\* A log out that returns is none any more, and adds sessions to cleaned at most.
LEMMA ReturnTyped ==
  ASSUME TypeOK, NEW r \in Requests, logout[r] # NoLogOut, Return(r)
  PROVE  /\ logout' = [logout EXCEPT ![r] = NoLogOut]
         /\ cleaned' \in [Servers -> SUBSET Created]
<1> DEFINE s == logout[r].server
           all == SessionsOf(logout[r].user)
<1>1. s \in Servers /\ all \subseteq Created
  BY LogOutFields DEF TypeOK, SessionsOf
<1>2. cleaned' = cleaned \/ cleaned' = [cleaned EXCEPT ![s] = @ \cup all]
  BY DEF Return
<1>3. QED
  BY <1>1, <1>2 DEF Return, TypeOK

\* Moving a refresh to another step keeps it a refresh.
LEMMA RefreshTyped ==
  ASSUME NEW x \in Refresh, NEW pc \in {"idle", "flush", "token", "user"}
  PROVE  /\ [x EXCEPT !.pc = pc] \in Refresh
         /\ [x EXCEPT !.pc = pc].todo = x.todo /\ [x EXCEPT !.pc = pc].dead = x.dead
BY DEF Refresh

\* Moving it on to its next entry does, too.
LEMMA NextEntryTyped ==
  ASSUME NEW x \in Refresh, NEW i
  PROVE  /\ [x EXCEPT !.pc = "token", !.todo = @ \ {i}] \in Refresh
         /\ [x EXCEPT !.pc = "token", !.todo = @ \ {i}].todo = x.todo \ {i}
         /\ [x EXCEPT !.pc = "token", !.todo = @ \ {i}].dead = x.dead
BY DEF Refresh

\* The empty table and caches are well typed.
LEMMA TypeInit == Init => TypeInv
<1> SUFFICES ASSUME Init PROVE TypeInv
  OBVIOUS
<1>1. owner \in Seq(Users) /\ Len(owner) = 0
  BY DEF Init
<1>2. TypeOK
  BY <1>1, BoundsAssumption
     DEF Init, TypeOK, NoUsers, NoRefresh, Refresh, NoLogOut, Created
<1>3. WithinCreated
  BY DEF Init, WithinCreated, NoRefresh, NoLogOut
<1>4. QED
  BY <1>2, <1>3 DEF TypeInv

\* Every step keeps the state well typed.
LEMMA TypeStep == TypeInv /\ [Next]_vars => TypeInv'
<1> SUFFICES ASSUME TypeInv, [Next]_vars PROVE TypeInv'
  OBVIOUS
<1> USE DEF TypeInv, TypeOK, WithinCreated
<1>1. ASSUME NEW u \in Users, LogIn(u) PROVE TypeInv'
  <2>1. /\ owner' \in Seq(Users) /\ Len(owner') <= MaxSessions
        /\ Created' = Created \cup {NewId}
    BY <1>1, OwnerGrows
  <2>2. /\ rows' = rows \cup {NewId}
        /\ UNCHANGED <<byToken, byUser, refresh, up, logout, cleaned, gone>>
    BY <1>1 DEF LogIn
  <2>3. QED
    BY <2>1, <2>2
<1>2. ASSUME NEW r \in Requests, NEW s \in Servers, NEW u \in Users,
             DeleteRows(r, s, u)
      PROVE  TypeInv'
  BY <1>2 DEF DeleteRows, LogOut, NoLogOut, Created
<1>3. ASSUME NEW s \in Servers, NEW u \in Users, DeleteReportsError(s, u)
      PROVE  TypeInv'
  BY <1>3 DEF DeleteReportsError, Created
<1>4. ASSUME NEW r \in Requests, LookUpUser(r) PROVE TypeInv'
  <2> DEFINE s == logout[r].server
             u == logout[r].user
  <2>1. /\ logout[r] \in LogOut /\ logout[r] # NoLogOut
        /\ s \in Servers /\ u \in Users
    BY <1>4, LogOutFields DEF LookUpUser
  <2>2. byUser[s][u] \in {0} \cup Created
    BY <2>1
  <2>3. CASE byUser[s][u] = 0
    <3>1. /\ Return(r)
          /\ UNCHANGED <<owner, rows, byToken, byUser, refresh, up, gone>>
      BY <1>4, <2>1, <2>3 DEF LookUpUser
    <3>2. QED
      BY <2>1, <3>1, ReturnTyped DEF Created
  <2>4. CASE byUser[s][u] # 0
    <3>1. byUser[s][u] \in Nat
      BY <2>2 DEF Created
    <3>2. [logout[r] EXCEPT !.pc = "user", !.found = byUser[s][u]] \in LogOut
      BY <2>1, <3>1 DEF LogOut
    <3>3. /\ logout' = [logout EXCEPT ![r] =
               [logout[r] EXCEPT !.pc = "user", !.found = byUser[s][u]]]
          /\ UNCHANGED <<owner, rows, byToken, byUser, refresh, up, cleaned, gone>>
      BY <1>4, <2>1, <2>4 DEF LookUpUser
    <3>4. [logout[r] EXCEPT !.pc = "user", !.found = byUser[s][u]].found = byUser[s][u]
      BY <2>1 DEF LogOut
    <3>5. QED
      BY <2>2, <3>2, <3>3, <3>4 DEF Created
  <2>5. QED
    BY <2>3, <2>4
<1>5. ASSUME NEW r \in Requests, DropUserKey(r) PROVE TypeInv'
  <2> DEFINE x == [logout[r] EXCEPT !.pc = "token"]
  <2>1. logout[r] \in LogOut /\ logout[r] # NoLogOut
    BY <1>5, LogOutFields DEF DropUserKey
  <2>2. x \in LogOut /\ x.found = logout[r].found
    BY <2>1 DEF LogOut
  <2>3. /\ logout' = [logout EXCEPT ![r] = x]
        /\ byUser' = [byUser EXCEPT ![logout[r].server][logout[r].user] = 0]
        /\ UNCHANGED <<owner, rows, byToken, refresh, up, cleaned, gone>>
    BY <1>5 DEF DropUserKey
  <2> HIDE DEF x
  <2>4. byUser' \in [Servers -> [Users -> {0} \cup Created]]
    BY <2>3
  <2>5. QED
    BY <2>1, <2>2, <2>3, <2>4 DEF Created
<1>6. ASSUME NEW r \in Requests, DropTokenKey(r) PROVE TypeInv'
  BY <1>6, LogOutFields DEF DropTokenKey, Return, LogOut, NoLogOut, SessionsOf, Created
<1>7. ASSUME NEW s \in Servers, ReadRows(s) PROVE TypeInv'
  <2>1. Created \subseteq Nat
    BY DEF Created
  <2>2. rows \subseteq Nat /\ Created \ rows \subseteq Nat
    BY <2>1
  <2>3. [pc |-> "flush", todo |-> rows, dead |-> Created \ rows] \in Refresh
    BY <2>2 DEF Refresh
  <2>4. QED
    BY <1>7, <2>3 DEF ReadRows, Created
<1>8. ASSUME NEW s \in Servers, Flush(s) PROVE TypeInv'
  <2> DEFINE x == [refresh[s] EXCEPT !.pc = "token"]
  <2>1. /\ refresh' = [refresh EXCEPT ![s] = x]
        /\ byToken' = [byToken EXCEPT ![s] = {}]
        /\ byUser' = [byUser EXCEPT ![s] = [u \in Users |-> 0]]
        /\ gone' = [gone EXCEPT ![s] = refresh[s].dead]
        /\ UNCHANGED <<owner, rows, up, logout, cleaned>>
    BY <1>8 DEF Flush, FlushedTokens, NoUsers
  <2>2. x \in Refresh /\ x.todo \subseteq Created /\ x.dead \subseteq Created
    BY RefreshTyped
  <2> HIDE DEF x
  <2>3. QED
    BY <2>1, <2>2 DEF Created
<1>9. ASSUME NEW s \in Servers, NEW i \in SessionIds, SetTokenKey(s, i)
      PROVE  TypeInv'
  <2> DEFINE x == [refresh[s] EXCEPT !.pc = "user"]
  <2>1. /\ refresh' = [refresh EXCEPT ![s] = x]
        /\ byToken' = [byToken EXCEPT ![s] = @ \cup {i}] /\ i \in refresh[s].todo
        /\ UNCHANGED <<owner, rows, byUser, up, logout, cleaned, gone>>
    BY <1>9 DEF SetTokenKey, IsNext
  <2>2. x \in Refresh /\ x.todo \subseteq Created /\ x.dead \subseteq Created
    BY RefreshTyped
  <2> HIDE DEF x
  <2>3. QED
    BY <2>1, <2>2 DEF Created
<1>10. ASSUME NEW s \in Servers, NEW i \in SessionIds, SetUserKey(s, i)
       PROVE  TypeInv'
  <2>1. i \in Created /\ owner[i] \in Users
    BY <1>10 DEF SetUserKey, IsNext, Created
  <2> DEFINE x == [refresh[s] EXCEPT !.pc = "token", !.todo = @ \ {i}]
  <2>2. x \in Refresh /\ x.todo \subseteq Created /\ x.dead \subseteq Created
    <3>1. /\ x \in Refresh /\ x.todo = refresh[s].todo \ {i}
          /\ x.dead = refresh[s].dead
      BY NextEntryTyped, refresh[s] \in Refresh, Zenon
    <3>2. QED
      BY <3>1
  <2>3. /\ refresh' = [refresh EXCEPT ![s] = x]
        /\ byUser' = [byUser EXCEPT ![s][owner[i]] = i]
        /\ UNCHANGED <<owner, rows, byToken, up, logout, cleaned, gone>>
    BY <1>10 DEF SetUserKey
  <2> HIDE DEF x
  <2>4. byUser' \in [Servers -> [Users -> {0} \cup Created]]
    BY <2>1, <2>3
  <2>5. QED
    BY <2>2, <2>3, <2>4 DEF Created
<1>11. ASSUME NEW s \in Servers, RefreshDone(s) PROVE TypeInv'
  BY <1>11 DEF RefreshDone, NoRefresh, Refresh, Created
<1>12. ASSUME NEW s \in Servers, NEW i \in SessionIds, ExpireToken(s, i)
       PROVE  TypeInv'
  BY <1>12 DEF ExpireToken, Created
<1>13. ASSUME NEW s \in Servers, NEW u \in Users, ExpireUser(s, u)
       PROVE  TypeInv'
  BY <1>13 DEF ExpireUser, Created
<1>14. ASSUME NEW s \in Servers, Restart(s) PROVE TypeInv'
  BY <1>14 DEF Restart, NoUsers, NoRefresh, NoLogOut, Refresh, Created
<1>15. CASE UNCHANGED vars
  BY <1>15 DEF vars, Created
<1>16. QED
  BY <1>1, <1>2, <1>3, <1>4, <1>5, <1>6, <1>7, <1>8, <1>9, <1>10, <1>11, <1>12,
     <1>13, <1>14, <1>15 DEF Next, LogOutStep, RefreshStep

\* The state always has the shape of the table, the caches and the goroutines.
THEOREM TypeCorrect == Spec => []TypeOK
<1>1. TypeInv => TypeOK
  BY DEF TypeInv
<1>2. QED
  BY TypeInit, TypeStep, <1>1, PTL DEF Spec

-----------------------------------------------------------------------------
(* Sessions without a row are refused after the next refresh.              *)

\* What keeps a dead session from coming back: it has no row, no token key, and
\* is not among the entries the refresh has still to set.
DeadStayDead ==
  \A s \in Servers :
    /\ gone[s] \cap rows = {} /\ gone[s] \cap byToken[s] = {}
    /\ refresh[s].pc # "idle" => refresh[s].dead \cap rows = {}
    /\ refresh[s].pc = "flush" => refresh[s].dead \cap refresh[s].todo = {}
    /\ refresh[s].pc \in {"token", "user"} => gone[s] \cap refresh[s].todo = {}

\* At first no session is dead.
LEMMA DeadInit == Init => DeadStayDead
BY DEF Init, DeadStayDead, NoRefresh

\* Every step keeps the dead sessions dead.
LEMMA DeadStep == TypeInv /\ DeadStayDead /\ [Next]_vars => DeadStayDead'
<1> SUFFICES ASSUME TypeInv, DeadStayDead, [Next]_vars PROVE DeadStayDead'
  OBVIOUS
<1> USE DEF TypeInv, TypeOK, WithinCreated, DeadStayDead
<1>1. ASSUME NEW u \in Users, LogIn(u) PROVE DeadStayDead'
  <2>1. NewId \notin Created /\ rows' = rows \cup {NewId}
    BY <1>1, OwnerGrows DEF LogIn
  <2>2. QED
    BY <1>1, <2>1 DEF LogIn
<1>2. ASSUME NEW r \in Requests, NEW s \in Servers, NEW u \in Users,
             DeleteRows(r, s, u)
      PROVE  DeadStayDead'
  BY <1>2 DEF DeleteRows
<1>3. ASSUME NEW s \in Servers, NEW u \in Users, DeleteReportsError(s, u)
      PROVE  DeadStayDead'
  BY <1>3 DEF DeleteReportsError
<1>4. ASSUME NEW r \in Requests, LookUpUser(r) PROVE DeadStayDead'
  BY <1>4 DEF LookUpUser
<1>5. ASSUME NEW r \in Requests, DropUserKey(r) PROVE DeadStayDead'
  BY <1>5 DEF DropUserKey
<1>6. ASSUME NEW r \in Requests, DropTokenKey(r) PROVE DeadStayDead'
  BY <1>6 DEF DropTokenKey
<1>7. ASSUME NEW s \in Servers, ReadRows(s) PROVE DeadStayDead'
  BY <1>7 DEF ReadRows, Refresh
<1>8. ASSUME NEW s \in Servers, Flush(s) PROVE DeadStayDead'
  BY <1>8 DEF Flush, FlushedTokens, Refresh
<1>9. ASSUME NEW s \in Servers, NEW i \in SessionIds, SetTokenKey(s, i)
      PROVE  DeadStayDead'
  BY <1>9 DEF SetTokenKey, IsNext, Refresh
<1>10. ASSUME NEW s \in Servers, NEW i \in SessionIds, SetUserKey(s, i)
       PROVE  DeadStayDead'
  BY <1>10 DEF SetUserKey, IsNext, Refresh
<1>11. ASSUME NEW s \in Servers, RefreshDone(s) PROVE DeadStayDead'
  BY <1>11 DEF RefreshDone, NoRefresh
<1>12. ASSUME NEW s \in Servers, NEW i \in SessionIds, ExpireToken(s, i)
       PROVE  DeadStayDead'
  BY <1>12 DEF ExpireToken
<1>13. ASSUME NEW s \in Servers, NEW u \in Users, ExpireUser(s, u)
       PROVE  DeadStayDead'
  BY <1>13 DEF ExpireUser
<1>14. ASSUME NEW s \in Servers, Restart(s) PROVE DeadStayDead'
  BY <1>14 DEF Restart, NoRefresh
<1>15. CASE UNCHANGED vars
  BY <1>15 DEF vars
<1>16. QED
  BY <1>1, <1>2, <1>3, <1>4, <1>5, <1>6, <1>7, <1>8, <1>9, <1>10, <1>11, <1>12,
     <1>13, <1>14, <1>15 DEF Next, LogOutStep, RefreshStep

\* A session logged out anywhere is refused by every server once that server has
\* flushed its cache for rows read after the log out.
THEOREM RefusalHolds == Spec => []RefusedAfterRefresh
<1>1. DeadStayDead => RefusedAfterRefresh
  BY DEF DeadStayDead, RefusedAfterRefresh, Accepts
<1>2. QED
  BY TypeInit, TypeStep, DeadInit, DeadStep, <1>1, PTL DEF Spec

-----------------------------------------------------------------------------
(* A log out nothing interferes with is immediate.                         *)

\* Entries under users' keys, and sessions found there, are the users' own.
OwnEntries ==
  /\ \A s \in Servers, u \in Users :
       byUser[s][u] # 0 => byUser[s][u] \in SessionsOf(u)
  /\ \A r \in Requests :
       logout[r].pc \in {"user", "token"} =>
         logout[r].found \in SessionsOf(logout[r].user)

\* A log out that has begun has deleted a session of its user.
SomeDeleted ==
  \A r \in Requests :
    logout[r] # NoLogOut => \E k \in SessionsOf(logout[r].user) : k \notin rows

\* Between two entries the refresh has set no token that it has still to set;
\* between the two keys of an entry, only that entry's.
SetOnce ==
  \A s \in Servers :
    /\ refresh[s].pc = "token" => refresh[s].todo \cap byToken[s] = {}
    /\ refresh[s].pc = "user" =>
         \A i \in refresh[s].todo \cap byToken[s] : IsNext(s, i)

\* The log outs of u at s that have dropped the user's key, not yet the token's.
DroppedUserKey(s, u) ==
  \E r \in Requests :
    /\ logout[r].pc = "token"
    /\ logout[r].server = s /\ logout[r].user = u

\* The token of a user's only session is not in the cache without the user's
\* key, but for the moment between the two when they are set or dropped.
KeyCoversToken ==
  \A s \in Servers, u \in Users : \A i \in byToken[s] :
    SessionsOf(u) = {i} =>
      \/ byUser[s][u] = i
      \/ refresh[s].pc = "user" /\ IsNext(s, i)
      \/ DroppedUserKey(s, u)

\* A session that a log out has ended has no row, no token key and none to come.
CleanedStayOut ==
  \A s \in Servers : \A i \in cleaned[s] :
    /\ i \notin rows /\ i \notin byToken[s]
    /\ refresh[s].pc # "idle" => i \notin refresh[s].todo

LogOutInv == OwnEntries /\ SomeDeleted /\ SetOnce /\ KeyCoversToken /\ CleanedStayOut

\* Nobody has a session and nothing is cached at first.
LEMMA LogOutInit == Init => LogOutInv
BY DEF Init, LogOutInv, OwnEntries, SomeDeleted, SetOnce, KeyCoversToken,
       CleanedStayOut, NoUsers, NoRefresh, NoLogOut

\* As long as nobody logs in the users keep their sessions.
LEMMA SameSessions ==
  ASSUME UNCHANGED owner
  PROVE  Created' = Created /\ \A u : SessionsOf(u)' = SessionsOf(u)
BY DEF Created, SessionsOf

\* Only the log out r has changed, and it is at none or before the token's key.
LEMMA OtherLogOuts ==
  ASSUME NEW r \in Requests, logout[r].pc # "token",
         NEW x, logout' = [logout EXCEPT ![r] = x], logout \in [Requests -> LogOut \cup {NoLogOut}],
         NEW s, NEW u, DroppedUserKey(s, u)
  PROVE  DroppedUserKey(s, u)'
BY DEF DroppedUserKey

\* A log in gives its user one more session, without a place in any cache.
LEMMA LogInKeeps ==
  ASSUME TypeInv, LogOutInv, NEW v \in Users, LogIn(v)
  PROVE  LogOutInv'
<1> USE DEF TypeInv, TypeOK, WithinCreated
<1>1. /\ owner'[NewId] = v /\ NewId \notin Created
      /\ Created' = Created \cup {NewId}
      /\ \A i \in Created : owner'[i] = owner[i]
      /\ rows' = rows \cup {NewId}
      /\ UNCHANGED <<byToken, byUser, refresh, up, logout, cleaned, gone>>
  BY OwnerGrows DEF LogIn
<1>2. \A u : SessionsOf(u) \subseteq SessionsOf(u)' /\ SessionsOf(u)' \subseteq SessionsOf(u) \cup {NewId}
  BY <1>1 DEF SessionsOf
<1>3. \A u : SessionsOf(u) \subseteq Created
  BY DEF SessionsOf
<1>4. OwnEntries'
  BY <1>1, <1>2 DEF LogOutInv, OwnEntries
<1>5. SomeDeleted'
  BY <1>1, <1>2, <1>3 DEF LogOutInv, SomeDeleted
<1>6. SetOnce'
  BY <1>1 DEF LogOutInv, SetOnce, IsNext
<1>7. KeyCoversToken'
  <2> SUFFICES ASSUME NEW s \in Servers, NEW u \in Users, NEW i \in byToken[s],
                      SessionsOf(u)' = {i}
               PROVE  \/ byUser[s][u] = i
                      \/ refresh[s].pc = "user" /\ IsNext(s, i)
                      \/ DroppedUserKey(s, u)
    BY <1>1 DEF KeyCoversToken, IsNext, DroppedUserKey
  <2>1. i \in Created /\ i # NewId
    BY <1>1
  <2>2. i \in SessionsOf(u)
    BY <1>2, <2>1
  <2>3. SessionsOf(u) = {i}
    BY <1>2, <2>2
  <2>4. QED
    BY <2>3 DEF LogOutInv, KeyCoversToken
<1>8. CleanedStayOut'
  BY <1>1 DEF LogOutInv, CleanedStayOut
<1>9. QED
  BY <1>4, <1>5, <1>6, <1>7, <1>8 DEF LogOutInv

\* Deleting the rows of a user, by a log out or by one that reports an error.
LEMMA DeleteKeeps ==
  ASSUME TypeInv, LogOutInv, NEW s \in Servers, NEW v \in Users,
         \/ \E r \in Requests : DeleteRows(r, s, v)
         \/ DeleteReportsError(s, v)
  PROVE  LogOutInv'
<1> USE DEF TypeInv, TypeOK, WithinCreated
<1>1. /\ rows' = rows \ SessionsOf(v)
      /\ UNCHANGED <<owner, byToken, byUser, refresh, up, cleaned, gone>>
  BY DEF DeleteRows, DeleteReportsError
<1>2. \A u : SessionsOf(u)' = SessionsOf(u)
  BY <1>1, SameSessions
<1>3. SetOnce'
  BY <1>1 DEF LogOutInv, SetOnce, IsNext
<1>4. CleanedStayOut'
  BY <1>1 DEF LogOutInv, CleanedStayOut
<1>5. CASE DeleteReportsError(s, v)
  <2>1. UNCHANGED logout
    BY <1>5 DEF DeleteReportsError
  <2>2. OwnEntries' /\ SomeDeleted'
    BY <1>1, <1>2, <2>1 DEF LogOutInv, OwnEntries, SomeDeleted
  <2>3. KeyCoversToken'
    <3>1. \A t \in Servers, u \in Users : DroppedUserKey(t, u) => DroppedUserKey(t, u)'
      BY <2>1 DEF DroppedUserKey
    <3>2. QED
      BY <1>1, <1>2, <3>1 DEF LogOutInv, KeyCoversToken, IsNext
  <2>4. QED
    BY <1>3, <1>4, <2>2, <2>3 DEF LogOutInv
<1>6. ASSUME NEW r \in Requests, DeleteRows(r, s, v) PROVE LogOutInv'
  <2> DEFINE x == [pc |-> "lookup", server |-> s, user |-> v, found |-> 0]
  <2>1. /\ logout[r] = NoLogOut /\ logout' = [logout EXCEPT ![r] = x]
        /\ SessionsOf(v) # {}
    BY <1>6 DEF DeleteRows
  <2>2. OwnEntries'
    BY <1>1, <1>2, <2>1 DEF LogOutInv, OwnEntries
  <2>3. SomeDeleted'
    BY <1>1, <1>2, <2>1 DEF LogOutInv, SomeDeleted
  <2>4. logout[r].pc # "token"
    BY <2>1 DEF NoLogOut
  <2>5. \A t \in Servers, u \in Users : DroppedUserKey(t, u) => DroppedUserKey(t, u)'
    BY <2>1, <2>4, OtherLogOuts
  <2>6. KeyCoversToken'
    BY <1>1, <1>2, <2>5 DEF LogOutInv, KeyCoversToken, IsNext
  <2>7. QED
    BY <1>3, <1>4, <2>2, <2>3, <2>6 DEF LogOutInv
<1>7. QED
  BY <1>5, <1>6

\* A log out that returns with nothing in its way has ended the only session of
\* its user at its server.
LEMMA ReturnKeeps ==
  ASSUME TypeInv, LogOutInv, NEW r \in Requests, logout[r] # NoLogOut, Return(r),
         UNCHANGED <<owner, rows, byUser, refresh, up, gone>>,
         \A s \in Servers : byToken'[s] \subseteq byToken[s],
         byToken' \in [Servers -> SUBSET Created],
         \A s \in Servers : \A i \in byToken'[s] :
           logout[r].pc = "token" /\ logout[r].server = s => i # logout[r].found,
         \/ logout[r].pc = "lookup" /\ byUser[logout[r].server][logout[r].user] = 0
         \/ logout[r].pc = "token"
  PROVE  LogOutInv'
<1> USE DEF TypeInv, TypeOK, WithinCreated
<1> DEFINE s0 == logout[r].server
           u0 == logout[r].user
<1>1. /\ logout[r] \in LogOut /\ s0 \in Servers /\ u0 \in Users
      /\ logout' = [logout EXCEPT ![r] = NoLogOut]
  BY LogOutFields, ReturnTyped
<1>2. \A u : SessionsOf(u)' = SessionsOf(u)
  BY SameSessions
<1>3. NoLogOut.pc = "none"
  BY DEF NoLogOut
<1>4. OwnEntries'
  BY <1>1, <1>2, <1>3 DEF LogOutInv, OwnEntries
<1>5. SomeDeleted'
  BY <1>1, <1>2 DEF LogOutInv, SomeDeleted
<1>6. SetOnce'
  BY DEF LogOutInv, SetOnce, IsNext
<1>7. \A s \in Servers, u \in Users :
        DroppedUserKey(s, u) =>
          DroppedUserKey(s, u)' \/ (logout[r].pc = "token" /\ s = s0 /\ u = u0)
  <2> SUFFICES ASSUME NEW s \in Servers, NEW u \in Users, NEW q \in Requests,
                      logout[q].pc = "token", logout[q].server = s, logout[q].user = u
               PROVE  DroppedUserKey(s, u)' \/ (logout[r].pc = "token" /\ s = s0 /\ u = u0)
    BY DEF DroppedUserKey
  <2>1. CASE q = r
    BY <2>1
  <2>2. CASE q # r
    <3>1. logout'[q] = logout[q]
      BY <1>1, <2>2
    <3>2. logout'[q].pc = "token" /\ logout'[q].server = s /\ logout'[q].user = u
      BY <3>1
    <3>3. DroppedUserKey(s, u)'
      BY <3>2, Zenon DEF DroppedUserKey
    <3>4. QED
      BY <3>3
  <2>3. QED
    BY <2>1, <2>2
<1>8. logout[r].pc = "token" => logout[r].found \in SessionsOf(u0)
  BY DEF LogOutInv, OwnEntries
<1>9. KeyCoversToken'
  <2> SUFFICES ASSUME NEW s \in Servers, NEW u \in Users, NEW i \in byToken'[s],
                      SessionsOf(u) = {i}
               PROVE  \/ byUser[s][u] = i
                      \/ refresh[s].pc = "user" /\ IsNext(s, i)
                      \/ DroppedUserKey(s, u)'
    BY <1>2 DEF KeyCoversToken, IsNext
  <2>1. \/ byUser[s][u] = i
        \/ refresh[s].pc = "user" /\ IsNext(s, i)
        \/ DroppedUserKey(s, u)
    BY DEF LogOutInv, KeyCoversToken
  <2>2. ~(logout[r].pc = "token" /\ s = s0 /\ u = u0)
    BY <1>8
  <2>3. QED
    BY <1>7, <2>1, <2>2
<1>10. \A s \in Servers : \A i \in cleaned[s] :
         /\ i \notin rows /\ i \notin byToken'[s]
         /\ refresh[s].pc # "idle" => i \notin refresh[s].todo
  BY DEF LogOutInv, CleanedStayOut
<1>11. CASE cleaned' = cleaned
  <2>1. CleanedStayOut'
    BY <1>10, <1>11 DEF CleanedStayOut
  <2>2. QED
    BY <1>4, <1>5, <1>6, <1>9, <2>1 DEF LogOutInv
<1>12. ASSUME NEW i, SessionsOf(u0) = {i}, refresh[s0].pc = "idle", OthersOf(r) = {},
              cleaned' = [cleaned EXCEPT ![s0] = @ \cup {i}]
       PROVE  LogOutInv'
  <2>1. i \notin rows
    BY <1>12 DEF LogOutInv, SomeDeleted
  <2>2. i \notin byToken'[s0]
    <3>1. CASE logout[r].pc = "token"
      BY <1>1, <1>8, <1>12, <3>1
    <3>2. CASE logout[r].pc = "lookup" /\ byUser[s0][u0] = 0
      <4>1. i # 0
        <5>1. i \in Created
          BY <1>12 DEF SessionsOf
        <5>2. QED
          BY <5>1 DEF Created
      <4>2. ~DroppedUserKey(s0, u0)
        BY <1>12, <3>2, LogOutFields DEF DroppedUserKey, OthersOf
      <4>3. i \notin byToken[s0]
        BY <1>1, <1>12, <3>2, <4>1, <4>2 DEF LogOutInv, KeyCoversToken
      <4>4. QED
        BY <1>1, <4>3
    <3>3. QED
      BY <3>1, <3>2
  <2>3. CleanedStayOut'
    BY <1>1, <1>10, <1>12, <2>1, <2>2 DEF CleanedStayOut
  <2>4. QED
    BY <1>4, <1>5, <1>6, <1>9, <2>3 DEF LogOutInv
<1>13. QED
  BY <1>11, <1>12 DEF Return

\* The steps of a log out after its DELETE.
LEMMA LogOutKeeps ==
  ASSUME TypeInv, LogOutInv, NEW r \in Requests,
         LookUpUser(r) \/ DropUserKey(r) \/ DropTokenKey(r)
  PROVE  LogOutInv'
<1> USE DEF TypeInv, TypeOK, WithinCreated
<1> DEFINE s0 == logout[r].server
           u0 == logout[r].user
<1>1. /\ logout[r] \in LogOut /\ logout[r] # NoLogOut
      /\ s0 \in Servers /\ u0 \in Users
  BY LogOutFields DEF LookUpUser, DropUserKey, DropTokenKey
<1>2. UNCHANGED <<owner, rows, refresh, up, gone>> /\ \A u : SessionsOf(u)' = SessionsOf(u)
  BY SameSessions DEF LookUpUser, DropUserKey, DropTokenKey
<1>3. CASE LookUpUser(r) /\ byUser[s0][u0] = 0
  BY <1>1, <1>3, ReturnKeeps DEF LookUpUser
<1>4. CASE DropTokenKey(r)
  <2>1. /\ logout[r].pc = "token" /\ Return(r) /\ UNCHANGED byUser
        /\ byToken' = [byToken EXCEPT ![s0] = @ \ {logout[r].found}]
    BY <1>4 DEF DropTokenKey, FoundSession
  <2>2. byToken' \in [Servers -> SUBSET Created]
    BY <1>1, <2>1
  <2>3. \A s \in Servers : byToken'[s] \subseteq byToken[s]
    BY <1>1, <2>1
  <2>4. \A s \in Servers : \A i \in byToken'[s] : s0 = s => i # logout[r].found
    BY <1>1, <2>1
  <2>5. QED
    BY <1>1, <1>2, <2>1, <2>2, <2>3, <2>4, ReturnKeeps
<1>5. CASE LookUpUser(r) /\ byUser[s0][u0] # 0
  <2> DEFINE x == [logout[r] EXCEPT !.pc = "user", !.found = byUser[s0][u0]]
  <2>1. /\ logout' = [logout EXCEPT ![r] = x]
        /\ logout[r].pc = "lookup" /\ UNCHANGED <<byToken, byUser, cleaned>>
    BY <1>5 DEF LookUpUser
  <2>2. x.pc = "user" /\ x.found = byUser[s0][u0] /\ x.user = u0 /\ x.server = s0
    BY <1>1 DEF LogOut
  <2>3. byUser[s0][u0] \in SessionsOf(u0)
    BY <1>1, <1>5 DEF LogOutInv, OwnEntries
  <2> HIDE DEF x
  <2>4. OwnEntries'
    BY <1>1, <1>2, <2>1, <2>2, <2>3 DEF LogOutInv, OwnEntries
  <2>5. SomeDeleted'
    BY <1>1, <1>2, <2>1, <2>2 DEF LogOutInv, SomeDeleted
  <2>6. SetOnce' /\ CleanedStayOut'
    BY <1>2, <2>1 DEF LogOutInv, SetOnce, IsNext, CleanedStayOut
  <2>7. \A t \in Servers, u \in Users : DroppedUserKey(t, u) => DroppedUserKey(t, u)'
    BY <2>1, OtherLogOuts
  <2>8. KeyCoversToken'
    BY <1>2, <2>1, <2>7 DEF LogOutInv, KeyCoversToken, IsNext
  <2>9. QED
    BY <2>4, <2>5, <2>6, <2>8 DEF LogOutInv
<1>6. CASE DropUserKey(r)
  <2> DEFINE x == [logout[r] EXCEPT !.pc = "token"]
  <2>1. /\ logout' = [logout EXCEPT ![r] = x] /\ logout[r].pc = "user"
        /\ byUser' = [byUser EXCEPT ![s0][u0] = 0]
        /\ UNCHANGED <<byToken, cleaned>>
    BY <1>6 DEF DropUserKey
  <2>2. x.pc = "token" /\ x.found = logout[r].found /\ x.user = u0 /\ x.server = s0
    BY <1>1 DEF LogOut
  <2> HIDE DEF x
  <2>3. \A s \in Servers, u \in Users :
          byUser'[s][u] = IF s = s0 /\ u = u0 THEN 0 ELSE byUser[s][u]
    BY <1>1, <2>1
  <2>4. OwnEntries'
    BY <1>1, <1>2, <2>1, <2>2, <2>3 DEF LogOutInv, OwnEntries
  <2>5. SomeDeleted'
    BY <1>1, <1>2, <2>1, <2>2 DEF LogOutInv, SomeDeleted
  <2>6. SetOnce' /\ CleanedStayOut'
    BY <1>2, <2>1 DEF LogOutInv, SetOnce, IsNext, CleanedStayOut
  <2>7. \A t \in Servers, u \in Users : DroppedUserKey(t, u) => DroppedUserKey(t, u)'
    BY <2>1, OtherLogOuts
  <2>8. ASSUME NEW s, NEW u, s = s0, u = u0 PROVE DroppedUserKey(s, u)'
    <3>1. logout'[r].pc = "token" /\ logout'[r].server = s /\ logout'[r].user = u
      BY <2>1, <2>2, <2>8
    <3>2. QED
      BY <3>1, Zenon DEF DroppedUserKey
  <2>9. KeyCoversToken'
    <3> SUFFICES ASSUME NEW s \in Servers, NEW u \in Users, NEW i \in byToken[s],
                        SessionsOf(u) = {i}
                 PROVE  \/ byUser'[s][u] = i
                        \/ refresh[s].pc = "user" /\ IsNext(s, i)
                        \/ DroppedUserKey(s, u)'
      BY <1>2, <2>1 DEF KeyCoversToken, IsNext
    <3>1. \/ byUser[s][u] = i
          \/ refresh[s].pc = "user" /\ IsNext(s, i)
          \/ DroppedUserKey(s, u)
      BY DEF LogOutInv, KeyCoversToken
    <3>2. CASE s = s0 /\ u = u0
      BY <2>8, <3>2
    <3>3. CASE ~(s = s0 /\ u = u0)
      <4>1. byUser'[s][u] = byUser[s][u]
        BY <2>3, <3>3
      <4>2. DroppedUserKey(s, u) => DroppedUserKey(s, u)'
        BY <2>7
      <4>3. QED
        BY <3>1, <4>1, <4>2
    <3>4. QED
      BY <3>2, <3>3
  <2>10. QED
    BY <2>4, <2>5, <2>6, <2>9 DEF LogOutInv
<1>7. QED
  BY <1>3, <1>4, <1>5, <1>6

\* The steps of the refresh.
LEMMA RefreshKeeps ==
  ASSUME TypeInv, LogOutInv, NEW s0 \in Servers, RefreshStep(s0)
  PROVE  LogOutInv'
<1> USE DEF TypeInv, TypeOK, WithinCreated
<1>1. UNCHANGED <<owner, rows, logout, cleaned>> /\ \A u : SessionsOf(u)' = SessionsOf(u)
  BY SameSessions
     DEF RefreshStep, ReadRows, Flush, SetTokenKey, SetUserKey, RefreshDone
<1>2. SomeDeleted'
  BY <1>1 DEF LogOutInv, SomeDeleted
<1>3. \A s, u : DroppedUserKey(s, u)' = DroppedUserKey(s, u)
  BY <1>1 DEF DroppedUserKey
<1>4. CASE ReadRows(s0)
  <2> DEFINE x == [pc |-> "flush", todo |-> rows, dead |-> Created \ rows]
  <2>1. refresh' = [refresh EXCEPT ![s0] = x] /\ refresh[s0].pc = "idle"
        /\ UNCHANGED <<byToken, byUser>>
    BY <1>4 DEF ReadRows
  <2>2. OwnEntries'
    BY <1>1, <2>1 DEF LogOutInv, OwnEntries
  <2>3. SetOnce'
    BY <2>1 DEF LogOutInv, SetOnce, IsNext
  <2>4. KeyCoversToken'
    BY <1>1, <1>3, <2>1 DEF LogOutInv, KeyCoversToken, IsNext
  <2>5. CleanedStayOut'
    BY <1>1, <2>1 DEF LogOutInv, CleanedStayOut
  <2>6. QED
    BY <1>2, <2>2, <2>3, <2>4, <2>5 DEF LogOutInv
<1>5. CASE Flush(s0)
  <2>1. /\ byToken' = [byToken EXCEPT ![s0] = {}]
        /\ byUser' = [byUser EXCEPT ![s0] = [u \in Users |-> 0]]
        /\ refresh' = [refresh EXCEPT ![s0].pc = "token"]
        /\ refresh[s0].pc = "flush"
    BY <1>5 DEF Flush, FlushedTokens, NoUsers
  <2>2. OwnEntries'
    BY <1>1, <2>1 DEF LogOutInv, OwnEntries
  <2>3. SetOnce'
    BY <2>1 DEF LogOutInv, SetOnce, IsNext, Refresh
  <2>4. KeyCoversToken'
    BY <1>1, <1>3, <2>1 DEF LogOutInv, KeyCoversToken, IsNext, Refresh
  <2>5. CleanedStayOut'
    BY <1>1, <2>1 DEF LogOutInv, CleanedStayOut, Refresh
  <2>6. QED
    BY <1>2, <2>2, <2>3, <2>4, <2>5 DEF LogOutInv
<1>6. ASSUME NEW i0 \in SessionIds, SetTokenKey(s0, i0) PROVE LogOutInv'
  <2>1. /\ byToken' = [byToken EXCEPT ![s0] = @ \cup {i0}]
        /\ refresh' = [refresh EXCEPT ![s0].pc = "user"]
        /\ refresh[s0].pc = "token" /\ IsNext(s0, i0) /\ UNCHANGED byUser
    BY <1>6 DEF SetTokenKey
  <2>2. refresh'[s0].pc = "user" /\ refresh'[s0].todo = refresh[s0].todo
    BY <2>1 DEF Refresh
  <2>3. \A s \in Servers \ {s0} : refresh'[s] = refresh[s] /\ byToken'[s] = byToken[s]
    BY <2>1
  <2>4. \A s \in Servers : \A i : IsNext(s, i)' = IsNext(s, i)
    BY <2>2, <2>3 DEF IsNext
  <2>5. OwnEntries'
    BY <1>1, <2>1 DEF LogOutInv, OwnEntries
  <2>6. SetOnce'
    BY <2>1, <2>2, <2>3, <2>4 DEF LogOutInv, SetOnce
  <2>7. KeyCoversToken'
    <3> SUFFICES ASSUME NEW s \in Servers, NEW u \in Users, NEW i \in byToken'[s],
                        SessionsOf(u) = {i}
                 PROVE  \/ byUser[s][u] = i
                        \/ refresh'[s].pc = "user" /\ IsNext(s, i)
                        \/ DroppedUserKey(s, u)
      <4>1. \A s \in Servers, u \in Users : byUser'[s][u] = byUser[s][u]
        BY <2>1
      <4>2. QED
        BY <1>1, <1>3, <2>4, <4>1 DEF KeyCoversToken
    <3>1. CASE i \in byToken[s]
      <4>1. \/ byUser[s][u] = i
            \/ refresh[s].pc = "user" /\ IsNext(s, i)
            \/ DroppedUserKey(s, u)
        BY <3>1 DEF LogOutInv, KeyCoversToken
      <4>2. refresh[s].pc = "user" => refresh'[s].pc = "user"
        BY <2>2, <2>3
      <4>3. QED
        BY <4>1, <4>2
    <3>2. CASE i \notin byToken[s]
      <4>1. s = s0 /\ i = i0
        BY <2>1, <3>2
      <4>2. QED
        BY <2>1, <2>2, <4>1
    <3>3. QED
      BY <3>1, <3>2
  <2>8. CleanedStayOut'
    BY <1>1, <2>1, <2>2, <2>3 DEF LogOutInv, CleanedStayOut, IsNext
  <2>9. QED
    BY <1>2, <2>5, <2>6, <2>7, <2>8 DEF LogOutInv
<1>7. ASSUME NEW i0 \in SessionIds, SetUserKey(s0, i0) PROVE LogOutInv'
  <2>1. /\ byUser' = [byUser EXCEPT ![s0][owner[i0]] = i0]
        /\ refresh' = [refresh EXCEPT ![s0].pc = "token", ![s0].todo = @ \ {i0}]
        /\ refresh[s0].pc = "user" /\ IsNext(s0, i0) /\ UNCHANGED byToken
    BY <1>7 DEF SetUserKey
  <2>2. refresh'[s0].pc = "token" /\ refresh'[s0].todo = refresh[s0].todo \ {i0}
    BY <2>1 DEF Refresh
  <2>3. \A s \in Servers \ {s0} : refresh'[s] = refresh[s]
    BY <2>1
  <2>4. i0 \in Created /\ owner[i0] \in Users
    BY <2>1 DEF IsNext, Created
  <2>5. \A s \in Servers, u \in Users :
          byUser'[s][u] = IF s = s0 /\ u = owner[i0] THEN i0 ELSE byUser[s][u]
    BY <2>1, <2>4
  <2>6. \A i : IsNext(s0, i) => i = i0
    <3>1. \A i \in Created : i \in Nat
      BY DEF Created
    <3>2. QED
      BY <2>1, <2>4, <3>1 DEF IsNext
  <2>7. OwnEntries'
    <3>1. i0 \in SessionsOf(owner[i0])
      BY <2>4 DEF SessionsOf
    <3>2. QED
      BY <1>1, <2>5, <3>1 DEF LogOutInv, OwnEntries
  <2>8. SetOnce'
    BY <2>1, <2>2, <2>3, <2>6 DEF LogOutInv, SetOnce, IsNext
  <2>9. KeyCoversToken'
    <3> SUFFICES ASSUME NEW s \in Servers, NEW u \in Users, NEW i \in byToken[s],
                        SessionsOf(u) = {i}
                 PROVE  \/ byUser'[s][u] = i
                        \/ refresh'[s].pc = "user" /\ IsNext(s, i)'
                        \/ DroppedUserKey(s, u)
      BY <1>1, <1>3, <2>1 DEF KeyCoversToken
    <3>1. owner[i] = u
      BY DEF SessionsOf
    <3>2. s = s0 /\ u = owner[i0] => i = i0
      BY <2>4 DEF SessionsOf
    <3>3. \/ byUser[s][u] = i
          \/ refresh[s].pc = "user" /\ IsNext(s, i)
          \/ DroppedUserKey(s, u)
      BY DEF LogOutInv, KeyCoversToken
    <3>4. CASE s = s0
      BY <2>5, <2>6, <3>1, <3>2, <3>3, <3>4
    <3>5. CASE s # s0
      BY <2>3, <2>5, <3>3, <3>5 DEF IsNext
    <3>6. QED
      BY <3>4, <3>5
  <2>10. CleanedStayOut'
    BY <1>1, <2>1, <2>2, <2>3 DEF LogOutInv, CleanedStayOut
  <2>11. QED
    BY <1>2, <2>7, <2>8, <2>9, <2>10 DEF LogOutInv
<1>8. CASE RefreshDone(s0)
  <2>1. /\ refresh' = [refresh EXCEPT ![s0] = NoRefresh] /\ NoRefresh.pc = "idle"
        /\ refresh[s0].pc = "token" /\ UNCHANGED <<byToken, byUser>>
    BY <1>8 DEF RefreshDone, NoRefresh
  <2>2. OwnEntries'
    BY <1>1, <2>1 DEF LogOutInv, OwnEntries
  <2>3. SetOnce'
    BY <2>1 DEF LogOutInv, SetOnce, IsNext
  <2>4. KeyCoversToken'
    BY <1>1, <1>3, <2>1 DEF LogOutInv, KeyCoversToken, IsNext
  <2>5. CleanedStayOut'
    BY <1>1, <2>1 DEF LogOutInv, CleanedStayOut
  <2>6. QED
    BY <1>2, <2>2, <2>3, <2>4, <2>5 DEF LogOutInv
<1>9. QED
  BY <1>4, <1>5, <1>6, <1>7, <1>8 DEF RefreshStep

\* Entries that expire, and a server that starts again.
LEMMA ExpiryKeeps ==
  ASSUME TypeInv, LogOutInv, NEW s0 \in Servers,
         \/ \E i \in SessionIds : ExpireToken(s0, i)
         \/ \E u \in Users : ExpireUser(s0, u)
         \/ Restart(s0)
  PROVE  LogOutInv'
<1> USE DEF TypeInv, TypeOK, WithinCreated
<1>1. UNCHANGED <<owner, rows, cleaned>> /\ \A u : SessionsOf(u)' = SessionsOf(u)
  BY SameSessions DEF ExpireToken, ExpireUser, Restart
<1>2. ASSUME NEW i0 \in SessionIds, ExpireToken(s0, i0) PROVE LogOutInv'
  <2>1. /\ byToken' = [byToken EXCEPT ![s0] = @ \ {i0}]
        /\ UNCHANGED <<byUser, refresh, logout>>
    BY <1>2 DEF ExpireToken
  <2>2. OwnEntries' /\ SomeDeleted'
    BY <1>1, <2>1 DEF LogOutInv, OwnEntries, SomeDeleted
  <2>3. SetOnce' /\ CleanedStayOut'
    BY <1>1, <2>1 DEF LogOutInv, SetOnce, IsNext, CleanedStayOut
  <2>4. \A s, u : DroppedUserKey(s, u)' = DroppedUserKey(s, u)
    BY <2>1 DEF DroppedUserKey
  <2>5. \A s \in Servers : byToken'[s] \subseteq byToken[s]
    BY <2>1
  <2>6. KeyCoversToken'
    BY <1>1, <2>1, <2>4, <2>5 DEF LogOutInv, KeyCoversToken, IsNext
  <2>7. QED
    BY <2>2, <2>3, <2>6 DEF LogOutInv
<1>3. ASSUME NEW v \in Users, ExpireUser(s0, v) PROVE LogOutInv'
  <2>1. /\ byUser' = [byUser EXCEPT ![s0][v] = 0]
        /\ \A i \in SessionsOf(v) \cap byToken[s0] : i < byUser[s0][v]
        /\ UNCHANGED <<byToken, refresh, logout>>
    BY <1>3 DEF ExpireUser
  <2>2. \A s \in Servers, u \in Users :
          byUser'[s][u] = IF s = s0 /\ u = v THEN 0 ELSE byUser[s][u]
    BY <2>1
  <2>3. OwnEntries' /\ SomeDeleted'
    BY <1>1, <2>1, <2>2 DEF LogOutInv, OwnEntries, SomeDeleted
  <2>4. SetOnce' /\ CleanedStayOut'
    BY <1>1, <2>1 DEF LogOutInv, SetOnce, IsNext, CleanedStayOut
  <2>5. \A s, u : DroppedUserKey(s, u)' = DroppedUserKey(s, u)
    BY <2>1 DEF DroppedUserKey
  <2>6. KeyCoversToken'
    <3> SUFFICES ASSUME NEW s \in Servers, NEW u \in Users, NEW i \in byToken[s],
                        SessionsOf(u) = {i}
                 PROVE  \/ byUser'[s][u] = i
                        \/ refresh[s].pc = "user" /\ IsNext(s, i)
                        \/ DroppedUserKey(s, u)
      BY <1>1, <2>1, <2>5 DEF KeyCoversToken, IsNext
    <3>1. i \in Nat
      BY DEF Created
    <3>2. s = s0 /\ u = v => byUser[s][u] # i
      BY <2>1, <3>1
    <3>3. \/ byUser[s][u] = i
          \/ refresh[s].pc = "user" /\ IsNext(s, i)
          \/ DroppedUserKey(s, u)
      BY DEF LogOutInv, KeyCoversToken
    <3>4. QED
      BY <2>2, <3>2, <3>3
  <2>7. QED
    BY <2>3, <2>4, <2>6 DEF LogOutInv
<1>4. CASE Restart(s0)
  <2>1. /\ byToken' = [byToken EXCEPT ![s0] = {}]
        /\ byUser' = [byUser EXCEPT ![s0] = [u \in Users |-> 0]]
        /\ refresh' = [refresh EXCEPT ![s0] = NoRefresh]
        /\ NoRefresh.pc = "idle"
        /\ logout' = [r \in Requests |->
             IF logout[r] # NoLogOut /\ logout[r].server = s0 THEN NoLogOut ELSE logout[r]]
        /\ NoLogOut.pc = "none"
    BY <1>4 DEF Restart, NoUsers, NoRefresh, NoLogOut
  <2>2. OwnEntries' /\ SomeDeleted'
    BY <1>1, <2>1 DEF LogOutInv, OwnEntries, SomeDeleted
  <2>3. SetOnce' /\ CleanedStayOut'
    BY <1>1, <2>1 DEF LogOutInv, SetOnce, IsNext, CleanedStayOut
  <2>4. \A s \in Servers \ {s0}, u \in Users : DroppedUserKey(s, u) => DroppedUserKey(s, u)'
    <3> SUFFICES ASSUME NEW s \in Servers \ {s0}, NEW u \in Users, NEW q \in Requests,
                        logout[q].pc = "token", logout[q].server = s, logout[q].user = u
                 PROVE  DroppedUserKey(s, u)'
      BY DEF DroppedUserKey
    <3>1. logout'[q] = logout[q]
      BY <2>1
    <3>2. logout'[q].pc = "token" /\ logout'[q].server = s /\ logout'[q].user = u
      BY <3>1
    <3>3. QED
      BY <3>2, Zenon DEF DroppedUserKey
  <2>5. KeyCoversToken'
    <3> SUFFICES ASSUME NEW s \in Servers, NEW u \in Users, NEW i \in byToken'[s],
                        SessionsOf(u) = {i}
                 PROVE  \/ byUser'[s][u] = i
                        \/ refresh'[s].pc = "user" /\ IsNext(s, i)'
                        \/ DroppedUserKey(s, u)'
      BY <1>1 DEF KeyCoversToken
    <3>1. s \in Servers \ {s0} /\ i \in byToken[s]
      BY <2>1
    <3>2. byUser'[s] = byUser[s] /\ refresh'[s] = refresh[s]
      BY <2>1, <3>1
    <3>3. \/ byUser[s][u] = i
          \/ refresh[s].pc = "user" /\ IsNext(s, i)
          \/ DroppedUserKey(s, u)
      BY <3>1 DEF LogOutInv, KeyCoversToken
    <3>4. IsNext(s, i) => IsNext(s, i)'
      BY <3>2 DEF IsNext
    <3>5. QED
      BY <2>4, <3>1, <3>2, <3>3, <3>4
  <2>6. QED
    BY <2>2, <2>3, <2>5 DEF LogOutInv
<1>5. QED
  BY <1>2, <1>3, <1>4

\* Steps that leave every variable alone.
LEMMA StutterKeeps == LogOutInv /\ UNCHANGED vars => LogOutInv'
BY DEF vars, LogOutInv, OwnEntries, SomeDeleted, SetOnce, KeyCoversToken,
       CleanedStayOut, DroppedUserKey, IsNext, SessionsOf, Created

\* A log out that no refresh and no other log out interferes with has ended the
\* only session of its user at its server when it returns.
THEOREM LogOutHolds == Spec => []LogOutIsImmediate
<1>1. TypeInv /\ LogOutInv /\ [Next]_vars => LogOutInv'
  BY LogInKeeps, DeleteKeeps, LogOutKeeps, RefreshKeeps, ExpiryKeeps, StutterKeeps
     DEF Next, LogOutStep
<1>2. LogOutInv => LogOutIsImmediate
  BY DEF LogOutInv, CleanedStayOut, LogOutIsImmediate, Accepts
<1>3. QED
  BY TypeInit, TypeStep, LogOutInit, <1>1, <1>2, PTL DEF Spec

=============================================================================
