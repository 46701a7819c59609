---------------------------- MODULE SessionCache ----------------------------
(***************************************************************************)
(* Sessions (src/repo/session.go): rows in MySQL, and in every server a    *)
(* cache of them by token and by user that only its once-a-minute refresh  *)
(* fills.  Log in writes a row; log out deletes the rows of the user and   *)
(* then cleans the cache of the server it ran on; a request is accepted    *)
(* when its token is in the cache of its server or, failing that, in a row.*)
(*                                                                         *)
(* The refresh reads all rows, flushes the cache and sets the entries one  *)
(* by one, while the requests of that server go on.                        *)
(***************************************************************************)
EXTENDS Integers, Sequences

CONSTANTS
  Users,
  Servers,
  Requests,     \* bound on the log outs under way at a time
  MaxSessions   \* bound on the sessions ever created

ASSUME BoundsAssumption == MaxSessions \in Nat

SessionIds == 1..MaxSessions

VARIABLES
  owner,     \* owner[i]: user of session i; the ids of MySQL, in order
  rows,      \* ids of the rows of session_tab
  byToken,   \* byToken[s]: sessions in the cache of s under their token hash
  byUser,    \* byUser[s][u]: session in the cache of s under user u, 0 for none
  refresh,   \* refresh[s]: the goroutine that refreshes the cache of s
  up,        \* up[s]: whether s has filled its cache once and serves requests
  logout,    \* logout[r]: a log out that has deleted the rows
  cleaned,   \* cleaned[s]: sessions a log out at s is expected to have ended there
  gone       \* gone[s]: sessions without a row when the rows were read that the
             \* cache of s was last flushed for

vars == <<owner, rows, byToken, byUser, refresh, up, logout, cleaned, gone>>

Created == 1..Len(owner)
SessionsOf(u) == {i \in Created : owner[i] = u}

Refresh == [pc : {"idle", "flush", "token", "user"},
            todo : SUBSET Nat,    \* sessions read and not yet set
            dead : SUBSET Nat]    \* sessions that had no row at the read
NoRefresh == [pc |-> "idle", todo |-> {}, dead |-> {}]

LogOut == [pc : {"lookup", "user", "token"}, server : Servers, user : Users,
           found : Nat]
NoLogOut == [pc |-> "none"]

NoUsers == [u \in Users |-> 0]

Init ==
  /\ owner = <<>>
  /\ rows = {}
  /\ byToken = [s \in Servers |-> {}]
  /\ byUser = [s \in Servers |-> NoUsers]
  /\ refresh = [s \in Servers |-> NoRefresh]
  /\ up = [s \in Servers |-> FALSE]
  /\ logout = [r \in Requests |-> NoLogOut]
  /\ cleaned = [s \in Servers |-> {}]
  /\ gone = [s \in Servers |-> {}]

-----------------------------------------------------------------------------
(* Requests.                                                               *)

\* GetByTokenHash: the cache, then the table.  Nothing read from the table is
\* put into the cache.
Accepts(s, i) == i \in byToken[s] \/ i \in rows

\* An id past a gap, with no session of the id before.
IdAfterGap == Len(owner) + 2

\* AUTO_INCREMENT: an id no session had before; gaps are left out.
NewId == Len(owner) + 1

\* NewSession and Create, at any server; the cache is left alone.
LogIn(u) ==
  /\ Len(owner) < MaxSessions
  /\ \E s \in Servers : up[s]
  /\ owner' = Append(owner, u)
  /\ rows' = rows \cup {NewId}
  /\ UNCHANGED <<byToken, byUser, refresh, up, logout, cleaned, gone>>

\* The middleware lets the request of a user with an accepted session through;
\* DeleteByUserID deletes the rows, then turns to the cache.
DeleteRows(r, s, u) ==
  /\ logout[r] = NoLogOut
  /\ up[s]
  /\ \E i \in SessionsOf(u) : Accepts(s, i)
  /\ rows' = rows \ SessionsOf(u)
  /\ logout' = [logout EXCEPT ![r] =
       [pc |-> "lookup", server |-> s, user |-> u, found |-> 0]]
  /\ UNCHANGED <<owner, byToken, byUser, refresh, up, cleaned, gone>>

\* The DELETE is executed but reported as failed: the cache is not cleaned.
DeleteReportsError(s, u) ==
  /\ up[s]
  /\ \E i \in SessionsOf(u) : Accepts(s, i)
  /\ rows' = rows \ SessionsOf(u)
  /\ UNCHANGED <<owner, byToken, byUser, refresh, up, logout, cleaned, gone>>

OthersOf(r) ==
  {q \in Requests \ {r} : /\ logout[q] # NoLogOut
                          /\ logout[q].server = logout[r].server
                          /\ logout[q].user = logout[r].user}

\* The log out r returns.  It is expected to have ended the only session of its
\* user at its server when neither a refresh nor another log out is under way.
Return(r) ==
  LET s == logout[r].server
      all == SessionsOf(logout[r].user)
  IN  /\ logout' = [logout EXCEPT ![r] = NoLogOut]
      /\ cleaned' = IF /\ \E i \in all : all = {i}
                       /\ refresh[s].pc = "idle"
                       /\ OthersOf(r) = {}
                    THEN [cleaned EXCEPT ![s] = @ \cup all]
                    ELSE cleaned

\* The one session cached under the user, if any.
LookUpUser(r) ==
  LET cached == byUser[logout[r].server][logout[r].user]
  IN  /\ logout[r].pc = "lookup"
      /\ IF cached = 0 THEN Return(r)
         ELSE /\ logout' = [logout EXCEPT ![r].pc = "user", ![r].found = cached]
              /\ UNCHANGED cleaned
      /\ UNCHANGED <<owner, rows, byToken, byUser, refresh, up, gone>>

DropUserKey(r) ==
  /\ logout[r].pc = "user"
  /\ byUser' = [byUser EXCEPT ![logout[r].server][logout[r].user] = 0]
  /\ logout' = [logout EXCEPT ![r].pc = "token"]
  /\ UNCHANGED <<owner, rows, byToken, refresh, up, cleaned, gone>>

\* The session the cache holds under the user's key, looked up once more.
StillUnderUserKey(r) == {byUser[logout[r].server][logout[r].user]}

\* The session that was found under the user's key.
FoundSession(r) == {logout[r].found}

DropTokenKey(r) ==
  /\ logout[r].pc = "token"
  /\ byToken' = [byToken EXCEPT ![logout[r].server] = @ \ FoundSession(r)]
  /\ Return(r)
  /\ UNCHANGED <<owner, rows, byUser, refresh, up, gone>>

-----------------------------------------------------------------------------
(* The refresh of the cache of a server.                                   *)

\* getMany with the expiry filter, which every session passes.  When it fails
\* the cache stays as it is.
ReadRows(s) ==
  /\ refresh[s].pc = "idle"
  /\ refresh' = [refresh EXCEPT ![s] =
       [pc |-> "flush", todo |-> rows, dead |-> Created \ rows]]
  /\ UNCHANGED <<owner, rows, byToken, byUser, up, logout, cleaned, gone>>

\* A refresh that sets the entries it read over those it finds.
KeptTokens(s) == byToken[s]

\* What is left under the token keys after the flush.
FlushedTokens(s) == {}

Flush(s) ==
  /\ refresh[s].pc = "flush"
  /\ byToken' = [byToken EXCEPT ![s] = FlushedTokens(s)]
  /\ byUser' = [byUser EXCEPT ![s] = NoUsers]
  /\ gone' = [gone EXCEPT ![s] = refresh[s].dead]
  /\ refresh' = [refresh EXCEPT ![s].pc = "token"]
  /\ UNCHANGED <<owner, rows, up, logout, cleaned>>

\* The rows come in the order of descending ids.
IsNext(s, i) == i \in refresh[s].todo /\ \A k \in refresh[s].todo : k <= i

SetTokenKey(s, i) ==
  /\ refresh[s].pc = "token"
  /\ IsNext(s, i)
  /\ byToken' = [byToken EXCEPT ![s] = @ \cup {i}]
  /\ refresh' = [refresh EXCEPT ![s].pc = "user"]
  /\ UNCHANGED <<owner, rows, byUser, up, logout, cleaned, gone>>

\* The last session set under a user, its oldest, replaces the others.
SetUserKey(s, i) ==
  /\ refresh[s].pc = "user"
  /\ IsNext(s, i)
  /\ byUser' = [byUser EXCEPT ![s][owner[i]] = i]
  /\ refresh' = [refresh EXCEPT ![s].pc = "token", ![s].todo = @ \ {i}]
  /\ UNCHANGED <<owner, rows, byToken, up, logout, cleaned, gone>>

RefreshDone(s) ==
  /\ refresh[s].pc = "token"
  /\ refresh[s].todo = {}
  /\ refresh' = [refresh EXCEPT ![s] = NoRefresh]
  /\ up' = [up EXCEPT ![s] = TRUE]
  /\ UNCHANGED <<owner, rows, byToken, byUser, logout, cleaned, gone>>

\* Entries set without a time to live.
NoExpiry(s) == {}

\* Entries under token keys that may have reached the end of their time.
Expirable(s) == byToken[s]

\* An entry not set again for defaultExpiration is no longer returned.
ExpireToken(s, i) ==
  /\ i \in Expirable(s)
  /\ byToken' = [byToken EXCEPT ![s] = @ \ {i}]
  /\ UNCHANGED <<owner, rows, byUser, refresh, up, logout, cleaned, gone>>

\* The entries expire in the order they were set: the key of a user after the
\* tokens of its sessions that were set before it.
ExpireUser(s, u) ==
  /\ byUser[s][u] # 0
  /\ \A i \in SessionsOf(u) \cap byToken[s] : i < byUser[s][u]
  /\ byUser' = [byUser EXCEPT ![s][u] = 0]
  /\ UNCHANGED <<owner, rows, byToken, refresh, up, logout, cleaned, gone>>

\* The process ends, at any point, and another one starts with an empty cache.
Restart(s) ==
  /\ byToken' = [byToken EXCEPT ![s] = {}]
  /\ byUser' = [byUser EXCEPT ![s] = NoUsers]
  /\ refresh' = [refresh EXCEPT ![s] = NoRefresh]
  /\ up' = [up EXCEPT ![s] = FALSE]
  /\ logout' = [r \in Requests |->
       IF logout[r] # NoLogOut /\ logout[r].server = s THEN NoLogOut ELSE logout[r]]
  /\ UNCHANGED <<owner, rows, cleaned, gone>>

-----------------------------------------------------------------------------

LogOutStep(r) ==
  \/ \E s \in Servers, u \in Users : DeleteRows(r, s, u)
  \/ LookUpUser(r) \/ DropUserKey(r) \/ DropTokenKey(r)

RefreshStep(s) ==
  \/ ReadRows(s) \/ Flush(s) \/ RefreshDone(s)
  \/ \E i \in SessionIds : SetTokenKey(s, i) \/ SetUserKey(s, i)

Next ==
  \/ \E u \in Users : LogIn(u)
  \/ \E r \in Requests : LogOutStep(r)
  \/ \E s \in Servers :
       \/ RefreshStep(s)
       \/ Restart(s)
       \/ \E u \in Users : DeleteReportsError(s, u) \/ ExpireUser(s, u)
       \/ \E i \in SessionIds : ExpireToken(s, i)

\* Only the clock is sure to go on: the reads of the refresh may fail for ever.
Fairness == \A s \in Servers, i \in SessionIds : WF_vars(ExpireToken(s, i))

Spec == Init /\ [][Next]_vars /\ Fairness

-----------------------------------------------------------------------------
(* Properties.                                                             *)

\* The state has the shape of the table, the caches and the goroutines.
TypeOK ==
  /\ owner \in Seq(Users) /\ Len(owner) <= MaxSessions
  /\ rows \subseteq Created
  /\ byToken \in [Servers -> SUBSET Created]
  /\ byUser \in [Servers -> [Users -> {0} \cup Created]]
  /\ refresh \in [Servers -> Refresh]
  /\ up \in [Servers -> BOOLEAN]
  /\ logout \in [Requests -> LogOut \cup {NoLogOut}]
  /\ cleaned \in [Servers -> SUBSET Created]
  /\ gone \in [Servers -> SUBSET Created]

\* A session logged out anywhere is refused by a server from its next refresh
\* on: once the cache has been flushed for rows that were read after the log
\* out, no entry a request, a log out or the refresh itself left over lets the
\* token through again.
RefusedAfterRefresh == \A s \in Servers : \A i \in gone[s] : ~Accepts(s, i)

\* A log out that nothing interferes with ends the session at once at its own
\* server: the user's key outlives the token of the user's only session, so the
\* cleaning finds the token whenever the cache still holds it.
LogOutIsImmediate == \A s \in Servers : \A i \in cleaned[s] : ~Accepts(s, i)

\* A session that was logged out is in the end refused for good by every
\* server, even when no refresh succeeds any more.
RefusedForGood ==
  \A s \in Servers, i \in SessionIds :
    (i \in Created /\ i \notin rows) ~> [](~Accepts(s, i))

=============================================================================
