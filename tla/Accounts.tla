------------------------------ MODULE Accounts ------------------------------
(***************************************************************************)
(* How a tenant and its users come to be, and who gets a session           *)
(* (src/handler/tenant.go, src/handler/user.go).                           *)
(*                                                                         *)
(* CreateTenant makes things outside the database inside its transaction   *)
(* and nests CreateUsers in it; CreateUsers stores users without a         *)
(* password as Pending and mails each a token; InitUser trades a token for *)
(* a password and a session.  Every server caches the users as objects     *)
(* that its requests share by pointer, under the id and under the username *)
(* (src/repo/user.go); InitUser changes and caches the object inside a     *)
(* transaction that may still be rolled back.                              *)
(***************************************************************************)
EXTENDS Naturals, FiniteSetsExt

CONSTANTS
  Emails,
  Names,       \* usernames: the local parts of the emails
  NameOf,      \* extractUsernameFromEmail
  Passwords,
  MaxUsers,    \* bound on the ids of user_tab
  Servers,
  Requests,    \* bound on the requests under way at a time
  None

ASSUME AccountsAssumption ==
  /\ NameOf \in [Emails -> Names]
  /\ MaxUsers \in Nat
  /\ Names \cap (1..MaxUsers) = {}    \* the keys of the cache are told apart
  /\ None \notin Emails \cup Passwords \cup Servers
  /\ Requests \cap (Servers \X (1..MaxUsers \cup Names)) = {}

Ids == 1..MaxUsers

\* The entries of a server's cache; the one under the email comes and goes with the
\* one under the id.
Keys(s) == {s} \X (Ids \cup Names)
Holders == Requests \cup UNION {Keys(s) : s \in Servers}

VARIABLES
  tenant,     \* the row of the tenant: "none" or "stored"
  outside,    \* what CreateTenant has made outside the database
  row,        \* rows of user_tab, as committed
  invited,    \* users with a row in activation_tab
  lastId,     \* AUTO_INCREMENT of user_tab
  outbox,     \* users whose mail a goroutine is about to send
  mailed,     \* users who have their token
  session,    \* rows of session_tab: whose, and for which password
  alias,      \* alias[h]: the holders of the object h points to, if any
  user,       \* user[h]: what that object holds
  refresh,    \* refresh[s]: the goroutine that refreshes the cache of s
  req,        \* req[r]: a request and its handler
  \* History:
  chosen,     \* chosen[u]: the passwords given for u at creation or with its token
  founders    \* users that were created inside the transaction of their tenant

memory == <<alias, user>>
mail == <<outbox, mailed>>
tables == <<tenant, row, invited, session>>
vars == <<tables, outside, lastId, mail, memory, refresh, req, chosen, founders>>

Optional(S) == S \cup {None}

Row == [status : {"none", "pending", "normal"},
        email : Optional(Emails), password : Optional(Passwords)]
NoRow == [status |-> "none", email |-> None, password |-> None]

Object == [id : {0} \cup Ids, is : Row]
Blank == [id |-> 0, is |-> NoRow]

Request ==
  [pc : {"none", "domain", "folder", "tenant", "index", "insert", "activate", "commit",
         "update", "marshal", "write", "cache", "login", "session"},
   server : Optional(Servers),
   id : {0} \cup Ids,         \* the user it creates or initialises
   email : Optional(Emails),
   password : Optional(Passwords),
   nested : BOOLEAN,          \* CreateUsers inside CreateTenant
   image : Row,               \* the row it has written or is about to write
   found : {0} \cup Ids]      \* the user whose session InitUser is to create
NoRequest == [pc |-> "none", server |-> None, id |-> 0, email |-> None,
              password |-> None, nested |-> FALSE, image |-> NoRow, found |-> 0]

Refresh == [pc : {"idle", "flush", "set"}, read : [Ids -> Row]]
NoRows == [u \in Ids |-> NoRow]
IdleRefresh == [pc |-> "idle", read |-> NoRows]

Init ==
  /\ tenant = "none"
  /\ outside = {}
  /\ row = NoRows
  /\ invited = {}
  /\ lastId = 0
  /\ outbox = {} /\ mailed = {}
  /\ session = {}
  /\ alias = [h \in Holders |-> {}]
  /\ user = [h \in Holders |-> Blank]
  /\ refresh = [s \in Servers |-> IdleRefresh]
  /\ req = [r \in Requests |-> NoRequest]
  /\ chosen = [u \in Ids |-> {}]
  /\ founders = {}

-----------------------------------------------------------------------------
(* Pointers, up to renaming: the holders of one object are one set.        *)

Detached(H) ==
  /\ alias' = [h \in Holders |-> IF h \in H THEN {} ELSE alias[h] \ H]
  /\ user' = [h \in Holders |-> IF h \in H THEN Blank ELSE user[h]]

\* Request r points to object o of its own.
PointsToNew(r, o) ==
  /\ alias' = [h \in Holders |-> IF h = r THEN {r} ELSE alias[h] \ {r}]
  /\ user' = [user EXCEPT ![r] = o]

\* The holders G let go of theirs and join the holders of the object of h.
Joined(h, G) ==
  LET all == alias[h] \cup G
  IN  /\ alias' = [x \in Holders |-> IF x \in all THEN all ELSE alias[x] \ G]
      /\ user' = [x \in Holders |-> IF x \in G THEN user[h] ELSE user[x]]

Step(r, q) == req' = [req EXCEPT ![r] = q]
Goto(r, pc) == Step(r, [req[r] EXCEPT !.pc = pc])
Answered(r) == Step(r, NoRequest) /\ Detached({r})

\* The entry under the username is forgotten.
IdOnly(s, o) == {<<s, o.id>>}

\* The keys setCache writes for an object, at server s.
KeysOf(s, o) == {<<s, o.id>>, <<s, NameOf[o.is.email]>>}

Stored(t) == {u \in Ids : t[u].status # "none"}
Named(t, n) == {u \in Stored(t) : NameOf[t[u].email] = n}

\* GetByUsername on a miss: the first row in the order of the ids.
FirstNamed(t, n) == IF Named(t, n) = {} THEN Blank
                    ELSE LET u == Min(Named(t, n)) IN [id |-> u, is |-> t[u]]

\* GetByUsername at server s for a transaction that sees table t.
ByUsername(s, n, t) == IF alias[<<s, n>>] # {} THEN user[<<s, n>>] ELSE FirstNamed(t, n)

-----------------------------------------------------------------------------
(* Transactions.                                                           *)

\* Requests that hold a row of user_tab they have written and not committed.
Writers == {r \in Requests : req[r].pc \in {"activate", "commit", "cache", "login", "session"}}

\* The statement waits while another transaction holds a row with its email or
\* username: the keys of the old and of the new status are locked.
Waits(r, e) ==
  \E w \in Writers \ {r} : NameOf[req[w].image.email] = NameOf[e]

\* Unique keys of user_tab: (email, status) and (username, status).
Duplicate(u, new) ==
  \E v \in Named(row, NameOf[new.email]) \ {u} : row[v].status = new.status

\* The UPDATE finds its rows by username.
SeenByUsername(r) ==
  [u \in Ids |-> IF u = req[r].id THEN req[r].image
                 ELSE IF u \in Named(row, NameOf[req[r].image.email])
                 THEN [row[u] EXCEPT !.password = req[r].image.password]
                 ELSE row[u]]

\* What the transaction of r sees of user_tab.
Seen(r) == [row EXCEPT ![req[r].id] = req[r].image]

\* An error of the database, of the service or of a unique key: RunTx rolls back
\* and the handler returns it.  Objects and caches stay as they are.
ReturnsError(r) ==
  /\ req[r] # NoRequest
  /\ Answered(r)
  /\ UNCHANGED <<tables, outside, lastId, mail, refresh, chosen, founders>>

-----------------------------------------------------------------------------
(* CreateTenant, up to the users.                                          *)

\* GetByName finds no tenant.  With a password the user is not asked for one.
CreateTenant(r, s, e, p) ==
  /\ req[r] = NoRequest
  /\ tenant = "none"
  /\ Step(r, [NoRequest EXCEPT !.pc = "domain", !.server = s, !.email = e,
                               !.password = p, !.nested = TRUE])
  /\ UNCHANGED <<tables, outside, lastId, mail, memory, refresh, chosen, founders>>

\* The domain is optional; the folder is one of several with that name.
MakeOutside(r) ==
  /\ \/ req[r].pc = "domain" /\ Goto(r, "folder") /\ outside' \in {outside, outside \cup {"domain"}}
     \/ req[r].pc = "folder" /\ Goto(r, "tenant") /\ outside' = outside \cup {"folder"}
  /\ UNCHANGED <<tables, lastId, mail, memory, refresh, chosen, founders>>

\* Unique key on the name; the row of another transaction makes it wait.
InsertTenant(r) ==
  /\ req[r].pc = "tenant"
  /\ tenant = "none"
  /\ \A w \in Requests : ~(req[w].nested /\ req[w].pc \in {"index", "insert", "activate", "commit"})
  /\ Goto(r, "index")
  /\ UNCHANGED <<tables, outside, lastId, mail, memory, refresh, chosen, founders>>

\* Elasticsearch refuses to create an index that exists.
IndexFree == "index" \notin outside

\* The error path may follow an index that was created.  The roles and their rows
\* go into the transaction as well.
CreateStore(r) ==
  /\ req[r].pc = "index"
  /\ IndexFree
  /\ outside' = outside \cup {"index"}
  /\ Goto(r, "insert")
  /\ UNCHANGED <<tables, lastId, mail, memory, refresh, chosen, founders>>

-----------------------------------------------------------------------------
(* CreateUsers: one user, since those of one request share its fate.       *)

\* GetManyByEmails: the entry of the email, or the rows with it.
EmailTaken(s, e) == \E u \in Ids : e \in {user[<<s, u>>].is.email, row[u].email}

\* "emails already exist" is an error.  The password is optional.
CreateUsers(r, s, e, p) ==
  /\ req[r] = NoRequest
  /\ tenant = "stored"
  /\ ~EmailTaken(s, e)
  /\ Step(r, [NoRequest EXCEPT !.pc = "insert", !.server = s, !.email = e, !.password = p])
  /\ UNCHANGED <<tables, outside, lastId, mail, memory, refresh, chosen, founders>>

\* NewUser: Pending without a password.
NewUser(e, p) ==
  [status |-> IF p = None THEN "pending" ELSE "normal", email |-> e, password |-> p]

InsertUser(r) ==
  LET new == NewUser(req[r].email, req[r].password)
      u == lastId + 1
  IN  /\ req[r].pc = "insert"
      /\ u \in Ids
      /\ ~Waits(r, new.email)
      /\ ~Duplicate(u, new)
      /\ lastId' = u
      /\ chosen' = [chosen EXCEPT ![u] = {new.password} \ {None}]
      /\ founders' = IF req[r].nested THEN founders \cup {u} ELSE founders
      /\ Step(r, [req[r] EXCEPT !.pc = "activate", !.id = u, !.image = new])
      /\ UNCHANGED <<tables, outside, mail, memory, refresh>>

\* The ids and the users are one apart.
PendingNext(image, u) == IF image.status = "pending" THEN {u + 1} ELSE {}

\* Only a Pending user gets a token.
Pending(image, u) == IF image.status = "pending" THEN {u} ELSE {}

\* The mail leaves as soon as the rows are written.
MailWithRows(q) == q.pc = "activate"

\* The goroutine starts when the innermost RunTx returns: before the commit when
\* that is inside the transaction of CreateTenant.
MailLeaves(q) == q.pc = IF q.nested THEN "activate" ELSE "commit"

Queued(r) ==
  outbox' = IF MailLeaves(req[r]) THEN outbox \cup Pending(req[r].image, req[r].id) ELSE outbox

\* activation_tab and user_role_tab, in the same transaction.
InsertActivation(r) ==
  /\ req[r].pc = "activate"
  /\ Goto(r, "commit")
  /\ Queued(r)
  /\ UNCHANGED <<tables, outside, lastId, mailed, memory, refresh, chosen, founders>>

\* The tokens stay behind.
NoActivations(r) == {}

\* The activation rows the transaction has inserted.
Activations(r) == Pending(req[r].image, req[r].id)

CommitUsers(r) ==
  /\ req[r].pc = "commit"
  /\ row' = Seen(r)
  /\ invited' = invited \cup Activations(r)
  /\ tenant' = "stored"
  /\ Queued(r)
  /\ Answered(r)
  /\ UNCHANGED <<outside, lastId, mailed, session, refresh, chosen, founders>>

\* A mail that fails is logged and not sent again; a crash forgets it as well.
SendInitMail(u) ==
  /\ u \in outbox
  /\ outbox' = outbox \ {u}
  /\ mailed' \in {mailed, mailed \cup {u}}
  /\ UNCHANGED <<tables, outside, lastId, memory, refresh, req, chosen, founders>>

-----------------------------------------------------------------------------
(* InitUser.                                                               *)

\* GetByTokenHash, then GetByID: the cached object or one made from the row.  A
\* token does not expire.  "user is not pending" is an error.
InitUser(r, s, u, p) ==
  /\ req[r] = NoRequest
  /\ u \in mailed \cap invited
  /\ (IF alias[<<s, u>>] # {} THEN user[<<s, u>>].is ELSE row[u]).status = "pending"
  /\ IF alias[<<s, u>>] # {} THEN Joined(<<s, u>>, {r}) ELSE PointsToNew(r, [id |-> u, is |-> row[u]])
  /\ Step(r, [NoRequest EXCEPT !.pc = "update", !.server = s, !.id = u, !.password = p])
  /\ chosen' = [chosen EXCEPT ![u] = @ \cup {p}]
  /\ UNCHANGED <<tables, outside, lastId, mail, refresh, founders>>

\* User.Update with the user NewUser makes of the password, on the shared object.
UpdateObject(r) ==
  /\ req[r].pc = "update"
  /\ user' = [h \in Holders |-> IF h \in alias[r]
                                THEN [user[h] EXCEPT !.is = NewUser(@.email, req[r].password)]
                                ELSE user[h]]
  /\ Goto(r, "marshal")
  /\ UNCHANGED <<tables, outside, lastId, mail, alias, refresh, chosen, founders>>

\* ToUserModel copies what the object holds now.
Marshal(r) ==
  /\ req[r].pc = "marshal"
  /\ Step(r, [req[r] EXCEPT !.pc = "write", !.image = user[r].is])
  /\ UNCHANGED <<tables, outside, lastId, mail, memory, refresh, chosen, founders>>

WriteUser(r) ==
  /\ req[r].pc = "write"
  /\ ~Waits(r, req[r].image.email)
  /\ ~Duplicate(req[r].id, req[r].image)
  /\ Goto(r, "cache")
  /\ UNCHANGED <<tables, outside, lastId, mail, memory, refresh, chosen, founders>>

\* userRepo.Update caches the object although nothing is committed.
SetCache(r) ==
  /\ req[r].pc = "cache"
  /\ Joined(r, KeysOf(req[r].server, user[r]))
  /\ Goto(r, "login")
  /\ UNCHANGED <<tables, outside, lastId, mail, refresh, chosen, founders>>

\* The password is not looked at.
AnyPassword(o, p) == o.id # 0

\* ComparePassword: bcrypt accepts nothing for an empty hash.
Accepts(o, p) == o.id # 0 /\ o.is.password = p

\* LogIn inside the transaction, by the username of the object; the session is of
\* the user that is found.
LogInAgain(r) ==
  LET o == ByUsername(req[r].server, NameOf[user[r].is.email], Seen(r))
  IN  /\ req[r].pc = "login"
      /\ Accepts(o, req[r].password)
      /\ Step(r, [req[r] EXCEPT !.pc = "session", !.found = o.id])
      /\ UNCHANGED <<tables, outside, lastId, mail, memory, refresh, chosen, founders>>

\* The row of the session and the commit; the error path may follow a commit.
CommitInit(r) ==
  /\ req[r].pc = "session"
  /\ row' = Seen(r)
  /\ session' = session \cup {<<req[r].found, req[r].password>>}
  /\ Answered(r)
  /\ UNCHANGED <<tenant, invited, outside, lastId, mail, refresh, chosen, founders>>

\* LogIn on its own; who has no tenant has no users.
LogIn(s, n, p) ==
  LET o == ByUsername(s, n, row)
  IN  /\ Accepts(o, p)
      /\ session' = session \cup {<<o.id, p>>}
      /\ UNCHANGED <<tenant, row, invited, outside, lastId, mail, memory, refresh, req,
                     chosen, founders>>

-----------------------------------------------------------------------------
(* The refresh of the cache of a server; a read that fails changes nothing. *)

\* getMany reads the table.
StoredUsers(s) == row

ReadUsers(s) ==
  /\ refresh[s].pc = "idle"
  /\ refresh' = [refresh EXCEPT ![s] = [pc |-> "flush", read |-> StoredUsers(s)]]
  /\ UNCHANGED <<tables, outside, lastId, mail, memory, req, chosen, founders>>

\* From here on requests miss; entries that reach their time to live do the same.
Flush(s) ==
  /\ refresh[s].pc = "flush"
  /\ refresh' = [refresh EXCEPT ![s].pc = "set"]
  /\ Detached(Keys(s))
  /\ UNCHANGED <<tables, outside, lastId, mail, req, chosen, founders>>

\* The user whose object setCache leaves under key k: rows come in the order of the
\* ids from the last to the first, and each takes the entry of its name from the one
\* before.
OwnerOf(t, k) ==
  LET of == IF k \in Ids THEN {k} \cap Stored(t) ELSE Named(t, k)
  IN  IF of = {} THEN 0 ELSE Min(of)

\* An object per row; entries of requests that the rows have no user for stay.
SetEntries(s) ==
  LET t == refresh[s].read
      Owner(h) == IF h \in Keys(s) THEN OwnerOf(t, h[2]) ELSE 0
      set == {h \in Keys(s) : Owner(h) # 0}
  IN  /\ refresh[s].pc = "set"
      /\ refresh' = [refresh EXCEPT ![s] = IdleRefresh]
      /\ alias' = [h \in Holders |-> IF h \in set THEN {g \in set : Owner(g) = Owner(h)}
                                     ELSE alias[h] \ set]
      /\ user' = [h \in Holders |-> IF h \in set THEN [id |-> Owner(h), is |-> t[Owner(h)]]
                                    ELSE user[h]]
      /\ UNCHANGED <<tables, outside, lastId, mail, req, chosen, founders>>

\* The server dies with its requests, whose transactions are rolled back, and reads
\* the users before it serves.
Restart(s) ==
  LET mine == {r \in Requests : req[r].server = s}
  IN  /\ refresh' = [refresh EXCEPT ![s] = [pc |-> "set", read |-> row]]
      /\ req' = [r \in Requests |-> IF r \in mine THEN NoRequest ELSE req[r]]
      /\ Detached(Keys(s) \cup mine)
      /\ UNCHANGED <<tables, outside, lastId, mail, chosen, founders>>

-----------------------------------------------------------------------------
HandlerStep(r) ==
  \/ ReturnsError(r)
  \/ MakeOutside(r) \/ InsertTenant(r) \/ CreateStore(r)
  \/ InsertUser(r) \/ InsertActivation(r) \/ CommitUsers(r)
  \/ UpdateObject(r) \/ Marshal(r) \/ WriteUser(r) \/ SetCache(r)
  \/ LogInAgain(r) \/ CommitInit(r)

RefreshStep(s) == ReadUsers(s) \/ Flush(s) \/ SetEntries(s)

Begin(r, s) ==
  \/ \E e \in Emails, p \in Optional(Passwords) : CreateTenant(r, s, e, p)
  \/ \E e \in Emails, p \in Optional(Passwords) : CreateUsers(r, s, e, p)
  \/ \E u \in Ids, p \in Passwords : InitUser(r, s, u, p)

Next ==
  \/ \E r \in Requests, s \in Servers : Begin(r, s)
  \/ \E r \in Requests : HandlerStep(r)
  \/ \E u \in Ids : SendInitMail(u)
  \/ \E s \in Servers :
       \/ RefreshStep(s) \/ Restart(s)
       \/ \E n \in Names, p \in Passwords : LogIn(s, n, p)

Spec == Init /\ [][Next]_vars

-----------------------------------------------------------------------------
(* Properties.                                                             *)

\* The tables, the memory and the requests keep the shape the code gives them.
TypeOK ==
  /\ tenant \in {"none", "stored"}
  /\ outside \subseteq {"domain", "folder", "index"}
  /\ row \in [Ids -> Row]
  /\ lastId \in 0..MaxUsers
  /\ invited \cup outbox \cup mailed \cup founders \subseteq 1..lastId
  /\ session \subseteq Ids \X Passwords
  /\ alias \in [Holders -> SUBSET Holders]
  /\ user \in [Holders -> Object]
  /\ refresh \in [Servers -> Refresh]
  /\ req \in [Requests -> Request]
  /\ chosen \in [Ids -> SUBSET Passwords]

\* A tenant that is stored is complete, whatever failed at whichever attempt: its
\* folder and its index exist, and it has a user who can get in or was invited.
\* No user is left without a way in: one that is Pending has an activation.
TenantComplete ==
  /\ tenant = "stored" =>
       /\ {"folder", "index"} \subseteq outside
       /\ \E u \in founders \cap Stored(row) : row[u].status = "normal" \/ u \in invited
  /\ \A u \in Ids : row[u].status = "pending" => u \in invited

\* Once a tenant is stored every link mailed for it works: none comes from an attempt
\* that failed, although the mails of CreateUsers leave before the transaction of
\* CreateTenant ends, and although another attempt may follow.
MailedTokenKnown == tenant = "stored" => outbox \cup mailed \subseteq invited

\* A session belongs to someone who gave the user's own password at creation or
\* with the user's token, although log in finds users by a name two of them may
\* have, in objects that hold what was never committed.
SessionEarned == \A s \in session : s[2] \in chosen[s[1]]

\* An activated user stays activated, and no request stores for it what was given
\* for another.
ActivationKept ==
  [][\A u \in Ids : row[u].status = "normal" =>
       row'[u].status = "normal" /\ row'[u].password \in chosen[u]]_vars

\* No request is under way, and a server's objects hold what the rows hold.
Quiet == \A r \in Requests : req[r] = NoRequest
Coherent == \A s \in Servers, u \in Ids :
              alias[<<s, u>>] # {} => user[<<s, u>>].is = row[u]

\* Who is activated can log in by name wherever the cache has under the id what the
\* table has, as long as nobody else of the tenant has the same name.
LogInByName ==
  \A s \in Servers, u \in Ids :
    (/\ Quiet /\ Coherent /\ refresh[s].pc = "idle"
     /\ row[u].status = "normal" /\ Named(row, NameOf[row[u].email]) = {u})
      => Accepts(ByUsername(s, NameOf[row[u].email], row), row[u].password)

-----------------------------------------------------------------------------
(* The inductive invariant behind the properties.                          *)

Creating == {"domain", "folder", "tenant", "index", "insert", "activate", "commit"}
Inserted == {"activate", "commit"}
Initialising == {"update", "marshal", "write", "cache", "login", "session"}

\* The pointers al and the objects ob: no holder points to nothing, who points to an
\* object is one of its holders, and these are one set and see it alike.
Pointers(al, ob) ==
  /\ al \in [Holders -> SUBSET Holders]
  /\ ob \in [Holders -> Object]
  /\ \A h \in Holders :
       /\ al[h] = {} <=> ob[h] = Blank
       /\ al[h] # {} => h \in al[h] /\ ob[h].id \in Ids
       /\ \A g \in al[h] : al[g] = al[h] /\ ob[g] = ob[h]

\* An object is cached under its own id and name, and under its id whenever it is
\* under its name: no later entry takes the one without the other.
KeysTrue(al, ob) ==
  \A s \in Servers :
    /\ \A u \in Ids : al[<<s, u>>] # {} => ob[<<s, u>>].id = u
    /\ \A n \in Names : al[<<s, n>>] # {} =>
         NameOf[ob[<<s, n>>].is.email] = n /\ <<s, ob[<<s, n>>].id>> \in al[<<s, n>>]

\* What w says of user u, if anything, is true: its email is that of u according to
\* em, and it has no password while it is pending, and later one that c has for u.
TrueOf(c, last, em, u, w) ==
  \/ w = NoRow
  \/ /\ w.status # "none" /\ u \in 1..last
     /\ w.email \in Emails /\ w.email = em[u]
     /\ IF w.status = "pending" THEN w.password = None ELSE w.password \in c[u]

\* Every copy of a user is true, wherever it may still be written or asked.
CopiesTrue(em) ==
  /\ \A u \in Ids : TrueOf(chosen, lastId, em, u, row[u])
  /\ \A s \in Servers, u \in Ids : TrueOf(chosen, lastId, em, u, refresh[s].read[u])
  /\ \A r \in Requests : TrueOf(chosen, lastId, em, req[r].id, req[r].image)
  /\ \A h \in Holders : user[h] # Blank =>
       user[h].is # NoRow /\ TrueOf(chosen, lastId, em, user[h].id, user[h].is)

\* The email of a user never changes, in whichever copy.
EmailsFixed == \E em \in [Ids -> Optional(Emails)] : CopiesTrue(em)

\* A request q that creates users: its tenant is stored or complete so far, and the
\* user it has inserted is nobody's yet.
CreateSound(q, t, out, f, last, rw) ==
  q.pc \in Creating =>
    /\ q.email \in Emails
    /\ q.nested \/ t = "stored"
    /\ q.nested /\ q.pc \notin {"domain", "folder"} => "folder" \in out
    /\ q.nested /\ q.pc \in {"insert"} \cup Inserted => "index" \in out
    /\ q.pc \in Inserted =>
         /\ q.id \in 1..last /\ rw[q.id] = NoRow /\ q.image # NoRow
         /\ q.nested => q.id \in f

\* A request q that initialises a user with object o: the user is stored, o is its
\* object, and the password was given with its token.
InitSound(q, o, c, rw) ==
  q.pc \in Initialising =>
    /\ q.id \in Ids /\ o.id = q.id /\ rw[q.id] # NoRow
    /\ q.password \in c[q.id]
    /\ q.pc # "update" => o.is.status = "normal"
    /\ q.pc \notin {"update", "marshal"} => q.image.status = "normal"
    /\ q.pc = "session" => q.found \in Ids /\ q.password \in c[q.found]

\* Where the handler of a request q with object o is, it has what it needs to go on.
RequestSound(q, o, t, out, f, last, rw, c) ==
  /\ q.pc = "none" => q = NoRequest
  /\ q.pc # "none" => q.server \in Servers
  /\ q.pc \notin Initialising => o = Blank
  /\ CreateSound(q, t, out, f, last, rw)
  /\ InitSound(q, o, c, rw)

RequestsSound ==
  \A r \in Requests :
    RequestSound(req[r], user[r], tenant, outside, founders, lastId, row, chosen)

\* No two requests have inserted one user.
IdsDistinct ==
  \A r, w \in Requests :
    req[r].pc \in Inserted /\ req[w].pc \in Inserted /\ req[r].id = req[w].id => r = w

\* Who was invited is stored, and nobody has the ids to come.
TablesSound ==
  /\ \A u \in invited : row[u] # NoRow
  /\ \A u \in Ids : u > lastId => chosen[u] = {}

AccountsInv ==
  /\ TypeOK /\ Pointers(alias, user) /\ KeysTrue(alias, user)
  /\ EmailsFixed /\ RequestsSound /\ IdsDistinct /\ TablesSound
  /\ TenantComplete /\ SessionEarned

\* The handler of q has inserted the row of its tenant.
Founding(q) == q.nested /\ q.pc \in {"index", "insert"} \cup Inserted

\* One request at a time founds the tenant.  Only its own mail may be ahead of the
\* activations, and one that fails leaves the index behind, which stops the others.
FoundingSound ==
  /\ \A r \in Requests : Founding(req[r]) =>
       tenant = "none" /\ \A w \in Requests : Founding(req[w]) => w = r
  /\ tenant = "stored" \/ IndexFree => outbox \cup mailed \subseteq invited
  /\ \A r \in Requests : Founding(req[r]) /\ req[r].pc # "index" =>
       outbox \cup mailed \subseteq
         invited \cup IF req[r].pc = "commit" THEN Pending(req[r].image, req[r].id) ELSE {}
=============================================================================
