---------------------------- MODULE TenantDomain ----------------------------
(***************************************************************************)
(* The sending domain of one tenant (src/handler/tenant.go): registered at *)
(* the email service, verified there, and needed to create senders.        *)
(*                                                                         *)
(* The domain and its IsDomainValid flag are one row of tenant_tab.  Every *)
(* server caches the row as an object its requests share by pointer        *)
(* (src/repo/tenant.go): a handler changes the object first, writes all of *)
(* it to the row next and caches the object last, while other requests,    *)
(* other servers and the once-a-minute refresh do the same.                *)
(***************************************************************************)
CONSTANTS
  Domains,
  SenderKeys,   \* name and local part of a sender
  Servers,
  Requests,     \* bound on the requests under way at a time
  None

ASSUME NoneAssumption == None \notin Domains \cup Servers \cup SenderKeys
ASSUME HolderAssumption == Servers \cap Requests = {}

\* Who may point to a tenant object: the cache of a server, a request.
Holders == Servers \cup Requests

VARIABLES
  row,              \* the tenant's row in MySQL
  alias,            \* alias[h]: the holders of the object h points to, if any
  tenant,           \* tenant[h]: what that object holds
  refresh,          \* refresh[s]: the goroutine that refreshes the cache of s
  req,              \* req[r]: a request and its handler
  senders,          \* keys of the rows of sender_tab
  registered,       \* domains the email service knows
  authenticated,    \* domains the email service has authenticated
  serviceSenders    \* senders of the email service: <<key, domain>>

service == <<registered, authenticated, serviceSenders>>
vars == <<row, alias, tenant, refresh, req, senders, service>>
memory == <<alias, tenant>>

Optional(S) == S \cup {None}

\* What TenantExtInfo holds of the domain; the DNS records go where it goes.
Tenant == [domain : Optional(Domains), valid : BOOLEAN]
Blank == [domain |-> None, valid |-> FALSE]

\* The argument of Tenant.Update: None and {} are fields it leaves alone.
Change == [domain : Optional(Domains), valid : SUBSET BOOLEAN]
NoChange == [domain |-> None, valid |-> {}]

Request ==
  [pc : {"none", "register", "config", "authenticate", "update", "marshal",
         "write", "cache", "check", "email", "service", "insert"},
   server : Optional(Servers),
   domain : Optional(Domains),     \* argument of the next call of the service
   sender : Optional(SenderKeys),
   change : Change,
   image : Tenant]                 \* the row to write
NoRequest == [pc |-> "none", server |-> None, domain |-> None,
              sender |-> None, change |-> NoChange, image |-> Blank]

Refresh == [pc : {"idle", "set"}, read : Tenant]
IdleRefresh == [pc |-> "idle", read |-> Blank]

\* CreateTenant has stored the tenant, with a domain or without, never verified;
\* it caches nothing.
Init ==
  /\ \E d \in Optional(Domains) :
       /\ row = [domain |-> d, valid |-> FALSE]
       /\ registered = {d} \ {None}
  /\ alias = [h \in Holders |-> {}]
  /\ tenant = [h \in Holders |-> Blank]
  /\ refresh = [s \in Servers |-> IdleRefresh]
  /\ req = [r \in Requests |-> NoRequest]
  /\ senders = {}
  /\ authenticated = {}
  /\ serviceSenders = {}

-----------------------------------------------------------------------------
(* Pointers, up to renaming: the holders of one object are one set.        *)

Detached(H) ==
  /\ alias' = [h \in Holders |-> IF h \in H THEN {} ELSE alias[h] \ H]
  /\ tenant' = [h \in Holders |-> IF h \in H THEN Blank ELSE tenant[h]]

\* Holder h points to an object of its own with tenant t.
PointsToNew(h, t) ==
  /\ alias' = [g \in Holders |-> IF g = h THEN {h} ELSE alias[g] \ {h}]
  /\ tenant' = [tenant EXCEPT ![h] = t]

\* Holder h points to the object of holder g.
PointsTo(h, g) ==
  LET all == alias[g] \cup {h}
  IN  /\ alias' = [x \in Holders |-> IF x \in all THEN all ELSE alias[x] \ {h}]
      /\ tenant' = [tenant EXCEPT ![h] = tenant[g]]

Cached(s) == alias[s] # {}

\* Request r goes on with record q, or is answered and lets go of its tenant.
Step(r, q) == req' = [req EXCEPT ![r] = q]
Answered(r) == Step(r, NoRequest) /\ Detached({r})

-----------------------------------------------------------------------------
(* A request comes in: GetByID takes the object of the cache or, on a miss, *)
(* reads the row into an object that no other request sees.                 *)

Begin(r, s, call) ==
  /\ req[r] = NoRequest
  /\ Step(r, [call EXCEPT !.server = s])
  /\ IF Cached(s) THEN PointsTo(r, s) ELSE PointsToNew(r, row)
  /\ UNCHANGED <<row, refresh, senders, service>>

CreateDomain(r, s, d) ==
  Begin(r, s, [NoRequest EXCEPT !.pc = "register", !.domain = d])
UpdateDnsRecords(r, s) == Begin(r, s, [NoRequest EXCEPT !.pc = "config"])
CreateSender(r, s, k) ==
  Begin(r, s, [NoRequest EXCEPT !.pc = "check", !.sender = k])

\* A call of the service or of the database fails, or a guard refuses: the
\* handler returns the error and undoes nothing.
ReturnsError(r) ==
  /\ req[r].pc \in {"register", "config", "check", "service", "insert", "write"}
  /\ Answered(r)
  /\ UNCHANGED <<row, refresh, senders, service>>

-----------------------------------------------------------------------------
(* CreateDomain and UpdateDnsRecords.                                      *)

\* The error path may follow a call the service has carried out.
RegisterDomain(r) ==
  /\ req[r].pc = "register"
  /\ registered' = registered \cup {req[r].domain}
  /\ \/ /\ Step(r, [req[r] EXCEPT !.pc = "update", !.domain = None,
                                  !.change = [NoChange EXCEPT !.domain = req[r].domain]])
        /\ UNCHANGED memory
     \/ Answered(r)
  /\ UNCHANGED <<row, refresh, senders, authenticated, serviceSenders>>

\* The domain is read once; GetDomainConfig and the authentication are about it.
ReadConfig(r) ==
  /\ req[r].pc = "config"
  /\ tenant[r].domain # None
  /\ Step(r, [req[r] EXCEPT !.pc = "authenticate", !.domain = tenant[r].domain])
  /\ UNCHANGED <<row, memory, refresh, senders, service>>

\* The flag is raised whatever the service answers.
AlwaysVerified(ok) == {TRUE}

\* "no need to return error": one that failed counts as not verified.
IsVerified(ok) == {ok}

\* The service may have authenticated the domain without the answer arriving.
Authenticate(r) ==
  /\ req[r].pc = "authenticate"
  /\ \E ok \in BOOLEAN :
       /\ \/ authenticated' = authenticated \cup {req[r].domain}
          \/ ~ok /\ UNCHANGED authenticated
       /\ Step(r, [req[r] EXCEPT !.pc = "update", !.domain = None,
                                 !.change = [NoChange EXCEPT !.valid = IsVerified(ok)]])
  /\ UNCHANGED <<row, memory, refresh, senders, registered, serviceSenders>>

\* Every field of the argument is taken over, empty or not.
Overwritten(t, c) == [domain |-> c.domain, valid |-> c.valid = {TRUE}]

\* Tenant.Update takes over the fields that are there.
Updated(t, c) ==
  [domain |-> IF c.domain = None THEN t.domain ELSE c.domain,
   valid  |-> IF c.valid = {} THEN t.valid ELSE c.valid = {TRUE}]

\* The object changes for everyone who holds it, before anything is written.
UpdateTenant(r) ==
  /\ req[r].pc = "update"
  /\ tenant' = [h \in Holders |-> IF h \in alias[r]
                                  THEN Updated(tenant[r], req[r].change)
                                  ELSE tenant[h]]
  /\ Step(r, [req[r] EXCEPT !.pc = "marshal", !.change = NoChange])
  /\ UNCHANGED <<row, alias, refresh, senders, service>>

\* ToTenantModel copies what the object holds now.
Marshal(r) ==
  /\ req[r].pc = "marshal"
  /\ Step(r, [req[r] EXCEPT !.pc = "write", !.image = tenant[r]])
  /\ UNCHANGED <<row, memory, refresh, senders, service>>

\* The error path may follow an UPDATE that was executed.
WriteRow(r) ==
  /\ req[r].pc = "write"
  /\ row' = req[r].image
  /\ \/ /\ Step(r, [req[r] EXCEPT !.pc = "cache", !.image = Blank])
        /\ UNCHANGED memory
     \/ Answered(r)
  /\ UNCHANGED <<refresh, senders, service>>

\* The cache of the server takes over the pointer of the request, which ends.
SetCache(r) ==
  LET s == req[r].server
      all == (alias[r] \cup {s}) \ {r}
  IN  /\ req[r].pc = "cache"
      /\ Step(r, NoRequest)
      /\ alias' = [h \in Holders |-> IF h \in all THEN all
                                     ELSE IF h = r THEN {} ELSE alias[h] \ {s}]
      /\ tenant' = [tenant EXCEPT ![s] = tenant[r], ![r] = Blank]
      /\ UNCHANGED <<row, refresh, senders, service>>

-----------------------------------------------------------------------------
(* CreateSender.                                                           *)

\* Any domain will do.
FlagIgnored(t) == t.domain # None

\* "domain is not verified" otherwise.
DomainVerified(t) == t.domain # None /\ t.valid

\* The guard on the domain, and no row with this name and local part.
CheckSender(r) ==
  /\ req[r].pc = "check"
  /\ DomainVerified(tenant[r])
  /\ req[r].sender \notin senders
  /\ Step(r, [req[r] EXCEPT !.pc = "email"])
  /\ UNCHANGED <<row, memory, refresh, senders, service>>

\* The address is left as the request made it, without a domain.
EmailNotSet(r) == req[r].domain

\* GetEmail reads the domain of the object again.
GetEmail(r) == tenant[r].domain

\* The last use of the tenant by this request.
BuildEmail(r) ==
  /\ req[r].pc = "email"
  /\ Step(r, [req[r] EXCEPT !.pc = "service", !.domain = GetEmail(r)])
  /\ Detached({r})
  /\ UNCHANGED <<row, refresh, senders, service>>

\* The service has nothing of the sender.
NotCreated(q) == {}

\* The sender the service is told to create.
NewSender(q) == {<<q.sender, q.domain>>}

\* The error path may follow a call the service has carried out.
CreateServiceSender(r) ==
  /\ req[r].pc = "service"
  /\ serviceSenders' = serviceSenders \cup NewSender(req[r])
  /\ \/ Step(r, [req[r] EXCEPT !.pc = "insert", !.domain = None])
     \/ Step(r, NoRequest)
  /\ UNCHANGED <<row, memory, refresh, senders, registered, authenticated>>

\* Unique key on name and local part.
InsertSender(r) ==
  /\ req[r].pc = "insert"
  /\ req[r].sender \notin senders
  /\ senders' = senders \cup {req[r].sender}
  /\ Step(r, NoRequest)
  /\ UNCHANGED <<row, memory, refresh, service>>

-----------------------------------------------------------------------------
(* The refresh of the cache of a server, and what else empties it.         *)

\* getMany reads the table; when that fails the cache stays as it is.
StoredTenant(s) == row

ReadRow(s) ==
  /\ refresh[s].pc = "idle"
  /\ refresh' = [refresh EXCEPT ![s] = [pc |-> "set", read |-> StoredTenant(s)]]
  /\ UNCHANGED <<row, memory, req, senders, service>>

\* Flush, then the entry.  A request that comes in between finds no entry, as it
\* does after Expire; what it sets itself is replaced.
SetEntry(s) ==
  /\ refresh[s].pc = "set"
  /\ refresh' = [refresh EXCEPT ![s] = IdleRefresh]
  /\ PointsToNew(s, refresh[s].read)
  /\ UNCHANGED <<row, req, senders, service>>

\* The entry reaches its time to live because refreshes kept failing.
Expire(s) ==
  /\ Cached(s)
  /\ Detached({s})
  /\ UNCHANGED <<row, refresh, req, senders, service>>

\* The server dies with its requests and starts with an empty cache; the row that
\* NewTenantRepo reads and caches then is a refresh.
Restart(s) ==
  LET mine == {r \in Requests : req[r].server = s}
  IN  /\ refresh' = [refresh EXCEPT ![s] = IdleRefresh]
      /\ req' = [r \in Requests |-> IF r \in mine THEN NoRequest ELSE req[r]]
      /\ Detached({s} \cup mine)
      /\ UNCHANGED <<row, senders, service>>

-----------------------------------------------------------------------------
HandlerStep(r) ==
  \/ ReturnsError(r)
  \/ RegisterDomain(r) \/ ReadConfig(r) \/ Authenticate(r)
  \/ UpdateTenant(r) \/ Marshal(r) \/ WriteRow(r) \/ SetCache(r)
  \/ CheckSender(r) \/ BuildEmail(r) \/ CreateServiceSender(r) \/ InsertSender(r)

RefreshStep(s) == ReadRow(s) \/ SetEntry(s)

Next ==
  \/ \E r \in Requests, s \in Servers :
       \/ \E d \in Domains : CreateDomain(r, s, d)
       \/ UpdateDnsRecords(r, s)
       \/ \E k \in SenderKeys : CreateSender(r, s, k)
  \/ \E r \in Requests : HandlerStep(r)
  \/ \E s \in Servers : RefreshStep(s) \/ Expire(s) \/ Restart(s)

Spec == Init /\ [][Next]_vars

-----------------------------------------------------------------------------
(* Properties.                                                             *)

\* The tables, the memory and the requests keep the shape the code gives them.
TypeOK ==
  /\ row \in Tenant
  /\ alias \in [Holders -> SUBSET Holders]
  /\ tenant \in [Holders -> Tenant]
  /\ refresh \in [Servers -> Refresh]
  /\ req \in [Requests -> Request]
  /\ senders \subseteq SenderKeys
  /\ registered \subseteq Domains
  /\ authenticated \subseteq registered
  /\ serviceSenders \subseteq SenderKeys \X Domains

\* A row flagged valid has a domain the email service knows, and the flag was
\* raised by an authentication that succeeded, however stale the object was
\* that the row was written from (UpdateDnsRecords, tenantRepo.Update).
FlagEarned ==
  row.valid => row.domain \in registered /\ authenticated # {}

\* While a tenant has had one domain only, its senders are at a domain the
\* email service has authenticated: the guard of CreateSender works although it
\* reads a cached flag and reads the domain a second time.
SenderOnOnlyDomain ==
  (\A d, e \in registered : d = e)
    => \A sender \in serviceSenders : sender[2] \in authenticated

\* The same for every tenant: "domain is not verified" says no sender is created
\* for a domain that is not (handler/tenant.go:364).
SenderOnVerifiedDomain ==
  \A sender \in serviceSenders : sender[2] \in authenticated

\* A sender a campaign can choose exists at the email service, whichever call of
\* CreateSender failed.
SendersBacked ==
  \A k \in senders : \E d \in Domains : <<k, d>> \in serviceSenders

\* No write from a stale object takes the domain of a tenant away again.
DomainKept == [][row.domain # None => row'.domain # None]_vars
=============================================================================
