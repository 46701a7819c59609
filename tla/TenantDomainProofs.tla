------------------------- MODULE TenantDomainProofs -------------------------
(***************************************************************************)
(* Proofs about TenantDomain, for any number of domains, servers, requests *)
(* and senders.                                                            *)
(***************************************************************************)
EXTENDS TenantDomain, TLAPS

\* A tenant as every copy of it in a row, an object or a request is: its domain
\* is in R, the domains registered, and the flag needs one in A, those
\* authenticated.
Sound(t, R, A) ==
  /\ t.domain # None => t.domain \in R
  /\ t.valid => t.domain # None /\ A # {}

CopiesSound ==
  /\ Sound(row, registered, authenticated)
  /\ \A h \in Holders : Sound(tenant[h], registered, authenticated)
  /\ \A s \in Servers : Sound(refresh[s].read, registered, authenticated)
  /\ \A r \in Requests : Sound(req[r].image, registered, authenticated)

\* What request r has made sure of at each of its steps.
HasDomain(r) == r \in alias[r] /\ tenant[r].domain # None
Ready(r) ==
  LET q == req[r] IN
  /\ q.pc = "register" => q.domain \in Domains
  /\ q.pc \in {"register", "config", "check"} => r \in alias[r]
  /\ q.pc = "authenticate" => q.domain \in registered /\ HasDomain(r)
  /\ q.pc = "update" =>
       /\ r \in alias[r]
       /\ q.change.domain # None => q.change.domain \in registered
       /\ q.change.domain = None => tenant[r].domain # None
       /\ q.change.valid = {TRUE} => tenant[r].domain # None /\ authenticated # {}
  /\ q.pc = "marshal" => HasDomain(r)
  /\ q.pc = "write" => HasDomain(r) /\ q.image.domain # None
  /\ q.pc = "email" => HasDomain(r) /\ authenticated # {}
  /\ q.pc = "service" => q.domain \in registered /\ authenticated # {}
  /\ q.pc = "insert" => \E d \in Domains : <<q.sender, d>> \in serviceSenders
  /\ q.pc # "none" => q.server \in Servers
  /\ q.pc \in {"check", "email", "service", "insert"} => q.sender \in SenderKeys

AllReady == \A r \in Requests : Ready(r)

SendersSound ==
  /\ SendersBacked
  /\ \A sender \in serviceSenders : sender[2] \in registered
  /\ serviceSenders # {} => authenticated # {}

IInv == TypeOK /\ CopiesSound /\ AllReady /\ SendersSound

-----------------------------------------------------------------------------
(* Type correctness.                                                       *)

\* A record of the table of requests, changed at one place.
LEMMA StepType ==
  ASSUME TypeOK, NEW r \in Requests, NEW q \in Request, Step(r, q)
  PROVE  req' \in [Requests -> Request]
  BY DEF TypeOK, Step

LEMMA NoRequestType == NoRequest \in Request
  BY DEF NoRequest, Request, Optional, NoChange, Change, Blank, Tenant

\* The operations on pointers keep the types of the memory.
LEMMA MemoryType ==
  ASSUME TypeOK
  PROVE  /\ UNCHANGED memory => /\ alias' \in [Holders -> SUBSET Holders]
                                /\ tenant' \in [Holders -> Tenant]
         /\ \A H \in SUBSET Holders :
              Detached(H) => /\ alias' \in [Holders -> SUBSET Holders]
                             /\ tenant' \in [Holders -> Tenant]
         /\ \A h \in Holders, t \in Tenant :
              PointsToNew(h, t) => /\ alias' \in [Holders -> SUBSET Holders]
                                   /\ tenant' \in [Holders -> Tenant]
         /\ \A h \in Holders, g \in Holders :
              PointsTo(h, g) => /\ alias' \in [Holders -> SUBSET Holders]
                                /\ tenant' \in [Holders -> Tenant]
<1>1. Blank \in Tenant
  BY DEF Blank, Tenant, Optional
<1>2. ASSUME UNCHANGED memory
      PROVE  alias' \in [Holders -> SUBSET Holders] /\ tenant' \in [Holders -> Tenant]
  BY <1>2 DEF TypeOK, memory
<1>3. ASSUME NEW H \in SUBSET Holders, Detached(H)
      PROVE  alias' \in [Holders -> SUBSET Holders] /\ tenant' \in [Holders -> Tenant]
  BY <1>1, <1>3 DEF TypeOK, Detached
<1>4. ASSUME NEW h \in Holders, NEW t \in Tenant, PointsToNew(h, t)
      PROVE  alias' \in [Holders -> SUBSET Holders] /\ tenant' \in [Holders -> Tenant]
  BY <1>4 DEF TypeOK, PointsToNew
<1>5. ASSUME NEW h \in Holders, NEW g \in Holders, PointsTo(h, g)
      PROVE  alias' \in [Holders -> SUBSET Holders] /\ tenant' \in [Holders -> Tenant]
  BY <1>5 DEF TypeOK, PointsTo
<1> QED BY <1>2, <1>3, <1>4, <1>5

LEMMA InitType == Init => TypeOK
<1> SUFFICES ASSUME Init PROVE TypeOK
  OBVIOUS
<1>1. Blank \in Tenant /\ IdleRefresh \in Refresh
  BY DEF Blank, Tenant, Optional, IdleRefresh, Refresh
<1>2. row \in Tenant /\ registered \subseteq Domains
  BY DEF Init, Tenant, Optional
<1> QED BY <1>1, <1>2, NoRequestType DEF Init, TypeOK

\* The record of a request that comes in.
LEMMA BeginType ==
  ASSUME TypeOK, NEW r \in Requests, NEW s \in Servers, NEW call \in Request,
         Begin(r, s, call)
  PROVE  TypeOK'
<1>1. [call EXCEPT !.server = s] \in Request
  BY DEF Request, Optional
<1>2. req' \in [Requests -> Request]
  BY <1>1, StepType DEF Begin
<1>3. r \in Holders /\ s \in Holders /\ row \in Tenant
  BY DEF Holders, TypeOK
<1>4. alias' \in [Holders -> SUBSET Holders] /\ tenant' \in [Holders -> Tenant]
  BY <1>3, MemoryType DEF Begin
<1> QED BY <1>2, <1>4 DEF Begin, TypeOK, service

LEMMA AnsweredType ==
  ASSUME TypeOK, NEW r \in Requests, Answered(r)
  PROVE  /\ req' \in [Requests -> Request]
         /\ alias' \in [Holders -> SUBSET Holders]
         /\ tenant' \in [Holders -> Tenant]
<1>1. {r} \in SUBSET Holders
  BY DEF Holders
<1> QED BY <1>1, StepType, NoRequestType, MemoryType DEF Answered

\* Every field of a request may be given a value of its type.
LEMMA FieldTypes ==
  ASSUME NEW q \in Request
  PROVE  /\ q.domain \in Optional(Domains) /\ q.image \in Tenant
         /\ q.change \in Change /\ q.server \in Optional(Servers)
         /\ \A p \in {"authenticate", "service"}, d \in Optional(Domains) :
              [q EXCEPT !.pc = p, !.domain = d] \in Request
         /\ \A c \in Change :
              [q EXCEPT !.pc = "update", !.domain = None, !.change = c] \in Request
         /\ [q EXCEPT !.pc = "insert", !.domain = None] \in Request
         /\ [q EXCEPT !.pc = "marshal", !.change = NoChange] \in Request
         /\ \A t \in Tenant : [q EXCEPT !.pc = "write", !.image = t] \in Request
         /\ [q EXCEPT !.pc = "cache", !.image = Blank] \in Request
         /\ [q EXCEPT !.pc = "email"] \in Request
<1>1. None \in Optional(Domains) /\ NoChange \in Change /\ Blank \in Tenant
  BY DEF Optional, NoChange, Change, Blank, Tenant
<1> QED BY <1>1 DEF Request

LEMMA HandlerType ==
  ASSUME TypeOK, AllReady, NEW r \in Requests, HandlerStep(r)
  PROVE  TypeOK'
<1> DEFINE q == req[r]
<1>0. q \in Request /\ r \in Holders /\ tenant[r] \in Tenant /\ Ready(r)
  BY DEF TypeOK, Holders, AllReady
<1>1. CASE ReturnsError(r)
  BY <1>1, AnsweredType DEF ReturnsError, TypeOK, service
<1>2. CASE RegisterDomain(r)
  <2>1. q.domain \in Domains
    BY <1>0, <1>2 DEF Ready, RegisterDomain
  <2>2. [NoChange EXCEPT !.domain = q.domain] \in Change
    BY <2>1 DEF NoChange, Change, Optional
  <2>3. /\ req' \in [Requests -> Request]
        /\ alias' \in [Holders -> SUBSET Holders]
        /\ tenant' \in [Holders -> Tenant]
    <3>1. CASE Answered(r)
      BY <3>1, AnsweredType
    <3>2. CASE ~Answered(r)
      <4>1. Step(r, [q EXCEPT !.pc = "update", !.domain = None,
                              !.change = [NoChange EXCEPT !.domain = q.domain]])
            /\ UNCHANGED memory
        BY <1>2, <3>2 DEF RegisterDomain
      <4> HIDE DEF q
      <4> QED BY <4>1, <2>2, <1>0, FieldTypes, StepType, MemoryType
    <3> QED BY <3>1, <3>2
  <2> QED BY <1>2, <2>1, <2>3 DEF RegisterDomain, TypeOK
<1>3. CASE ReadConfig(r)
  <2>1. tenant[r].domain \in Optional(Domains)
    BY <1>0 DEF Tenant
  <2>2. [q EXCEPT !.pc = "authenticate", !.domain = tenant[r].domain] \in Request
    BY <1>0, <2>1, FieldTypes
  <2>3. req' \in [Requests -> Request]
    BY <1>3, <2>2, StepType DEF ReadConfig
  <2> QED BY <1>3, <2>3, MemoryType DEF ReadConfig, TypeOK, service
<1>4. CASE Authenticate(r)
  <2>1. PICK ok \in BOOLEAN :
          /\ authenticated' = authenticated \cup {q.domain} \/ UNCHANGED authenticated
          /\ Step(r, [q EXCEPT !.pc = "update", !.domain = None,
                               !.change = [NoChange EXCEPT !.valid = IsVerified(ok)]])
    BY <1>4 DEF Authenticate
  <2>2. [NoChange EXCEPT !.valid = IsVerified(ok)] \in Change
    BY DEF NoChange, Change, IsVerified, Optional
  <2>3. req' \in [Requests -> Request]
    BY <1>0, <2>1, <2>2, FieldTypes, StepType
  <2>4. q.domain \in registered
    BY <1>0, <1>4 DEF Ready, Authenticate
  <2> QED BY <1>4, <2>1, <2>3, <2>4, MemoryType DEF Authenticate, TypeOK
<1>5. CASE UpdateTenant(r)
  <2>1. q.change \in Change
    BY <1>0, FieldTypes
  <2>2. Updated(tenant[r], q.change) \in Tenant
    BY <1>0, <2>1 DEF Updated, Tenant, Change
  <2>3. tenant' \in [Holders -> Tenant]
    BY <1>5, <2>2 DEF UpdateTenant, TypeOK
  <2>4. req' \in [Requests -> Request]
    BY <1>0, <1>5, FieldTypes, StepType DEF UpdateTenant
  <2> QED BY <1>5, <2>3, <2>4 DEF UpdateTenant, TypeOK, service
<1>6. CASE Marshal(r)
  <2>1. req' \in [Requests -> Request]
    BY <1>0, <1>6, FieldTypes, StepType DEF Marshal
  <2> QED BY <1>6, <2>1, MemoryType DEF Marshal, TypeOK, service
<1>7. CASE WriteRow(r)
  <2>1. q.image \in Tenant
    BY <1>0, FieldTypes
  <2>2. /\ req' \in [Requests -> Request]
        /\ alias' \in [Holders -> SUBSET Holders]
        /\ tenant' \in [Holders -> Tenant]
    BY <1>0, <1>7, AnsweredType, FieldTypes, StepType, MemoryType DEF WriteRow
  <2> QED BY <1>7, <2>1, <2>2 DEF WriteRow, TypeOK, service
<1>8. CASE SetCache(r)
  <2>1. q.server \in Servers /\ q.server \in Holders
    BY <1>0, <1>8 DEF Ready, SetCache, Holders
  <2>2. req' \in [Requests -> Request]
    BY <1>8, NoRequestType, StepType DEF SetCache
  <2>3. (alias[r] \cup {q.server}) \ {r} \in SUBSET Holders
    BY <1>0, <2>1 DEF TypeOK
  <2>4. alias' \in [Holders -> SUBSET Holders]
    BY <1>8, <2>3 DEF SetCache, TypeOK
  <2>5. tenant' \in [Holders -> Tenant]
    BY <1>0, <1>8, <2>1 DEF SetCache, TypeOK, Blank, Tenant, Optional
  <2> QED BY <1>8, <2>2, <2>4, <2>5 DEF SetCache, TypeOK, service
<1>9. CASE CheckSender(r)
  <2>1. req' \in [Requests -> Request]
    BY <1>0, <1>9, FieldTypes, StepType DEF CheckSender
  <2> QED BY <1>9, <2>1, MemoryType DEF CheckSender, TypeOK, service
<1>10. CASE BuildEmail(r)
  <2>1. tenant[r].domain \in Optional(Domains) /\ {r} \in SUBSET Holders
    BY <1>0 DEF Tenant
  <2>2. [q EXCEPT !.pc = "service", !.domain = tenant[r].domain] \in Request
    BY <1>0, <2>1, FieldTypes
  <2>3. req' \in [Requests -> Request]
    BY <1>10, <2>2, StepType DEF BuildEmail, GetEmail
  <2> QED BY <1>10, <2>1, <2>3, MemoryType DEF BuildEmail, TypeOK, service
<1>11. CASE CreateServiceSender(r)
  <2>1. q.sender \in SenderKeys /\ q.domain \in registered
    BY <1>0, <1>11 DEF Ready, CreateServiceSender
  <2>2. NewSender(q) \subseteq SenderKeys \X Domains
    BY <2>1 DEF NewSender, TypeOK
  <2>3. req' \in [Requests -> Request]
    BY <1>0, <1>11, FieldTypes, NoRequestType, StepType DEF CreateServiceSender
  <2> QED BY <1>11, <2>2, <2>3, MemoryType DEF CreateServiceSender, TypeOK
<1>12. CASE InsertSender(r)
  <2>1. q.sender \in SenderKeys
    BY <1>0, <1>12 DEF Ready, InsertSender
  <2>2. req' \in [Requests -> Request]
    BY <1>12, NoRequestType, StepType DEF InsertSender
  <2> QED BY <1>12, <2>1, <2>2, MemoryType DEF InsertSender, TypeOK, service
<1> QED BY <1>1, <1>2, <1>3, <1>4, <1>5, <1>6, <1>7, <1>8, <1>9, <1>10, <1>11, <1>12
        DEF HandlerStep

LEMMA RefreshType ==
  ASSUME TypeOK, NEW s \in Servers, RefreshStep(s) \/ Expire(s) \/ Restart(s)
  PROVE  TypeOK'
<1>0. s \in Holders /\ {s} \in SUBSET Holders /\ IdleRefresh \in Refresh
      /\ refresh[s].read \in Tenant
  BY DEF Holders, IdleRefresh, Refresh, Blank, Tenant, Optional, TypeOK
<1>1. CASE ReadRow(s)
  <2>1. [pc |-> "set", read |-> StoredTenant(s)] \in Refresh
    BY DEF TypeOK, StoredTenant, Refresh
  <2> QED BY <1>1, <2>1, MemoryType DEF ReadRow, TypeOK, service
<1>2. CASE SetEntry(s)
  <2>1. alias' \in [Holders -> SUBSET Holders] /\ tenant' \in [Holders -> Tenant]
    BY <1>0, <1>2, MemoryType DEF SetEntry
  <2> QED BY <1>0, <1>2, <2>1 DEF SetEntry, TypeOK, service
<1>3. CASE Expire(s)
  BY <1>0, <1>3, MemoryType DEF Expire, TypeOK, service
<1>4. CASE Restart(s)
  <2> DEFINE mine == {r \in Requests : req[r].server = s}
  <2>1. {s} \cup mine \in SUBSET Holders
    BY DEF Holders
  <2>2. req' \in [Requests -> Request]
    BY <1>4, NoRequestType DEF Restart, TypeOK
  <2>3. alias' \in [Holders -> SUBSET Holders] /\ tenant' \in [Holders -> Tenant]
    BY <1>4, <2>1, MemoryType DEF Restart
  <2> QED BY <1>0, <1>4, <2>2, <2>3 DEF Restart, TypeOK, service
<1> QED BY <1>1, <1>2, <1>3, <1>4 DEF RefreshStep

-----------------------------------------------------------------------------
(* Copies of the tenant.                                                   *)

LEMMA BlankSound == ASSUME NEW R, NEW A PROVE Sound(Blank, R, A)
  BY DEF Blank, Sound

\* What the service learns leaves every copy sound.
LEMMA SoundGrows ==
  ASSUME NEW t, NEW R, NEW A, NEW R2, NEW A2, R \subseteq R2, A \subseteq A2,
         Sound(t, R, A)
  PROVE  Sound(t, R2, A2)
  BY DEF Sound

\* Tenant.Update leaves a tenant sound that the change is ready for.
LEMMA SoundUpdate ==
  ASSUME NEW t \in Tenant, NEW c \in Change, NEW R, NEW A, Sound(t, R, A),
         c.domain # None => c.domain \in R,
         c.domain = None => t.domain # None,
         c.valid = {TRUE} => t.domain # None /\ A # {}
  PROVE  Sound(Updated(t, c), R, A) /\ Updated(t, c).domain # None
  BY DEF Sound, Updated

\* The service forgets nothing.
LEMMA ServiceGrows ==
  ASSUME Next
  PROVE  /\ registered \subseteq registered'
         /\ authenticated \subseteq authenticated'
         /\ serviceSenders \subseteq serviceSenders'
<1>1. ASSUME NEW r \in Requests, HandlerStep(r)
      PROVE  /\ registered \subseteq registered'
             /\ authenticated \subseteq authenticated'
             /\ serviceSenders \subseteq serviceSenders'
  BY <1>1 DEF HandlerStep, ReturnsError, RegisterDomain, ReadConfig, Authenticate,
       UpdateTenant, Marshal, WriteRow, SetCache, CheckSender, BuildEmail,
       CreateServiceSender, InsertSender, service
<1>2. ASSUME NEW s \in Servers, RefreshStep(s) \/ Expire(s) \/ Restart(s)
      PROVE  UNCHANGED service
  BY <1>2 DEF RefreshStep, ReadRow, SetEntry, Expire, Restart
<1>3. ASSUME NEW r \in Requests, NEW s \in Servers, NEW call, Begin(r, s, call)
      PROVE  UNCHANGED service
  BY <1>3 DEF Begin
<1> QED BY <1>1, <1>2, <1>3 DEF Next, CreateDomain, UpdateDnsRecords, CreateSender, service

\* A copy is where it was, blank, or another copy: every step but UpdateTenant.
CopyOnly ==
  /\ row' \in {row} \cup {req[r].image : r \in Requests}
  /\ \A h \in Holders : tenant'[h] \in {tenant[h], row, Blank}
                                       \cup {tenant[g] : g \in Holders}
                                       \cup {refresh[s].read : s \in Servers}
  /\ \A s \in Servers : refresh'[s].read \in {refresh[s].read, row, Blank}
  /\ \A r \in Requests : req'[r].image \in {req[r].image, Blank}
                                           \cup {tenant[h] : h \in Holders}

LEMMA CopyOnlySound ==
  ASSUME TypeOK, CopiesSound, CopyOnly,
         registered \subseteq registered', authenticated \subseteq authenticated'
  PROVE  CopiesSound'
<1> DEFINE Old(t) == Sound(t, registered, authenticated)
           New(t) == Sound(t, registered', authenticated')
<1>1. \A t : Old(t) => New(t)
  BY SoundGrows
<1>2. Old(Blank)
  BY BlankSound
<1>3. /\ Old(row) /\ \A h \in Holders : Old(tenant[h])
      /\ \A s \in Servers : Old(refresh[s].read)
      /\ \A r \in Requests : Old(req[r].image)
  BY DEF CopiesSound
<1> HIDE DEF Old, New
<1>4. /\ New(row') /\ \A h \in Holders : New(tenant'[h])
      /\ \A s \in Servers : New(refresh'[s].read)
      /\ \A r \in Requests : New(req'[r].image)
  BY <1>1, <1>2, <1>3 DEF CopyOnly
<1> QED BY <1>4 DEF CopiesSound, New

LEMMA MemoryCopies ==
  ASSUME TypeOK
  PROVE  /\ \A H : Detached(H) => \A h \in Holders : tenant'[h] \in {tenant[h], Blank}
         /\ \A g \in Holders : \A t : PointsToNew(g, t) =>
              \A h \in Holders : tenant'[h] \in {tenant[h], t}
         /\ \A k \in Holders, g \in Holders : PointsTo(k, g) =>
              \A h \in Holders : tenant'[h] \in {tenant[h], tenant[g]}
<1>1. ASSUME NEW H, Detached(H), NEW h \in Holders
      PROVE  tenant'[h] \in {tenant[h], Blank}
  BY <1>1 DEF Detached
<1>2. ASSUME NEW g \in Holders, NEW t, PointsToNew(g, t), NEW h \in Holders
      PROVE  tenant'[h] \in {tenant[h], t}
  BY <1>2 DEF PointsToNew, TypeOK
<1>3. ASSUME NEW k \in Holders, NEW g \in Holders, PointsTo(k, g), NEW h \in Holders
      PROVE  tenant'[h] \in {tenant[h], tenant[g]}
  BY <1>3 DEF PointsTo, TypeOK
<1> QED BY <1>1, <1>2, <1>3

\* The image in a record changed by Step.
LEMMA StepImage ==
  ASSUME TypeOK, NEW r \in Requests, NEW q, Step(r, q), NEW x \in Requests
  PROVE  req'[x] = IF x = r THEN q ELSE req[x]
  BY DEF Step, TypeOK

LEMMA HandlerCopies ==
  ASSUME TypeOK, AllReady, NEW r \in Requests, HandlerStep(r), ~UpdateTenant(r)
  PROVE  CopyOnly
<1>0. r \in Holders /\ req[r] \in Request /\ NoRequest.image = Blank
  BY DEF Holders, TypeOK, NoRequest
<1>1. \A s \in Servers : UNCHANGED refresh => refresh'[s].read = refresh[s].read
  OBVIOUS
<1>2. UNCHANGED tenant => \A h \in Holders : tenant'[h] = tenant[h]
  OBVIOUS
<1>3. Detached({r}) => \A h \in Holders : tenant'[h] \in {tenant[h], Blank}
  BY MemoryCopies
<1>4. \A q : Step(r, q) /\ q.image \in {req[r].image, Blank, tenant[r]}
        => \A x \in Requests : req'[x].image \in {req[x].image, Blank}
                                  \cup {tenant[h] : h \in Holders}
  BY <1>0, StepImage
<1>5. CASE ReturnsError(r)
  BY <1>0, <1>1, <1>3, <1>4, <1>5 DEF ReturnsError, Answered, CopyOnly
<1>6. CASE RegisterDomain(r)
  <2> DEFINE q == [req[r] EXCEPT !.pc = "update", !.domain = None,
                                 !.change = [NoChange EXCEPT !.domain = req[r].domain]]
  <2>1. q.image = req[r].image
    BY <1>0 DEF Request
  <2>2. \/ Step(r, q) /\ UNCHANGED tenant
        \/ Step(r, NoRequest) /\ Detached({r})
    BY <1>6 DEF RegisterDomain, Answered, memory
  <2> HIDE DEF q
  <2> QED BY <1>0, <1>1, <1>2, <1>3, <1>4, <1>6, <2>1, <2>2 DEF RegisterDomain, CopyOnly
<1>7. CASE ReadConfig(r)
  <2> DEFINE q == [req[r] EXCEPT !.pc = "authenticate", !.domain = tenant[r].domain]
  <2>1. q.image = req[r].image
    BY <1>0 DEF Request
  <2>2. Step(r, q) /\ UNCHANGED tenant
    BY <1>7 DEF ReadConfig, memory
  <2> HIDE DEF q
  <2> QED BY <1>0, <1>1, <1>2, <1>4, <1>7, <2>1, <2>2 DEF ReadConfig, CopyOnly
<1>8. CASE Authenticate(r)
  <2>1. PICK ok \in BOOLEAN :
          Step(r, [req[r] EXCEPT !.pc = "update", !.domain = None,
                                 !.change = [NoChange EXCEPT !.valid = IsVerified(ok)]])
    BY <1>8 DEF Authenticate
  <2> DEFINE q == [req[r] EXCEPT !.pc = "update", !.domain = None,
                                 !.change = [NoChange EXCEPT !.valid = IsVerified(ok)]]
  <2>2. q.image = req[r].image
    BY <1>0 DEF Request
  <2>3. Step(r, q) /\ UNCHANGED tenant
    BY <1>8, <2>1 DEF Authenticate, memory
  <2> HIDE DEF q
  <2> QED BY <1>0, <1>1, <1>2, <1>4, <1>8, <2>2, <2>3 DEF Authenticate, CopyOnly
<1>9. CASE Marshal(r)
  <2> DEFINE q == [req[r] EXCEPT !.pc = "write", !.image = tenant[r]]
  <2>1. q.image = tenant[r]
    BY <1>0 DEF Request
  <2>2. Step(r, q) /\ UNCHANGED tenant
    BY <1>9 DEF Marshal, memory
  <2> HIDE DEF q
  <2> QED BY <1>0, <1>1, <1>2, <1>4, <1>9, <2>1, <2>2 DEF Marshal, CopyOnly
<1>10. CASE WriteRow(r)
  <2> DEFINE q == [req[r] EXCEPT !.pc = "cache", !.image = Blank]
  <2>1. q.image = Blank
    BY <1>0 DEF Request
  <2>2. \/ Step(r, q) /\ UNCHANGED tenant
        \/ Step(r, NoRequest) /\ Detached({r})
    BY <1>10 DEF WriteRow, Answered, memory
  <2> HIDE DEF q
  <2> QED BY <1>0, <1>1, <1>2, <1>3, <1>4, <1>10, <2>1, <2>2 DEF WriteRow, CopyOnly
<1>11. CASE SetCache(r)
  <2>1. \A h \in Holders : tenant'[h] \in {tenant[h], Blank, tenant[r]}
    BY <1>11 DEF SetCache, TypeOK
  <2> QED BY <1>0, <1>1, <1>4, <1>11, <2>1 DEF SetCache, CopyOnly
<1>12. CASE CheckSender(r)
  <2> DEFINE q == [req[r] EXCEPT !.pc = "email"]
  <2>1. q.image = req[r].image
    BY <1>0 DEF Request
  <2>2. Step(r, q) /\ UNCHANGED tenant
    BY <1>12 DEF CheckSender, memory
  <2> HIDE DEF q
  <2> QED BY <1>0, <1>1, <1>2, <1>4, <1>12, <2>1, <2>2 DEF CheckSender, CopyOnly
<1>13. CASE BuildEmail(r)
  <2> DEFINE q == [req[r] EXCEPT !.pc = "service", !.domain = GetEmail(r)]
  <2>1. q.image = req[r].image
    BY <1>0 DEF Request
  <2>2. Step(r, q) /\ Detached({r})
    BY <1>13 DEF BuildEmail
  <2> HIDE DEF q
  <2> QED BY <1>0, <1>1, <1>3, <1>4, <1>13, <2>1, <2>2 DEF BuildEmail, CopyOnly
<1>14. CASE CreateServiceSender(r)
  <2> DEFINE q == [req[r] EXCEPT !.pc = "insert", !.domain = None]
  <2>1. q.image = req[r].image
    BY <1>0 DEF Request
  <2>2. (Step(r, q) \/ Step(r, NoRequest)) /\ UNCHANGED tenant
    BY <1>14 DEF CreateServiceSender, memory
  <2> HIDE DEF q
  <2> QED BY <1>0, <1>1, <1>2, <1>4, <1>14, <2>1, <2>2 DEF CreateServiceSender, CopyOnly
<1>15. CASE InsertSender(r)
  BY <1>0, <1>1, <1>2, <1>4, <1>15 DEF InsertSender, CopyOnly, memory
<1> QED BY <1>5, <1>6, <1>7, <1>8, <1>9, <1>10, <1>11, <1>12, <1>13, <1>14, <1>15
        DEF HandlerStep

LEMMA BeginCopies ==
  ASSUME TypeOK, NEW r \in Requests, NEW s \in Servers, NEW call \in Request,
         call.image = Blank, Begin(r, s, call)
  PROVE  CopyOnly
<1>1. r \in Holders /\ s \in Holders
  BY DEF Holders
<1>2. [call EXCEPT !.server = s].image = Blank
  BY DEF Request
<1>3. \A x \in Requests : req'[x].image \in {req[x].image, Blank}
  BY <1>2, StepImage DEF Begin
<1>4. \A h \in Holders : tenant'[h] \in {tenant[h], row} \cup {tenant[g] : g \in Holders}
  BY <1>1, MemoryCopies DEF Begin
<1> QED BY <1>3, <1>4 DEF Begin, CopyOnly

LEMMA RefreshCopies ==
  ASSUME TypeOK, NEW s \in Servers, RefreshStep(s) \/ Expire(s) \/ Restart(s)
  PROVE  CopyOnly
<1>0. s \in Holders /\ IdleRefresh.read = Blank /\ NoRequest.image = Blank
  BY DEF Holders, IdleRefresh, NoRequest
<1>1. CASE ReadRow(s)
  <2>1. \A u \in Servers : refresh'[u].read \in {refresh[u].read, row}
    BY <1>1 DEF ReadRow, StoredTenant, TypeOK
  <2> QED BY <1>1, <2>1 DEF ReadRow, CopyOnly, memory
<1>2. CASE SetEntry(s)
  <2>1. \A u \in Servers : refresh'[u].read \in {refresh[u].read, Blank}
    BY <1>0, <1>2 DEF SetEntry, TypeOK
  <2>2. \A h \in Holders : tenant'[h] \in {tenant[h], refresh[s].read}
    BY <1>0, <1>2, MemoryCopies DEF SetEntry
  <2> QED BY <1>2, <2>1, <2>2 DEF SetEntry, CopyOnly
<1>3. CASE Expire(s)
  <2>1. \A h \in Holders : tenant'[h] \in {tenant[h], Blank}
    BY <1>3, MemoryCopies DEF Expire
  <2> QED BY <1>3, <2>1 DEF Expire, CopyOnly
<1>4. CASE Restart(s)
  <2>1. \A u \in Servers : refresh'[u].read \in {refresh[u].read, Blank}
    BY <1>0, <1>4 DEF Restart, TypeOK
  <2>2. \A h \in Holders : tenant'[h] \in {tenant[h], Blank}
    BY <1>4, MemoryCopies DEF Restart
  <2>3. \A r \in Requests : req'[r].image \in {req[r].image, Blank}
    BY <1>0, <1>4 DEF Restart
  <2> QED BY <1>4, <2>1, <2>2, <2>3 DEF Restart, CopyOnly
<1> QED BY <1>1, <1>2, <1>3, <1>4 DEF RefreshStep

LEMMA UpdateCopies ==
  ASSUME TypeOK, CopiesSound, AllReady, NEW r \in Requests, UpdateTenant(r)
  PROVE  /\ CopiesSound'
         /\ \A h \in alias[r] : tenant'[h].domain # None
<1> DEFINE t == Updated(tenant[r], req[r].change)
<1>1. /\ r \in Holders /\ tenant[r] \in Tenant /\ req[r].change \in Change
      /\ req[r] \in Request /\ alias[r] \subseteq Holders
  BY DEF TypeOK, Holders, Request
<1>2. /\ req[r].change.domain # None => req[r].change.domain \in registered
      /\ req[r].change.domain = None => tenant[r].domain # None
      /\ req[r].change.valid = {TRUE} => tenant[r].domain # None /\ authenticated # {}
  BY DEF UpdateTenant, AllReady, Ready
<1>3. Sound(tenant[r], registered, authenticated)
  BY <1>1 DEF CopiesSound
<1>4. Sound(t, registered, authenticated) /\ t.domain # None
  BY <1>1, <1>2, <1>3, SoundUpdate
<1>5. /\ \A h \in alias[r] : tenant'[h] = t
      /\ \A h \in Holders : tenant'[h] \in {tenant[h], t}
  BY <1>1 DEF UpdateTenant
<1>6. [req[r] EXCEPT !.pc = "marshal", !.change = NoChange].image = req[r].image
  BY <1>1 DEF Request
<1>7. \A x \in Requests : req'[x].image = req[x].image
  BY <1>6, StepImage DEF UpdateTenant
<1>8. UNCHANGED <<row, refresh, registered, authenticated>>
  BY DEF UpdateTenant, service
<1> HIDE DEF t
<1> QED BY <1>4, <1>5, <1>7, <1>8 DEF CopiesSound

LEMMA CopiesStep ==
  ASSUME TypeOK, CopiesSound, AllReady, [Next]_vars
  PROVE  CopiesSound'
<1>1. CASE UNCHANGED vars
  BY <1>1 DEF vars, service, CopiesSound
<1>2. ASSUME Next, CopyOnly PROVE CopiesSound'
  BY <1>2, ServiceGrows, CopyOnlySound
<1>3. ASSUME NEW r \in Requests, HandlerStep(r), Next PROVE CopiesSound'
  BY <1>2, <1>3, HandlerCopies, UpdateCopies
<1>4. ASSUME NEW s \in Servers, RefreshStep(s) \/ Expire(s) \/ Restart(s), Next
      PROVE  CopiesSound'
  BY <1>2, <1>4, RefreshCopies
<1>5. ASSUME NEW r \in Requests, NEW s \in Servers, NEW call \in Request,
             call.image = Blank, Begin(r, s, call), Next
      PROVE  CopiesSound'
  BY <1>2, <1>5, BeginCopies
<1>6. ASSUME NEW r \in Requests, NEW s \in Servers, Next,
             \/ \E d \in Domains : CreateDomain(r, s, d)
             \/ UpdateDnsRecords(r, s)
             \/ \E k \in SenderKeys : CreateSender(r, s, k)
      PROVE  CopiesSound'
  <2>1. \A d \in Domains :
          /\ [NoRequest EXCEPT !.pc = "register", !.domain = d] \in Request
          /\ [NoRequest EXCEPT !.pc = "register", !.domain = d].image = Blank
    BY NoRequestType DEF NoRequest, Request, Optional
  <2>2. /\ [NoRequest EXCEPT !.pc = "config"] \in Request
        /\ [NoRequest EXCEPT !.pc = "config"].image = Blank
    BY NoRequestType DEF NoRequest, Request
  <2>3. \A k \in SenderKeys :
          /\ [NoRequest EXCEPT !.pc = "check", !.sender = k] \in Request
          /\ [NoRequest EXCEPT !.pc = "check", !.sender = k].image = Blank
    BY NoRequestType DEF NoRequest, Request, Optional
  <2> QED BY <1>5, <1>6, <2>1, <2>2, <2>3 DEF CreateDomain, UpdateDnsRecords, CreateSender
<1> QED BY <1>1, <1>3, <1>4, <1>6 DEF Next

-----------------------------------------------------------------------------
(* What requests have made sure of.                                        *)

\* Holder x keeps what it points to, and the domain in it.
KeepsDomain(x) ==
  x \in alias[x] =>
    /\ x \in alias'[x]
    /\ tenant[x].domain # None => tenant'[x].domain # None

\* A request that a step of somebody else leaves where it is stays ready.
LEMMA OthersReady ==
  ASSUME NEW x \in Requests, Ready(x), UNCHANGED req[x], KeepsDomain(x),
         registered \subseteq registered', authenticated \subseteq authenticated',
         serviceSenders \subseteq serviceSenders'
  PROVE  Ready(x)'
<1>1. HasDomain(x) => HasDomain(x)'
  BY DEF KeepsDomain, HasDomain
<1>2. authenticated # {} => authenticated' # {}
  OBVIOUS
<1>3. req[x].pc = "update" => x \in alias'[x] /\ (tenant[x].domain # None => tenant'[x].domain # None)
  BY DEF Ready, KeepsDomain
<1>4. req[x].pc \in {"register", "config", "check"} => x \in alias'[x]
  BY DEF Ready, KeepsDomain
<1>5. req[x].pc = "insert" => \E d \in Domains : <<req[x].sender, d>> \in serviceSenders'
  BY DEF Ready
<1> QED BY <1>1, <1>2, <1>3, <1>4, <1>5 DEF Ready

\* An operation on the pointers of others keeps what x has.
LEMMA MemoryKeeps ==
  ASSUME TypeOK, NEW x \in Holders
  PROVE  /\ UNCHANGED memory => KeepsDomain(x)
         /\ \A H : Detached(H) /\ x \notin H => KeepsDomain(x)
         /\ \A g \in Holders : \A t : PointsToNew(g, t) /\ x # g => KeepsDomain(x)
         /\ \A k \in Holders, g \in Holders :
              PointsTo(k, g) /\ x # k => KeepsDomain(x)
<1>1. UNCHANGED memory => KeepsDomain(x)
  BY DEF memory, KeepsDomain
<1>2. ASSUME NEW H, Detached(H), x \notin H PROVE KeepsDomain(x)
  BY <1>2 DEF Detached, KeepsDomain
<1>3. ASSUME NEW g \in Holders, NEW t, PointsToNew(g, t), x # g PROVE KeepsDomain(x)
  BY <1>3 DEF PointsToNew, KeepsDomain, TypeOK
<1>4. ASSUME NEW k \in Holders, NEW g \in Holders, PointsTo(k, g), x # k
      PROVE  KeepsDomain(x)
  BY <1>4 DEF PointsTo, KeepsDomain, TypeOK
<1> QED BY <1>1, <1>2, <1>3, <1>4

LEMMA NoneReady ==
  ASSUME NEW x \in Requests, req[x] = NoRequest
  PROVE  Ready(x)
  BY DEF NoRequest, Ready

LEMMA RefreshReady ==
  ASSUME TypeOK, AllReady, Next, NEW s \in Servers,
         RefreshStep(s) \/ Expire(s) \/ Restart(s)
  PROVE  AllReady'
<1>0. s \in Holders /\ (\A x \in Requests : x \in Holders /\ x # s)
  BY HolderAssumption DEF Holders
<1>1. ASSUME NEW x \in Requests, UNCHANGED req[x], KeepsDomain(x) PROVE Ready(x)'
  BY <1>1, ServiceGrows, OthersReady DEF AllReady
<1>2. CASE ReadRow(s) \/ SetEntry(s) \/ Expire(s)
  <2>1. UNCHANGED req
    BY <1>2 DEF ReadRow, SetEntry, Expire
  <2>2. \A x \in Requests : KeepsDomain(x)
    BY <1>0, <1>2, MemoryKeeps DEF ReadRow, SetEntry, Expire
  <2> QED BY <1>1, <2>1, <2>2 DEF AllReady
<1>3. CASE Restart(s)
  <2> DEFINE mine == {r \in Requests : req[r].server = s}
  <2>1. \A x \in mine : req'[x] = NoRequest
    BY <1>3 DEF Restart
  <2>2. \A x \in Requests \ mine : UNCHANGED req[x]
    BY <1>3 DEF Restart
  <2>3. Detached({s} \cup mine)
    BY <1>3 DEF Restart
  <2> HIDE DEF mine
  <2>4. \A x \in Requests \ mine : KeepsDomain(x)
    BY <1>0, <2>3, MemoryKeeps
  <2>5. \A x \in Requests : req'[x] = NoRequest => Ready(x)'
    BY DEF NoRequest, Ready
  <2> QED BY <1>1, <2>1, <2>2, <2>4, <2>5 DEF AllReady
<1> QED BY <1>2, <1>3 DEF RefreshStep

LEMMA BeginReady ==
  ASSUME TypeOK, AllReady, Next, NEW r \in Requests, NEW s \in Servers,
         NEW call \in Request, Begin(r, s, call),
         call.pc \in {"register", "config", "check"},
         call.pc = "register" => call.domain \in Domains,
         call.pc = "check" => call.sender \in SenderKeys
  PROVE  AllReady'
<1>0. r \in Holders /\ s \in Holders /\ r # s
  BY HolderAssumption DEF Holders
<1>1. r \in alias'[r]
  BY <1>0 DEF Begin, PointsTo, PointsToNew
<1>2. req'[r] = [call EXCEPT !.server = s]
  BY StepImage DEF Begin
<1>3. /\ req'[r].pc = call.pc /\ req'[r].domain = call.domain
      /\ req'[r].sender = call.sender /\ req'[r].server = s
  BY <1>2 DEF Request
<1>4. Ready(r)'
  BY <1>1, <1>3 DEF Ready
<1>5. ASSUME NEW x \in Requests, x # r PROVE Ready(x)'
  <2>1. x \in Holders
    BY DEF Holders
  <2>2. KeepsDomain(x)
    BY <1>0, <1>5, <2>1, MemoryKeeps DEF Begin
  <2>3. UNCHANGED req[x]
    BY <1>5, StepImage DEF Begin
  <2> QED BY <2>2, <2>3, ServiceGrows, OthersReady DEF AllReady
<1> QED BY <1>4, <1>5 DEF AllReady

\* The requests that a step of r does not move, r itself aside.
LEMMA HandlerOthers ==
  ASSUME TypeOK, CopiesSound, AllReady, Next, NEW r \in Requests, HandlerStep(r),
         NEW x \in Requests, x # r
  PROVE  Ready(x)'
<1>0. x \in Holders /\ r \in Holders
  BY DEF Holders
<1>1. UNCHANGED req[x]
  BY StepImage DEF HandlerStep, ReturnsError, RegisterDomain, ReadConfig, Authenticate,
       UpdateTenant, Marshal, WriteRow, SetCache, CheckSender, BuildEmail,
       CreateServiceSender, InsertSender, Answered
<1>2. KeepsDomain(x)
  <2>1. CASE UpdateTenant(r)
    <3>1. \A h \in alias[r] : tenant'[h].domain # None
      BY <2>1, UpdateCopies
    <3>2. UNCHANGED alias /\ (x \notin alias[r] => tenant'[x] = tenant[x])
      BY <1>0, <2>1 DEF UpdateTenant
    <3> QED BY <3>1, <3>2 DEF KeepsDomain
  <2>2. CASE SetCache(r)
    <3>1. req[r].server \in Servers
      BY <2>2 DEF AllReady, Ready, SetCache
    <3>2. x # req[r].server
      BY <3>1, HolderAssumption
    <3> QED BY <1>0, <2>2, <3>2 DEF SetCache, KeepsDomain, TypeOK
  <2>3. CASE UNCHANGED memory \/ Detached({r})
    BY <1>0, <2>3, MemoryKeeps
  <2>4. UpdateTenant(r) \/ SetCache(r) \/ UNCHANGED memory \/ Detached({r})
    BY DEF HandlerStep, ReturnsError, RegisterDomain, ReadConfig, Authenticate,
       Marshal, WriteRow, CheckSender, BuildEmail,
       CreateServiceSender, InsertSender, Answered
  <2> QED BY <2>1, <2>2, <2>3, <2>4
<1> QED BY <1>1, <1>2, ServiceGrows, OthersReady DEF AllReady

LEMMA HandlerOwn ==
  ASSUME TypeOK, CopiesSound, AllReady, NEW r \in Requests, HandlerStep(r)
  PROVE  Ready(r)'
<1> DEFINE q == req[r]
<1>0. q \in Request /\ Ready(r) /\ r \in Holders /\ Sound(tenant[r], registered, authenticated)
  BY DEF TypeOK, AllReady, Holders, CopiesSound
<1>1. req'[r] = NoRequest => Ready(r)'
  BY DEF NoRequest, Ready
<1>2. \A n : Step(r, n) => req'[r] = n
  BY StepImage
<1>3. CASE Step(r, NoRequest)
  BY <1>1, <1>2, <1>3
<1>4. CASE RegisterDomain(r)
  <2> SUFFICES ASSUME ~Step(r, NoRequest) PROVE Ready(r)'
    BY <1>3
  <2> DEFINE n == [q EXCEPT !.pc = "update", !.domain = None,
                            !.change = [NoChange EXCEPT !.domain = q.domain]]
  <2>1. Step(r, n) /\ UNCHANGED memory
    BY <1>4 DEF RegisterDomain, Answered
  <2>2. /\ n.pc = "update" /\ n.change.domain = q.domain /\ n.change.valid = {}
        /\ n.server = q.server
    BY <1>0 DEF Request, NoChange
  <2>3. /\ q.pc = "register" /\ q.domain \in Domains /\ r \in alias[r] /\ q.server \in Servers
        /\ q.domain \in registered' /\ q.domain # None
    BY <1>0, <1>4, NoneAssumption DEF RegisterDomain, Ready
  <2>4. req'[r] = n /\ UNCHANGED alias
    BY <1>2, <2>1 DEF memory
  <2> HIDE DEF n, q
  <2> QED BY <2>2, <2>3, <2>4 DEF Ready
<1>5. CASE ReadConfig(r)
  <2> DEFINE n == [q EXCEPT !.pc = "authenticate", !.domain = tenant[r].domain]
  <2>1. req'[r] = n /\ UNCHANGED <<alias, tenant, registered>>
    BY <1>2, <1>5 DEF ReadConfig, memory, service
  <2>2. n.pc = "authenticate" /\ n.domain = tenant[r].domain /\ n.server = q.server
    BY <1>0 DEF Request
  <2>3. /\ q.server \in Servers /\ r \in alias[r] /\ tenant[r].domain # None
        /\ tenant[r].domain \in registered
    BY <1>0, <1>5 DEF ReadConfig, Ready, Sound
  <2> HIDE DEF n, q
  <2> QED BY <2>1, <2>2, <2>3 DEF Ready, HasDomain
<1>6. CASE Authenticate(r)
  <2>1. PICK ok \in BOOLEAN :
          /\ authenticated' = authenticated \cup {q.domain} \/ (~ok /\ UNCHANGED authenticated)
          /\ Step(r, [q EXCEPT !.pc = "update", !.domain = None,
                               !.change = [NoChange EXCEPT !.valid = IsVerified(ok)]])
    BY <1>6 DEF Authenticate
  <2> DEFINE n == [q EXCEPT !.pc = "update", !.domain = None,
                            !.change = [NoChange EXCEPT !.valid = IsVerified(ok)]]
  <2>2. req'[r] = n /\ UNCHANGED <<alias, tenant, registered>>
    BY <1>2, <1>6, <2>1 DEF Authenticate, memory
  <2>3. /\ n.pc = "update" /\ n.change.domain = None /\ n.change.valid = {ok}
        /\ n.server = q.server
    BY <1>0 DEF Request, NoChange, IsVerified
  <2>4. q.server \in Servers /\ r \in alias[r] /\ tenant[r].domain # None
    BY <1>0, <1>6 DEF Authenticate, Ready, HasDomain
  <2>5. {ok} = {TRUE} => authenticated' # {}
    BY <2>1
  <2> HIDE DEF n, q
  <2> QED BY <2>2, <2>3, <2>4, <2>5 DEF Ready
<1>7. CASE UpdateTenant(r)
  <2> DEFINE n == [q EXCEPT !.pc = "marshal", !.change = NoChange]
  <2>1. req'[r] = n /\ UNCHANGED alias
    BY <1>2, <1>7 DEF UpdateTenant
  <2>2. n.pc = "marshal" /\ n.server = q.server
    BY <1>0 DEF Request
  <2>3. q.server \in Servers /\ r \in alias[r]
    BY <1>0, <1>7 DEF UpdateTenant, Ready
  <2>4. tenant'[r].domain # None
    BY <1>7, <2>3, UpdateCopies
  <2> HIDE DEF n, q
  <2> QED BY <2>1, <2>2, <2>3, <2>4 DEF Ready, HasDomain
<1>8. CASE Marshal(r)
  <2> DEFINE n == [q EXCEPT !.pc = "write", !.image = tenant[r]]
  <2>1. req'[r] = n /\ UNCHANGED <<alias, tenant>>
    BY <1>2, <1>8 DEF Marshal, memory
  <2>2. n.pc = "write" /\ n.image = tenant[r] /\ n.server = q.server
    BY <1>0 DEF Request
  <2>3. q.server \in Servers /\ HasDomain(r)
    BY <1>0, <1>8 DEF Marshal, Ready
  <2> HIDE DEF n, q
  <2> QED BY <2>1, <2>2, <2>3 DEF Ready, HasDomain
<1>9. CASE WriteRow(r)
  <2> SUFFICES ASSUME ~Step(r, NoRequest) PROVE Ready(r)'
    BY <1>3
  <2> DEFINE n == [q EXCEPT !.pc = "cache", !.image = Blank]
  <2>1. req'[r] = n
    BY <1>2, <1>9 DEF WriteRow, Answered
  <2>2. n.pc = "cache" /\ n.server = q.server
    BY <1>0 DEF Request
  <2>3. q.server \in Servers
    BY <1>0, <1>9 DEF WriteRow, Ready
  <2> HIDE DEF n, q
  <2> QED BY <2>1, <2>2, <2>3 DEF Ready
<1>10. CASE CheckSender(r)
  <2> DEFINE n == [q EXCEPT !.pc = "email"]
  <2>1. req'[r] = n /\ UNCHANGED <<alias, tenant, authenticated>>
    BY <1>2, <1>10 DEF CheckSender, memory, service
  <2>2. n.pc = "email" /\ n.sender = q.sender /\ n.server = q.server
    BY <1>0 DEF Request
  <2>3. /\ q.server \in Servers /\ q.sender \in SenderKeys /\ HasDomain(r)
        /\ authenticated # {}
    BY <1>0, <1>10 DEF CheckSender, DomainVerified, Ready, HasDomain, Sound
  <2> HIDE DEF n, q
  <2> QED BY <2>1, <2>2, <2>3 DEF Ready, HasDomain
<1>11. CASE BuildEmail(r)
  <2> DEFINE n == [q EXCEPT !.pc = "service", !.domain = tenant[r].domain]
  <2>1. req'[r] = n /\ UNCHANGED <<registered, authenticated>>
    BY <1>2, <1>11 DEF BuildEmail, GetEmail, service
  <2>2. /\ n.pc = "service" /\ n.domain = tenant[r].domain /\ n.sender = q.sender
        /\ n.server = q.server
    BY <1>0 DEF Request
  <2>3. /\ q.server \in Servers /\ q.sender \in SenderKeys
        /\ tenant[r].domain \in registered /\ authenticated # {}
    BY <1>0, <1>11 DEF BuildEmail, Ready, HasDomain, Sound
  <2> HIDE DEF n, q
  <2> QED BY <2>1, <2>2, <2>3 DEF Ready
<1>12. CASE CreateServiceSender(r)
  <2> SUFFICES ASSUME ~Step(r, NoRequest) PROVE Ready(r)'
    BY <1>3
  <2> DEFINE n == [q EXCEPT !.pc = "insert", !.domain = None]
  <2>1. req'[r] = n /\ serviceSenders' = serviceSenders \cup {<<q.sender, q.domain>>}
    BY <1>2, <1>12 DEF CreateServiceSender, NewSender
  <2>2. n.pc = "insert" /\ n.sender = q.sender /\ n.server = q.server
    BY <1>0 DEF Request
  <2>3. q.server \in Servers /\ q.sender \in SenderKeys /\ q.domain \in Domains
    BY <1>0, <1>12 DEF CreateServiceSender, Ready, TypeOK
  <2> HIDE DEF n, q
  <2> QED BY <2>1, <2>2, <2>3 DEF Ready
<1>13. CASE ReturnsError(r) \/ SetCache(r) \/ InsertSender(r)
  BY <1>3, <1>13 DEF ReturnsError, SetCache, InsertSender, Answered
<1> QED BY <1>4, <1>5, <1>6, <1>7, <1>8, <1>9, <1>10, <1>11, <1>12, <1>13
        DEF HandlerStep

LEMMA ReadyStep ==
  ASSUME TypeOK, CopiesSound, AllReady, [Next]_vars
  PROVE  AllReady'
<1>1. CASE UNCHANGED vars
  <2>1. ASSUME NEW x \in Requests PROVE Ready(x)'
    <3>1. KeepsDomain(x)
      BY <1>1 DEF vars, KeepsDomain
    <3>2. UNCHANGED req[x] /\ UNCHANGED <<registered, authenticated, serviceSenders>>
      BY <1>1 DEF vars, service
    <3> QED BY <3>1, <3>2, OthersReady DEF AllReady
  <2> QED BY <2>1 DEF AllReady
<1>2. ASSUME NEW r \in Requests, HandlerStep(r), Next PROVE AllReady'
  BY <1>2, HandlerOwn, HandlerOthers DEF AllReady
<1>3. ASSUME NEW s \in Servers, RefreshStep(s) \/ Expire(s) \/ Restart(s), Next
      PROVE  AllReady'
  BY <1>3, RefreshReady
<1>4. ASSUME NEW r \in Requests, NEW s \in Servers, NEW d \in Domains,
             CreateDomain(r, s, d), Next
      PROVE  AllReady'
  <2> DEFINE call == [NoRequest EXCEPT !.pc = "register", !.domain = d]
  <2>1. call \in Request /\ call.pc = "register" /\ call.domain = d
    BY NoRequestType DEF NoRequest, Request, Optional
  <2>2. Begin(r, s, call)
    BY <1>4 DEF CreateDomain
  <2> HIDE DEF call
  <2> QED BY <1>4, <2>1, <2>2, BeginReady
<1>5. ASSUME NEW r \in Requests, NEW s \in Servers, UpdateDnsRecords(r, s), Next
      PROVE  AllReady'
  <2> DEFINE call == [NoRequest EXCEPT !.pc = "config"]
  <2>1. call \in Request /\ call.pc = "config"
    BY NoRequestType DEF NoRequest, Request
  <2>2. Begin(r, s, call)
    BY <1>5 DEF UpdateDnsRecords
  <2> HIDE DEF call
  <2> QED BY <1>5, <2>1, <2>2, BeginReady
<1>6. ASSUME NEW r \in Requests, NEW s \in Servers, NEW k \in SenderKeys,
             CreateSender(r, s, k), Next
      PROVE  AllReady'
  <2> DEFINE call == [NoRequest EXCEPT !.pc = "check", !.sender = k]
  <2>1. call \in Request /\ call.pc = "check" /\ call.sender = k
    BY NoRequestType DEF NoRequest, Request, Optional
  <2>2. Begin(r, s, call)
    BY <1>6 DEF CreateSender
  <2> HIDE DEF call
  <2> QED BY <1>6, <2>1, <2>2, BeginReady
<1> QED BY <1>1, <1>2, <1>3, <1>4, <1>5, <1>6 DEF Next

-----------------------------------------------------------------------------
(* The invariant.                                                          *)

LEMMA TypeStep ==
  ASSUME TypeOK, AllReady, [Next]_vars
  PROVE  TypeOK'
<1>1. CASE UNCHANGED vars
  BY <1>1 DEF vars, service, TypeOK
<1>2. ASSUME NEW r \in Requests, NEW s \in Servers,
             \/ \E d \in Domains : CreateDomain(r, s, d)
             \/ UpdateDnsRecords(r, s)
             \/ \E k \in SenderKeys : CreateSender(r, s, k)
      PROVE  TypeOK'
  <2>1. \A d \in Domains : [NoRequest EXCEPT !.pc = "register", !.domain = d] \in Request
    BY NoRequestType DEF Request, Optional
  <2>2. [NoRequest EXCEPT !.pc = "config"] \in Request
    BY NoRequestType DEF Request
  <2>3. \A k \in SenderKeys : [NoRequest EXCEPT !.pc = "check", !.sender = k] \in Request
    BY NoRequestType DEF Request, Optional
  <2> QED BY <1>2, <2>1, <2>2, <2>3, BeginType
          DEF CreateDomain, UpdateDnsRecords, CreateSender
<1> QED BY <1>1, <1>2, HandlerType, RefreshType DEF Next

LEMMA SendersStep ==
  ASSUME TypeOK, AllReady, SendersSound, [Next]_vars
  PROVE  SendersSound'
<1>1. ASSUME UNCHANGED <<senders, serviceSenders>>,
             registered \subseteq registered', authenticated \subseteq authenticated'
      PROVE  SendersSound'
  BY <1>1 DEF SendersSound, SendersBacked
<1>2. ASSUME NEW r \in Requests, CreateServiceSender(r) PROVE SendersSound'
  <2>1. /\ serviceSenders' = serviceSenders \cup {<<req[r].sender, req[r].domain>>}
        /\ UNCHANGED <<senders, registered, authenticated>>
    BY <1>2 DEF CreateServiceSender, NewSender
  <2>2. req[r].domain \in registered /\ authenticated # {}
    BY <1>2 DEF CreateServiceSender, AllReady, Ready
  <2> QED BY <2>1, <2>2 DEF SendersSound, SendersBacked
<1>3. ASSUME NEW r \in Requests, InsertSender(r) PROVE SendersSound'
  <2>1. \E d \in Domains : <<req[r].sender, d>> \in serviceSenders
    BY <1>3 DEF InsertSender, AllReady, Ready
  <2>2. senders' = senders \cup {req[r].sender} /\ UNCHANGED service
    BY <1>3 DEF InsertSender
  <2> QED BY <2>1, <2>2 DEF SendersSound, SendersBacked, service
<1>4. CASE UNCHANGED vars
  BY <1>1, <1>4 DEF vars, service
<1>5. ASSUME Next, ~\E r \in Requests : CreateServiceSender(r) \/ InsertSender(r)
      PROVE  UNCHANGED <<senders, serviceSenders>>
  BY <1>5 DEF Next, HandlerStep, RefreshStep, CreateDomain, UpdateDnsRecords, CreateSender,
       Begin, ReturnsError, RegisterDomain, ReadConfig, Authenticate, UpdateTenant,
       Marshal, WriteRow, SetCache, CheckSender, BuildEmail, ReadRow, SetEntry, Expire,
       Restart, service
<1> QED BY <1>1, <1>2, <1>3, <1>4, <1>5, ServiceGrows

LEMMA Invariant == Spec => []IInv
<1>1. Init => IInv
  <2> SUFFICES ASSUME Init PROVE IInv
    OBVIOUS
  <2>1. TypeOK
    BY InitType
  <2>2. Sound(row, registered, authenticated)
    BY DEF Init, Sound
  <2>3. CopiesSound
    BY <2>2, BlankSound DEF Init, CopiesSound, IdleRefresh, NoRequest
  <2>4. AllReady
    BY NoneReady DEF Init, AllReady
  <2>5. SendersSound
    BY DEF Init, SendersSound, SendersBacked
  <2> QED BY <2>1, <2>3, <2>4, <2>5 DEF IInv
<1>2. IInv /\ [Next]_vars => IInv'
  BY TypeStep, CopiesStep, ReadyStep, SendersStep DEF IInv
<1> QED BY <1>1, <1>2, PTL DEF Spec

-----------------------------------------------------------------------------
(* Theorems.                                                               *)

\* The rows, the objects and the requests keep their shape; in particular every
\* sender created at the email service has a domain.
THEOREM TypeCorrect == Spec => []TypeOK
<1>1. IInv => TypeOK
  BY DEF IInv
<1> QED BY <1>1, Invariant, PTL

\* A row is flagged valid only with a registered domain and after an
\* authentication that succeeded, whatever stale object it was written from.
THEOREM FlagHolds == Spec => []FlagEarned
<1>1. IInv => FlagEarned
  BY DEF IInv, CopiesSound, Sound, FlagEarned
<1> QED BY <1>1, Invariant, PTL

\* While a tenant has had one domain, its senders are at an authenticated domain.
THEOREM SenderHolds == Spec => []SenderOnOnlyDomain
<1>1. IInv => SenderOnOnlyDomain
  BY DEF IInv, TypeOK, SendersSound, SenderOnOnlyDomain
<1> QED BY <1>1, Invariant, PTL

\* Every row of sender_tab has a sender at the email service.
THEOREM BackedHolds == Spec => []SendersBacked
<1>1. IInv => SendersBacked
  BY DEF IInv, SendersSound
<1> QED BY <1>1, Invariant, PTL

\* No write takes the domain of a tenant away.
THEOREM KeptHolds == Spec => DomainKept
<1>1. IInv /\ [Next]_vars => [row.domain # None => row'.domain # None]_vars
  <2> SUFFICES ASSUME IInv, Next, row.domain # None PROVE row'.domain # None
    OBVIOUS
  <2>1. ASSUME NEW r \in Requests, WriteRow(r) PROVE row'.domain # None
    BY <2>1 DEF IInv, AllReady, Ready, WriteRow
  <2>2. ASSUME ~\E r \in Requests : WriteRow(r) PROVE UNCHANGED row
    BY <2>2 DEF Next, HandlerStep, RefreshStep, CreateDomain, UpdateDnsRecords,
         CreateSender, Begin, ReturnsError, RegisterDomain, ReadConfig, Authenticate,
         UpdateTenant, Marshal, SetCache, CheckSender, BuildEmail, CreateServiceSender,
         InsertSender, ReadRow, SetEntry, Expire, Restart
  <2> QED BY <2>1, <2>2
<1> QED BY <1>1, Invariant, PTL DEF Spec, DomainKept
=============================================================================
