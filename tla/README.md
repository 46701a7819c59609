# Verification of mirror-backend

TLA+ models of the parts of mirror-backend whose behaviour depends on
interleaving, failure or stale data, the TLC configurations that check them, and
theorems about them that the TLA+ proof system (TLAPS) checks for every value of
the constants.

mirror-backend is an email marketing service: an HTTP server (`src/main.go`) on
which tenants manage users, tags, segments, email templates and campaigns, and
batch jobs (`src/job/main.go`) that a scheduler outside the repository starts. State is
in MySQL (GORM), in Elasticsearch (the user data of a tenant, one index per
tenant), in a file store, at an external email service, and in caches in the
memory of each server.

## 1. Inventory

| Part | State | Operations | Interacts with |
|---|---|---|---|
| Run-campaigns job (`job/run_campaigns`) | rows of `campaign_tab`; in the process: one `*entity.Campaign` per campaign, shared by its worker and by the status goroutine; `statusChan`, `doneChan`, semaphore `ch` | `Run`: read the Pending campaigns, one worker each; download the segment, cut it into buckets, send batch by batch, persist status and progress | Elasticsearch (scroll), email service (one request per recipient), MySQL |
| Run-file-upload-tasks job (`job/run_file_upload_tasks`) | rows of `task_tab`; per worker `upsertResChan`, ticker, counters | `Run`: read the Pending tasks, format the rows of each file, feed them to the bulk indexer, count its callbacks, persist progress | file store, Elasticsearch bulk indexer (callbacks on its own goroutines), MySQL |
| Sessions (`repo/session.go`, `pkg/router/session.go`, `handler/user.go`) | `session_tab`; per server a cache by token and by user, filled by a refresh once a minute | LogIn, LogOut, the middleware's look-up, refresh | MySQL; the requests of one server and its refresh goroutine run at once, and servers do not tell each other |
| Tenants, domains, senders (`handler/tenant.go`, `repo/tenant.go`, `repo/sender.go`) | `tenant_tab`, `sender_tab`; domain and senders at the email service; a cache of `*entity.Tenant` | CreateTenant, CreateDomain, UpdateDnsRecords, CreateSender, GetSenders | email service, MySQL, Elasticsearch (index of the tenant), file store (folder of the tenant) |
| Users and activation (`handler/user.go`, `handler/account.go`, `repo/user.go`, `repo/activation.go`) | `user_tab`, `activation_tab`, a cache of `*entity.User` by id, email and username | CreateUsers, InitUser, LogIn, trial accounts | MySQL, email service |
| Roles (`handler/role.go`, `repo/role.go`, `repo/user_role.go`) | `role_tab`, `user_role_tab`, their caches | CreateRole, UpdateRoles, permission checks of the middleware | MySQL |
| Campaign API (`handler/campaign.go`, `repo/campaign_log.go`) | `campaign_tab`, `campaign_log_tab` | CreateCampaign, OnEmailAction (the service's webhook), GetCampaign (the report) | the job, through the rows; the email service |
| Segments, tags, queries (`handler/segment.go`, `handler/tag.go`, `handler/validator.go`, `repo/query.go`) | `segment_tab`, `tag_tab`; documents in Elasticsearch; a cache of distinct values | create, update, count, preview, download | Elasticsearch |
| Email templates (`handler/email.go`) | `email_tab` | create, read, list | MySQL |
| Task API and file store (`handler/task.go`, `repo/file.go`) | `task_tab`, files | CreateFileUploadTask, GetFileUploadTasks | the upload job, through the rows |
| Message queue (`pkg/mq`) | Kafka consumer group | NewConsumer, processMessage | not used by either binary |
| Generic repository (`repo/orm.go`, `repo/filter.go`) | none | create, update (always the whole row), filters to SQL, counts and groups | MySQL |
| HTTP server, router, validation, logging, config | none of their own | decode, validate, dispatch | everything |

### What is hard, and what makes each part correct

* **Run-campaigns.** Two goroutines write whole rows of one campaign from a shared
  object; the write is change, copy, UPDATE, and the other goroutine may act
  between any two of the three. Processes crash, overlap, lose the answer of the
  email service, and run into a full channel. Correct: nothing is sent
  before the row has durably left Pending; no write brings Pending back; no
  recipient is mailed twice; 100 percent means that a failed call left out at most the rest of its
  batch and nothing else left out anybody; a process ends.
* **Reports.** The email service reports an event until it is answered; the insertion may
  fail, or succeed and lose its answer. A report is several queries without a
  transaction, and one of them scans all its groups into one shared object. Correct: no event is
  lost; what a report shows was logged; a campaign with results is never Pending.
* **Upload tasks.** The same two writers, plus callbacks that drop results when a
  bounded channel is full, and a ticker that competes with the results. Correct:
  Success and progress never run ahead of Elasticsearch; a file with an unusable
  row writes nothing; a process ends unless a result is lost.
* **Sessions.** A cache that is read before a database, cleaned in steps, refilled from
  rows read earlier. Correct: after a log out the token is refused: at once where
  nothing interferes, from the next refresh elsewhere, at last everywhere.
* **Tenants.** Handlers change a cached object that other requests hold too, call the email
  service, and write all of the object to the row. Correct: a flag was earned by an
  authentication; no stale write takes the domain away; a sender belongs to a domain that was
  verified and exists at the email service.
* **Users.** A tenant is made inside and outside the database by one transaction, and mails leave
  from inside it. An activation token may be presented twice at once; the cache is
  set inside a transaction that may roll back; two users may share a username. Correct: a stored
  tenant is complete and has somebody who can get in; a mailed token works; who gets a session
  gave a password of that user's own; an activated user stays activated.
* **Roles.** Cached objects are changed before the transaction commits and stay changed when it
  fails. Correct: no role allows what nobody entitled gave it; in the end the caches agree with the
  table.
* **Segments and queries.** A recursive query tree is validated and translated; names are looked up
  before they are inserted; users are downloaded page by page while uploads write. Correct:
  the translation selects the users the tree means; names are unique; a download is
  complete; a cached value was once written.

Every hazard, with its line and the properties that watch over it, is in
`PROJECT.json` under `hazards`. A hazard that no property covers, or only in part, has a note that
says why: mostly that what goes wrong there is what the code does, and nothing in the repository says
otherwise.

Weaknesses of the code that are in the models as they are:

* Sender addresses are built from the domain the tenant has at the moment (`entity/sender.go:34`), so
  they change with it.
* A report of clicks on several links counts the last group once per group (`repo/orm.go:124`).
* The expiry filter lets every session pass (`repo/session.go:200`).
* A request for roles that failed leaves the cached objects changed, so that the same request again is
  answered success and stores nothing (`handler/role.go:188`).
* A file of one row whose value cannot be formatted ends the upload process: the message about it
  shows `rows[1]` (`job/run_file_upload_tasks/job.go:150`).
* A null among the lookups or the sub-queries of criteria passes the validator, and building the
  Elasticsearch query dereferences it (`repo/query.go:459`): a handler that does so gives no answer, and
  the run-campaigns job dies (its `Crash`).
* The JSON of stored criteria omits empty lists (`entity/segment.go:71-72`), so criteria that were
  accepted with an empty list are refused when the segment's own are previewed.

## 2. Modules

| Module | What it is |
|---|---|
| `CampaignDelivery` | what the run-campaigns job promises a recipient: a campaign is claimed once, then each recipient gets at most one message |
| `RunCampaigns` | the job, every step of it; its properties; the conjuncts of its inductive invariant |
| `MCRunCampaigns` | ratios and symmetry for TLC |
| `RunCampaignsProofs` | types, claims, PendingMeansUnsent, NeverPendingAgain, AtMostOnce, CompleteMeansAttempted, and that the job implements `CampaignDelivery` |
| `CampaignReports`, `MCCampaignReports` | the job composed with the recipients, the webhook and the report of the campaign API |
| `CampaignReportsProofs` | on top of `RunCampaignsProofs`: ReportsTypeOK, NoEventLost, ResultsOfClaimed, OpensReported, ClicksReported |
| `RunFileUploadTasks`, `MCRunFileUploadTasks` | the upload job |
| `RunFileUploadTasksProofs` | types, SuccessMeansIndexed, ProgressHonest, InvalidWritesNothing |
| `SessionCache`, `MCSessionCache` | sessions and their caches |
| `SessionCacheProofs` | types, RefusedAfterRefresh, LogOutIsImmediate |
| `TenantDomain`, `MCTenantDomain` | a tenant's domain and senders, the cached tenant that requests share, the email service's view |
| `TenantDomainProofs` | types, FlagEarned, SenderOnOnlyDomain, SendersBacked, DomainKept |
| `Accounts`, `MCAccounts` | creation of a tenant and its users, activation, log in, the user cache |
| `AccountsProofs` | types, TenantComplete, MailedTokenKnown, SessionEarned, LogInByName, ActivationKept |
| `Roles`, `MCRoles` | roles, their cached objects, and what the middleware allows |
| `RolesProofs` | types, ActionsGiven |
| `SegmentQueries`, `MCSegmentQueries` | tags, segments, the criteria tree, downloads, the cache of distinct values |
| `SegmentQueriesProofs` | types, OneRowPerName, CountIsMeaning, DownloadComplete, DistinctWasStored |

### RunCampaigns and the code

`Jobs` are the processes a scheduler starts over time, each of them at most once;
`AllowOverlap` says whether one may start while another is alive. `db` is
`campaign_tab`. `mem[j][c]` is the `*entity.Campaign` that the worker of `c` and the status
goroutine of process `j` share; `work[j][c]` are the locals of the worker with its place in
`Run` as `pc`; `chan[j]` is `statusChan`; `sg[j]` the status goroutine; `delivered` is what the
email service took; `missed` are the recipients the call for whom returned an error (it is
written only when a post fails and read only by a property).

| Action | Code |
|---|---|
| `StartJob`, `StartFails` | GetPendingCampaigns, and the loop over its result |
| `Launch` | `ch <- struct{}{}` before the goroutine |
| `Resolve` | the tenant, the sender |
| `DownloadPage`, `DownloadFails`, `SearchPanics` | the loop over `Download`; a page is full exactly when there is a cursor; a failed first Search is read as nil and panics |
| `SetRunning`, `WriteSucceeds`, `WriteFails` | `campaign.Update`, `ToCampaignModel`, the UPDATE, which may have run when it returns an error |
| `Group`, `GroupsDone`, `GroupPanics` | the loop that cuts `uds` into buckets with `math.Ceil` |
| `StartBatch`, `NextBucket`, `PostSucceeds`, `PostFails` | the loops over buckets and batches; `SendEmail` stops at its first error |
| `SetProgress`, `SetComplete` | progress after each batch, 100 at the end |
| `Report`, `Receive`, `CopyRow`, `WriteStatus`, `StopStatus`, `TasksDone` | `updateCampaignStatus`, the select loop, `doneChan`; when the status goroutine has stopped, the process exits and its memory is gone |
| `Crash`, `Die` | the end of the process at any point |

What is abstracted: names, bodies, links and templates of mails; the content of the users
(a recipient is a position in `uds`); the schedule (any subset of the Pending rows may be due).
Floating point in `math.Ceil(n * ratio / 100)` is the exact integer value.

### CampaignReports and the code

The module extends `RunCampaigns`: `JobStep` is a step of the job, and `inbox` collects the
messages it sends, each with the campaign email that `SendEmail` passes as its tag. `happened`
is what the recipients did, `calls` the events the email service has yet to report, `log`
is `campaign_log_tab`, `report` a GetCampaign request between two of its queries.

| Action | Code |
|---|---|
| `Happens` | a recipient opens a message or clicks a link in it: the service will call |
| `LogEvent`, `LogEventFails` | `OnEmailAction`; on an error the row may be there all the same |
| `GetCampaign`, `CountTotalUniqueOpen`, `CountClicksByLink`, `GetAvgOpenTime`, `EndReport` | the loop of `GetCampaign` over the campaign's emails, one query per step; any of them may fail |

`CountClicksByLink` does what `GroupBy` does: all groups are scanned into the one object the caller
passed, so the list is the group scanned last, as often as there are groups. That the service calls
again when it is answered an error is an assumption about the service. Events the handler does not
support and calls without a tag leave no trace and have no action. Of the answer only the
results are modelled; status, segment and sender do not enter them.

### RunFileUploadTasks and the code

The process, the status goroutine and the writes are those of the other job. Of the
worker: `Prepare` (tenant, tag, file), `SetRunning`/`CopyRow`/write, `Split` (all rows are formatted
before one is written) or `SplitPanics` (the report of a bad value reads the second row, and there
is none), the loop with `TakeSuccess`, `TakeError`, `Tick`, `NothingReady`, then
`AddRow` row by row, `Complete`, `Continue`. Of the bulk indexer, which is a library, what
`queryRepo.BatchUpsert` hands to it: `RowWritten` and `RowRefused` are the callbacks, which drop
the result when `upsertResChan` is full; `FlushFails` is a request that fails as a whole,
for which the library calls no callback. `SizeOf` is the uint64 arithmetic of
`countRows - 1`; `Wrap` stands for 2^64 and is only required to exceed the rows of a file.

### SessionCache and the code

`rows` is `session_tab` (ids in the order of creation, `owner` their users), `byToken[s]` and
`byUser[s]` the two families of keys of the cache of server `s`. `ReadRows`, `Flush`,
`SetTokenKey`, `SetUserKey`, `RefreshDone` are `refreshCache`, one step per access, in the order
of the rows; `DeleteRows`, `LookUpUser`, `DropUserKey`, `DropTokenKey` are `DeleteByUserID`;
`ExpireToken` and `ExpireUser` the time to live; `Restart` a process that ends and is
started again, with an empty cache, and serves nothing before its first refresh. The expiry filter
of `getMany` lets every session pass and is modelled so. `cleaned` and `gone` are history:
the sessions a log out should have ended at its server, and the sessions that had no row when the
cache was last filled.

### TenantDomain and the code

`row` is the row of one tenant, `senders` the keys of `sender_tab`. The cache of a server and the
requests under way point to `*entity.Tenant` objects. What matters of a pointer is who shares
the object: `alias[h]` is the set of holders of the object that holder `h` (a server's cache or a
request) points to, and `tenant[h]` what it holds, the same for all of them. No
object has a name, so states that differ only in names are one state. `registered`,
`authenticated` and `serviceSenders` are what the email service has been told.

| Action | Code |
|---|---|
| `CreateDomain`, `UpdateDnsRecords`, `CreateSender` | a request comes in; the middleware's GetByID gives it the cached object, or one of its own on a miss, which it does not cache |
| `RegisterDomain` | the email service's CreateDomain; the call may be carried out and still return an error |
| `ReadConfig`, `Authenticate` | GetDomainConfig and AuthenticateDomain, whose error counts as not verified |
| `UpdateTenant` | `Tenant.Update` on the shared object: fields that are there, the others left alone |
| `Marshal`, `WriteRow`, `SetCache` | `tenantRepo.Update`: copy, UPDATE, cache |
| `CheckSender`, `BuildEmail`, `CreateServiceSender`, `InsertSender` | CreateSender: guard and look-up, the address from the object as it is then, the service, the insert |
| `ReturnsError` | a failed call or a refused guard |
| `ReadRow`, `SetEntry`, `Expire`, `Restart` | `refreshCache`, time to live, a process that ends |

What is abstracted: the DNS records go where the domain goes; the two keys of the cache (id and
name) hold one pointer and are set together; Flush and the set that follows are one step,
because a request that finds no entry in between is one that comes after `Expire`.

### Accounts and the code

One tenant and its users. `tenant`, `row`, `invited` and `session` are the tables as committed;
`outside` what CreateTenant makes outside the database; `outbox` and `mailed` the mails with
activation links. `alias` and `user` are the cached users, shared by pointer as in `TenantDomain`, one
holder per key of a server's cache (id and username) and one per request. `req[r]` is a request with
the image of the row its transaction has written: other transactions see it at the commit.

| Action | Code |
|---|---|
| `CreateTenant`, `MakeOutside`, `InsertTenant`, `CreateStore` | `CreateTenant`: the email service's domain, the folder, the row, the index, in that order inside one RunTx; what is made outside stays when it rolls back |
| `CreateUsers`, `InsertUser`, `InsertActivation`, `CommitUsers` | `CreateUsers`, on its own or nested in CreateTenant, with a password or without; emails that the cache or the table has are refused (`EmailTaken`); unique keys, and rows that make another transaction wait |
| `Queued`, `SendInitMail` | the goroutine that mails the links starts when CreateUsers' own RunTx returns, which is before the commit when it is nested |
| `InitUser`, `UpdateObject`, `Marshal`, `WriteUser`, `SetCache`, `LogInAgain`, `CommitInit` | `InitUser`: the Pending user from cache or row, `User.Update` on the shared object, copy, UPDATE, the cache inside the transaction, log in by username, the session, the commit |
| `LogIn` | the user the cache or the table has under the name, `ComparePassword` |
| `ReadUsers`, `Flush`, `SetEntries`, `Restart` | `refreshCache`; rows come by descending id (`repo/orm.go:169`), so of several users with one name the one with the lowest id is left in the entry |
| `ReturnsError` | any step fails, the transaction rolls back, objects and caches stay |

What is abstracted: a CreateUsers request has one user, since those of one request share its fate; the
roles that go into the same transaction; the cache's entry by email, which comes and goes with the
one by id. Of a trial account (`handler/account.go`) the tenant with a founder who has a password
and the log in are CreateTenant and LogIn of this module; the samples it adds are left out.

### Roles and the code

`role` is `role_tab` as committed, for one tenant; `alias` and `object` the cached roles shared by
pointer; `req[r]` an UpdateRoles call with the rows its transaction has written; `given`
history: the actions that somebody who was entitled to edit roles has given to a role.

| Action | Code |
|---|---|
| `CreateRole` | one INSERT, which leaves the cache alone |
| `UpdateRoles`, `ChangeRole` | the caller passes the middleware (`Allowed`), the roles come from cache or table, `Role.Update` changes each object before the transaction begins |
| `Marshal`, `WriteRole`, `Commit`, `CacheAgain` | inside RunTx copy, UPDATE, cache role by role; after the commit UpdateMany sets the cache once more |
| `Answer` | success without a change ("no changes detected", which is also what the request after a failed one gets), or an error; nothing in memory is undone |
| `ReadRoles`, `Flush`, `SetEntries`, `Restart` | `refreshCache`, a process that ends |

A request without actions clears them, as in the code. Two transactions that wait for each
other's rows end in `Answer`, which is the database's deadlock detection. Not modelled: one id twice in a
request, and a reader that sees a slice while it is being replaced.

### SegmentQueries and the code

`tags` and `segments` are the tables, `docs` what a search sees of the documents (the delay until a
written document is searchable is part of the time before `Write`), `cache` the distinct
values of each tag in one process, `download` a caller who follows the cursors. Handlers that only read
are operators: `ValidQuery` is the validator of criteria, `Found` the Elasticsearch query built from a
tree and what it matches, `CountUd` and `PreviewUd` the counts.

| Action | Code |
|---|---|
| `CreateTag`, `InsertTag`, `CreateSegment`, `InsertSegment`, `InsertFails` | look the name up, validate, insert under the unique key; `ToSegmentModel` marshals the criteria, whose empty lists the JSON omits |
| `Write` | a row of an upload task, if its value can be formatted, reaches the index |
| `SearchTagValues`, `SetTagValues`, `Expire`, `Restart` | GetDistinctTagValues: cache, aggregation, cache |
| `OpenScroll`, `NextPage`, `RepeatedCall`, `CloseDownload` | `Download` and its cursor; a scroll call the client repeats after a lost answer |

The recursive functions of the code over query trees are recursive functions over the set
`Queries`. `given` says which of the two lists the JSON of a query has, `nulls` which of them has a null
element. A null sub-query is valid in the code and a null lookup too; a query with one anywhere inside
it makes `Count` answer `NoAnswer`, the panic of the handler. A row of `segment_tab` is read back
without its empty lists: `omits` is the mark of criteria that come from a row, and `Given` what lists
they have then. Values and literals are integers; those in `Words` stand for text that is no number and
`Atoi` refuses them. A Str tag's field is a keyword: `Less` compares its values by `TextOrder`, those of
the other tags as numbers. Not enumerated: a page size of 0, arrays as literals, operators the
validator refuses. The enumerated values of a tag (`tag.go:168`) are never
enforced and not modelled.

## 3. Runs

| Run | Question | Instance |
|---|---|---|
| `campaign_serial` | TypeOK, AtMostOnce, CompleteMeansAttempted, and DeliverySpec: every step of the job is a step of `CampaignDelivery` or invisible to it; NoEventLost, ResultsOfClaimed, OpensReported, ClicksReported of the reports | one campaign of three emails (34, 33, 33), two processes one after the other, segments of 0 to 3 users, pages of 2, batches of 2; two recipients who open, one who clicks, two links, two events, two rows of the log |
| `campaign_live` | PendingMeansUnsent, NeverPendingAgain, and RunEnds: a process that is not killed ends | two campaigns (50, 50 and 33, 33, 34) on one slot of the semaphore, a status channel of one, segments of 0 and 1 |
| `campaign_grouping` | violated: a bucket may start past the end of the segment and the process panics | a segment of one, three emails (33, 33, 34) |
| `upload_safe` | TypeOK, SuccessMeansIndexed, ProgressHonest, InvalidWritesNothing with two processes that overlap | one task, files of 0 to 2 rows, one result slot |
| `upload_live` | EndsOrUnanswerable: a process ends unless a result was lost or the size wrapped around | one task of 0 to 3 rows, batches of 2, two result slots |
| `upload_success` | violated: a finished task may go back to Running | one task of one row |
| `session_servers` | TypeOK, LogOutIsImmediate, RefusedAfterRefresh, RefusedForGood | two servers, one user, two sessions, one log out at a time |
| `tenant_requests` | TypeOK, SenderOnOnlyDomain, SendersBacked, FlagEarned, DomainKept | one server, two requests at a time, two domains, one sender |
| `tenant_unverified` | violated: a sender at a domain nobody authenticated | one server, one request at a time, two domains |
| `account_requests` | TypeOK, TenantComplete, MailedTokenKnown, SessionEarned, LogInByName, ActivationKept | one server, two requests at a time, two emails with one local part, two passwords |
| `role_requests` | TypeOK, ActionsGiven, and RolesConverge: when the requests end, the caches come to agree with the table | one server, one request for Admin and a created role, one for the latter alone |
| `segment_index` | TypeOK, OneRowPerName, CountIsMeaning, DownloadComplete, DistinctWasStored | one tenant, two tags, two users, values 2 and 10 (in text order 10 comes first) and a literal that is no number; criteria without a list, nested, with a null, with both lists, and nested too deep |

The violated properties quote the comments they come from; `PROJECT.json` has them under
`findings`:

* `GroupingTotal`: every share is rounded up and `pos` advances by the rounded share, so with
  ratios 33, 33, 34 and one user the third slice is `uds[2:1]`.
* `SuccessKept`: the status goroutine of the upload job writes a report that waited after the
  worker's last write.
* `SenderOnVerifiedDomain`: CreateDomain replaces a verified domain and leaves `IsDomainValid`
  true. `SenderOnOnlyDomain` is what remains true: it is about tenants that had one domain only.

### Why the bounds are enough

* One campaign or task: campaigns share only the semaphore and `statusChan`, which only RunEnds
  depends on, and that run has two. The theorems are for any number.
* Two processes: a property of a row relates a process to one before it or beside it.
  `campaign_serial` has one process after the other and `campaign_live` a single one, since two that
  overlap with two campaigns each are more than it can enumerate; that overlapping ones keep
  PendingMeansUnsent and NeverPendingAgain is proved, and AtMostOnce is not true of them.
* Segments of 0 to 3 with pages and batches of 2 have empty, partial and full pages and batches,
  an empty bucket and a cut-off one. Three emails are
  the smallest campaign whose rounded shares exceed the segment, whichever of them is the larger.
  Their buckets hold up to two users, so a bucket is one batch; that a second batch of a bucket starts
  where the first ended is part of the theorems, which are for any sizes.
* Events and reports fall between runs of the job (`ReportsDuringRuns` is FALSE in the instance). What
  a query could read during a run is also read right after a crash at that point, and a
  process may crash at any point; a report may begin before a run and go on counting after it. A
  process that would find no Pending campaign is not started (`EmptyRuns` is FALSE): it would touch
  nothing that the service or a report sees. `campaign_live` has such runs. Two
  events suffice for an open and a click, two opens of different times, two links, and a row logged
  twice.
* Fewer result slots than rows make callbacks find the channel full; a batch smaller than the file
  makes results arrive between batches.
* Two sessions of a user are enough for the cache to hold one it does not find by the
  user's key; a log out and a refresh are the two actors that meet in `DeleteByUserID`. Two log outs at
  once are covered by the theorem.
* A tenant: one row and one cache entry, which no other tenant touches. Two domains let one
  replace the other; two requests of one server share the object. Several servers are
  covered by the theorems.
* Accounts: two emails with one local part are two users with one name; two requests are two
  activations with one token, an activation and a creation, or two tenants created at once.
* Roles: two requests whose lists overlap in one role share its object, and one of them has a
  role written and another to write when it fails.
* Segments: two tags and two users with one of two values each give every
  combination a clause of two parts can tell apart; the text order of the two values is not that of the
  numbers; pages of 1 and 2 for up to two users have full, partial and empty last pages, and one call
  is repeated (`MaxRepeats`); one bucket for two values makes the aggregation cut. `MaxQueryDepth` is 2
  and `Million` 10, so that criteria too deep and numbers too large occur.

`CHECK_DEADLOCK FALSE` is set for the jobs alone: a job is a batch process, and when every
process has ended nothing is left to do.

### Fairness

* Weak fairness of each worker, of the status goroutine, of `TasksDone` and of the launching loop:
  the Go scheduler runs every goroutine that can run. Every call either returns or fails.
* Upload: strong fairness of taking a result, since a Go select with several ready cases picks
  one at random; weak fairness of the ticker and of the indexer, which flushes on
  an interval.
* Sessions: only the expiry of entries, which the clock brings. No fairness is assumed of the
  refresh: its query may fail for ever.
* Roles: weak fairness of the refresh of each server: its ticker fires for ever, and
  RolesConverge is about a database that is not down for ever. None of the handlers:
  RolesConverge starts from requests that have ended.
* Nothing makes a process start, crash, or a user log in or out.

## 4. Proofs

Every safety invariant and action property that a run checks is also a theorem, and so is the
refinement of `CampaignDelivery`. The theorems hold for any values of the constants that satisfy the
named assumptions, which TLC evaluates on every run:

| Assumption | What it says, and why the code justifies it |
|---|---|
| `RunCampaigns!RatiosAssumption` | one to four ratios that add up to 100, what `CreateCampaign` accepts |
| `BoundsAssumption` of `RunCampaigns`, `RunFileUploadTasks` | capacities, page and batch sizes are positive; `Wrap`, which stands for 2^64, exceeds the lines of a file |
| `CampaignReports!ReportsAssumption` | who opens or clicks is a recipient; times are positive; no link is the absence of one |
| `SessionCache!BoundsAssumption` | a bound on the sessions is a number |
| `TenantDomain!NoneAssumption`, `HolderAssumption`; `Roles!RolesAssumption` | names are distinct; roles 1 and 2 are those every tenant starts with; an UpdateRoles call names at least one role |
| `Accounts!AccountsAssumption` | names are distinct, and so are the keys of the cache: an id is cached under tenant 0, a name under the tenant's id (`repo/user.go:115-117`) |
| `SegmentQueries!BoundsAssumption`, `QueriesAssumption`, `NestingAssumption` | values are integers, users finitely many; a literal that is no number is a string; criteria have the shape of the JSON they are decoded from, so that no query is inside itself |
| `SegmentQueries!TextAssumption` | of a value and a literal that differ exactly one is the lesser as text |

**Types.** That of `RunCampaigns` shows in passing that the loops stay inside `uds` and
`emailBuckets`. Those of the other modules hold only together with more: that nothing names a
session that was not created yet (`SessionCache`), that pointers lead to objects and a list still
to be done is not empty (`Roles`, `Accounts`), that the email a report counts is one of the
campaign's (`CampaignReports`).

**PendingUnsent, PendingIsLeftForGood.** Neither is inductive: a row leaves Pending because of
what a goroutine copied long before. `ClaimInv` says what every pending write carries: the
snapshot of any UPDATE in flight has a claimed status; from `writeRunning` on the shared object
has one; and past its first successful UPDATE a worker is one whose row has left Pending. It
holds with overlapping processes, since it is about writes, not about who makes them.

**MailedOnce, ImplementsDelivery** (processes that do not overlap). `LayoutInv` says that the
buckets are consecutive slices of at most `MaxSegment` users and that a sending worker is inside one.
`FreshInv` says that nobody at or past the cursor of the only process's worker has a
message, and nobody at all before the worker sends. Every worker step `Advances`: it keeps the
layout, moves the cursor forward only, and never goes back to where nothing was sent. Starting a
process needs `PendingMeansUnsent`. A post then goes to somebody new, which is `Deliver`; by
`ClaimInv` the only other visible step is a row that leaves Pending, which is `Claim`. With
overlapping processes AtMostOnce is false, and the code has nothing that would prevent it:
`GetPendingCampaigns` marks no campaign as taken. That a process exits when its status goroutine
has stopped is treated like its death: its memory is cleared and the rows stay.

**CompleteIsAttempted** (any processes). What a row shows was computed by a worker and may have
been copied twice and written by somebody else since, so `CompleteInv` says it of every copy: the row,
the shared object, the snapshot of each UPDATE in flight (`RowTrue`). Why the worker's 100
is right takes the rest of it, `Covers`: the buckets are consecutive, start at 0, and hold at least the
share of their ratios (`Consecutive`), so that with all of them, whose ratios add up to 100, the last
one ends where the segment does; everybody before the cursor was tried; the count of a bucket
never exceeds the end of its batch, so that a progress of 100 in the middle means that the batch ended
the segment. A failed call counts the rest of its batch as tried, which by `Layout` is at most
`BatchSize` long. Nobody who was tried is forgotten (`AttemptedGrows`).

**NoEventIsLost, ResultsAreOfClaimed, OpensAreReported, ClicksAreReported** (reports). `EventsKnown`
traces a row of the log back to a message, and by NeverPendingAgain to a campaign that is claimed for
good. A report reads while the log grows: `ReportGrows` keeps each of its counts between that of the
log it began with and that of the log now, and says that what has not been read is empty. The average
is the rounded quotient of a sum, which lies between the least and the greatest time for any number of rows
(`SumBounds`, `RoundedQuotient`). A step of the job leaves events and report alone (`JobSteps`), so the
theorems of `RunCampaignsProofs` hold of the composition.

**SuccessHolds, ProgressHolds, InvalidHolds** (uploads). `UploadInv` has three parts. `CopiesTrue`:
every copy of a row, in whichever process, claims Success or a progress only if the index bears it
out; since the index only grows, a stale copy stays true. `WorkerInv`: a worker that has
not given up counts no more successes than there are rows it handed out that are neither in flight nor
lost and that the index holds (`Confirmed`); a dropped callback or a failed flush moves rows
to `lost` and never counts one twice. `IndexTrue`: only rows of the file are in the index,
and none of a file with an unusable row. Success is written when count and size agree, and then
the confirmed rows are all rows.

**RefusalHolds** (sessions). Ids are never reused, so a session without a row stays without
one (`DeadStayDead`); what the refresh still has to set was in a row when it
read them, and what it set since its flush was too.

**LogOutHolds** (sessions). `LogOutInv` has five parts: cached entries belong to
their user (`OwnEntries`); a log out that is under way has deleted what it is after
(`SomeDeleted`); the refresh sets each session once (`SetOnce`); a token that is cached has the
user's key beside it unless the refresh or a log out is between the two (`KeyCoversToken`); what was
cleaned does not come back (`CleanedStayOut`). The order of expiry, the user's key after
the token's, is what `KeyCoversToken` rests on.

**FlagHolds, KeptHolds, SenderHolds, BackedHolds** (tenants). One tenant exists in many copies:
the row, the objects caches and requests hold, what a refresh has read, what a
request is about to write. A statement about the row alone is not inductive, since any of
these may become the row. `Sound` says of a copy that the service knows its domain and that a
raised flag comes with a domain and an authentication; `CopiesSound` says it of every copy.
`AllReady` says what a request has made sure of at its place: the object it holds and the
image it is about to write have a domain (which is DomainKept), the flag it is to raise was
answered for, the sender it inserts was created. `SendersSound` relates `senders` and
`serviceSenders` to what the service knows. That copies share objects does not weaken
the argument: a change of one object is the same sound change for all its holders.

**TenantHolds, MailHolds, EarnedHolds, LogInHolds, ActivationHolds** (accounts). `AccountsInv` says
of every copy of a user, in the row, a refresh, a cached object or the image of a request, that its email
is that user's and never changes and that its password was chosen for that user (`CopiesTrue`);
of pointers that the holders of an object are one set that sees it alike (`Pointers`); of the cache that
an object is under its own id whenever it is under its name (`KeysTrue`); and of each handler that
it has what its next step relies on (`CreateSound`, `InitSound`): what exists outside when the tenant's
row is inserted, that the user it inserts is nobody's yet. LogInByName and ActivationKept follow from it
step by step, since what a rolled back transaction leaves in memory is true all the same.
MailedTokenKnown needs `FoundingSound` besides: requests that found the tenant go past the index one at
a time, one that fails leaves the index behind and so stops the others, and until then only the
mail of the request itself may be ahead of the activations.

**GivenHolds** (roles). As for tenants, the table alone is not inductive: any object, refresh, image or
list of a request may become the row. `CopiesGiven` says of all of them that somebody entitled gave these
actions to that role; `PointersSound` and `RequestsSound` keep an object from being
changed for another role, or after its request has ended. The middleware's check is sound
because the caller's own cached role is one of the copies.

**OneRowHolds, CountHolds, DownloadHolds, DistinctHolds** (segments). The handlers look a name up,
validate, and insert later; `SegmentsInv` says that what a request holds in between is still right
when it goes on: tags are never removed and keep their types, so accepted criteria stay valid
as they were sent (`ValidKept`). Read back from the row they are valid exactly when no query in them
has an empty list and nothing else (`ReadAgain`). Given valid criteria without a null the Elasticsearch query selects what they mean, for trees of any
depth (`FoundIsMeant`). What a scroll has sent and has yet to send are disjoint parts of what
matched (`ScrollSound`), and every cached list was written (`ValuesWritten`).

### In place of induction

The provers cannot instantiate a theorem that takes an operator, such as the rule of induction. Where an
argument goes over numbers or trees the proof takes a least counterexample, which exists because `<` on
the naturals is well founded (`SmallestExists`, `LeastExists`), or for trees because of
`NestingAssumption`, and shows that there is none. The definitions are recursive functions for that
reason: `TotalTime` sums over sets of rows, `ValidQuery` and `Found` go over the queries.

### Only model-checked

RunEnds, EndsOrUnanswerable, RefusedForGood and RolesConverge are liveness under fairness, which is
outside the prover's reach, and are checked by TLC on the instances above. So are the three
violations, which are statements about one instance.

## 5. Not modelled

* `user_role_tab`, its cache and refresh, and the assignment of a role (`repo/user_role.go`,
  `handler/user.go:427-459`): in `Roles` a caller may hold any role, which is all that ActionsGiven and
  RolesConverge need; that a user has the role that was assigned is not covered.
* Email templates, the listings of users, tenants, segments and campaigns, router, field
  validation, configuration, logging: single reads and writes, sequential, without state
  of their own, or pure I/O.
* The later steps of a trial account (sample tags, segment and templates): creations one after the
  other, each of which may fail and leave those before.
* Kafka (`pkg/mq`): not wired into either binary.
* Data races on the shared `*entity.Campaign`, `*entity.Task` and the cached objects are modelled at the
  granularity of one field update and one copy of the row: torn reads of a single word do not
  occur on the platforms Go supports.

## 6. Plan

The plan of this development, the job first and then the handlers around it, is carried out: the
components above have their models, runs and theorems, except for what section 5 lists. What could
follow:

1. Abstract specifications for the other components in the manner of `CampaignDelivery`, such as a
   session table without caches, with the refinement proved.
2. User roles: the assignment of a role, its cache, and the middleware on top of both.
3. Two servers in the instances of `Accounts` and `TenantDomain`, and two overlapping processes in that
   of `campaign_live`, which only the theorems cover now.
