# EntitleHub: a TLA+ model of the licensing and AI billing back end

EntitleHub is a multi-tenant back end (Rust, Axum, PostgreSQL, Redis) that
licenses desktop and web applications and resells AI calls: it binds devices to
licences and subscriptions, issues client sessions, keeps a prepaid wallet per
customer and bills AI calls against it, hosts what customers make with them,
publishes signed releases and scripts, and sends mail from an outbox. This
directory holds TLA+ modules of its stateful parts, the TLC configurations that
check them and proofs checked by TLAPS. Paths below are relative to
`backend/src/modules/` unless they say otherwise.

## 1. Inventory

### Components, their state and operations

| Component | State | Operations | Module |
| --- | --- | --- | --- |
| AI billing tables (`ai/gateway.rs`, `ai/jobs.rs`, `ai/admin.rs`) | `ai_wallets`, `ai_usage_records`, `ai_wallet_ledger_entries` | reserve, capture, release, refund, adjust, set quota, freeze | `AiWallet` |
| Synchronous gateway (`ai/gateway.rs`) | handler locals, row locks | chat, image, video and embedding calls | `AiGateway` |
| Generation jobs (`ai/jobs.rs`) | `ai_generation_jobs`, worker locals | create, claim, poll, cache, capture, fail, retry, cancel, refund | `AiJobs` |
| AI catalogue (`ai/admin.rs`) | `ai_providers`, `ai_models` | create, update | `Catalogue` |
| API keys (`ai/api_keys.rs`, `server_api.rs`) | `ai_api_keys`, `server_api_keys` | create, update, revoke, authenticate | `ApiKeys` |
| Licences, subscriptions (`license/`, `subscription/`) | one row each | revoke, suspend, resume, renew, cancel, reset devices | `ClientAccess` |
| Devices and blacklist (`device/`) | `devices`, `device_keys`, `device_blacklist` | bind, unbind, blacklist, lift, rotate the key | `ClientAccess`, `ClientSdk` |
| Client sessions (`client_auth/`) | `client_sessions`, `client_refresh_tokens` | activate, login, refresh, logout | `ClientAccess` |
| Signature check, rate limiter (`client_auth/signature.rs`, `../rate_limit.rs`) | nonces and counters in Redis | check, count | `RequestGuards` |
| Customers (`customer/`, `client_auth/password.rs`, `client_auth/email_verify.rs`) | `customers`, one-time tokens | create, disable, reset, verify | `Customers` |
| Administrator sessions (`auth/`) | `admin_sessions`, refresh tokens, one-time tokens | login, refresh, revoke, change and reset of passwords, verification, clean-up | `AdminSessions` |
| Team, roles, second factor (`team/`, `iam/`, `auth/mfa.rs`) | members, roles, invitations, recovery codes | invite, accept, change roles, disable, enable, recover | `AdminAccounts` |
| Signing keys, applications (`application/`, `client_auth/access_token.rs`) | `signing_keys`, `applications` | issue, verify, rotate | `SigningKeys` |
| Releases (`release/`) | `releases`, files, download tokens | upload, publish, deprecate, check, download | `Releases` |
| Secure scripts (`secure_script/`) | `secure_scripts` | sign, publish, deliver | `SecureScripts` |
| Web assets, folders, media worker (`web_assets.rs`, `media.rs`) | rows, objects, a worker with a lease | upload, edit, move, process | `WebAssets`, `WebFolders` |
| Web works (`web_works.rs`) | works, publications, favourites, downloads | create, publish, withdraw, delete, favour, download | `WebWorks` |
| E-mail outbox (`outbox/`) | `outbox_events` | enqueue, claim, send, mark, retry | `Outbox` |
| Notifications (`notification/`) | channels | update, test, deliver | `Notifications` |
| System settings (`system/`) | `system_settings`, `email_settings` | update, test | `Settings` |
| Client SDK (`client-sdk/`) | session, envelope on disk, files | refresh, save, rotate, download | `ClientSdk`, `SdkDownloads` |
| Audit log, platform, cryptography, front end, deployment | - | - | see section 7 |

### How they interact

Components share tables and call one another inside transactions; there are no
messages apart from HTTP, mail and two queues that are tables. `main.rs` starts
one process with an HTTP server and four loops: the clean-up of administrator
sessions, the outbox worker, the generation worker and the media worker. Several
processes may share the database. The gateway, the jobs and the back office meet
in the wallet row; activation, login, refresh and the back office meet in the
device, session and token rows; modules that need a mail insert an outbox event
in their own transaction; the generation of an asset ends in a work; the SDK
meets the server in the refresh token and the device key.

### What is hard

- Transactions run at READ COMMITTED. Some reads are locked (`for update` on the
  wallet, on a usage record, on an API key), others are not (device counts, the
  number of owners, the folder tree, the version code of a script), and handlers
  act on them later.
- Row locks are taken in different orders: a refresh locks its token and then
  its session, a revocation the sessions and then the tokens.
- A provider call takes place between two transactions, and a handler may be
  dropped there; the web product has no transactions at all and sends statement
  after statement.
- Three queues hand out leases by time, and completions are updates by id, so
  workers that lost their lease still write.
- Money is held, captured, released and refunded by three independent code
  paths that must agree on the wallet and on the ledger.
- A refresh token that is presented twice at the same time, by tabs, by threads
  of the SDK, or by a process that came back from an old file.
- Redis keys and their expiry are set by two commands.

`PROJECT.json` lists these hazards one by one, with their lines and properties.

### What makes each component correct

- Billing: a wallet holds what its running calls hold; the ledger explains the
  wallet; limits hold at the moment of a reservation; a settlement always fits;
  one call per idempotency key; every reservation is settled. In one sentence,
  money that is aside for one call pays for no other (`PrepaidAccounts`).
- Jobs: a job is paid for at most once, only when it succeeds, refunded at most
  what was captured, and never left with its hold once the provider is done.
- Sessions, of clients and of administrators: one live refresh token, a reuse
  ends the session, what is revoked stays revoked, an old password opens nothing.
- Back office: concurrent edits are all kept, what is revoked or disabled stays
  so, there is an owner, a recovery code works once.
- Distribution: what clients get verifies, what is published does not change,
  a token serves one download, the SDK stays in step with the server.
- Web product: nothing is lost from view, a session makes one asset, a video is
  processed or fails, visibility and publication agree.
- Services: extra mails and alerts only after a fault or a lost lease, replays
  are stopped, sessions follow the customer.

## 2. Modules and their correspondence to the code

### AiWallet

The three billing tables and, as operators, the statements and transactions on
them. `wallet[c]` is the row of a customer; `usage[u]` the row of a call, whose
`held` is `held_minor` of `price_snapshot_json`, whose `day` is the day of
`created_at`, and whose `body` tells whether there is a response to replay.
`ledger[c]` keeps what the entries of a wallet add up to and the last
`*_after_minor` columns. `RowAllowed` is the check constraint of `ai_wallets`.
`SettleCharge` is `settle_charge`: a charge above the hold is paid from money no
other call has on hold and is otherwise cut. Amounts are unbounded integers: the
`i64` of the code is checked arithmetic that fails the request.

### AiGateway

One request is one handler: `Begin` (the idempotency look-up), `ReserveLock`
(the transaction gets the row lock and its checks pass or fail), `ReserveCommit`
(the writes, or the refusal by the unique index), `ProviderOk` / `ProviderFail`,
`CaptureUsage` / `ReleaseUsage`. `lock` is the row lock of a wallet between the
two halves of a reservation. `Abandon` stops a handler anywhere; an open
transaction is rolled back and nothing else happens. `AdjustAiWallet`,
`UpdateAiWalletQuota` and `UpdateAiWalletAccess` are the back office. `Midnight`
moves the clock that daily spending depends on; a transaction keeps the day on
which it began. The four handlers differ in prices and payloads only, so one
request stands for any of them.

### AiJobs

`call` is the handler of `create_server_generation_job`, `provider` the other
side, `job` the row, `worker` the processing of one claimed job, `op` the
request of an operator that has read a job row and will act on it. Each
`mark_job_*` statement is an operator of its own. `Claim` is the lease;
`BecomeDue` lets it run out at any time. `StepFails`, `CachingFailed`,
`WorkerCrash`, `LoseCall` and `OpFails` are the faults. `Cancel` is one
transaction that locks the job row. `attempts` is kept up to `MaxAttempts`, the
only value it is compared with. `billed` adds up capture and refund entries.

### ClientAccess

`grant` holds licences and subscriptions, `device` the devices by machine,
`session` and `token` the client sessions and refresh tokens, named after the
request that created them. Client requests take `BeginBind`, `BindCheck`,
`BindCommit` (activation and login) or `RefreshRead`, `RefreshMark`,
`RefreshCommit` / `RefreshRevoke`. A back-office request takes `AdminBegin` (the
checks before the transaction), `AdminWrite` (its first updates, which take row
locks), `AdminRevokeTokens`, `AdminRevokeSessions` and, after its entry in the
audit log, `AdminCommit`; operations that revoke nothing go from the first
updates to the audit log. Each revoking statement visits the rows that were
there when it began (`saw`, `ended`), after a wait for those that are locked.
`Marked`, `DeviceLocked`, `TokenLocked` and `SessionLocked` are row locks. A
refresh holds its token's row from `RefreshMark` to `RefreshCommit`, and a
revocation waits for it but does not see the token it inserts; a login locks
nothing and may insert its session after the statement that revokes sessions, or
after the commit on the strength of an old check. This is the READ COMMITTED
behaviour the properties are about. A field `overtaken` marks the sessions of
such logins: it is the one exception `LostAccessIsFinal` makes. The expiry of sessions and tokens, which only takes access away, is left
out.

### Outbox

`event` holds the rows, `worker` the claimed jobs a process has yet to finish,
`sent` what the mail server took. `causes` counts, per event, the faults and
lost leases that may send it again. A send that fails may have been taken by the
server all the same.

### PrepaidAccounts and AiGatewayAccounts

`PrepaidAccounts` is what the gateway promises: a customer has `money`, an open
call keeps an amount aside, and is paid for, from that and from money nobody else
keeps aside, or let go; the back office takes only what nobody keeps aside.
`AiGatewayAccounts` maps the wallet balance to `money` and the usage records to
calls. The gateway never adds up what open calls keep aside: it has the counter
`held_minor`, and `ImplementsAccounts` says that the counter does the work of
the sum in every step, those of stopped handlers included.

### AdminSessions

`member`, `session`, `token` and `otp` are the tables, `req` the handlers. A
refresh takes `RefreshRead`, `RefreshMark` (the row lock of the token) and
`RefreshCommit`, which also extends the session; a reuse ends session and tokens
in statements of their own. The revocations (password changes and resets,
`reset-admin-password`, the disabling of a member, the revocation of a session)
share `RevokeWrite` and `RevokeCommit`; the deletion of a tenant takes the locks
in three steps. `Wanted` is the row a transaction waits for and `DeadlockVictim`
is PostgreSQL's way out of a cycle. A field `late` remembers that a login was
under way when the password changed: it is the one exception the code leaves.

### AdminAccounts

Members with their roles, one custom role, and the second factor of one member.
A handler reads (`...Read`) and then commits. `overlap` records that a request
wrote what another had read; rules that the code checks before its transactions
hold only while it is false, the others (`RecoveryCodeUsedOnce`,
`DisabledIsFinal`) always.

### ApiKeys, Settings, Catalogue

Rows of the back office that are read with `for update` and written whole.
`keySaid`, `emailSaid` and `asked` remember what was last asked for, field by
field: no concurrent edit may get lost. `keyTrail` and `settingTrail` are the
entries of `audit_logs`. A request with an API key finds its row, notes the time
of use and, for applications, checks the subscription, in steps of its own.

### Customers, Notifications, RequestGuards

`Customers` is one e-mail address with its logins, one-time tokens and the
statements of `disable_customer`, under the lock modes of PostgreSQL (the insert
of a session takes a key share lock on the customer, which does not exclude the
update that disables). `Notifications` has channels under update, whose public
summary is that of the secret's address, or an administrator's own that came with
the configuration, and stays as it was when a secret comes without an address
(`Summary`, `Shown`); tests that trigger and resolve an incident in two HTTP calls, and an alert that Alertmanager
sends again until it gets a good answer. `RequestGuards` has a clock in half
seconds, since Redis expires to the millisecond while timestamps are whole
seconds, the nonce of a request that arrives several times, and one fixed window.

### SigningKeys, Releases, SecureScripts

A rotation is a transaction whose update takes the rows that were active when it
began, waits and looks again. An issuer of tokens reads the newest active key and
signs later. A handler of a release checks the row and its update asks for the
status again (`StillExpected`); the signature is over the row the transaction
returns. The update of a script signs before its transaction, which is why
`overtaken` is needed.

### ClientSdk and SdkDownloads

Threads share a session under a mutex; the server rotates tokens, detects a reuse
and rotates device keys; answers get lost, processes restart from the envelope
that was last saved. A request that was sent and given up, by an error or by the
end of the process, stays in `sent` or `sentKeys`, and the server may get to it
at any time (`ServerRefreshLate`, `RotateDeviceKeyLate`). An update is streamed
to the temporary file of its target, checked and renamed; `Compared` are the
downloads that go through `download_update_from_reader_for_current_version`, the
others call the public `download_update_from_reader`, which does not look at
versions. `DaysFromCivil` is the closed formula of `days_from_civil`,
checked against a calendar that counts days one by one.

### WebFolders, WebAssets, WebWorks

Handlers without transactions: a read and then statement after statement, and a
process may stop in between. An upload into a folder is two requests,
`GrantUpload` and `UploadIntoFolder`: the second files the asset where the upload
session says, and `orphans` are the folders deleted while a session was open for
them. `task` is a media task with the rows as it read them at the claim, the loop
of the worker or the task an upload spawns (`ClaimVideoAssetById`,
`SpawnedTaskEnds`); the lease is `updated_at` and `LeaseLapses` lets ten minutes
pass. Upload sessions and edits carry any metadata (`ClientMetadata`), which may
hold the keys the worker uses itself: a time of start, or the key of a thumbnail
(`thumb` is `"client"` then). A task whose processing returned an error (`err`),
that of a ready mark that was committed included, marks the video failed. `Descendants` is the smallest set that has the children of a folder and
theirs, which is what the recursive query of `ensure_folder_can_move` collects;
said without recursion, it can be proved about. (On a tree that racing moves have
closed to a cycle that query, a `union all`, may run for ever; the model lets it
answer, which adds behaviours and takes none away.) `raced`, `movesRaced`, `workRaced` and
`doubled` record overlaps where the code promises nothing for them.

### Instances and proofs

`MCAiGateway`, `MCAiJobs` and `MCClientAccess` give constants their values for
TLC. `MCOffice`, `MCWeb`, `MCDistribution` and `MCServices` check several modules
that share no rows in one run: a variable (`cast`, `webCast`) says which part a
behaviour is about, and the others stay in their initial state. `OfficeSpec` and
`SmallWebSpec` are `Spec` and `WebSpec` with a further bound on what is combined;
the theorems are about `Spec` and `WebSpec`. The modules whose
names end in `Proofs` hold lemmas and theorems: `AiWalletProofs`,
`AiGatewayProofs`, `AiJobsProofs`, `ClientAccessProofs`, `AdminSessionsProofs`,
`OfficeProofs` (about `MCOffice`), `ServicesProofs` (about `MCServices`) and
`DistributionProofs` (about `MCDistribution` and `MCWeb`, whose specification is
called `WebSpec` so that one module can speak of both).

## 3. Runs

| Run | Checks | Result |
| --- | --- | --- |
| `MCAiGateway` | `TypeOK`, `HeldIsRunningHolds`, `LedgerReconciles`, `SettlementFits`, `OneCallPerIdempotencyKey`, `ImplementsAccounts`, `ReservationRespectsLimits` | hold |
| `MCAiGatewayLive` | `ReservedIsSettled` | holds |
| `MCAiJobs` | `HeldIsRunningHolds`, `PaidOnce`, `OneSubmissionPerKey` | hold |
| `MCAiJobsLive` | `RefundsAreCovered`, `FinishedIsSettled` | hold |
| `MCClientAccess` | `TypeOK`, `OneLiveToken`, `ReuseEndsSession` | hold |
| `MCClientAccessOffice` | `BlacklistedIsListed`, `LostAccessIsFinal`, `CancelledIsFinal` | hold |
| `AdminSessions` | `TokensKept`, `PasswordsKept`, `NoTokenForRevokedSession`, `RequestsEnd` | hold |
| `MCOffice` | `TeamKept`, `MfaKept`, `OfficeKept`, `DisabledIsFinal` | hold |
| `MCWeb` | `FoldersKept`, `AssetsKept`, `WorksKept`, `AssetOutcomesKept`, `VideoSettles` | hold |
| `MCDistribution` | `KeysKept`, `PublicationKept`, `SdkKept`, `PublishedIsFixed` | hold |
| `MCServices` | `MessagesKept`, `GuardsKept`, `CustomersKept`, `EventSettles` | hold |
| `MCAiJobsLateCapture` | `HeldIsRunningHolds` | violated |

Properties whose names end in `Kept` are conjunctions of parts that are named
and explained in their modules; the type invariant of a part is one of them.
Deadlock is not checked: requests, operations and faults are bounded, so every
instance comes to rest.

### Bounds and why they are enough

- Gateway: three requests, because a limit or a hold can be broken by one call
  between the two halves of another while a third one holds money. The balance
  is 4, holds are 2 and charges 0 or 3: a charge can be below the hold, above it,
  and above what is free; two calls fit, the third is refused unless one is
  settled. The limit of the key and a quota of 3 refuse a second call. One
  midnight, one stopped handler and one operation of the back office.
- Jobs: two workers give every race of a lost lease, two jobs let one take the
  other's hold, two attempts reach `timeout_review`. With operators there is one
  job and one worker: their races are about one row. Three requests allow, for
  instance, fail-release, retry-cache and a refund that overlap.
- Client access: four requests are a login, two presentations of its token and
  a refresh of the next one. `MCClientAccessOffice` trades two requests for
  back-office transactions, two of which may overlap: two on a licence and a
  subscription, and a third where only the licence is in use (`OfficeNext`), since
  a device may be taken away, given back and raced for. Limits are one device.
- Administrators: the member starts with a session, its token and perhaps a
  one-time token, so three requests are two refreshes and a revocation, or two
  presentations of a reset token and a refresh; one row expires.
- Back office: three members are an owner, somebody who takes the role away and
  somebody who gets it; two or three edits are all a row can be raced for.
- Web: three folders are the smallest cycle a shallow check misses, and three
  requests are an upload session, the deletion of its folder and the upload; two
  uploads share a session and a batch, with one fault and one lapsed lease, so
  that with the tasks they spawn and the loop three tasks can race; a single video
  is edited as well and meets two faults (`InCast` keeps the two apart). Three
  requests on two works.
- Distribution: a key, its successor and a third; two handlers on a release; a
  session that refreshes twice, restarts from its envelope once, with a request
  still on its way, and logs in again; a device key and its successor; a good
  update, a corrupt one, and an old one with and without the comparison of
  versions; the calendar runs past 2100, which is no leap year.
- Services: two processes and batches of two events, so the second event of a
  batch can lose its lease while the first is sent; the clock passes tolerance,
  nonce and window; four attempts fill a window of two and the next one.

Symmetry is used only in runs without liveness, on sets whose elements the
specification never tells apart.

### Fairness

- `AiGateway!FairSpec`: weak fairness of the steps of a handler that has begun.
  The runtime polls it, the provider call has a timeout (`provider_timeout`) and
  PostgreSQL grants row locks in turn. Nobody has to send a request, and the run
  has no stopped handlers: those do leave their hold (section 5).
- `AiJobs!FairSpec`: the workers' loops tick for ever, time passes, handlers
  that have begun go on. Faults are bounded, which is the weakest assumption
  under which the code can finish. The provider need not finish: the property
  speaks of jobs whose provider has.
- `AdminSessions!FairSpec`: handlers that have begun go on, and PostgreSQL
  detects a deadlock (its `deadlock_timeout`).
- `OutboxFairness` and `AssetsFairness`: the loops tick and time passes; of
  these steps one is taken as long as there is one.

## 4. Proofs

Every theorem is `Spec => []P`, `Spec => [][A]_vars` or a refinement, and holds
for every value of the constants that satisfies the named assumptions of the
module (`WalletAssumption`, `GatewayAssumption`, `JobsAssumption`,
`AccessAssumption`, `AdminSessionsAssumption`, `AdminAccountsAssumption`,
`ApiKeysAssumption`, `OutboxAssumption`, `GuardsAssumption`,
`CustomersAssumption`, `NotificationsAssumption`, `KeysAssumption`,
`ReleasesAssumption`, `ScriptsAssumption`, `SdkAssumption`,
`DownloadsAssumption`, `FoldersAssumption`, `AssetsAssumption`,
`WorksAssumption`), which say no more than that amounts, limits, versions and
times are natural numbers, that ids of different tables differ, that some sets
are not empty and that reset tokens and requests that count are finitely many.
Each rests on an inductive invariant that TLC checked first on the instance of
the run.

**Sums** (the first part of `AiWalletProofs`). Holds and daily spending are sums
over sets of records. That a sum does not depend on the order in which `CHOOSE` takes the elements out is
proved by choosing a smallest subset for which the claim fails, with the
library's theorems on well-founded relations; then one element may be added
(`SumAdd`), removed or changed. The second part is what the statements of
`AiWallet` do to a row (`HoldRow`, `CaptureRow`, `BalanceRow`), to the ledger
(`RecordedChange`) and, transaction by transaction, to the tables
(`ReserveSound`, `CaptureSound`, `ReleaseSound`, `AdjustSound`, `SettingsSound`).

**Gateway** (`AiGatewayProofs`).

- `GatewayTypes`, `GatewayLedger`, `SingleCall`: types (no balance or hold is
  negative), the ledger, and one call per `Idempotency-Key`. They share `IInv`,
  which adds `RecordFollowsHandler`: a request has a usage record exactly when
  its handler is past the commit. Without it `Begin` could change the key of a
  request that already has a record.
- `HoldsAreRunning`, `SettlementsFit`: `held_minor` is the sum of the holds of
  running records, and a capture or release that is due passes the check
  constraint. `HInv` adds that what the first half of a reservation checked under
  the row lock is still true at its commit (`LocksProtect`) and that every
  wallet's holds are covered by its balance (`HoldsCovered`).
- `ReservationsRespectLimits`: at the commit of a reservation the wallet is
  enabled and the limits of customer and API key have room for it.
- `GatewayImplementsAccounts`: the refinement of `PrepaidAccounts`, action by
  action. A stopped handler is a stutter, for its record stays running.

**Jobs** (`AiJobsProofs`). `RefundsCovered` and `KeyReachesProviderOnce` hold
whatever operators do (`IInv`: records follow calls, stored jobs have records,
handlers have jobs). `JobsPaidOnce` and `JobHoldsAreRunning` assume
`RetriesOnly`: operators retry polls and caching, and neither cancel, release nor
refund by hand. The hypothesis is what the code needs, because
`MCAiJobsLateCapture` is the counterexample without it. `RInv` says that the
provider's final answer decides (`OutcomesAgree`) and what workers and operators
still know of the rows they read (`WorkersKnow`, `OperatorsKnow`).

**Client access** (`ClientAccessProofs`).

- `TypesAndForeignKeys`, `RotationIsExclusive`: `IInv` adds that two refreshes
  never hold the same token's row and that a token whose row is held is live,
  because `RefreshMark` checks it and revocations wait for the lock. A commit
  then replaces the only live token of the session by another.
- `CancellationIsFinal`: `StatusWriters` adds that a row has at most one writer
  and that, until it commits or is rolled back, the row is what its where clause
  matched; a writer never commits over a cancellation, however stale the check
  its handler made before the transaction.
- `ReuseIsDetected`, `BlacklistIsComplete`, `AccessIsLostForGood`: `AInv` adds
  what answered requests were given (`Answers`), that a device row has one
  writer, which knows the row (`DeviceWriters`), and `AccessInv`: a session that
  is open, not revoked and not overtaken has an active device, and a transaction
  that is past its look for sessions has found every such session of the devices
  it takes away (`UsedDevicesActive`, `SessionsFound`). So whatever takes the
  access away revokes the session in the same step (`RevokingStep`,
  `RevokingKeeps`). `LocksExclude` says that a refresh and a revocation
  never hold the same token's row.

**Administrators' sessions** (`AdminSessionsProofs`): `SessionsHaveOneToken`,
`NewPasswordEndsSessions` and `RevokedSessionsGetNoToken`. The invariant says
what the row locks are worth: a refresh that has marked its token finds it live
at its commit (`RefreshHolds`), a revocation that has updated the sessions of a
member has seen them all but for the one it spares and those whose login came
late (`RevocationsSeeAll`).

**Back office** (`OfficeProofs`): `TeamIsKept`, `SecondFactorIsKept`,
`OfficeIsKept` and `DisabledForGood`, which is every property of the run
`MCOffice`. `OfficeInv` has a part per module. For members and second factors
(`AccountsInv`) nothing is locked: `RequestsKnow` says that, as long as requests
come by turns, what a request read is still true at its commit. For API keys,
settings and the catalogue (`KeysInv`, `SettingsInv`, `CatalogueInv`) an edit
holds its row's lock from its read on, so the row still is what it read, and the
trail of audit entries ends with the row.

**Services** (`ServicesProofs`): `GuardsAreKept`, `CustomersAreKept` and
`MessagesAreKept`, which is every safety property of the run `MCServices`.
`ServicesInv` has a part per module.

- Signatures: the nonce is there from its `SET NX` to the end of its life
  (`NonceStays`), so two copies that have both written it did so a life apart
  (`WritersApart`). Windows: the calls of one window have different counts
  (`CountsApart`), which bounds how many of them can be within the limit.
- Customers: a login that has read the customer knows its status and password
  unless it is marked overtaken (`LoginsKnow`), and between the revocation of the
  sessions and the commit of `disable_customer` every login is
  (`RevocationIsComplete`).
- Outbox: `Accounted` counts what may still happen together with what has: mails
  sent, plus workers that may still send the mail, plus one if the row may be
  claimed, are at most one more than the causes on record. Each action moves the
  three counts by amounts whose sum is paid for by a cause.
- Notifications: an update has the row it read until it commits (`UpdatesKnow`),
  so what it leaves out it writes back as it was, and the summary changes with the
  secret but for the exceptions `own` records;
  Alertmanager waits for one call at a time (`OneAwaited`) and a channel gets an
  alert at most once per call (`GotOncePerCall`).

**Distribution** (`DistributionProofs`): `KeysAreKept`, `PublicationIsKept`,
`SdkIsKept` and `PublishedStaysFixed`, which is every property of the run
`MCDistribution`. `DistributionInv` has a part per module.

- Signing keys: a rotation that has its rows finds them active at its commit
  (`RotationsKnow`). A rotation that began before a request took its time and is
  not through is one the request found under way (`OpenIsKnown`), so the key of a
  token was retired by a rotation that began no earlier than the token's time, or
  by one of those (`SignersHaveKeys` with `RetiredBy`): either it is published
  until the token expires, or the exception of `TokensVerify` applies.
- Releases: the token of an offer has been used by at most one download
  (`UsedByOne`), and its release was published (`OfferedWasPublished`).
- SDK: a refresh under way has the mutex and the manager's session
  (`RefreshHasMutex`), which is the one the server knows unless it came from an
  old envelope or the server has just answered (`TokenIsCurrent`,
  `AcceptedIsNext`). A download that did not overlap has the temporary file for
  itself (`Alone`).
- Dates: the eras of `days_from_civil` cancel out (`ErasCancel`), a year is as
  long as its months (`YearLength`), so the formula advances by one from each day
  to the next (`WithinMonth`, `EndOfMonth`, `EndOfYear`), up to any last year.

**Web product** (the second half of `DistributionProofs`): `FoldersAreKept`,
`AssetsAreKept`, `WorksAreKept` and `AssetOutcomesStay`, which is every safety
property of the run `MCWeb`. `WebInv` has a part per module.

- Folders (`FoldersInv`, which also says that an upload session leads to a folder
  that lives or is an orphan as long as requests take turns): a first group of lemmas says what making, moving and
  deleting a folder does to the descendants of any folder, for any tree
  (`PutIsShown`, `MovedIsShown`, `MovedIsAcyclic`, `RemovedFolder`). A request
  that has checked the tree still knows some of it whatever overlaps: the ids it
  names, and, as long as moves do not overlap, that its target is not below the
  folder it moves (`FolderRequestsKnow`). As long as nothing overlaps it knows
  all of it (`ChecksHold`). The second is what keeps every folder in view, the
  first what keeps cycles away when creations, deletions and filings race.
- Assets (`AssetsInv`): at most one upload has used up the session
  (`OneConsumer`) and an asset is the last step of its upload (`MadeByUpload`),
  so a session makes one asset; the bytes are stored before the row, and whoever
  put the bytes that are there now has either used up the session or was refused
  (`BytesAreStored`). A media task works on a video it has claimed, has stored
  the thumbnail it is about to announce, and read every edit that was quiet
  (`TasksKnow`); a video that was never claimed twice is in one pair of hands
  and still unmarked there (`OneHand`), which is why an outcome stays.
- Works (`WorksInv`): a work is made once and only a work that was made is
  published (`WorksAreMadeOnce`), its traces come in order (`TracesInOrder`). As
  long as requests take turns and none stops, visibility and publication differ
  only while a request is between its two statements, and there it knows the
  visibility it wrote (`WorkTurns`). Downloads are counted by the cardinality of
  the set of finished requests, one element at a time (`DownloadIsCounted`).

What only TLC checks is liveness under fairness (`ReservedIsSettled`,
`FinishedIsSettled`, `RequestsEnd`, `EventSettles`, `VideoSettles`), which is out
of the prover's reach. Every other property of every passing run is a theorem.

## 5. Where the code and its documents disagree

Kept as a run that ends in a counterexample (`findings` in `PROJECT.json` quotes
the lines):

- `MCAiJobsLateCapture`: a worker captures after a cancellation has released
  the hold, and the hold of another job is used up.

Properties that are stated in the modules but that the code does not keep, so no
run lists them; each fails in an instance like those above when it is added to
its configuration:

- `ClientAccess!DeviceLimit`: machines that activate at the same time exceed
  `max_devices`, which is counted without a lock (`device/service.rs:338`;
  `项目实施路线图.md:162`, "超过设备数不能激活。"); two machines show it;
- `ClientAccess!RevokedIsFinal`: a revoked licence that is suspended and then
  renewed is valid again (`license/admin.rs:395`; line 234 of the same file
  refuses with "revoked license cannot be renewed");
- `ClientAccess!ResetEndsSessions`: resetting the devices of a subscription
  revokes no session, because the rows are unlinked first
  (`subscription/admin.rs:352`; the back office reports the number of revoked
  sessions, `admin/src/utils/i18n.ts:171`);
- `ClientAccess!BlacklistEndsSessions`: a login whose session is inserted after
  `blacklist_device` has looked for the sessions of the device and before it
  commits keeps its session (`device/admin.rs:182`; `API接口文档.md:1315`, all
  client sessions and refresh tokens of the device are revoked). It has no access
  while the device is blacklisted and gets it back when the blacklisting is
  lifted. The same goes for a login that checked the device before the commit and
  inserts after it, and for unbinding and the reset of a licence; these are the
  sessions marked `overtaken`;
- `AdminAccounts!LastOwnerKept`: two owners who disable each other at the same
  time leave none (`team/admin.rs:476` counts before the transaction;
  `API接口文档.md:642`, "不能禁用最后一个 owner。").

Seen with the same modules and described here only:

- calls of two customers can together pass the daily limit of a model: the lock
  that protects the check is per customer (`ai/gateway.rs:1205`; the API document,
  line 2505, says that holds cannot exceed the limit);
- a gateway handler that stops while the provider works leaves its hold and a
  running usage record for ever (`Abandon`; the API document, line 3432);
- a job whose row cannot be inserted after the provider has accepted it leaves
  its hold and nobody polls (`ai/jobs.rs:2991`);
- a worker that polled before a cancellation sets the job to running or caching
  again (`ai/jobs.rs:3102`; the API document, line 2890);
- a fail-release that read the job before a worker captured it marks a paid job
  as failed (`ai/jobs.rs:2426`; the API document, lines 3325 and 3392);
- suspending a subscription always fails: its check constraint does not list
  `suspended` (`StatusAllowed`; migration `20260603121000`, line 18);
- a download token is consumed before the file is read, so a download that
  breaks off needs another update check (`release/client.rs:86`);
- a device whose answer to a key rotation is lost can sign nothing any more
  (`device/client.rs:114`, `keyLost` of `ClientSdk`);
- two moves that are checked before either is written can close a cycle of
  folders, which no list shows and on which the query of the next check does not
  end unless its target is in the cycle (`web_assets.rs:1853`, `movesRaced`);
- a folder that is deleted while an upload session is open for it gets the asset
  all the same, where no list of folders leads to it (`web_assets.rs:614` checks,
  `web_assets.rs:706` does not, and `ensure_folder_empty` does not count
  sessions; `orphans`);
- a folder or an asset that has a parent cannot be moved back to the root: a null
  in the request reads as an absent field (`web_assets.rs:325` and `:378`);
- a video that was marked ready becomes failed when the answer to that mark is
  lost (`web_assets.rs:62` and `:83`; `mark_video_asset_failed` does not look at
  the status);
- what clients write into the metadata of an asset is taken for the worker's own:
  a `thumbnail.storage_key` is what the download of the thumbnail reads
  (`web_assets.rs:2085`), a `processingStartedAt` holds the processing up for ten
  minutes, and digits beyond an `int` in `processingAttempts` make the claim, and
  that of the whole batch, fail until the metadata is edited
  (`web_assets.rs:1249`; `VideoSettles` assumes that a claim does not fail for
  ever);
- a refresh request that the SDK has given up may still use up the token of the
  envelope on disk, and the process that comes back from it is then taken for a
  thief (`client-sdk/src/session.rs:175`, `fromOldDisk`); a rotation that arrives
  late changes the key behind the client's back (`keyLost`);
- the public `download_update_from_reader` installs an older version if asked to
  (`client-sdk/src/update.rs:92`);
- the summary an administrator sees of a webhook can be one he wrote himself in
  the configuration, or that of an address the secret no longer has
  (`notification/admin.rs:637` and `:1007`);
- `audit_logs.created_at` is the start of a transaction, so the order of the log
  by time can differ from the order of the changes (`audit/mod.rs:214`).

## 6. Plan

The modules cover the stateful components and the safety properties are proved;
what is left is to join parts: a composition of gateway and jobs on the same
wallets, and of the one-time tokens with the outbox.

## 7. What is not modelled

- Configuration, router, error type, metrics, telemetry and the object store's
  client (`../config.rs`, `../router.rs`, `../error.rs`, `../metrics.rs`,
  `../storage.rs`) are wiring and I/O without protocol.
- Cryptography is taken to work: a signature verifies exactly what was signed.
- CSRF tokens and cookies are stateless. Capabilities, usage views, lists and the
  queries of the audit log change nothing.
- The front end and the deployment scripts are outside the back end.
- Tenants separate data by a column in every query, so one tenant is modelled.
- Prices, provider payloads and the parsing of provider answers
  (`ai/gateway.rs`, `ai/jobs.rs`) are data: any charge and any answer may come.
- The heartbeat and last-seen times only touch timestamps that no rule reads.
