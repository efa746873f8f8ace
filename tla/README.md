# Specifications of the server-management panel

TLA+ modules, TLC configurations and TLAPS proofs for the control logic of the
panel's Go back end (`backend/`): who may win a race, what a restart may lose,
what a poller may read, and what must happen in the end. Line numbers refer to
the sources beside this directory; `PROJECT.json` maps every definition to the
lines it stands for and lists the hazards each property is aimed at.

Short names used below, all under `backend/`: `guest_link_service.go`,
`user_service.go`, `project_service.go`, `dns_service.go` and the other
`*_service.go` files are in `internal/services/`; `main.go` is
`cmd/server/main.go`.

## 1. Inventory

The panel is one Go process (`cmd/server`) over one MongoDB database. A request
passes `routes` → `middleware` (JWT, the cached active check, guest cookies) →
`handlers` → `services`; a service changes rows and, through `internal/agent`,
the host (nginx, PowerDNS, certbot, systemd, Linux users). There are no
transactions: an operation is a sequence of single-document writes and commands,
and anything can interleave between two of them. Four kinds of actor run beside
the requests:

* goroutines started by a request (bulk jobs, deploy batches, imports, transfers),
* the deploy worker pool on its bounded channel,
* tickers (trash purger, guest sweep, token janitor) and debounce timers,
* boot-time recoveries, started as goroutines beside `app.Listen`.

| Part | State it keeps | Operations | Talks to | What is hard | What makes it correct |
|---|---|---|---|---|---|
| Guest links | `guest_links` rows; bind and session cookies | mint, open, re-open, check, logout, mailbox create/delete, sweep | mail service; ticker | two first openers; deadline test and claim apart; sweep against requests | one browser, one window, no session past the deadline by more than the window, a retired link stays retired |
| Account status | user row, the sites' vhosts, the domain rows, `authcache` | suspend, activate, update, trash, restore, delete, purge, check | domains, Linux users; ticker | cache filled with an answer read earlier; server switched before the row, its failures only logged; vhosts written for domains whose rows are gone | an inactive account is shut out within the TTL; sites follow the row; no vhost is left behind; the trash is emptied |
| Deploy pipeline | `deployQueue`, a mutex per project, working trees, service and deployment rows | redeploy, deploy all, webhook, pull, back-off, timeout | git, npm, systemd | pool and batches share a tree; a full queue; deadline before the last write; restart | one deploy per project, it builds what it reports, status rows tell the truth, all jobs end |
| Bulk domain upload, bulk SSL, Cloudflare sync jobs | a job row (status, items, counters, cancel flag), a goroutine | start, cancel, progress, finish, recover | domains, certbot, Cloudflare | a cancel against whole-row writes; expired contexts; discarded errors of reads and writes; recovery against live jobs | a cancel is not lost, counters add up, every job settles, an ended job stays ended |
| Cloudflare record sync | `dns_records`, Cloudflare's zone, debounce timers | add, update, delete, timer, sync | PowerDNS, Cloudflare | stale plan; re-armed timers; pairing of values | no edit missed, a sync converges, mail records survive |
| Sign-in and one-time codes | user row (lockout counter, refresh token, password), OTP rows | login, refresh, logout, change and reset of the password, request, verify, approve, complete, cancel a code | mail; account status | counters read, compared and written apart; unconditional rotation; two requests on one code | the lock comes in time; a code signs in once and where it was asked for; only an overtaken request acts on a row that has changed |
| Project import jobs | job row, goroutine, project and service rows, systemd units, ports | submit, provision, add each service, roll back, recover; remove a service or a project | git, npm, systemd, deploy pipeline | slug and port tests apart from their inserts; rollback by rows while units outlive them, its errors discarded | everything or nothing; a port is one service's; no unit without a row |
| Attached domains | `proxy_service_id` and `proxy_port` of the domain row, the vhost on disk, the service row | attach, detach, remove a service, change its port, issue a certificate | nginx, certbot | row and vhost in two steps, both from a service read earlier; errors past the checks discarded | the vhost proxies where the row says; no link to a removed service |
| Server-to-server transfers | a job row (status, steps, error count), a goroutine, the copied data | create, cancel, each step, drop, finish, resume at boot | the source over SSH, PowerDNS, cron | the duplicate test and the insert apart; a cancel heard only between steps; a resume from step one | one transfer of a source at a time; green means nothing failed; a cancel holds |
| Panel records of a transfer | users, projects, services, domains and their links, vhosts | mirror the accounts, copy the rows of a Linux user, attach aliases, heal vhosts and tenants; `bzpanel resync-users`, `heal-tenants` | the source over SSH; nginx | rows get new ids here; a pass that fails or stops half way; a pass beside another; steps that need rows of earlier ones | a sound pass converges to the source's accounts, tenants and attachments whatever went wrong before |
| Bulk delete confirmation | OTP row (code, attempts, used) | request, confirm | domains | read, test, then mark | the delete loop runs once per code |
| Transfer tokens | token row, `authorized_keys` line | issue, redeem, revoke, janitor | sshd | row and key change in two steps | a key works exactly while its token is live |
| Packages | `account_count` | create, delete, transfer, purge | accounts | paths that forget the counter | the count equals the accounts |
| Everything else (domains and their other vhosts, mail, databases, files, cron, firewall, backups, WordPress, monitoring, API tokens, CLI, front ends, mail suite, scripts) | rows and files of the host | one request, one command sequence | the host | I/O failure | tested, not modelled: see section 8 |

## 2. Modules

| Module | Models | Instance of / used by |
|---|---|---|
| `GuestLink` | `guest_link_service.go`, `middleware/guest_auth.go`, `handlers/guest_handler.go` | `GuestLink_proofs` |
| `AccountStatus` | `user_service.go`, `middleware/auth.go`, `pkg/authcache`, the purger in `main.go` | `Accounts_proofs` |
| `DeployPipeline`, `MCDeployPipeline` | the deploy part of `project_service.go` | `DeployPipeline_proofs` |
| `JobLifecycle` | the abstract promise of the job engines | instanced by the three below |
| `DomainBulkJob` | `domain_bulk_job_service.go`, `domain_bulk_service.go` | refines `JobLifecycle`; `DomainBulkJob_proofs` |
| `SslBulkJob` | `ssl_bulk_job_service.go` | refines `JobLifecycle`; `SslBulkJob_proofs` |
| `CfSyncJob` | the job engine of `cloudflare_sync_job_service.go` | refines `JobLifecycle`; `Cloudflare_proofs` |
| `CfRecordSync` | record edits in `dns_service.go`, the debounce in `main.go`, `reconcileDomain` | `Cloudflare_proofs` |
| `SignIn`, `MCSignIn` | `auth_service.go` | `Accounts_proofs` |
| `ProjectImport`, `MCProjectImport` | `project_import_job.go`; Provision, AddService, RemoveService, Delete of `project_service.go` | `Projects_proofs` |
| `AttachedDomains`, `MCAttachedDomains` | attach, detach and the rebuilt vhosts of `project_service.go`, `domain_proxy.go`, `app_helpers.go`, `ssl_service.go` | `Projects_proofs` |
| `TransferJob`, `MCTransferJob` | `transfer_service.go`, the suite step of `transfer_mailsuite.go`, the resume in `main.go` | `Transfers_proofs` |
| `PanelRecords`, `MCPanelRecords` | `transfer_panel_records.go`, `transfer_tenant_heal.go`, the rows made by the files step of `transfer_service.go`, `domain_proxy.go` | the step `records` of `TransferJob`; `Transfers_proofs` |

### How state and actions correspond to the code

The same conventions hold in every module. A MongoDB call, or a stretch of code
between two of them that no other actor can see inside, is one action; a
goroutine or a request in flight has a program counter (`pc`) and carries
exactly what the Go code holds in local variables across the call, stale or not.
Errors the code returns are actions that change nothing but the counter; a call
whose error the code drops is an alternative of its action (or an action beside
it) that goes on as the code goes on, with the step left undone. An operator's
action has no fairness. History variables are marked as such where
they are declared; no guard reads one.

**GuestLink.** `status`, `expiresAt`, `windowAt`, `binding` are the row.
`Verify` is the first call of the handler. `Redeem` then reads the clock once and
tests the deadline on the copy of the row `Verify` returned (`RedeemInTime`,
`RedeemTooLate`); the claim that follows (`RedeemFirst`) is the atomic
`FindOneAndUpdate` and takes its guard from its filter, which does not name the
deadline, so a claim may land after it. `RedeemTaken` is any error of the claim.
`Authorize` is the middleware together with `LoadForSession`; `CountMailboxes` and
`CreateMailbox` are the two halves of the cap, so passing the cap is reachable. A
lost answer is `NoSession`. A token, its hash and the cookie derived from it are
one value.

**AccountStatus.** One account with its domains: `site` is what nginx serves for
each, `listed` the domain rows. `Start` is the read and the early returns of an
operation, `List` its list of the domains, `ChangeServer` the vhosts and domain
rows, `WriteRow` the update of the row and `Invalidate` the dropped cache entry;
`Update` skips all but the write. `ListFails` goes on with no domains,
`ServerCallsFail` with any of the vhosts and rows untouched, and the row is
written all the same; `ActivateUnread` is `Activate` on any error of its read. The
vhosts of one operation are one step, as no clause tells their order. `trust` is
history: an operation that ran alone and whole makes it settled. `AskCache`,
`Query` and `Put` are `isUserAllowed`, whose clock is read before the cache and
whose entry is written after the query.

**DeployPipeline.** `queue` is the channel and `Queued` its `select` with a
`default`. `TryLock` is the worker's `TryLock`, `MarkPending` and `Requeue` its
back-off, `LockProject` the batch's blocking `Lock`. `Begin` … `StampService`
are `runDeployLocked` in the order of its database calls, for workers and batches
alike. `Expire` is the fifteen-minute context; it matters before the last two
writes, elsewhere it shows as a command that fails. `InsertFails` is the nil
result that is dereferenced: a worker recovers, in a batch the process dies.
Status `settled` stands for running or error.

**Job engines.** `worker` (or `job`, `pc`, `at`) is the goroutine with its
counters, the row is what a poller reads. They differ exactly where the code
differs: uploads write on a fresh context, SSL jobs write progress on the
worker's context and the end on a fresh one, Cloudflare jobs persist their own
copy and write even the end on the context that has expired. `Expire`,
`Restart`, `Recover` and the cancels interleave with every step. Any call may be
refused whatever its context (`Reaches` or `Refused`, `Succeeds` or `Fails`), and
the goroutine goes on as the code does: a look at the flag that fails reads as not
cancelled (`blind`), a mark, an outcome or a final write that fails is lost
(`unmarked`, `unrecorded`, `hanging`), a load that fails ends the run without a
word.

**CfRecordSync.** One name and type of one zone. `following` holds edits whose
row is written while PowerDNS has not answered; `hooks`, `armed`, `orphans`,
`entry` and `firing` are the debounce map, its timers and their callbacks;
`ProcessRestarts` drops them.
`ListRecords`, `LoadLocal`, `ApplyNext` and `Synced` are `reconcileDomain` call
by call; `Plan` is its pairing of missing and extra values.

**SignIn.** One account. `active`, `locked`, `failed`, `token`, `tokenExpired`
and `password` are its row, `codes` the rows of `otp_requests` in the order they
are inserted. A request reads (`...Read`), then compares, then writes; the
writes take no condition except where the code gives one (the attempt counter
and the mark of a used code are filtered updates). The refresh token is whether
there is one, since a request that presents another changes nothing. `age` of a
code is the three ages the code tells apart: below the gap between two codes,
within its life, past it.

**ProjectImport.** `job` is the row and `ex` the goroutine of an import; all
imports are of one manifest, the case in which they compete. `CountRunning`,
the insert, the slug and the port test, the unit, the service row and the
rollback are steps of their own, because each reads or writes something another
import or an operator changes. A `unit` is what systemd keeps: it has no row to
be found by, and outlives the panel; its process listens on the port it was given
or, as `OwnPort` says, on one of its own, which `DetectOwnPort` (the second half
of `detectListeningPort`) then takes for the service's. `op` is an operator's
removal of a service or a project. `Refuse` names the calls of a step whose errors
are dropped: a port source that cannot be read is skipped (`AllocatePort`), a
rollback or deletion that cannot list the services removes none, and the removal of
a unit, of a row, of the rows and of the project may each fail unheard. `Finish` is
the terminal write, whose error the code drops too: `FinishRefused` leaves a
complete import with a row that still says running, for a boot recovery to fail.
The histories `together`, `adrift`, `spilled`, `kept` and `unrecorded` remember
which of these happened, for the properties to name.

**AttachedDomains.** `port` are the service rows, `link` and `cached` the two
fields of a domain row, `vhost` what nginx serves. Each request (`call`) holds
the domain in hand, those left of its loop, and the port it read when it began.
Past the checks of a request every call may fail (`Fails`): a link is not stamped or
not cleared, a service that cannot be read gives the cached port, a list that
cannot be read is empty, a vhost is left as it was or, as it is deleted before it is
written, not there at all (`NoVhost`). A stop of the panel forgets the requests and
keeps rows and vhosts. `crossed` remembers the domains on which requests met or a
call failed, `missed` the links a removal did not see or could not clear.

**TransferJob.** `Order` is the list of steps; `ex` the goroutine with its
step, whether an item was dropped in it, whether its last look at the row
failed, and its verdict. `Step` is one step's work together with its report,
`Look` the read of the row between two of them. What a step does to the data
is its outcome: all went well, something was dropped, or the step failed.

**PanelRecords.** A pass is a transfer's work on the records or one of the two
commands, and walks the part of `Order` its kind has. `tenant` are the account
rows of this server, by e-mail; an id is an account and the server that gave it,
so a reference that was not translated is visibly the source's. `map`, `seen`,
`todo` and `pending` are the `idMap`, the snapshot, the rest of the loop and the
list of tenants to fix, all held by the pass across its calls. `Does` lets every
call fail as the code lets it, and remembers that the pass is no longer clean.
`Placeholder` is the account the files step makes for a Linux user; `sweep` is
the cleanup behind an account just mirrored. `link` is a domain row's service,
`static` and `proxied` say what vhost it has, if any; `FindAlias`, `StampLink`,
`PullAlias` and `ApplyVhost` are `durablyAttachAliasDomains` call by call,
`HealVhosts` is `healMissingVhosts` and `HealProxies` is
`healAttachedProxyVhosts`. `HealVhosts` gives every domain without a vhost one,
and links a linked one whose service is not here, or could not be read, to whichever
service has its port, which may be one of another project (`"other"`). `lost`
remembers an alias that lost its attachment: taken off its service without its
link, or linked elsewhere after such a read. `TransferJob` has the
whole as one step, and its `OverlapOnlyByRace` is why two passes are never both
transfers.

## 3. Runs

States are TLC's distinct states (rounded from a million on).

| Run | Instance | States | What it asks |
|---|---|---|---|
| `guest` | 1 link, 2 browsers, 2 requests, clock to 6, window 2, deadline 3, cap 1 | 732,631 | binding, window, late claims, retirement in every race of two requests with the sweep |
| `account` | 1 operation beside the purger, 1 site, 1 request, TTL 2, retention 1, clock to 3, 1 failing call or restart | 1,238,000 | staleness of the cache, sites against the row, stranded vhosts, the trash |
| `deploy` | 2 services of one project, 2 workers, 1 batch, queue of 1, 2 redeploys, 2 commits, 1 fault | 1,131,436 | exclusion, source, indicators, every job ends |
| `upload` | 1 job of 3 rows, 2 restarts, 2 refused calls | 601,435 | cancel, counters, settling, lifecycle |
| `bulk_ssl` | 1 job of 2 domains, 1 refused call, cutoff 1, clock to 3, 2 restarts | 70,652 | the row against the goroutine, the recovery's cutoff, settling |
| `cf_job` | 1 job of 0 to 3 domains, 2 restarts, 2 refused calls | 311,074 | the row at every moment, the cancel, settling |
| `cf_records` | 3 values, 1 of them mail, 2 edits, 1 event | 432,251 | no edit missed, convergence, mail never deleted |
| `signin` | 2 requests, 2 browsers, threshold 2, 1 attempt, 1 code | 708,050 | the lockout, one session per code, stale reads |
| `transfer` | 2 jobs of one source, 2 clients, every option, 1 fault | 761,229 | overlap, green, cancel, orphans |
| `panel_records` | 2 passes of any kind, a vendor and the customer of its Linux user, 2 domains, 1 failed call or stop, any refused vhosts | 2,382,000 | accounts, tenants, attachments after a sound pass |
| `import` | 2 imports of 2 services, one with a port of its own, 1 stop, removal or refused call | 1,027,000 | all or nothing, ports, stray units |
| `attached` | 3 requests at a time and 4 in all, 2 services, 2 domains, 2 ports, 1 stop, 1 failing call | 1,778,000 | vhost against row, dead links |

Why the bounds are enough to be worth something:

* Two browsers and two requests are every race for one link: the filter of the
  claim lets one of them win, and the loser's next step is the re-open. The
  clock passes both the deadline and the window of the last mint
  (`LastMint + Deadline + Window < MaxNow` is an assumption), and the window is
  shorter than the deadline, so all orders of "window over" and "deadline over"
  occur. A window of two leaves a claim that lands past the deadline a session to
  be bounded. A mailbox count of one past the cap is reachable.
* The cache bound needs one operation, one request and a clock that passes the
  TTL after the account went off; the proof covers more of each. The run keeps
  `TTL = 2`, so that an answer can be stale and not yet expired. The clauses about
  sites speak of one site at a time and no step relates two, so one is enough; one
  failing call is what an operation that runs whole afterwards has to mend.
* A queue of one with three submitters (two redeploys, one requeue) is full when
  a contended worker comes back. Two workers and a batch contend for one mutex,
  and the second commit tells the pulled tree from the built one. One project is
  enough for the clauses checked, which speak of one project at a time; only
  `queue` is shared between projects, and the proofs do not fix their number.
* A job is independent of other jobs (each has its own row, goroutine and
  context), so one is enough; three rows give a first, a middle and a last, and
  two restarts let a recovered job be restarted once more. A job has at most one
  deadline and any number of cancels. Two refused calls lose a look at the flag and
  a write, a row's mark and its outcome, or the final write and the recovery's.
* Two edits are the smallest burst the debounce can coalesce wrongly; three
  values let one name lose, gain and keep a value, with a mail value among the
  extras. One event is an operator's sync, a failing call or a restart.
* Two requests on the sign-in row are every overlap of a read with a write; the
  threshold of two makes the second failure the one that locks, and a second
  failure in flight takes the counter to the bound `LockoutBounded` states. One
  code with two browsers is every race for it, codes being independent rows; a
  code's attempts run out after one.
* Two transfers with two creations in flight are the race of the duplicate test.
  Options only drop steps, so the run takes them all. One fault is a stop, a
  refused write or a failed read; the failed read of a boot comes with its stop.
* Two passes are a faulty or interrupted one and then a sound one, or two at
  once; the first states add what earlier transfers leave (a placeholder, the
  vendor with a tenant of the source's, a project in it, a service of an older
  transfer). A vendor with a customer of the same Linux user is the smallest
  roster that has a tenant root, a member, and a row the cleanup could mistake
  for a placeholder; one domain that was attached and one alias are the two ways
  a link arrives.
* Two imports of two services compete for a slug and for ports, with a second
  service that can fail after the first is up and listens where it likes. The
  panel stops once, or the operator removes once, or one call whose error is
  dropped is refused; a failed count, a service that cannot be added and a refused
  last write may happen any number of times.
* Two services and two domains let domains change hands, be stolen back and be
  left behind; a third request overtakes two that have met, and the fourth,
  alone, is the one that must mend what they, or a failing call, left. Two ports
  per service tell a cached port from the present one.

Deadlock checking is off in every configuration because every system here may
legitimately stop: the logical clock and the counters are bounded, and requests
and edits need not come.

### Bounds on counters

`MaxNow`, `LastMint`, `LastTrash`, `MaxRestarts`, `MaxFaults`, `MaxFailures`,
`MaxErrors`, `MaxRefused`, `MaxEdits`, `MaxEvents`, `MaxRedeploys`, `MaxBatches`,
`MaxCommits`, `MaxCodes`, `MaxFailed`, `MaxTroubles`, `MaxCalls`, `MaxPorts` and
`MaxStops` bound the exploration and stand for nothing in the code. `Window`,
`Deadline`, `TTL`, `Retention`, `Cutoff`, `QueueCap`, `MaxMailboxes`, `Threshold`
and `MaxAttempts` are parameters of the code with small values, and `N` is the
length of a manifest.

Type invariants are not properties of the runs: where a module has a proof,
`TypeCorrect` (`AccountTypeCorrect` and `ImportTypeCorrect` where two components
share a proof module) states it for every instance; the type invariant of the
others can be checked by naming it in the configuration.

## 4. Fairness

* Weak fairness of each goroutine's next step (workers, batches, job goroutines,
  syncs, callbacks, recoveries): the Go scheduler runs every runnable goroutine,
  every command has a timeout, and every database call a context.
* Strong fairness of `LockProject` only: `sync.Mutex` hands itself to a waiter in
  its starvation mode, whereas a worker uses `TryLock` and is promised nothing; it
  requeues instead.
* Weak fairness of `SweepExpired` and of the purger's steps: their tickers run for
  the life of the process. Weak fairness of `Tick` where a liveness property
  needs time to pass.
* None for anything a person or another system does: redeploys, pulls, cancels,
  edits, requests, pushes, restarts, failures. `PdnsFollows` is fair because the
  call returns; a refusal is an alternative that is not owed.

`SignIn`, `ProjectImport`, `AttachedDomains` and `TransferJob` state no fairness:
their properties are about what may not happen. Nothing there waits for anything
but its own next call, and what a crash leaves behind stays until someone asks
again, which nobody owes.

Liveness properties name their excuses: a restart, a refused call, an expired
context or a deploy cut short appear in the formula when the code has no
recovery from them.

## 5. Abstract specification and refinement

`JobLifecycle` says what whoever polls a job may rely on: only the goroutine
reports, completes or cancels; a recovery may fail only an unfinished row; a
goroutine may die. A settled job (terminal status, no goroutine) therefore
never changes again; each engine has a theorem that says so of its own rows. Each
engine `INSTANCE`s the lifecycle with `status` and
`live <- [j \in Jobs |-> Live(j)]`. `ImplementsLifecycle == Lifecycle!SafeSpec`
is checked by TLC for uploads and proved for all three. The engines' own liveness
properties use the lifecycle's `Settled`. The abstract
module deliberately allows a recovery to fail a job whose goroutine is alive,
because uploads and Cloudflare jobs recover without a cutoff beside a server
that already accepts jobs; only bulk SSL excludes it (`RecoverySparesLive`).

## 6. Proofs

All theorems hold for every value of the constants that satisfies the named
assumptions of the module: any number of links, browsers and requests; any
number of operations and requests and any TTL and retention; any projects,
services, workers, batches and queue capacity; any number of jobs, rows and
restarts, requests, codes, transfers and sources.

**GuestLink_proofs** — `TypeCorrect`, `OneBrowserAlways`, `WindowEnforced`,
`DeadlineEnforced` (a late claim gives no session later than the deadline plus the
window; together `LimitsEnforced`), `RetiredStaysRetired`. `OneBrowser` is not
inductive: a step that authorises a browser relies on where tokens are.
`TokensStayHome` says that a bind token made for a browser never leaves that
browser's cookie, its request and the row it opened; `WindowFixed` that a row once
opened keeps `windowAt = firstOpen + Window`, both in order with the clock and the
deadline: `firstOpen` is the clock the claim's request had read, which was not past
the deadline though the claim may be. `IInv` is the two with `TypeOK`.
`RetiredStaysRetired` needs only the filter of the claim.

**Accounts_proofs**, account status — `AccountTypeCorrect`,
`StalenessBounded`, `StaleOnlyByRaceAlways`, `SitesFollowRowAlways`,
`StrandedOnlyByRaceAlways`.
`StalenessInv` carries the bound through a request: an answer held between query
and put dates from a time the account was active, and an allowing entry expires
by `LastActive + TTL`; it holds because the expiry counts from the arrival, not
from the write. `StaleOnlyByRace` is inductive as it stands. `SitesInv` says how
far an operation that runs alone has brought sites and row (`Alone`, `Stage`), in
whatever state failed and overlapping ones left them, and that they agree
(`Agree`) from its end until the next failure; it gives `SitesFollowRow`.
`StrandedOnlyByRaceAlways` speaks of single steps and needs only the types.

**DeployPipeline_proofs** — `TypeCorrect`, `OneDeployPerProjectAlways`,
`BuildsWhatItReportsAlways`, `IndicatorsAlwaysTrue`. `Base` joins the types with
`LockInv` (whoever is past the mutex is its recorded holder), `JobsInv` (which
project and service it is at) and `OpenInv` (its row is counted). Even the type
of `open` needs it, since `Finalize` subtracts one. `SourceInv` adds what a
deployer will report and that it agrees with the tree as long as nobody pulled
the project by hand, because only the holder moves the tree. `HonestInv` adds,
per service, a status that is backed by the queue or a deployer, and a count of
open rows that is one exactly while a deploy is in flight. That `First` picks a
service of the batch is proved from the well-foundedness of the naturals.

**DomainBulkJob_proofs** — `TypeCorrect`, `CancelAlwaysStops`,
`FinishedRowAlwaysAddsUp`, `CreatedAlwaysShown`, `UploadImplementsLifecycle`,
`SettledStaysSettled`.
`TypeOK` is not inductive: that an item is given an outcome needs the goroutine
to hold one. `JobInv` says which rows lie behind the goroutine, what was written
about each and what could not be (`ItemsInv`); how far the counters of the row lag
behind the goroutine's, which write both on every outcome, so that they agree
unless the last outcome was refused (`TallyInv`); that a created domain is shown
as done or in hand unless its mark was refused (`ShownInv`); and that besides the
rows started on a failed look at the flag a cancel leaves at most one, the one in
hand when it came (`CancelInv`). It is stated per job, with one lemma for the jobs a step
leaves alone. The refinement has one step per action: `Start` is a submission,
`Begin` a report, both ends an end, a restart lets every goroutine die, the
recovery is a recovery, and everything else a stutter. `SettledStaysSettled`, the
reason a poller may stop, follows from the same cases.

**SslBulkJob_proofs** — `TypeCorrect`, `RowAlwaysTrue`,
`RecoveryAlwaysSparesLive`, `IssuanceImplementsLifecycle`,
`SettledStaysSettled`. `WorkerInv` ties the
goroutine's counters to the domains it has behind it and to the certificates
issued, so the last write is right whatever progress writes were lost.
`CancelInv` gives a goroutine about to start a domain one unit of slack: its look
at the flag either saw no cancel, when nothing was late yet, or was refused.
`FreshInv` is why the cutoff works: every write stamps the row and the clock
waits for the recovery, so a live goroutine's row is as young as the boot; hence
a live job is never terminal, and `RowIsTrue` follows. In the refinement a
goroutine that gives up is the lifecycle's `Die`.

**Cloudflare_proofs**, jobs — `TypeCorrect`, `RowAlwaysTrue`,
`SyncImplementsLifecycle`, `SettledStaysSettled`. This engine writes its own copy
of the row over whatever is there, so `JobInv` speaks of the copy first: which
domains are behind the goroutine and how the others stand (`Progress`), and that
its counter counts them (`WorkerInv`). The row is the copy of some earlier write,
since one that is refused or comes after the deadline leaves the one before, so
the end may be lost and what a poller reads still adds up (`RowInv`). A domain
started after a cancel is at most one, besides those whose look at the flag failed
(`CancelInv`).

**Cloudflare_proofs**, records — `RecordTypeCorrect`, `NothingMissedEver`,
`MailAlwaysSpared`, `SyncAlwaysConverges`, for any set of values, any zone and
any number of edits.
First what a plan is: `AscendingEnumerates` says that the sorted listing of a
set has every value once, by counting ranks, and `PlanIsSound` that a plan made
from a listing of the zone as it is can be carried out whole, brings every
missing value and touches none that belongs. `SoundNext` carries this over one
call: what is left of a sound plan is sound for the zone the call leaves.
`RecordInv` then joins three arguments. `Numbered`: the goroutines begin in order
and every unheard edit still has a number to use, without which the `CHOOSE` of
`StartSync` would mean nothing. `SyncsInv`: until two syncs overlap one is alone,
and its listing and plan are true of the zone. `CaughtUp`, the one that carries
`NothingMissed`: an edit no sync has read is on its way to one (a call of
PowerDNS, a hook, a timer of the map or out of it, a callback, a sync that has
not read the rows), and once a sync has read them each value of the panel is in
Cloudflare with no planned call against it, or in the plan. Both cases are
needed: an edit made while a plan is carried out must not count against that
plan, and is owed a sync of its own.

`SyncAlwaysConverges` is about a whole plan of any length, which is an induction
over its calls. The zone after each call is a recursive function, shown to be
defined (`ZonesExist`), and the claim is followed to the least call for which it
would fail, as the naturals are well founded (`LeastNumber`); the library's
induction theorems, which take an operator, cannot be instantiated.
`PlanReaches` says exactly which ids the zone has after each call, namely those
of the values not touched yet, those written over and those created, and what
they hold. At the end the values are the panel's and the extra ones neither
written over nor dropped, so the next plan is empty (`NothingToDo`). The property
is about a zone that has no value twice: the code's listing keeps one id of each
value and would leave the other record where it is.

**Accounts_proofs**, sign-in — `TypeCorrect`, `CodeOpensOneSessionAlways`,
`LockoutAlwaysBounded`, `StaleOnlyIfOvertakenAlways`. `CodeInv` ties a code's
mark to the sign-ins it completed, so that the filtered update that marks it can
succeed once. `FailuresInv` says what each login in flight has read of the
counter, and how far the row can be ahead of it; the bound follows because
every failure past the threshold was in flight when the lock was set. `ReadInv`
says that what a request has read is still so unless it was overtaken, and its
complement is the property's excuse.

**Projects_proofs**, imports — `ImportTypeCorrect`, `AlwaysAllOrNothing`,
`PortsSharedOnlyUnseen`, `StraysOnlyByFailure`. `ImportInv` has five parts
besides the types. `Lives` ties a goroutine to a running row of its job and
to the project it inserted. `Progress` says what has been built at each place in
the goroutine's program, what the rollback still finds and, once it is over, what
its refused deletes kept (`RolledBack`). `PortsApart` carries a port from the test
that found it free to the insert: two services share one only if their imports held
it at once, or one of the two took it without looking in the rows, because the
process chose it or the rows could not be read. `UnitsPorted` says that a unit
listens within the range. `UnitsOwned` follows each unit, while nothing was
disturbed and nothing failed late, to the row it got or to the step that is about
to give it one. That there always is a free slug and a free port, without which a
`CHOOSE` would mean nothing, is proved by counting.

**Projects_proofs**, attached domains — `TypeCorrect`,
`VhostAlwaysFollowsLink`, `DeadLinksOnlyIfMissed`. The first speaks of a panel
at rest, so `AttachedInv` says what holds while requests are under way, of every
domain on which no two of them met (`Apart`) and over which no call failed: its
vhost and its cached port are as its row says, or one request has it in hand, and
whatever a request knows of the domain is still so (`Fine`, `Knows`). A request
that takes such a domain alone makes it fine again, so the excuse ends with it.
`DeadLinkCovered` says of a link to a service without a row that the removal will
still clear it or has missed it, and of an attach past its check that its service
lives or its link is one the removal missed.

**Transfers_proofs**, jobs — `TypeCorrect`, `NoOrphansAlways`,
`GreenMeansCountedAlways`, `CancelHoldsAlways`, `OverlapOnlyByRaceAlways`. The
many steps of the goroutine have few shapes (`Moves`, `Ends`): it goes on or it
ends, with the row written or refused. Each shape gets its lemma, and each
action is shown to have one. `JobInv` is the invariant of one job: its goroutine
lives or its row is over or a boot will start it again (`NoOrphan`), a verdict
of green has seen no error uncounted (`Honest`), and a goroutine past a look at
the row has heard what it said (`Heeds`, `Works`). For the overlap, `Apart` says
that two running jobs of one source have a raced one between them, and `Counted`
that a creation which has counted none remains right about that until it
inserts, or is marked as raced.

**Transfers_proofs**, panel records — `PanelTypeCorrect`,
`RosterConvergesAlways`, `ProjectFiledAlways`, `AttachmentsArriveAlways`, for
any accounts and roster, any tenants, any number of passes of every kind beside
each other and any number of failures. The three properties speak of a pass that
was clean and alone, once it is over; the invariant says what such a pass has
achieved at each of its steps, in a state other passes have left in any
condition. A lemma per step says what its call makes of the pass (`Runs`), so
that each part of `PanelInv` is shown step by step to survive:

* `Marked`: two passes under way together are in `met`. A pass outside it
  therefore knows that nobody else wrote since it began.
* `WalkInv`, of every pass: an account is on the list still to do or in the map,
  and an entry of the map is the account's own row, or the owner's if the owner
  had its e-mail. The cleanup runs only behind an account just mirrored, and only
  if the source has no account of the placeholder's name: without this it could take
  away a row the same pass had just made.
* `HonestInv`: when a clean pass alone has looked at the owner, the owner's row
  has its own e-mail, and no pass under way maps an account to the owner. The
  first is where an account could be lost: while the owner still has the e-mail of
  a vendor, the vendor is taken to be the owner.
* `RosterInv`: the accounts mirrored so far are there and in the map, those
  fixed so far are in the tenant the source says (`Placed`), and from then on all
  are. It stays so when the pass is over, because no step of any later pass, sound
  or not, takes such an account out of its tenant (`PlacedStays`).
* `ProjectInv`: the project is in the vendor's tenant, or in the source's, by an
  id that the heal will translate because the vendor is in what it read. Where
  the vendor had no row when the project was filed, the history says so.
* `AttachInv`: whoever holds the alias can be found, for the service still lists
  it or its link is written. An alias is taken off the list one call after the
  link is stamped, so the order of the two carries the invariant. There are two
  excuses, both in `lost`: a refused stamp, and a link that `HealVhosts` could not
  follow and gave to another service with its port.

That a pass visits its steps in the order of `PassOrder` is proved from the
definition, for each kind (`NextOfIs`); the `CHOOSE` of `NextOf` hides it.

Model-checked only: all liveness (`EventuallyRetired`, `TrashIsEmptied`,
`EveryJobSettles`, `EverySubmittedSettles`, `SettlesUnlessCutOff`,
`EverySyncSettles`, `EditReachesSync`), which is out of the prover's reach. Every
invariant and every action property of a run is a theorem. Proved and in no run:
that no domain is created which the job's row does not show (`CreatedAlwaysShown`),
that the cache lets in an inactive account only in three named windows
(`StaleOnlyByRaceAlways`), the refinement by bulk SSL and by Cloudflare syncs, and
that a settled job stays settled.

## 7. What the models show

These contradict a statement of the repository, and the models reach them,
except the first, which is outside the models' data:

* A transfer that stops after its zone row was inserted and is resumed from step
  one ends completed with the zone served and its records missing from the
  panel: the second insert of the row fails, and `zoneOID` stays zero. One that
  stops after the cron step appends every line again. `transfer_service.go:782`
  and `main.go:301` call the restart safe.
* The cleanup of the accounts' mirror deletes `<user>@localhost` rows that exist
  only here, though the comment at `transfer_panel_records.go:913` promises no
  destructive delete; and the mirror's header (`:786`) still says it deletes and
  re-inserts, which it does not.
* An alias is taken off its service even if its link could not be written
  (`transfer_panel_records.go:3757`); no later pass attaches it, though the
  comment above calls the step idempotent.
* A domain whose vhost is missing, and whose service could not be read, is linked
  to the first service with its port (`transfer_panel_records.go:3341`): the
  comment above thinks of the service the domain had, but ports are not unique
  across projects. Its attachment is then not the source's, and a later sound
  transfer leaves the link, which resolves, as it is.
* A reference the map does not know keeps its id of the source
  (`transfer_panel_records.go:1548`), where the header at line 1529 says it is
  dropped; and `owner_user_id`, the reference the heal asks first, is not among
  those translated.
* A heal beside a transfer, working from the accounts it read before, can
  overwrite a project's tenant that resolves by then; `transfer_tenant_heal.go:88`
  says such a row is left untouched.
* The sweep retires a link opened shortly before its redeem deadline while its
  window is open (`guest_link_service.go:306`), though line 299 calls it
  housekeeping that leaves the cutoff to the window.
* A link can be first opened after its redeem deadline, past which
  `models/guest_link.go:44` calls it dead: `guest_link_service.go:211` tests the copy
  of the row read before, and the claim at line 224 does not name the deadline. No
  session lasts longer than the deadline plus the window.
* `Activate`, and `Update` of `is_active`, accept a trashed account and leave its
  expiry, so a working account is purged (`user_service.go:598`;
  `models/user.go:42`).
* A cancelled upload never launches the SSL pass its rows announce
  (`domain_bulk_job_service.go:197`; `domain_bulk_service.go:463`).
* A Cloudflare sync whose deadline has passed, or whose last write is refused,
  stays running until the next boot (`cloudflare_sync_job_service.go:593`; the
  comment at line 28).
* A missing web value is written over a mail record of the same name and type
  (`cloudflare_sync_job_service.go:402`).
* A service that fails late in an import leaves its unit behind: the rollback
  finds services by their rows, and this one has none yet, though
  `project_service.go:2015` says the removal in the deferred cleanup takes care
  of it. `project_import_job.go:20` calls the provision atomic.
* An import that is complete but whose last write was refused is failed by the
  next boot's recovery, which advises to delete what it built
  (`project_import_job.go:182`), whereas line 134 trusts the recovery to
  reconcile it.
* Two imports can be given one port, which `project_helpers.go:105` puts at
  effectively zero.
* A domain is proxied whenever its row has a port, which `domain_proxy.go:75`
  calls advisory only. Hence a change of a service's port, which rewrites the
  cached port of the domains it read, gives a domain detached meanwhile a proxy
  without a link. A detach does not ask whether the domain is attached to its
  service, and two attaches may each take a domain from the other.

The models reach the following too, without a run of their own; properties that
would exclude them name the excuse:

* A boot recovery marks a job accepted a moment earlier as failed
  (`domain_bulk_job_service.go:274`); its goroutine goes on and overwrites it.
* The SSL recovery's cutoff skips a job that died in the last ten minutes; it
  stays running until a later boot.
* A progress write of an SSL job that is refused is never repeated: its item
  stays empty although the final counters are right.
* Two requests pass the guest's mailbox cap together (`guest_handler.go:138`).
* Two syncs of one domain may overlap in spite of the comment at `main.go:213`,
  and then one may undo what the other did.
* Suspending or activating an account whose domains cannot be listed, or whose
  vhosts cannot be written, changes the row and not the sites
  (`user_service.go:468`, `:513`, `:587`); the next operation that goes through
  mends it. A vhost written for a domain whose row is deleted meanwhile stays.
* A look at a job's cancel flag that fails is taken for "not cancelled"
  (`domain_bulk_job_service.go:195`, `cloudflare_sync_job_service.go:541`), so
  one more item starts after the cancel for each.
* An upload whose last write is refused, or a Cloudflare sync that cannot load its
  row (`cloudflare_sync_job_service.go:185`), ends silently; its row says running
  or queued until a boot.
* A rollback that cannot list the services removes their rows without their units
  (`project_service.go:1057`, `:1067`), and one whose deletes fail leaves rows
  behind; all of it unreported.
* A service of an import may be recorded with the port its process opened itself
  (`project_helpers.go:157`), which another service may have in its row; a source of
  used ports that cannot be read is skipped (`project_helpers.go:755`).
* A failed call while domains are attached, detached or refreshed leaves a vhost at
  a port its service no longer has (`domain_proxy.go:88`), a link to a service that
  is gone (`domain_proxy.go:184`, `:155`), or no vhost (`domain_proxy.go:109`), and
  the request reports success; the next request that sets the domain mends it.
* A suspension takes effect at once except where a request read the row before
  it and cached the answer after it; then within the TTL.
* A deploy whose context is over before its last writes, or that a restart cuts,
  leaves its row running and its service deploying; nothing at boot repairs
  them (`project_service.go:3351` promises the indicator).
* The Pull button takes no deploy mutex and can move the tree in the middle of a
  batch that promises one commit (`project_service.go:3231`).
* A project that was filed in the tenant of the Linux user's customer, because
  its vendor had no row yet, stays there: its tenant resolves.
* A domain's link is copied with its row without asking whether the service is
  here (`transfer_panel_records.go:1468`); only a later step looks.
* A deployment row that cannot be inserted takes the process down when the
  deployer is a batch (`project_service.go:3434`).

## 8. What is not modelled

Creating a domain, issuing a certificate, and building a service are outcomes: what
they do to the host is a sequence of commands with no second actor inside the
process. What a transfer copies is a sequence of reads of the source and writes
here. Of the synchronisation of the panel's records, left out are the other
collections (packages, apps, databases, mailboxes and the like, each copied as the
project is), the mail maps, the DNS records that are repointed, the recovery of
applications and of project services, the re-enabling of disabled vhosts and of
missing TLS blocks, and the re-encryption of tokens and mailbox passwords; a lookup
and the insert behind it count as one call. DNS validation, SPF rewriting, the
translation of records in a server-to-server transfer and the layout of nginx files
transform data and are left to their tests. Mail, databases, files, cron, firewall,
backups, monitoring and the CLI run a command per request and report it. The front
ends and the mail suite are separate programs over the API. The confirmation of a
bulk delete and the tokens of a transfer are small protocols whose hazards are
listed in `PROJECT.json` and do occur: nothing that could be said of the code as it
is would hold of the first, and the second is half outside the process. A package's
`account_count` drifts for the same reason. Within the modelled parts, left out
are: who may call what; the lock of the Linux login that goes with a suspension;
rolling restarts and start/stop of a service during a deploy; per-service clones;
the rotation of a project's access token; services of static files; impersonation
and the row behind a reset link; the proxied flag of a record and the connection of
a zone.

## 9. Plan

In this order, each with its run, mutants and hazards:

1. `DeleteConfirmation` (`domain_bulk_service.go:1147-1358`) and `TransferToken`
   (`transfer_token_service.go`): what holds of them between the named windows.
2. Package counts in `AccountStatus` (`user_service.go:433`, `:671`, `:1097`).
3. Rolling restart and start/stop in `DeployPipeline`.
