# Highland: a verification project

Highland is a control plane for Kubernetes storage: a Go API server that runs
as several replicas, and a web application. Users with the right role approve
changes (create, expand, snapshot or delete claims, Ceph pools and classes,
Longhorn volumes); the API stores each approved change as a `StorageOperation`
object and a leader-elected reconciler carries it out. A `HighlandPolicy`
object, changed by administrators at run time, says which kinds of change are
accepted at all. Accounts live in one Secret that the replicas share, and every
page of the web application works on cached copies of what the server had.

This directory holds TLA+ modules of the parts of Highland where concurrency,
failures and ordering decide whether it is correct, TLC configurations that
check them on small instances, and TLAPS proofs of the most important
properties for every size. All paths below are relative to the repository;
`ops/` stands for `apps/api/internal/storage/operations/`, `policy/` and `auth/` for those
directories of `apps/api/internal/`, and `web/` for `apps/web/src/`.

To repeat the checks:

    tlc -workers 2 -config OperationOverlap.cfg OperationController.tla
    tlapm OperationControllerProofs.tla

## 1. The system

| Component | State it keeps | Operations | Interacts with | What is hard |
|---|---|---|---|---|
| Storage operation controller (`ops/controller.go`) | Lease, leadership, in-progress set, copies of the operations it listed | election, list loop, preflight, execute, takeover recognition, inspect, verify, terminal audit, garbage collection | store, planner, target objects, Longhorn manager, Ceph, audit sink | two leaders, crashes between calls, lost answers, blind status writes, timeouts |
| Operation store (`ops/store.go`) | `StorageOperation` objects in the API server | Create, UpdateStatus, searches, retention delete | controller, submit handler | no precondition on status writes, names as idempotency keys |
| Planner (`ops/planner.go`, `actions.go`) | none; signed challenges | Plan, Verify, impact preflight, dry run | Kubernetes, provider adapters, policy version | stale plans and confirmations |
| Operation admission (`ops/http.go`) | none of its own | CreatePlan, submit | planner, policy snapshot, store, audit sink | checks before Create on several replicas, three reads of one snapshot |
| Runtime policy (`policy/policy.go`, `policy/http.go`) | one `HighlandPolicy` object, a snapshot per replica | observe, failClosed, updateStatus, plan, Apply, Update, WaitObserved | API server watch, administrators, GitOps, admission | watch failures, two goroutines storing the snapshot, concurrent edits, late status writers |
| User store (`auth/users.go`, `kubernetes_identity.go`) | the identity document in a Secret, a copy per replica | Refresh, sign-in, changes of accounts and policy, enrolment | sessions, sign-in handlers, account page | stale copies, conditional updates, last administrator, recovery codes |
| Sessions and tokens (`auth/*.go`, `middleware/*.go`) | signed cookies or Redis or memory; challenges | issue, validate, end | user store | revocation across replicas |
| Query cache (`web/api/hooks.ts`, `optimistic.ts`, `realtime.tsx`) | rows, fetches, optimistic writes, the change stream | poll, mutate, roll back, apply a frame | API server, change hub | answers and frames out of order |
| Session of the browser (`web/auth`, `web/routes`, `web/api/realtime.tsx`) | user, route, stream, forms | refresh, sign in and out, enrol | API server, query cache | answers out of order, outages, backoff |
| Pages (`web/features`) | component state, requests under way | dialogs, bulk runs, editors, paging, charts | query cache, tables, navigation | answers that find another dialog, rows that change under a form |
| Change hub (`watch/hub.go`) | subscribers, coalesced events | publish, subscribe, fan-out | every component that publishes | dropped frames |
| Benchmark (`benchmark/*.go`) | runs, Jobs and claims | create, run, delete, restore | API server, hub | clean-up after a restart |
| Metrics scraper (`metrics/scraper.go`) | a ring of points per series | scrape, prune | charts | labels that change, things that go |
| OIDC (`auth/oidc*.go`), login limiter (`ratelimit/*.go`), audit sinks (`audit/*.go`) | states and nonces; attempt windows; append-only events | login; check, record; append, query | identity provider, Redis, Postgres | check and record in two steps, durability |
| Inventory, insights, providers, Longhorn proxy | informer caches, last good answers | read-only aggregation | storage providers | stale answers |
| HTTP routing, wiring, generated code | none relevant | | | |

What makes each of the modelled ones correct:

* **Controller.** It changes only what was approved, changes it once, reports
  success only for facts, settles every operation, never reopens a settled one
  and leaves evidence of the real outcome.
* **Admission.** One confirmation makes at most one operation, for the target
  revision and under the policy version the user reviewed, and never without a
  durable admission event.
* **Accounts and sessions.** A session is worth what signing in again would
  give, a recovery code works once, an administrator remains, and the replicas'
  copies settle.
* **Query cache and session of the browser.** After an answered change no older
  rows stay on the screen; page, stream and signed-in user agree, and an ended
  session is noticed.
* **Pages.** What a dialog sends is its own; a form submits nothing
  inadmissible; a bulk run accounts for its rows; nothing stays past its time;
  a link or a table shows what was asked for.
* **Runtime policy.** Nothing is granted that nobody confirmed; every replica
  ends up enforcing the current policy and its status ends up reporting it; a
  snapshot never goes back; an outage closes it.

`PROJECT.json` lists every component with its status, and the hazards of the
code at the line where each one bites.

## 2. Modules

| Module | Models | Composes with |
|---|---|---|
| `OperationController` | controller, store's status writes, target, Rook and Longhorn, election, audit evidence | refines `OperationLifecycle` |
| `OperationLifecycle` | what a durable operation promises | |
| `OperationAdmission` | CreatePlan and submit on several replicas | abstracts the policy of `RuntimePolicy` and the runs of `OperationController` |
| `RuntimePolicy` | policy object, informers, snapshots, status writers, administrators | |
| `UserStore` | user store, its Secret, each replica's copy, sign-in, sessions of the token and Redis backends | |
| `WebCache` | one list of the query cache with mutations, polls and frames | |
| `WebSession` | signed-in user, routes, sign-in, enrolment, change stream | |
| `VolumesPage`, `VolumeDetailPage`, `SnapshotTree` | volumes list and its dialogs; a volume's snapshots and their tree | `VolumeDetailPage` instantiates `SnapshotTree` |
| `TablePage` | table, search, paging, ticks, columns, saved views | |
| `ListPage`, `BackingImagesPage`, `EngineImagesPage`, `OrphansPage`, `SystemBackupsPage`, `BackupTargetsPage`, `BackupsPage`, `RecurringJobsPage` | the pages of lists of resources | four of them extend `ListPage` |
| `SettingsPage`, `SSOConfigPage`, `StoragePolicyPage`, `UsersPage` | administration | |
| `NodesPage` | nodes, disks and tags | |
| `SupportPages` | support bundles, followed at the pace the stream allows; the instances of instance managers | |
| `StorageOperationsPage`, `StorageQueries` | planning and submitting an operation; the storage queries (scope, page, kept answers, failures) and what each of sixteen panels says of its answer: rows, nothing, a warning | |
| `ProviderWorkspace`, `CephDashboard` | navigation of providers; the hand-off to Ceph's dashboard | |
| `BenchmarksPage`, `MetricsPages`, `ShellState` | benchmark page with its frames; charts and scraper; theme, error boundary and messages | |
| `WebPages` | the 23 page modules as one system: a visit to one page at a time, and what is assumed of lists, names and times | `INSTANCE` of each |
| `MCOperationAdmission`, `MCRuntimePolicy`, `MCWebPages` | values of constants and symmetry for TLC | extend their module |
| `OperationControllerProofs`, `OperationAdmissionProofs`, `RuntimePolicyProofs`, `UserStoreProofs`, `WebCacheProofs`, `WebSessionProofs`, `WebPagesProofs`, `WebReachProofs` | theorems | extend their module; the last two are about `WebPages`, and `WebReachProofs` extends `WebPagesProofs` |

### OperationController

One operation is followed through its life. Every action is one API call of
the code, so crashes, lost leases, lost answers and foreign edits fall between
any two calls. `pc[r]` is the call the `Reconcile` of replica `r` makes next
and `local[r]` its copy of the status.

| Code | Action |
|---|---|
| `Store.Create` and its late Pending write | `Init`, `CreatorQueues`, `CreatorGivesUp` |
| `Start`, leader election | `Acquire`, `LoseLease`, `Crash` |
| `run`, the list loop | `Fetch` |
| `Reconcile` before execution | `Queue`, `Preflight`, `Start` |
| `execute`, `executeLonghorn` | `Execute` (`DeleteTarget`, `UpdateTarget`, `ApplyTarget`, `SendLonghorn`) |
| `mutationObservation` | `Observe` (`Observed`, `MutationVisible`, `TargetGone`, `LonghornOutcome`) |
| `inspect`, `verifyDeletedBackend` | `Inspect`, `Verify` |
| `retry`, `succeed`, `fail`, `auditOperation` | `RetryOrFail`, `Finish`, `Audit` |
| `garbageCollect` | `Collect` |
| other clients, Rook, time | `Environment`, `Tick` |

Facts of the code worth knowing when reading it:

* The CRD has a status subresource, so the status in `Store.Create` is dropped
  and a new operation has no phase. Both the creator and the leader move it to
  Pending.
* `UpdateStatus` reads the object and replaces its status; the copy of the
  caller is never compared. It may fail after having been applied. Its fallback
  to a plain update is forbidden by the chart's RBAC and is not modelled.
* `RunOrDie` returns when the lease is lost and `Start` does not call it again:
  role `"retired"`.
* A replica that lost the lease has a cancelled context: all its calls fail
  except the audit append, which uses `context.Background()`.
* `inspect` ignores the uid for creations and updates; server-side apply
  without force may adopt a foreign object; Longhorn requests carry no
  precondition.
* `mutationObservation` knows the operation's own work by its look: the approved
  claim with at least the requested size, an object with Highland's label, a
  volume in the requested state. Whoever brought it about, the operation is then
  inspected and reported as succeeded, with nothing sent. `HelpTarget` and a
  labelled `CreateTarget` are such work of others, `meddling` remembers it, and
  `touched` the uid and the revision of what this operation changed.

Abstractions: the plan is the comparison of the target's uid and revision with
the approved ones, plus a rejection that may come from any dependency; a
manifest is its ownership and readiness; the approved version is `(1, 1)`, and
`(0, 0)` for creations, a restored Longhorn volume among them. A claim's size is
whether it is the requested one (`state` of an update: "idle" before anybody grew
it). `aged` says that `StartedAt` lies more than thirty
minutes back. The collector runs thirty days later, so `Collect` needs a
terminal record with evidence and no pass in flight. The leader handles the
operations one after the other; operations do not share targets here (that is
the subject of `OperationAdmission`).

Two constants state the assumptions that distinguish the runs. With
`ExclusiveLease` a lease is taken only after its former holder stopped leading
(clocks and renew deadlines work as documented); without it leaders may
overlap. With `PromptQueue` the creator's Pending write lands before execution
starts; without it, it may land at any time.

### OperationAdmission

Reviews and submissions run one read or call per step (`Authorize`, `Plan`,
`Issue`; `Submit`, `PlanAgain`, `AuthorizePlannedProvider`, `Verify`,
`FindEquivalent`, `FindActiveTarget`, `AuditAdmit`, `Create`). A confirmation
is the signed challenge of a review; any number of submissions may carry it, on
any replica, expired or not. The name of the operation is derived from the
challenge, as in `Store.Create`.

Abstractions: the plan hash is the target's revision; grants of the policy are
the gate of portable actions, the provider scope and the gate of native
actions; a replica's snapshot follows the published versions in order
(`NoRollback` of `RuntimePolicy`) and may be closed; version 0 is the version
of every unavailable snapshot. A failed list counts as one that found nothing,
as in the code. `FinishOperation` stands for a run of the controller. A
terminal operation is collected only after its challenge expired and its
requests ended: thirty days against five minutes. The audit sink is durable;
with another sink the handler appends nothing.

### RuntimePolicy

`queue[r]` holds notifications on the wire or in the informer's listener
buffer, so a silent outage is a long delay. A watch that ends keeps a prefix of
what was under way. When the error is reported the handler closes the snapshot
(`WatchEnds(r, TRUE)`, `ListFails`); otherwise the reflector lists again
(`WatchEnds(r, FALSE)`). A relist that finds the known version is not handed
to the event handler; the resync every ten minutes repeats the last object.
`updateStatus` runs in a goroutine of its own (`writers`) and conflicts when
the object has changed.

An administrator reviews on one replica and submits to any. `admin[a]` is the
confirmation he holds; retries after a lost answer, a timeout or a restart go
through `Resend`. `Update` merges Get, comparison and Update because the write
is conditional on the version that was read. Refusals that need a new review
return to `"idle"`; retryable ones leave the confirmation as it was.

Abstractions: the CRD's rules keep malformed policies out, but the object may
date from before them (`Init`). GitOps and kubectl keep the annotation of the
last reviewed author. Plan hashes of one resource version differ only in the
ceiling, since all the rest is a function of it. The impact description,
condition texts and times, metrics and published events are left out. The
`static-helm` mode has a constant snapshot and is not modelled.

### UserStore

A revision of the Secret never changes, so `documents` is the sequence of all
documents ever stored, and what the code copies is the number of a revision:
`cache[r]` (the maps under the lock), `tick[r]` (loaded by `StartSync`, applied
later) and `call[r].rev` (loaded by `Refresh` or read by `Update`).

| Code | Action |
|---|---|
| `NewUserStoreFromEnv`, `ConfigurePersistence` | `Restart`, `ConfigurePersistence`, `Seed` |
| `StartSync`, `Refresh` | `TickLoad`, `TickApply`, `Refreshed` |
| `KubernetesIdentityPersistence.Update`, `mutate` | `Put` (conditional update), `Conflict`, `Applied`, `Fails` |
| `Login`, `Authenticate`, `IssueSession`, `RecordAuthentication` | `Login`, `Authenticate`, `IssueSession`, `RecordAuthentication` |
| `VerifyMFA`, `VerifySecondFactor` | `VerifyMFA`, `TOTPVerified`, `TryRecovery`, `Redeem`, `Recovered` |
| `UpdatePolicy`, `Create`, `UpdateAdmin`, `Delete`, `ChangePassword`, `ChangeEmail`, `BeginMFAEnrollment`, `ConfirmMFAEnrollment`, `DisableMFA` | the actions of these names |
| `Logout`, expiry, `SessionAuth` | `SessionEnds`, `Accepts` |

A password, a secret or a set of codes is named by the revision that brought
it. The arguments of a change are chosen when it succeeds, which is more than
any caller may do. A challenge carries the user's name only, so it outlives the
account. Re-hashing of old passwords, uniqueness of addresses and the password
history are refusals (`Fails`). Facts worth knowing: `UpdateAdmin` counts the
administrators after the change, so one of two cannot be demoted although the
message speaks of the last; enrolment replaces the recovery codes before it is
confirmed; a name that is deleted and created again starts at version 1, so that
sessions of the deleted account may be accepted again (section 6).

### WebCache and WebSession

`WebCache` numbers the server's changes; rows in the cache, in a fetch or kept
for a rollback carry the number they were read at. Mutations follow
`optimistic.ts`: `onMutate` cancels the fetch and writes, `onError` restores
the rows it had saved, `onSettled` refetches or not (`refetch`, the
`refetchOnSuccess` option). The query library is external: a cancelled fetch
changes nothing, an invalidation replaces the fetch under way, and the timer of
a query starts anew when its interval changes. `usePoll` has one interval for a
stream that is up and another for one that is down, so `PollsComeRound` is weak
fairness of `Poll` only for a stream that comes to rest.

`WebSession` has one browser and one server. `calls` are requests that the
server answers later or never; `me`, login, second factor, enrolment and logout
may be under way together. The stream opens while a user is signed in, closes
with an error when the server is away or the session has ended, and retries
with a growing pause.

### Pages

Every page module has the same shape, that of a React page: `query` is what
the cache holds for it, `ui` the state of its components, `calls` the handlers
that wait for an answer. A handler keeps what its closure captured when it was
started (a stale row, a name, a draft) and changes the page when its answer
comes, whatever is on the screen then; lists are replaced under open dialogs.
Names, lists and values are small sets, and what the server makes of a request
is a choice between success, refusal and failure. A "visit" says what a user
has come for, and bounds how many parts of a large page are mixed in one
behaviour. Layout, wording and translation are left out, and so are sorting and
the drawing of charts.

`WebPages` takes the pages' constants as its own. What differs from page to
page is an operator of the route (`NamesAt("volumes")`); what one page alone
has keeps its name, or gets one of its own where two modules use the same
(`RowIds` is the `Rows` of `TablePage`). Its assumptions are facts about data;
of the bounds they say no more than that they are numbers. `null` is no name,
number, job, snapshot or answer; lists are finite; a listing of snapshots is of
names there are, each with a time of creation (`SnapshotsAreListed`: of parents and
children nothing is assumed); table rows have an order; a
list has rows by name (`RowsAreNamed`), and each list of settings or nodes has
all of them (`SettingsStay`, `DisksHaveNames`, `SchedulingIsOnOrOff`); a disk that
exists has a name, which may be one the editor gave to a row; Longhorn's provider is called
"longhorn" (`LonghornIsItself`); the scraper's keys of volumes and of nodes differ
by their prefix (`VolumesAreNoNodes`); the server stores no policy it would not
admit (`RequestsAreAdmitted`, `RequestsAreFields`); a search and the single sign-on
form may be empty; sizes are positive and times are numbers; `"chunk"` is no path.

The definitions marked "Seeded fault" are the mutants of the definition after
them. Those that `PROJECT.json` does not list break one conjunct each of the
property that names the page.

## 3. Runs

| Run | Instance | Shows |
|---|---|---|
| `operation_overlap` | 2 replicas, all 9 kinds, 1 retry, target revision up to 2, 1 fault, overlapping leaders, late creator | `TypeOK`, `MutationMatchesApproval`, `SuccessIsTruthful`, `NoPhantomSuccess`, `RetriesCapped` whatever the timing |
| `operation_exclusive` | 2 replicas, 5 kinds, revision up to 3, 1 fault, 1 lost lease | `TakeoverRecognisesMutation`, `TerminalIsFinal`, `ImplementsLifecycle`, `EventuallyTerminal` |
| `policy_updates` | 2 replicas, 1 administrator, 2 policies differing in provider scope, 2 edits | `TypeOK`, `AppliedIsObserved`, `StatusHonest`, `NoUnreviewedGrant`, `NoRollback` |
| `policy_settles` | 1 replica, 1 administrator, 4 policies (one malformed), 1 edit, 2 faults | `EventuallyCurrent`, `EventuallyReported` |
| `admission` | 2 replicas, 2 submissions of 1 confirmation, 3 policy versions, 1 edit, 1 fault | `TypeOK`, `OneOperationPerConfirmation`, `AdmittedWithEvidence`, `ApprovedIsReviewed`, `ReviewedPolicyAllows` |
| `user_store` | 2 replicas, 2 accounts (1 that calls are about), 2 modes, 3 revisions, 1 session, 2 requests and restarts after an initial sign-in | `TypeOK`, `SessionMatchesAccount`, `RecoveryCodeOnce`, `CachesSettle` |
| `web_cache` | 2 rows, 2 values, 2 changes of the server, 2 mutations at once, lists of both kinds | `TypeOK`, `ReadYourWrites`, `Converges` |
| `web_session` | 2 users (one with a second factor, one who must enrol), 1 refresh and 2 other calls at once | `RouteFitsUser`, `StreamFollowsUser`, `StreamRecovers`, `EndedSessionNoticed` |
| `web_pages` | each page with two or three rows, two lists that replace each other, one to three calls at once | `TypeOK`, `FormsAdmissible`, `BulkRunsExact`, `NothingOutOfReach`, `WarningsReviewed`, `RequestsOfTheirDialog`, `ReleasedInTime`, `ShowsWhatWasAskedFor`; each is a conjunction over the pages its comment names |
| `operation_late_queue`, `session_redis`, `benchmark_frames` | the smallest that show it | the code does not do what a document or a test says; see section 6 |

Every property has a mutant in `PROJECT.json`: a plausible bug (a dropped
guard, a missing reset, a swapped order; the definitions marked "Seeded
fault") under which the run reports the property violated.

**Bounds.** `MaxRetries` is 8 in the code and 1 here: what matters is a retry
that is allowed and one that is not. Two revisions of the target tell "the
approved version" from "changed since" and "created again", and hold one foreign
edit, growth, label or creation (`MaxRevision` bounds all of them together; three
allow a second one). Requests to Longhorn are counted up to two (`Sent`): more than
one is all that is asked. One fault falls at
any call, a crash included; pairs of faults are covered by the proofs for the
properties they state. Two replicas are all that two leaders, a reviewer and
an applier, or a first and a second submission need; the proofs do not bound
them. Two edits of the policy let a change be made and undone between a review
and its application. Symmetry is used for safety only, over replicas, requests
and confirmations that no definition tells apart; the liveness runs use none.
An operation may settle and a policy stay deleted, so deadlock is not checked in
these runs; nor in `web_pages` and `benchmark_frames`, where a bounded visit
comes to its end. It is checked in `user_store`, `web_cache` and `web_session`.

Two replicas with three revisions are what a stale copy, a conflict and the
document in between need; one session suffices because the properties speak of
one session at a time, and the redeemed codes are kept in the model. A run of
`user_store` begins with a session and a challenge in use, so that two requests
are enough for two uses of one code or two changes under one session. The proofs
of section 4 bound neither. `web_cache` needs a mutation whose rollback meets
another's write. In `web_pages` up to three snapshots are listed with
every choice of older parents (or none) and every choice of newer reported children,
and with parents in a circle, children in a circle and equal times. A dialog meets the row, answer or list of
another one as soon as there are two; TLC reports one action per page, and every
action of each page is enabled somewhere in its visits (an answer of every kind
arrives, every dialog opens and closes).

**Fairness.** `OperationController`: each replica's `Reconcile` steps and its
campaign for the lease go on (the list loop runs every two seconds; `RunOrDie`
retries), and thirty minutes pass. `RuntimePolicy`: informer goroutines handle
what they have, failed lists are retried, resyncs come round and started
writers finish. `UserStore`: the ticker of a serving
replica loads and applies; no request is assumed to end. `WebCache`: polls come
round (an interval timer) unless the stream is opened and lost for ever, which
restarts the timer each time (`PollsComeRound`), and a fetch that is tried again and again is answered
some time (strong fairness of `ServerReads` and `FetchAnswered`, because
mutations and frames cancel fetches for as long as they keep coming).
`WebSession`: the browser opens and closes its stream, its retry timer runs out,
and a request of `refresh` is answered or fails. Nothing is assumed of users,
other clients, storage controllers or failures; failures of the server-side
modules are finitely many. The pages state no liveness.

## 4. What is proved

`OperationControllerProofs`, for every set of replicas and kinds, any number of
retries, faults and losses, with overlapping leaders and a late creator:

* `TypeCorrect`: `Spec => []TypeOK`. The inductive invariant `TypeInv` adds
  that a replica about to store or audit an outcome holds a terminal copy; one
  lemma per helper of `Reconcile` moves one replica.
* `ApprovedOnly`: `[]MutationMatchesApproval`. Inductive by itself: each of the
  two calls that change an existing object carries the approved uid and
  revision as a precondition.
* `Truthful`: `[]SuccessIsTruthful`. A claim of success may be in the record, in
  any replica's copy, or about to be written by an outdated leader, so the
  invariant `TruthInv` says of all of them that a claimed deletion is a fact,
  and that facts last, because uids are never handed out again.
* `Retries`: `[]RetriesCapped`, and `NoPhantom`: `[]NoPhantomSuccess`. Both are
  about what may end up in the record, so both start from `Hop`: the outcomes
  a pass may go on with are enumerated once (a lemma per helper of `Reconcile`),
  and a record is a copy that was in flight. `CappedInv` says that every copy is
  capped as the record is. `EarnedInv` says that every copy that claims a
  success, and every wait for one, comes after a change this operation made
  or after somebody else's that looks the same: the wait begins with the answer
  to the change or with a target that shows it, and a target shows it only if one
  of the two was (`Evident`). What else others do to the object is not enough.

The second half of `OperationControllerProofs`, for the same constants, where
leadership is exclusive (`ExclusiveLease`) and the creator's Pending write comes in time
(`PromptQueue`). `Final` needs both: `operation_late_queue` shows the record
reopened without the second, and without the first two overlapping leaders
overwrite each other's outcome. `operation_exclusive` runs under them.

* `Final`: `TerminalIsFinal`. `LeaderInv` adds to the types that the lease names
  the leader, that the phase of its copy and of the record fit the call it makes
  next (`Fit`), that nothing was changed before the record says Running, and
  that a collected operation is at rest.
* `Takeover`: `[]TakeoverRecognisesMutation`. `StaleInv` says that only a
  leader that found no mutation of this operation plans again, executes or calls
  the plan stale (`Suspects`), and that a target this operation made or changed
  is seen as such by whoever looks (`Seen`): each kind of change leaves something
  on the object that lasts (`Traces`), the label unless somebody takes it off, and
  an object made later has a number of its own (`Numbered`).
* `Implements`: `ImplementsLifecycle`, the refinement, for every kind of
  operation: every step maps to `Queue`, `Begin`, `Change`, `Give`, `Succeed`,
  `Fail` or `Collect` of `OperationLifecycle`, or to a stutter. `Give` is the
  work of somebody else that leaves what was approved; the lifecycle lets an
  operation succeed after its own `Change` or after a `Give`, and after neither
  only if it is a removal. `LifeInv` is `LeaderInv` with `EarnedInv`.

`OperationAdmissionProofs`, for every set of replicas, submissions,
confirmations and targets, any number of policy versions, revisions and faults:

* `TypeCorrect`: `[]TypeOK`, with the invariant that a submission in progress
  carries a challenge that was handed out.
* `Once`: `[]OneOperationPerConfirmation`. The invariant: once an operation was
  created for a confirmation, either its object is still stored (so Create says
  it exists) or the challenge has expired and no submission is past `Verify`.
* `Evidenced`: `[]AdmittedWithEvidence`; evidence precedes Create and lasts.
* `Reviewed`: `[]ApprovedIsReviewed`; a submission past `Verify` planned on the
  reviewed revision, and a challenge does not change once handed out.
* `Allowed`: `[]ReviewedPolicyAllows`. The gates and the version are read at
  different moments; the invariant `PolicyInv` uses that a replica's versions
  never go back: if the version is the reviewed one at `Verify`, it was at the
  reads in between.

`RuntimePolicyProofs`, for every set of replicas, administrators, providers and
policies, every ceiling per replica and any number of edits and failures:

* `TypeCorrect`: `[]TypeOK`, with the invariant that a snapshot is closed or
  what its replica makes of the object it saw last.
* `Narrow`: `NoUnreviewedGrant`. Two arguments meet. `NarrowEverywhere`, about
  the functions alone: a policy within one ceiling that `Broadens` nothing under
  it grants nothing new under any ceiling, which is why one replica's review is
  enough for the others. `ReviewsTrue`, about the protocol: what was reviewed
  holds of the stored object as long as the versions agree, because versions are
  never reused and every copy of the stored version carries its spec
  (`CopiesTrue`).
* `Forward`: `NoRollback`. Queues stay in version order with deletions between
  (`CopiesOrdered`), and a snapshot in force has the version last seen.
* `Honest`: `[]StatusHonest`; a pending status of the stored version was computed
  from its spec (`WritersTrue`).
* `Observed`: `[]AppliedIsObserved`. Generations restart with a recreated
  object, so the wait alone proves nothing: the replica that admitted the change
  had seen the version it replaced, and nothing lies between that version and
  the one written (`AnswersTrue`).

`UserStoreProofs`, for every set of replicas and accounts, any number of
revisions, sessions, codes and requests, and both backends:

* `TypeCorrect`: `[]TypeOK`.
* The other three rest on one observation: every step that extends `documents`
  is a `Write`, judged by a relation `Good` between the new document and the one
  before. What `Good` says of neighbours is extended to any two revisions
  (`Revisions`), because a conditional update never skips one.
* `Matches`: `[]SessionMatchesAccount`. Between two revisions of the same account
  with the same version neither role, password nor second factor has changed
  (`Agree`), and an account under a name gives way to another one only by way of
  a document without either (`Continues`); the invariant `SessionInv` says that a
  session is what its revision gives. The alternative `Deleted` of the property
  is no formality: `DeletedAccountSignedOut` (section 6) is violated.
* `CodeOnce`: `[]RecoveryCodeOnce`. A code that was redeemed is gone from every
  later document and cannot come back, since codes are named by the revision
  that made them (`CodeInv`).
* `LastAdmin`: `[]AdminRemains`: an account that stops being an active
  administrator leaves another one in the same document (`AdminInv`). No run
  states it, to keep `user_store` short; TLC agreed on its instance with calls
  about both accounts.

`WebCacheProofs`, for every set of rows and values and any number of mutations:
`CacheTypeOK` and `CacheReadYourWrites`. The invariant of the latter follows the
newest answered change through the places a copy of the rows may be in: the
cache, the fetch under way and the rows saved for a rollback.

`WebSessionProofs`, for any users with or without a second factor, any number of
calls under way and any number of steps of the backoff: `TypeCorrect`
(`[]TypeOK`), `StreamFollows` (`[]StreamFollowsUser`) and `RouteFits`
(`[]RouteFitsUser`). The inductive invariant (`TypeInv /\ Follows`) ties an
answer to the call it belongs to, so that a late one can only bring a user where
`setUser` moves route and stream with it.

`WebPagesProofs`, for any rows, lists, answers, policies and numbers of
requests at once. React drops a page when it is left, so a visit stays on its
page: `VisitsKeep` says that the page that is mounted keeps the invariant
proved of it alone (`VisitInv`), and the six theorems after it give the
properties of `web_pages`. Each page has a lemma (`...Inductive`) with the three
facts about its invariant, and a theorem about its own specification. What the
invariants have to add to the properties is the interesting part:

* `AdmissibleForms`: `[]FormsAdmissible`, from `Admissible`
  (`StoragePolicyPage`) and `FrontendFits` (`VolumesPage`). A draft is admissible
  only if the stored policy, the plan on show and every request under way are
  too, since a poll or a late answer can put any of them in its place
  (`DraftInv`); closing a gate has to close what it is the parent of.
* `ExactBulkRuns`: `[]BulkRunsExact`, from `Accounted` (`VolumesPage`),
  `OwnAccount` (`UsersPage`) and `DefaultKept` (`EngineImagesPage`). The rows of a
  run are parted into those left, done, skipped and failed (`BulkInv`), and the
  counts shown are cardinalities of the parts. For the default image the
  invariant follows a list from the cache into the ticked rows and into the
  rollback of every request (`ImagesInv`).
* `ReviewedWarnings`: `[]WarningsReviewed`, from `Reviewed`
  (`StorageOperationsPage`): an acknowledgement is of the plan on show (`AckInv`).
* `OwnRequests`: `[]RequestsOfTheirDialog`, from `SavesOwnJob`, `RestoresOwn`,
  `OwnAnswer`, `WholeTargets` and `DisksRemoved`. `BackupsOwnInv` holds although
  two restores share one dialog: the choice made for another volume stays in it
  only while a bulk restore is the newest request, and the list offered is
  always that of the volume in the dialog. `NodesInv` says that the editor has
  exactly one row for each disk there was when it was opened, that only those
  can be marked, and that such a row keeps its name unless its identifier was
  given to a new row too: the rows are patched by identifier.
* `TimelyRelease`: `[]ReleasedInTime`, from `Released`, `FormReleased`, `Hidden`,
  `Followed`, `Passes` and `GhostsDropped`. The invariants tie what is on the
  screen to the timer or the request that will take it away: one `hide` timer,
  which belongs to the login on show and to no earlier one (`LoginInv`); a poll
  timer started by the last of three events (`SupportInv`); a timer
  for each message, no two of which have one id (`MessagesInv`); the
  points of a series in the order of their scrapes, the last of them no older
  than the scrapes allowed (`SeriesInv`).
* `ShownAsAskedFor`: `[]ShowsWhatWasAskedFor`, from `Shown` (`StorageQueries`) and
  `NeverBlank` (`TablePage`). Only what the URL names is asked for, at once or when
  the network is back, and an answer is kept under what it was asked for
  (`QueriesInv`); a page of a table begins
  at a row that passes the search (`PageBegun`), which a change of the page size
  keeps because the new page begins at or before the first row shown.

`WebReachProofs` has two parts. The first, for any finite set of snapshots, any
listings of them, and any providers, is `AllInReach`, `[]NothingOutOfReach`, from
two theorems about one page each.

* `TreeDrawn` (`VolumeDetailPage`). The invariant `TreeInv` says that what is on
  show is nothing or one whole listing (`Listing`: finite, with times), whichever
  was answered last or came with the volume. The rest is about the function
  `buildOrder` (`OrderFaithful`), for listings whose children are reported for all
  snapshots, for some or for none, whether or not they agree with the parents.
  `Walk` calls itself; that it is the function its equation describes
  (`WalkUnfolds`) is shown with a rank that falls with every call (`RankBelow`,
  `RankNext`), by taking a call of least rank for which no walk exists
  (`WalksExist`), since an induction rule that takes a predicate cannot be
  instantiated here. `WalkAnswers` says of each call, again through one of least
  rank, what its rows are (`Tidy`): no snapshot twice, none that was seen before,
  each after its children unless these lead back to it (`LeadsTo`); and that they
  are drawn with what was asked for (`From`, the least set that holds it and the
  children of its members: `FromLeast`). So the walk draws what the roots reach
  (`ReachedDrawn`), the rest follows, each once (`Enumerated`, `OrderDrawn`). Where
  children and parents agree and form no circle there is no rest, and no snapshot
  leads back to its parent (`TreesReachAll`): then each is above its parent.
* `Arrived` (`ProviderWorkspace`). A location the program can be in is a `Place`: its
  path is routed, and it names a provider in the query only where the path names
  none. Each item of a workspace is determined by its path (`Marked`), and no path
  of one is the beginning of another's that is not marked exactly (`OneActive`); so
  an item marks itself and nothing else, once it is known that the workspace it
  leads to offers it too (`ItemKept`). Each link names the provider of the page it
  is on (`LinkArrives`). What is needed of providers is that Longhorn's is called
  "longhorn", which `LonghornIsItself` assumes.

The second part is `PagesTyped`: `[]TypeOK` of `WebPages`, that is, the types of
all 23 pages, from one lemma per page (`...Typed`; those of the list pages and the
forms end `WebPagesProofs`) with the three facts about its invariant (`TypesInv` takes them together, as `VisitInv` does above). What a page
shows comes from elsewhere, so the invariants type that too: the rows a rollback
would put back and those a bulk deletion has left (`Deletes`), the lists, drafts
and plans that requests carry, the frames on their way to the cache of benchmark
runs and the keys of that cache (`Keyed`), the points of a series and where they
were sampled (`Labelled`). Three pages need the invariant of their property for it:
a page of a table has a number no greater than that of its rows because it begins
at one (`PageBegun`), a location is routed because it is a `Place`, and the answers
of the queries are typed by `QueriesInv`.

Assumptions used: the constants' types (`ConstantsAssumption`, which also says
that "no replica" is none of the replicas, `AdmissionAssumption`,
`PolicyAssumption`, `UserStoreAssumption`, `SessionAssumption` and the one of
`WebCache`), the facts about data that `WebPages` assumes (section 2), nothing
about bounds; about timing, only the two hypotheses `ExclusiveLease` and
`PromptQueue` of four theorems about the controller. TLC evaluates all assumptions
but those hypotheses in the runs, and checked the inductive invariants of
`OperationControllerProofs` on an instance before they were proved.

**Only model-checked:**

* liveness (`EventuallyTerminal`, `EventuallyCurrent`, `EventuallyReported`,
  `CachesSettle`, `Converges`, `StreamRecovers`, `EndedSessionNoticed`), which
  TLAPS does not handle under fairness.

## 5. What could come next

1. `ChangeHub`: informers, coalescing, subscriber buffers and the frame that
   tells a browser to fetch everything, as the environment of `WebCache`.
2. `LoginLimiter` over Redis, the audit store and its import, the ordered
   shutdown, the Job of a benchmark run.
3. A composition of `OperationAdmission` with two operations of one target and
   the controller's takeover recognition.

## 6. Where code and documents disagree

Runs:

| Run | What happens |
|---|---|
| `operation_late_queue` | The unconditional Pending write of `Store.Create` can reopen an operation the leader already finished. |
| `session_redis` | The session version is not part of a user's JSON, so a session kept in Redis is refused at its first use. |
| `benchmark_frames` | A frame about a benchmark run throws on the cache entry of one run before it has reached the list. |

Configurations that are kept beside the runs; TLC finds the property violated
under each:

| Configuration (module) | Property | What happens |
|---|---|---|
| `OperationAnswers.cfg` (`OperationController`) | `LonghornSentOnce` | A Longhorn request whose answer was lost is sent again while its effect is not visible. |
| `OperationAnswers.cfg` (`OperationController`) | `OwnSuccess` | A claim that somebody else grew after the record said Running is reported as the operation's success, with nothing sent: `controller.go:286-287` speaks of "a mutation that completed before a leader crash", and the code cannot tell. |
| `OperationAnswers.cfg` (`OperationController`) | `CollectedWithEvidence` | A pass cancelled with its lease appends a terminal failure for an operation that goes on and may succeed; the collector accepts the event as evidence. |
| `RuntimePolicyDoubts.cfg` (`MCRuntimePolicy`) | `OutageFailsClosed` | A notification received before a watch error is handled after it and reopens the closed snapshot. |
| `RuntimePolicyDoubts.cfg` (`MCRuntimePolicy`) | `RetryIsNotOlder` | A lagging replica answers a change that was never applied as an exact retry, with the superseded policy. |

`OneActivePerTarget` of `OperationAdmission` fails too: with two replicas, two
submissions and two challenges on one target (`MaxVersion` and `MaxRevision` 1,
no faults) both are admitted.

`DeletedAccountSignedOut` of `UserStore` fails: `docs/INSTALL.md:343-345` says that
a deletion invalidates signed-cookie sessions, but an account created under the
deleted name starts at session version 1 (`users.go:462-465`), so a cookie made
from version 1 of the deleted account passes for one of the new account, whatever
its password. TLC shows it in six states when the definition is made an
`INVARIANT` of `UserStore.cfg`.

A replica that lost its lease never campaigns again: without the bound on lost
leases of `operation_exclusive`, `EventuallyTerminal` fails.

Definitions of the page modules that state an expectation the code does not
meet (see their comments), for a reader to add to a
configuration: `PasswordTypedForUser` (a password typed for one account is
offered for the next), `RemovesMarkedOnly` (a disk goes only if it was marked:
see `NodesPage` below), `ChildrenAbove` (the comment of `buildOrder`,
`SnapshotTree.tsx:55-61`: children are emitted before their parent),
`RemovalNotClobbered`, `SubmitsWhatWasPlanned`,
`DeletionTyped`, `PickedColumnsShown`, `OneUpload`, `DeletesWhatIsTicked`,
`InstancesComplete`, `DialogFollowsList`, `KeepsOtherEngine`,
`PointWise`, `NodeOfItsVolumes`,
`EachGaugeCounted`, `HealthyWhenAsked`, `TickOfItsLogin` and `ValidSessionKept`
(a network failure of `/auth/me` signs the user out).

Behaviour of the web application met on the way, all of it in the models:

* Fields of a volume's dialog outlive it, so values entered for one volume are
  offered for the next (`ActionFormDialog.tsx`); a handler that ends closes
  whichever dialog is open; bulk actions reach rows a text search hides.
* Snapshot listings may be answered out of order (`VolumeDetailPage.tsx:150`).
  When only some snapshots report children (`SnapshotTree.tsx:71-84` decides once
  for all of them), or parents form a circle, those that no root reaches are drawn
  last (line 107): below their parents, and not indented.
* `BackupsPage`: a volume without a last backup is restored empty with a
  message of success; the bulk restore opens the dialog its comment says it
  avoids.
* `BackingImagesPage`: an upload that fails after the image was created leaves
  an image without data.
* `NodesPage`: disks that others add while the editor is open are removed by
  saving; a new disk named like another replaces it. A disk saved without a name
  is called `__new_0` (line 203), and after a reload so is the next new row (line
  83): renaming or removing that row renames or marks the disk too, and saving
  then drops it although nobody marked it. `RemovalExact` excepts such disks.
* `StoragePolicyPage`: a draft is dropped when a poll brings a new
  resourceVersion of the same policy; a late answer closes a newer dialog.
* `SettingsPage`, `SSOConfigPage`: what is typed while a save waits is dropped;
  a form whose load failed writes its empty fields when saved.
* `UsersPage`: a bulk deletion stops at the first refusal without saying so.
* `WebSession`: the cache is not cleared at sign-out; a late `/auth/me`
  overwrites the user of a later sign-in. Reconnecting does not refetch.
* `WebCache`: a stream that is opened and dropped again within each interval (a
  proxy that ends responses after half a minute, say: the server asks for a pause
  of five seconds, lists are polled every ten seconds without the stream and
  every minute with it) keeps every poll from coming round, and opening it
  refetches nothing, so a change made during a pause may stay unseen until the
  next one. `PollingStillRefreshes` states what `realtime.tsx:34` says and fails;
  `Converges`, which the run checks, asks that the stream come to rest.
* `StorageQueries`: the timeline and the capacity card return their empty state
  before they look at the conditions, so nothing is said of a source that was
  missing; the resource pages of OpenEBS and LINSTOR do not say that their list
  is partial. The summary of a provider (`StorageContextPages.tsx:146`), which
  is not modelled, calls evidence complete and drift zero while neither is
  loaded. Without a network the query library keeps requests back (`Pause`,
  `Disconnect`, `Reconnect`; `App.tsx:120-127` sets no `networkMode`): then
  `isLoading` is false although there is no data, and panels without a kept
  answer say that there is nothing. `AbsenceWasAnswered` excepts that.
* `SupportPages`: the dialog of an instance manager keeps the row it was opened
  on; an empty map of instances hides the two maps beside it.
* `WebCache`: for lists that are not refetched after a success, a refetch that a
  removal has cancelled is made good only by the next poll; one mutation's
  rollback wipes another's optimistic row.
* `MetricsPages`: a series keeps the labels of its first sample; the charts add
  last points of series that have stopped to newer ones.

## 7. Not modelled

The per-action safety rules of the planner (data, not control), provider
adapters, the Longhorn proxy and the read-only aggregation (pure I/O and
decoding), OIDC (driven by an external provider), the login limiter, the audit
stores' internals, the hub's buffers and timers, the Job behind a benchmark run,
HTTP routing, wiring, and generated code. Of the identity, the memory backend of
sessions, the file backend of accounts, token expiry, TOTP windows and the CSRF
check. Of the web application, sorting, layout, translation, the drawing of
charts and graphs, and the read-only tabs; `findNavItem` and `adminPageGroups`,
which only choose titles.
