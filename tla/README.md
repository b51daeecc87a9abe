# A verification project for DriftScribe

DriftScribe watches a Cloud Run service, has an LLM agent judge drift from the
service's contract, and acts through narrow workers: it opens issues and pull
requests, and it proposes rollbacks and infrastructure changes that an operator
approves. This directory holds TLA+ models of the parts of it where order,
failure and concurrency decide, the TLC runs that check them on small
instances, and TLAPS proofs for every instance. Line numbers are those of the
sources this was written from.

## The system and its parts

| Component | State it keeps | Operations | Interacts with |
|---|---|---|---|
| Rollback approval lane (`driftscribe_lib/approvals.py`, `workers/rollback`) | `approvals/` documents: status, `apply_audit` (phase, operation name), `resolved_at`, expiry | propose, execute, deny, reconcile | Cloud Run revisions, traffic and long-running operations; the coordinator forwards tokens |
| Recheck pipeline (`agent/main.py` `_do_recheck`, `_do_rollback`; `agent/state_store.py`) | `events/` (claim and pointer) and `decisions/` rows; the autonomy dial | recheck, find, evict, claim, record, release | the agent turn, the target service, GitHub, the rollback worker |
| Eventarc trigger (`agent/main.py` 2893-3283) | two flags of `_EventarcCoalescer` in memory; the pause flag | acknowledge, coalesce, audit, rerun | Pub/Sub, the recheck pipeline |
| Approval desk (`agent/main.py` 3810-4190, 5434-5472, 5734, 7680-7908; `frontend/src/lib/approval.ts`, `overviewStore.ts`) | `_TERMINAL_APPROVALS` and `_RECONCILE_ATTEMPTED`, in memory; what each tab shows | serve `/decisions`, approve, deny, ask the worker to settle stuck rollbacks | the rollback worker's one slot, `approvals/`, every open tab |
| IaC approval lane (`agent/main.py` 5900-7680, `agent/iac_artifacts.py`, `agent/iac_csrf.py`, `workers/tofu_apply`, `.github/workflows/iac.yml`) | builds and their comments, form tokens, plan approvals and their `apply_audit`; the pull request; the state lock | build, comment, show, admit, propose apply, merge, apply, resume | GitHub, GCS, OpenTofu |
| Authoring (`agent/fanout.py`, `agent/adk_tools.py`, `workers/tofu_editor`) | the turn, its slices and its stream; branches and pull requests; `iac_pr_trace` records | decompose, author in parallel, merge, open a pull request, adopt a resource | the LLM, GitHub, the static gate |
| Chat, conversations, handoff (`agent/main.py` 486-745, 8160-8842, `agent/state_store.py`, `agent/handoff.py`) | conversation documents, run leases, handoff nonces | begin and finish a run, append turns, redeem a handoff | the agent, the browser |
| Trace timeline (`agent/main.py` 805-1047, 5038-5243, `agent/trace_fetcher.py`; `frontend/src/lib/traceCache.ts`, `timeline.ts`) | `_TRACE_OBSERVATIONS` and `_TRACE_CACHE`, in memory; the entries of each page | `GET /trace/{id}`; stream, backfill, open, retry | Cloud Logging, `decisions/`, the stream of `/chat` |
| Other caches (`per_pr_cache.py`, `infra_graph_cache_store.py`, `iac_pr_trace_store.py`) | TTL caches in memory and Firestore | fetch, single flight, invalidate | GitHub, Cloud Asset Inventory |
| Upgrade lane (`workers/upgrade_docs`, `workers/upgrade_reader`) | pull requests | propose an upgrade PR, gate and merge it | GitHub |
| IaC gates (`driftscribe_lib/iac_plan_denylist.py`, `iac_plan_classify.py`, `iac_plan_summary.py`, `tools/iac_static_gate.py`, `workers/tofu_apply/tofu_runner.py`) | none | judge a change, a plan, a tree | run by the editor, the plan builder, the page and the apply worker, each on its own reading |
| Kill switch and autonomy dial (`agent/pause.py`, `agent/autonomy.py`) | two documents | set, read fail-closed | every mutating path |
| Agent runtime, rendering, other workers, auth, frontend, infrastructure | none of their own that the above depends on | | |

What is hard in it: a credential that may be spent once although requests
overlap and containers die between a call and the record of it; an outcome
that is not known when a request ends; a store whose writes may be committed
and look failed; a key that is released by unconditional deletes; a world that
is redeployed during an LLM turn; events that are acknowledged before they are
handled; a page that is approved after what it showed has moved; gates written
apart in five places that must agree about one plan; a pull request committed
file by file; a worker with one slot that three kinds of caller queue for; a log
that shows its entries late and in any order to threads and pages that overtake
each other.
`PROJECT.json` lists each of these hazards at its line with the
properties that would catch it going wrong.

What makes each part correct: an approval shifts traffic once; what is recorded of its outcome is what Cloud Run did,
and an established outcome stands; one drift has one live approval and one
issue; a verdict is filed under the world it is about; what is served from the
cache is still true of what the request saw; the latest change of the service
is looked at; what is applied is what an operator was shown and is harmless, and
what is merged before its apply can be applied for as long as the OpenTofu pin
stays; a pull request holds one whole change of one turn; the desk contradicts
nothing it told a tab and gives up no rollback it never asked about; a timeline
that is called complete held still, and a page loses no row of it.

## Modules

| Module | Models | Uses |
|---|---|---|
| `OneShotRollback` | what the rollback lane promises, with no documents, requests or crashes | |
| `RollbackApproval` | the documents, the four endpoints, Cloud Run operations | refines `OneShotRollback` |
| `MCRollbackApproval` | the symmetry set of `RollbackPair` | `RollbackApproval` |
| `RollbackApprovalProofs` | inductive invariant and theorems | `RollbackApproval` |
| `Recheck` | the recheck pipeline over `events/` and `decisions/` | |
| `MCRecheck` | the placement of requests on instances | `Recheck` |
| `Eventarc` | acknowledgement and coalescing | |
| `RecheckProofs` | inductive invariants and theorems of both | `Recheck`, `Eventarc` |
| `ApplyThenMerge` | what the IaC lane promises of a plan that creates nothing | |
| `IacApply` | approval POST, plan approvals, tofu-apply worker, pull request | refines `ApplyThenMerge` |
| `MCIacApply` | the plans of its runs | `IacApply` |
| `IacApplyProofs` | inductive invariant and theorems, the refinement | `IacApply` |
| `PlanGates` | denylist, classifier, summary and resource-set guard, as operators over plans | |
| `StaticGate` | the gate on a change to `iac/`, and what OpenTofu plans for one | `PlanGates` |
| `IacReview` | builds, comments, the approval page, its form token, the admission of the POST and the worker's gates | `StaticGate` |
| `MCIacReview` | the changes, faults and brakes of its runs | `IacReview` |
| `IacReviewProofs` | theorems about the gates, inductive invariant and theorems of the lane | `IacReview` |
| `Authoring` | provision turns, the authoring tools, the editor worker, the pull requests | `StaticGate` |
| `MCAuthoring` | the files and resources of its run | `Authoring` |
| `AuthoringProofs` | inductive invariant and theorems | `Authoring`, facts about its gates |
| `Desk` | `GET /decisions`, `POST /approvals/{id}`, the worker's slot | |
| `MCDesk` | the rows of its runs | `Desk` |
| `DeskProofs` | inductive invariant and theorems | `Desk` |
| `Timeline` | the log, `GET /trace/{id}`, its observation and its cache | |
| `MCTimeline` | the symmetry set of its run | `Timeline` |
| `TracePage` | the browser's record of a trace | |
| `TimelineProofs` | inductive invariants and theorems of both | `Timeline`, `TracePage` |
| `MCTracePage` | the events of its runs | `TracePage` |
| `Conversations` | one conversation: turns, run lease, handoff offers | |
| `MCConversations` | the symmetry set of its runs | `Conversations` |
| `ConversationsProofs` | inductive invariant and theorems | `Conversations` |

### RollbackApproval

A handler is one HTTP request in progress; it is cut at its Firestore and Cloud
Run calls. `doc[a]` is the document (`Approval`), `opState` and `opFor` what
Cloud Run knows of operations, `pc`, `on`, `lro`, `todo` the local variables of
a request (endpoint position, approval id, operation handle, the `apply_audit`
it is about to record). `Propose`, `Execute`, `Deny` and `Reconcile` are the
arrivals; `Preflight`, `Claim`, `StartTrafficUpdate`, `UpdateService`,
`RecordApplying`, `Wait`, `RecordPhase`, `ClaimDenied` and `GetOperation` are
the calls they make. `Crash` ends a request at any point: a container death or
an exception nothing handles. The environment expires approvals, deploys, tags
and finishes operations.

Left out: a request with a wrong token, an unknown id or an expired document
changes nothing and is no step; the revision list and the document write of
`/propose` are one step; `env_snapshot` is display only; the fallback of
`_operation_name` for an SDK object without a name is not reachable with the
pinned SDK.

### Recheck

A request runs an agent turn (`AgentRead`, any number of reads, and an arbitrary
proposal), reads the service (`PostRead`), looks the key up (`Lookup`, which
includes validation and the coherence gate), evicts a stale row, claims,
acts and records. From the post-turn read on the code awaits nothing: the
event loop of the instance is held (`LoopFree`), and only requests of another
instance interleave (`Home` places requests; a rolling deploy overlaps two
instances). `events[k]` is the event document: claimed or not, and the row it
points to. `AckLost` says whether a committed write may raise. The bounds are
`MaxRevision`, `MaxDecisions` and `MaxCrashes`; artifacts of a key are counted
up to `Many`. Of the answers, "failed" is the 502 of a request that handled its
failure, which releases the key first, and "error" an exception it did not: a
record that raises outside the rollback path, a delete that raises, or the
identity token for `/propose`, which `worker_client.call` mints outside of what
it catches. An exception past the claim leaves the claim in place.
`FailureFreesItsOwn` says what a 502 promises; that the other exits keep the
claim contradicts two docstrings (known disagreements).

Left out: the trigger, the service and the contract are fixed, so a key is the
env it is hashed from; `force=true` derives a key nobody looks up; the non-ADK
path is the turn that saw what the request reads; notification annotations of a
row are not modelled; an approval whose token was lost with the worker's
response cannot be used and is not counted. `Expire` waits for the request that minted
the approval, because requests end within 300 seconds and approvals live 15
minutes.

### Eventarc

A version is a change of the service, with one event. `Accept` is the only
answer that schedules a task; `Drop` is the acknowledgement under the kill
switch. `Coalesce`, `StartTask`, `AuditDone` and `AuditFails` are the segments
of `_eventarc_background_recheck` between its awaits. `heard`, `due`, `covered`
and `missed` are history. An audit whose coherence gate refuses is not counted:
what moved the service during the turn announces itself by its own event.

### IacApply

A plan is one artifact of the plan builder. `events[p]` is its event document
with the decision it points to, `approval[a]` a `plan_approvals` document,
`job[a]` where the `/apply` of an approval is in the worker or the class of the
answer it gave; `req[r]` holds the position and local variables of an approval
POST, which is cut at its calls to Firestore, GitHub and the worker. The two
routes of `iac_approval_post` share the actions: a plan that creates nothing
goes `Claim`, `Propose`, `Head`, `Send`, `Answered` or `Timeout`, `Merge`,
`Record`; one that creates goes `Claim`, `Intent`, `MergeFirst`,
`RecordMerged`, and after the operator's `Rebake` a second POST goes `Find`,
`Propose`, `Send`, `Answered`, `Record`. The job lives on when its caller gives
up or dies: the worker may run 900 seconds, the coordinator 300.

Nondeterministic, because nothing decides them here: whether checks are green,
whether a gate of the worker refuses, whether the state lock is taken, whether
`tofu` fails and what it did before. That `tofu apply` refuses a saved plan
once the state moved on is OpenTofu's own rule, on which `tofu_runner.py:22`
relies.

Left out: a reject, a refusal by the kill switch, the dial or the form token
and the GET page, which change none of this state (`IacReview` has the page, the
token and the brakes); `superseded_by_pr`, which
only an operator writes by hand; the notifier; the state lock as a resource.

### Conversations

`conv` is the conversation document, `turns` its transcript, `req[r]` a request
of `/chat` or, after a redemption, of `/chat/handoff`. Every store call is one
transaction and one step: `Acquire` (`begin_chat_run`), `Persist`
(`append_turns`), `Release` (`finish_chat_run`), `Redeem` (`redeem_handoff`).
`Arrive` reads what the turn captures at entry: the bound crew and the open
offer. Between `Arrive` and `Acquire` the code awaits nothing (`LoopFree`), and
the deployment has one instance. `Disconnect` and `PersistLate` are a stream
whose client goes away during the write: the lease is released while the thread
that writes goes on, although the comment at `main.py:715` means to exclude
that; `Attributed` therefore speaks of turns that still had their lease. Run ids
are request slots; a run that ends without a release turns its id into `Gone`.
`recorded` and `retired` are history, and so are `held` of a row and `timely` of
a request.

Left out: ephemeral turns and refusals, which change nothing; reading and
listing; what a turn replays to the agent.

### PlanGates and StaticGate

Operators only: the gates keep no state. A plan is its `resource_changes` list;
an entry keeps of its JSON what a rule can tell apart: the kind of resource, the
name class on either side (the control plane's own, one a Google service
manages, a plain one, absent), the action list, the form of `importing`, the
address. `Denied` is the denylist with one predicate per rule, `PlanHasCreate`
and `PlanHasImport` the classifier, `Summary` and the words derived from it the
summary, `GuardRefuses` the worker's resource-set guard. A changed file
(`StaticGate!Files`) has a class of path, a class of text and at most one
construct of each sort the gate looks for; `GateRefuses` is the gate in operator
or agent mode. `PlanOf` is not this repository's code: it says what OpenTofu
plans for a change, with or without a resource changed by hand, and is what the
code relies on.

What the worker takes for declared is not what OpenTofu takes: `DeclaredIn` asks
whether `_RESOURCE_DECL_RE` (`tofu_runner.py:43`) finds the declaration, which it
does where the block starts its line and quotes its labels (`found`). A block
that does not (`form = "inline"`) passes the gates before it. The opposite error,
a match inside a heredoc or a comment, is left out: the files of `StaticGate`
declare what they say. What is on main already, and the row of a drifted
resource, are found.

The gates are judged where the code runs them and against a definition none of
them uses, `IacReview!IsHarmless`, the sentence the approval page prints.

### IacReview

One pull request on its way to the operator. `content[h]` is the change head `h`
carries, `builds[b]` an artifact with its plan, its head and what is wrong with
it (`fault`: a missing, altered or foreign object, a comment that lost a field),
`comments` the builds the C2 comments name, `tokens` the form tokens that are
out, `seen` what a page displayed beside which source, `decided[b]` the decision
on record, `posted` the build of a POST that was admitted and has not acted.
`Build`, `Recheck` and `Comment` are the plan builder's run with its last look
at the head; `Get`, `ShowSource` and `Expire` the page; `Submit` the admission
(origin, token, brakes, what was displayed is what is latest, artifact);
`MergeFirst`, `ApplyFirst`, `Resume` and `MergeOnly` its effect, with the gates
of the worker (`WorkerAdmits`). `pin` is the OpenTofu version main builds and
plans with (`iac.yml:311`, the worker's `Dockerfile`), which `Bump` moves while
no tree of `iac/` changes, and `bakedPin` the one in the worker's image, which
`Rebake` takes from main; a plan keeps the pin it was made with, and
`assert_fidelity` compares the two (`SameTofu`). Pushes, merges by hand, closing, the re-bake and the
brakes interleave with all of them; whether the live resources have drifted is
read by each build, and is its input (`drift`). `IacApply` has what happens after admission,
request by request; here one POST is in progress at a time and its effect is one
step, because the subject is what the plan says. Source caching is a per-PR
record of a head that may be too old or lost (`ResolveSource`).

Left out: the required checks of GitHub (their outcome is the choice between
`ApplyFirst` and `TurnedAway`), the worker's comparison of the lockfile (a part
of the tree where the tree is proven, and otherwise one of the refusals that
`TurnedAway` stands for), the drift classifier's wording, rendering.

### Authoring

A run is a provision turn. `Begin` dispatches it: a turn under Observe or of an
anonymous visitor goes to the single agent; the others are decomposed (`Think`,
`Decompose`), authored in parallel (`Submit`, `AuthorFails`), joined
(`Barrier`) and sent once (`Send`). `OpenInfraPr` and `ProposeAdoption` with
`SendAdoption` are the two tools of the single agent; they are synchronous, so
that `loop` is held until `Hear` or `HearError`, while the fan-out calls in a
thread. `calls[n]` is a request in the editor worker: `CreateBranch` with the
policy and the gate before it, `WriteFile` per file, `OpenPull` with a lost
answer, `Finalize`, and `WorkerDies` at any point; the branch name of two calls
may collide (`NewBranch`). `Disconnect` and `CoordinatorDies` leave requests
behind that nobody hears. `traces[p]` is the write-once provenance record.

What an agent writes is arbitrary among `Contents`; a file is a file of
`StaticGate`. What is said of the files of a pull request is said of a branch
no other call wrote to (`Alone`): the files of two calls that chose one name may
mix, and the turns that sent them are not told. Left out: the size limits of the
editor, the read tools, dispatch of the plan builder (a build
is a step of `IacReview`), the wording of titles and bodies; that an author ends
changes nothing but that it submits no more, and is no step.

### Desk

`Rows` are the approvals of the served window in row order. `StartGet`,
`ReadRow`, `AskWorker` and `AfterAsk` are one `GET /decisions`, cut at its reads
of Firestore, at the thread switch between the read and the brakes of
`_maybe_reconcile`, and at its calls; `settled` is `_TERMINAL_APPROVALS`,
`attempted` is `_RECONCILE_ATTEMPTED` with its halving. `Approve`, `Reject`,
`GiveUp` and `Respond` are `POST /approvals/{id}` with `_recorded_phase` before
the call and `_approval_if_phase_advanced` after it. The worker's handlers
(`Refuse`, `Deny`, `Claim`, `StartUpdate`, `EndWait`, `Reconcile`) are what the
coordinator and the document see of them; the races inside them are the subject
of `RollbackApproval`. `slot` is the worker's only request; a call waits for it,
and is not cancelled by a caller that gave up. `Restart` takes both tables and
every page under way. `shown` is what a tab makes of each row as it was last answered,
by the rule of the frontend (`classify` in `ledger.ts`), which looks at the
served row and at nothing older: a row whose document could not be read
(`RowUnavailable`) carries only `status_unavailable` and becomes a neutral note,
whatever the tab showed of it before. `told` is history, what the last answer
that did know the document told. A row is recorded when the server makes it,
although the tab replaces its list at the end of the GET, which asks more of
the rows.

Time is counted in polls of 45 seconds; only the order of the thresholds
matters (`ClockAssumption`): `/execute` waits 60 s for its operation, the desk
asks from 90 s on, again after 300 s, and gives up after 24 h.

The model assumes what the deployment fixes: one instance of the coordinator and
of the worker, `--concurrency=1` of the worker, some tab polling in every
interval, no GET outlasting one, `phase_at` well formed. A 423, and a 409 of the
dial or of the missing acknowledgment, change nothing and are no steps. The
merge reconcile of infrastructure rows and the page's rendering are left out.

### Timeline and TracePage

`stamps` says when each event of one run was logged and `since` from when a
search finds it (`Ingest`, in any order). A GET is cut where its thread can be
overtaken: `Start` reads the decision and the cache, `QueryNarrow` asks for the
window around the decision or the last days, `QueryWide` for all the deployment
looks at, `Judge` is `_observe_and_check_stability`, `Store` the cache write.
Time passes during a fetch, up to its timeout, and not after it. `obs` and `cache`
are the two dictionaries' entries for this trace; `PushedOut` is the eviction by
others, `Restart` a new instance. The assumptions on the constants are what the
code relies on: the timeout is below the grace period, a run is shorter than the
band at the edge of a window.

`TracePage` is the entry of `createTraceCache` for the trace and its requests.
Of the server it uses what `Timeline` shows and `TimelineProofs` proves: an
answer is the log at one moment (`AnswersAreMoments`); how old it is, and when
the server calls it complete beyond holding the final response, is left open.
`Backfill`, `Ensure` and `Retry` ask, `Settle` and `Fail` are the two ends of
`settleBackfill` and `fetchTrace`. `held` and `whole` are history. `Evict` waits
for the backfill: thirty newer entries within the seconds of one request are not
considered.

Left out: a chat answered without a stream, for which the page backfills an entry
that never was live (`App.svelte` 1295-1335 and 1914, `timeline.ts:141-143`), and
might be pinned short: the server answers a request of this client with a stream
always; traces of infrastructure applies, which have no events; the page limit
of 500 entries; the body of a pull request and the decision beside the rows;
redaction.

## Runs

| Run | Bounds | Shows |
|---|---|---|
| `RollbackLane` | 1 approval, 2 revisions, 2 operations, 2 requests, fairness; 31,268 states | a second shift, a race of any two endpoints and every crash point are reachable; outcomes and answers are honest, settled outcomes stand, the outcome of a shift with a recorded handle is learned, and the lane keeps its promise (one shift) |
| `RecheckWorld` | 2 envs, 3 revisions, 1 request at a time, 2 rows, lost acknowledgements, 1 crash | a deploy over and back during a turn, a retry after every failure |
| `RecheckOverlap` | 1 env, 2 instances, 3 rows, 1 crash | the eviction and claim races, also of a request that fails, releases and is retried; three rows are a stale one and two that replace it; 4,037,268 states |
| `Eventarc` | 2 changes, events delivered up to twice, 1 crash, fairness | an event during the audit that started before it |
| `IacApply` | one pull request whose first head updates and whose second creates, 2 approvals; POSTs about the update overlap, those about the create do not | double applies, a lost answer or a dead worker at every point, a push or a foreign merge between any two steps, a create blocked until the re-bake |
| `Conversations` | 2 requests (the deployment's concurrency), 2 crews, 3 offers, 8 rows, 1 death or store failure | a turn that outlives its lease while the conversation moves away and back, a redemption at every point of a turn, a release lost |
| `IacGates` | one head of one or two files, every kind, name, form, deletion, import and path; with and without drift; two OpenTofu pins; 757,174 states | the gates agree about every construct: what they let through is harmless, shown in full, and appliable once merged unless the pin moved on or the worker's pattern misses a declaration |
| `IacReview` | 2 heads, 2 builds, an adoption or an update, 2 faults, the pause flag, one pin; 994,640 states | a push or a build between the page and its POST, comments that do not parse, a stale or lost source record, an expired token |
| `Authoring` | 2 turns, 2 paths, 2 calls, 3 file contents, 2 adoptions, 2 stream events; 2.56 M states | a colliding branch, a repeated or unheard request, a death between two commits, a delegated turn after its decomposer spoke |
| `Desk` | 2 approvals, 2 POSTs, 1 tab, 1 fault, ceiling of 6 polls, budget 1, table of 2; 7.84 M states | a row that cannot be settled ahead of one that can, calls given up behind an `/execute`, a restart of either process, a read that fails |
| `Timeline` | 3 events, the second one final, 2 GETs, 8 clock ticks; 5.10 M states | a run that ages past the edge of the narrow window, a straggler after the cache write, a slow thread at either look, a decision before or after a GET |
| `TracePage` | 4 events, one of them an MCP call, 2 requests; 1.53 M states | a stream that ends, breaks or never was; answers out of order, a retry beside a request, an eviction or a reload between them |

The bounds. `RollbackLane` has one approval because liveness allows no symmetry;
`RollbackPair.cfg`, kept beside it, checks the safety of two approvals that could
be mistaken for each other (808,522 states), and the theorems cover any number.
Two requests, heads or builds are the least with which one
can be mistaken for the other, and three rows or versions the least in which a
stale one is replaced twice; the theorems below hold for any number. `IacGates`
takes two files because every rule that looks beyond one entry (one adoption,
alone; an import and the block it names) looks at two. `Desk` keeps the order of
its thresholds, 1 < 2 <= 3 <= 5 polls, and not their ratio; that leaves room for
each row to be asked about before the ceiling with a budget of 1.
`TriedBeforeGivingUp` depends on that room: with more stuck rows than the budget
times the polls of a cooldown, or with reads that fail all day, rows at the end
of the window can be passed over until they are given up. With the deployed
numbers (budget 3, a row asked about again at the 7th poll, 1920 polls in 24 h)
21 stuck rollbacks among the 50 decisions of a window are always asked about,
whatever 272 faults do in between; with more the first 21 can use up every poll. `StuckRowsAreTried`
proves the former. `Timeline` keeps the order of its thresholds in the same way (timeout 1 <
time to live 2 < grace 3 < last days 4, band 2), and runs long enough for the
wide window to be needed; the theorems hold for all of them. An instance of two tabs
of `Desk` without faults (19.8 M states) takes longer than
is kept here and shows no error.

Deadlock is checked in every run whose system goes on; `IacApply`, `IacReview`, `IacGates`, `Conversations`, `Authoring`, `Desk`, `Timeline` and
`TracePage` switch it off,
because their requests, builds, calls or turns are used up at the bounds, and a
system in which nobody asks for anything really stops.

Each property of a passing run has a mutant in `PROJECT.json`: a change of one
definition, the way a bug in that code would look, under which TLC finds the
property violated.

Fairness. `RollbackApproval!Fairness`: admitted requests run on and Cloud Run
ends its operations (weak); the desk keeps asking `/reconcile` and not every
attempt dies or fails to read the operation (strong: an attempt can be
interrupted again and again, but not all of them). `Eventarc!Fairness`: Pub/Sub
delivers, the event loop runs the tasks it was given, an audit ends.

## Known disagreements

Eleven places where the source says one thing of itself and does another. They are
kept as configurations beside the runs; TLC shows each of them in seconds.

| Configuration | Property | The source says | What happens |
|---|---|---|---|
| `RollbackClaimed` | `ClaimedMeansNotStarted` | `approvals.py:104` "credential burned, nothing attempted yet", `rollback/main.py:1060` "Nothing was ever started (still `claimed`)" | a container that dies between `update_service` and the record leaves a claimed document with a shift under way |
| `RecheckDoubleMint` | `OneLiveApproval` | `state_store.py:982` the claim and the deterministic recovery make eviction safe | a record that commits and looks failed, on overlapping instances (`main.py:2036`), leaves two live approvals |
| `RecheckWedge` | `RetryableWhenQuiet` | `state_store.py:961-976` "a failed repair leaves the key in a state the next delivery can pick up", the `record_decision` write named among the failures | a record that fails at `main.py:2795` leaves a bare claim nobody frees |
| `RecheckEscape` | `ProposalFailsFree` | `main.py:1702` "On any failure up to and including the decision write, the claim is released so retries can proceed" | `worker_client.py:388` mints the identity token outside its `try`, and `_do_rollback` (`main.py:1852`) catches `WorkerClientError` only: where `fetch_id_token` raises, the request ends and its claim stays |
| `ConversationsNonce` | `NonceWasRecorded` | `main.py:628` no nonce is handed out "for a proposal that did not commit" | a stale turn's offer is not taken by the store, and its nonce is answered (`main.py:686`) |
| `IacResume` | `ResumedStands` | `main.py:6605` "an ``apply_status in {"failed","failed_state_suspect","ambiguous"}`` doc is terminal", `main.py:7519` a failed create is "ALWAYS terminal ``failed_state_suspect`` — FREEZE + orphan reconcile" | the routes of an existing decision (`main.py:7276-7378`) hold no claim. Two overlapping POSTs of a create both merge; the first records `waiting_for_rebake`, a further POST resumes and records its outcome, and the slow one records `waiting_for_rebake` over it (7467): the freeze is gone, and the next POST applies again. Two overlapping resumes can likewise record `failed_state_suspect` over `applied` (7591) |
| `IacStranded` | `WaitingIsOffered` | `docs/plans/2026-06-30-iac-approval-pr-state-advisory.md:151` "`waiting_for_rebake` + PR merged: form still shows" | a second build of the head comments once the POST about the first was admitted: the page binds to the newer one, which has no decision and a merged pull request, and the merged plan is offered no more |
| `IacRebaked` | `RebakedIsAdmitted` | `docs/plans/2026-05-31-infra-iac-phase-c6-head-config-delivery.md:49-53` a create of a merged head passes the worker's gate after the re-bake, once the baked tree is proven to be the head's | the tree is not all that `assert_fidelity` compares: the OpenTofu pin moved since the plan, and the re-bake took the new one along (`tofu_runner.py:327-336`), or a declaration does not start its line, which its pattern needs (`tofu_runner.py:43`). The merged create is refused, and no new plan can be made of a pull request that is closed |
| `DeskReplay` | `PageIsOwn` | `main.py:5457` "a transition across this call means the claim landed here", `main.py:5437` that `None` "only ever makes the fall-through stricter" | a failed read before the call, an overlapping approval or another tab's reconcile moves the phase, and the replay of a spent approval during an outage is answered with the page of the outcome |
| `TracePageError` | `NeverOverSuccess` | `traceCache.ts:208` a failed request reports its failure "never over the top of a successful one" | a request that is overtaken by the backfill, or by a retry, fails while the refresh of the incomplete answer has set `loading` again: `failEnrich` sees no `loaded` and its own fallback is `error` |
| `TracePageBroken` | `PinnedAfterBreak` | `timeline.ts:166` "recovery path — nothing to protect"; `traceCache.ts:287` a trace that settled early does not stay partial | after a stream that broke before its first row the first answer's rows are taken for streamed ones by the next `reconcileBackfill`: only MCP calls are added, and the complete answer pins the page without its other rows |

Hazards of the code that no property covers: a tag added between the read of the
service and the update (`rollback/main.py:442`) would need Cloud Run's own
optimistic locking; a rollback suppressed in Observe is recorded under its key
and served from there (`main.py:1811`), which is a policy and not an error; an
approval whose token was lost with `/propose`'s answer (`main.py:1853`) is not
usable by anybody; the crew of a conversation is read before the lease
(`main.py:8394`), which one instance makes safe; `/apply` is given 920 seconds
(`worker_client.py:671`) by a coordinator that is cut off at 300, which
`IacApply` has as a timeout; the answer of a GitHub call is lost, the claim is
released and the retry opens a second issue (`main.py:2760`), for which issues
have no check: `OneArtifact` is checked and proved where acknowledgements are
reliable, and `AckLost` breaks it.

## Proofs

`RollbackApprovalProofs`. The invariant adds to the run's properties what a
request in progress knows: which phase of its document goes with its position,
that an operation belongs to the approval whose request started it, that the
handle a request holds is the handle on record or is about to be. The claim
transaction makes the requests past it unique per approval, from which
`OneShift` follows; `SettledForever` and `HandleKept` come from `Recorded` and
the request invariant; `HonestAnswer` from both, because two requests that end with
an outcome end with that of the same operation; `Refinement` takes one action at a time to the abstract
step or to a stutter.

`RecheckProofs`. `IInv` is TypeOK together with: `Admitted` (a request past the
gate saw one world, the one it read), `EvictsStale` (what it evicts is stale
and stays so), `HeldByHolder` (while a request holds a key its event is claimed
and points nowhere, or to the row whose acknowledgement the request lost, which
is what makes the unconditional delete of `release_event` safe), `NoRowYet`, `Pointed` (a pointer names a row of its key),
`Grounded` (rows of rollbacks are about violating envs), `LiveIsPointed` (when
no acknowledgement is lost, a live approval is what its key points to, which is
what makes it unique), `OneHolder` and `AboutItsKey`. None of
the properties is inductive alone: `OneLiveApproval` needs the pointer, and the
pointer needs the holder. `SingleApproval` assumes `~AckLost`; `RecheckDoubleMint`
shows that the assumption cannot be dropped. `FailuresFreeTheirOwn` needs no such
assumption: what a release deletes is the holder's by `HeldByHolder`, and no
second holder exists by `OneHolder`. `SingleIssue` assumes reliable
acknowledgements too, and adds `Once`: what was opened for a key keeps the key claimed, its row is never one that
is evicted, and its holder goes nowhere but to the record.

For `Eventarc`, `LatestIsAccounted` is `Accounted` with the type invariant and
the fact that an idle coalescer owes nothing.

`IacReviewProofs`. First, facts about the gates that hold for plans and changes
of any length and mention no state. `UndeniedIsHarmless`: the denylist, rule by
rule, implies the sentence on the page. `GatedPlansPassTheGuard`: what the gate
in agent mode and the denylist let through, the worker's guard does not refuse
once it has proven its tree, if its pattern finds the declarations; this is where
a rule missing in one gate would leave a merged plan that can never be applied. The invariant of the lane is
`Shape`, `CommentsName` (a comment names a build), `BuiltGated` (every build is
the plan of a head that passed the gate), `PinsInOrder` (a plan and the image
have a pin main has had), `TokensAreSeen`, `SawWhatApplies` and
`PastTheGates` (what was applied is not denied, and what waits for a merge
creates). `AppliedIsHarmless` and `MergingIsSafe` follow from `PastTheGates`
and `BuiltGated` with the two facts; the latter is about plans whose pin is
main's still and whose declarations are found, because the other two refusals do
happen (`IacRebaked`). `NothingHidden` is a third fact about the
gates, `SummaryIsComplete` (the words of the summary count every entry that is
acted on once, two ways of counting a plan of any length), for which
`PastTheGates` also says that nobody was shown a plan the denylist refuses.
`OffersAreTakeable` compares the guards of the page and of its POST: the form the
page offers is admitted with its own token, and with the decision and pull
request the page looked at.

`AuthoringProofs`. `IInv` relates a turn, its requests in the editor, their branches
and their pull requests. `Turns` is what a turn has at each position (among it, what it
is about to send passed the editor's refusals); `Blocks`, that a synchronous
tool holds the loop, and no request starts between an adoption's look and its
own; `Waits`, that a turn waits for one request at most; `Committed`, that a
turn with slices asks once, for all of them. `Requests` is what a request in
the worker has passed (`Sound`), `Opens`, that a pull request was opened by one call past its
gate, `Answers`, that what a turn hears of a pull request is the call's own, and `Branches`,
that a branch nobody shares holds what its call has written (of one that two calls
share nothing is claimed, and `WholeChange` and `OnlyAdmitted` leave it out). `Exclusive` is the
strengthening of `OneAdoption`: of two requests for one resource the earlier one
is heard and without an open labelled pull request (`Settled`), unless a look
was blind or nobody waited. `WholeChange` needs `Branches` and `Committed`,
`TraceIsAuthors` needs `Answers`, and `OnlyAdmitted` needs that the plan
OpenTofu makes for an adoption that passed the gate passes the deny list, which is
proved for all files from the definitions of the gates.

`DeskProofs`. `IInv` is TypeOK with `DocShape` (which phase goes with which
status and handle), `CacheOK`, `GetOK` (the record a GET carries from its read to
the worker was unsettled, and was read after whatever its tab shows of the row),
`ToldOK` (a row told final has a settled document, one told spent a used one),
`ShownOK` (a tab shows what it was told, or that the row could not be read), `SlotOK` (the document under the worker's `/execute` is younger than
its wait), `AskOK` (nobody is about to ask about it, because the minimum age
exceeds that wait) and `OwnerOK`. Every action writes at most one document, and
only an unsettled one (`Moves`), from which `CachesAreFinal` and
`RowsNeverRelapse` follow for any tabs and rows; `DeskLeavesExecuteAlone` is
`SlotOK` with the eligibility gate.

`StuckRowsAreTried` is a counting argument over the polls. `PInv` says of each
stuck row that nobody has asked about that it has waited for some `w` ticks
beyond its own cooldown and the faults so far (`Paced`), and that in each of them
the whole budget went to other rows, all different, because a row just asked
about is cooling down; a GET under way has spent the rest of its budget in the
same way. Then `w` cannot reach `L` if the rows on the desk's hands (`Busy`) fit into the
budget of `L` polls, and a row younger than `RetryAfter + (MaxFaults + 1) * L`
is below the ceiling. `CoolOK` (no row cools down for longer than the age of its record)
and `WaitOK` (an awaited row was asked about, or recorded anew since) are what makes
a row that is passed over a row without budget. A fault, be it a failed read or a
restart that forgets every attempt, starts a new round. The hypotheses are
`Roomy`, about the constants, and `Few`, about the run: at most the budget of
`L` polls on its hands, and room in the table of attempts. They are what the
property needs and not only what the proof does: without them the head of the
window can use up every poll. The deployed constants satisfy `Roomy` with
`L = 7`. `SmallWindowsAreTried` has `Few` from the size of the window. `PInv` was
checked with TLC before it was proved, on the bounds of `Desk` with a ceiling of
7 polls, a table of 3 and `L = 2` (6.83 M states).

`IacApplyProofs`. `IInv` is TypeOK with three parts. `Told` is what requests and
events know: a request that holds the key of an update found the event claimed
and without a decision, and every approval of the plan refused but the one it
waits for (`Exclusive`); what it is about to record, and what is on record, is
true and stays so, because a status other than ambiguous is only told of a plan
none of whose jobs is in the worker (`Tells`, `Still`). `Done` ties jobs to the
infrastructure: only a job that is past `tofu` or unknown accounts for a change
of an update, there is one, and a state that moved on makes every saved plan
stale. `Merged` is about pull requests and the baked head. No part is inductive
without the others: that a failure left nothing behind needs the refusals of
the other approvals, which need the claim, which needs that a released key owed
nothing. `Frame` says what every step but `Send` leaves true, so that a step is
proved for the request or job that moves, and for the others once. The steps
map to `Move` (tofu), `Settle` (the record of the holder), `Merge` or a stutter.
`FreeKeys` adds `Pointed` for creates: the pointer is written before anything is
done, by the only request between claim and pointer, and is never removed. It
holds when POSTs about a create overlap, unlike `ResumedStands`.

`TimelineProofs`. `OneRun`, `HintedIsWhole`, `RecentIsWhole` and `WideIsWhole` are
about the windows: whichever one is believed holds every event that can be found,
because a run is shorter than the band at the edge. The invariant says of each
snapshot what every later step leaves true: all of it could be found so long ago
(`Past`), so much earlier than what it misses (`Apart`), and what it misses not
before a certain moment (`Fresh`). `SeenTwiceHeld` is the argument for the grace
period: the first look bounds one end, the timeout of the second the other, and
the observation needs no lock.

For `TracePage`, `PageInv` has the log (`FoundOnce`), the answers under way, each of which is the
log at one moment (`OldMoments`), and one clause for each life of a page:
`OnlyAsks` (it shows one moment of the log, no older than a complete answer it
was given), `Streams` (it shows what was sent, and has not asked) and `Streamed`
(after a clean end every streamed event has its one row, and what is not streamed comes from
the answers). That choosing the longer of two answers never loses a row
(`traceCache.ts:108`) is `LongerHoldsBoth`: two moments of one log are comparable, so
that the longer holds the shorter. `RowsNeverLeave` and `PinnedPagesAreWhole`
hold for any script, any number of requests and any order of the answers; the
latter leaves out streams that broke (see `TracePageBroken`).

`ConversationsProofs`. `IInv` is TypeOK with `OfferIsCurrent`,
`OfferStandsUntilAnswered` and `LeaseHasRun`, and what they rest on: `Shape`
(there is nothing before the first turn; an open offer has both its crews),
`Control` (a request past the look knows its crew, one request at most starts
the conversation, a run that was cut off knows no lease) and `Sight` (the offer
a request saw was recorded, and while it is open the crew that was bound then
still is, which is what makes the two halves of `_may_touch_pending_handoff`
agree about it). `LeaseIsOwn` follows from `LeaseFate`, the four things a step
may do to the lease. `Attributed` and `CrewsRemembered` need `Bound` (a run whose
lease stands works for the bound crew, and so does one about to take a lease
unless a redemption took it meanwhile, in which case it will be refused) and
`LastChange` (there is a last change of crew before every row; kept as part of
the invariant because showing that a finite set of numbers has a maximum takes
an induction).

Assumptions are the named `ASSUME`s of the modules; TLC evaluates them in the
runs. Those added for proofs are that the slots of a change are finitely many
(`AuthoringAssumption`) and that an absent value is no number (`NoneAssumption`
of `Desk`). Every safety invariant and action property of the passing runs is
proved. Liveness (`OutcomeIsLearned`, `LatestIsAudited`) is out of the prover's
reach, which has no ENABLED, and is model-checked only. The other way
round, the type invariants and `OneShift`, `OneHolder`, `UnspentMeansUntouched`,
`SealMeansConfirmed`, `HandleKept`, `CrewsRemembered`, `FreeIsUntouched` and
`TerminalStands` are proved and in no run: they are steps of the proofs of the
properties that are, or follow from the same invariant.

## Not modelled

- The infra graph's two cache layers and the merge-status cache: read-through caches with a time to live whose only readers tolerate a
  miss or an old value.
- The upgrade lane: a dependency PR is validated once, then opened, closed or
  merged by one GitHub call each.
- The setters and the audit trail of the kill switch and the dial; both are
  inputs of the modules that read them.
- What an LLM says, prompts, the read tools, MCP, the workload registry: a turn's
  proposal is arbitrary in every module.
- Rendering, redaction, authentication, the stateless workers, the frontend
  beyond its rule for Approve, its poll and its record of traces, deployment and scripts.

## Plan

What is still to come, in this order.

1. For `Recheck`: `OneLiveApproval` of one instance with lost acknowledgements.
2. The composition of `Desk` with `RollbackApproval`: the worker's handlers of
   the former shown to be those of the latter as the coordinator sees them.
3. The infra graph's two levels (negative entries, single flight) and the upgrade
   lane.
