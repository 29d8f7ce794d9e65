# Repair Captain AI: verification project

TLA+ models of the parts of Repair Captain AI in which order, retries, crashes,
stale data and untrusted answers decide whether the program is right, the TLC
configurations that check them, and TLAPS proofs of the most important
properties. Paths below are relative to the repository; `PROJECT.json` maps every
definition to the lines it models.

## 1. The system

| Component | State | Operations | Interacts with |
|---|---|---|---|
| Case workflow service (`backend/case_services.py`, `case_models.py`, `web/demo_case_repository.py`) | cases with order, audit and version; idempotency records | `submit_case`, `decide_case`, `get_consumer_case`, `get_provider_case`, `list_provider_cases` | called by the web session and the provider API; calls a repository |
| PostgreSQL persistence (`backend/postgres_case_repository.py`, `sql/migrations/002`) | rows, advisory and row locks, transactions of several workers | `transaction`, `lock_idempotency_key`, `lock_session`, `get_case FOR UPDATE`, `save_*` | called by the case workflow service |
| Consumer web session (`web/service.py`) | one `_SessionRecord` per session: routing, branch, service evidence, location, form, answers, summary version and id, candidates, image, checklist, safety stop | `send_message`, `confirm_branch`, image upload/confirm/remove, `submit_form`, `confirm_summary`, `dispatch_case`, checklist, reset | agent loop, read tools, image model, media storage, case workflow |
| Agent loop (`agent/loop.py`, and the trace checks of `web/service.py`) | conversation, `location_inputs`, `pending_county`, the staged facts of a turn | one turn: catalogue, model, tools, verification, commit | model and tool clients |
| Consumer page (`web/static/app.js`) | the session shown, blocking flags, polling timer, requests in flight | the handlers, `SessionResponseCoordinator`, checklist synchronisation, polling, images, voice | HTTP API |
| Provider workbench (`web/static/provider.js`) | identity, inbox, filter, selection, detail, decision dialog, image | polling, change of identity, filter, selection, decision, image | HTTP API |
| Media storage (`backend/media_storage.py`) | files under session, case and deletion directories | store, associate, stage/commit/rollback delete | web session |
| Data cleaning (`data_cleaning/`, `sql/migrations/001`) | output files, the core/agent/demo tables | `run_pipeline`, migrations, `load_pipeline_outputs` | the database the read tools query |
| Read services, matching (`backend/services.py`, `postgres_repository.py`) | none (reads) | service, district, form and provider lookups; ranking | MCP server, web session |
| Remote demo (`scripts/agentcore_remote_mcp_demo.py`) | AWS resources, a state file | `deploy`, `run`, `invoke`, `cleanup` | AWS |
| Policies (`conversation_policy.py`, `repair_conversation.py`) | none | safety, personal-data and routing rules on texts | web session, case workflow |
| Model, vision and speech adapters; MCP server and remote clients; HTTP application; evaluation scripts | connections, credentials | conversions, I/O | |

What is hard, and what must hold in spite of it:

* **Case workflow.** Lost answers and retries, two providers and a consumer acting
  in any order. A session has at most one active case, asks a provider once, each
  write happens once, decisions are final, contact details are disclosed only on
  a recorded acceptance.
* **PostgreSQL.** Statements of several workers interleave, a transaction waits for
  locks with values it read before, crashes at any point. What is committed
  must be what one worker running one method at a time could have done, and no
  lock order may deadlock.
* **Web session.** Approval is spread over many calls while the record keeps
  changing under it. What a provider is sent must be what the consumer approved;
  a safety stop must hold; what was dispatched must stay; an image that a case
  refers to must not be deleted, whatever fails.
* **Agent loop.** The model may call anything, in any order; tools may answer anything.
  Only what the consumer said, and only a whole turn that was verified, may enter the
  session; the conversation must not remember more.
* **Consumer page.** Answers overtake each other and get lost. The page may never go
  back, and must catch up.
* **Provider workbench.** A poll goes on under everything the provider does, images
  arrive late, the same provider may work in a second window. The image on the
  screen is that of the case on the screen; a decision is for the case shown.
* **Data import.** Datasets change from run to run, runs are killed, rows are refused.
  The database holds whole loads only, and what the last load no longer verifies is
  out of the agent's reach.
* **Remote demo.** Every call may fail with or without its effect and the process may die
  between two of them; a lookup may miss what exists, and a colleague may run the same
  script under the same names. A cleanup should remove what was made, nothing that is
  somebody else's, and not claim more than it did; the properties say how far the code gets.

## 2. Modules

| Module | Models | Composes / refines |
|---|---|---|
| `CaseWorkflow` | `CaseWorkflowService` over the process-local repository; every method holds one lock, so each is one action | the abstract specification of the next two |
| `PgCaseWorkflow` | several services over `PostgresCaseWorkflowRepository`, statement by statement | implements `CaseWorkflow` (`AtomicSpec`) |
| `WebSession` | one session of `WebSessionService`, a handler an action, with the stored images | its dispatches and the decisions are actions of `CaseWorkflow` |
| `AgentLoop` | the agent's turns, call by call, and the checks of their traces | its turns implement `WebSession!AgentTurn` (`TurnAsPromised`) |
| `SessionPage` | the page, its requests in flight and the server as the page sees it | |
| `ProviderWorkbench` | the provider's page, the cases as its requests see them, and another window of the same provider | |
| `DataRules` | what the pipeline derives from a dataset, the tables and the agent's views (operators only) | |
| `DataGate` | the abstract import: one load at a time, whole or not at all | extends `DataRules` |
| `DataImport` | the pipeline's files, the migrations and the load, table by table | implements `DataGate` (`GateSpec`) |
| `RemoteDemo` | the commands of the remote demo, call by call, and the AWS account | |
| `*Proofs` | theorems about the module they are named after | extend it |
| `MC*` | model values, symmetry sets and the `.cfg` instances | |

### CaseWorkflow
`cases` is the repository's list (a case's index is its id), `idempotency` its
records, `now` the injected clock, `reply` the answer to the last call. `Submit`
and `Decide` have one disjunct per way through the method: key reused for another
request, replay, refusal, write. A request stands for its fingerprint, since the
fingerprint is a hash of operation and payload; the payload is reduced to the
start of the time window, the one field the service compares with the clock.
`Lag` is how long before it lands a write may have read the clock: 0 here, any
time in the refinement.

### PgCaseWorkflow
`tx[w]` is where worker w's method stands and what it has read so far, `held[w]`
its locks, `view` the last answer of a read. The steps of a submission are
`Begin`, `LockKey`, `ReadKey` (with the time-window check, which reads the clock),
`LockSession` (list and checks), `Save`, `Commit`; a decision takes `LockRow`
instead. `Abort` is a crash or a lost connection at any step. The unique index,
the version test and the primary key behind the locks are `WriteConflict`.
PostgreSQL's own behaviour (locks end with the transaction, a conflicting insert
waits, READ COMMITTED) is an assumption, marked external in the map. Replays and
reads are two statements each, so their answers may be torn; they are kept in
`view`, outside the refinement, with a property of their own (`TornReadsAreSafe`).

### WebSession
`rec` is the record. A text is reduced to what the code tells apart (dangerous,
out of scope, names branches, names a place, corrects the location), and what the
agent, tools and image model answer is any outcome `_apply_agent_trace` can commit.
`screen` is the summary on the consumer's page, updated by `GetSession` only, so
any answer may be lost or late; `saved` is the form last saved, `sent[i]` what case
i was made from and what the consumer had approved. `files` are the images in their
place, `staged` those a deletion neither removed nor put back (`DeletionLost`).
Handlers that refuse and change nothing are not actions. The image analysis
revision is abstracted to the image and whether its analysis is confirmed.

### AgentLoop
The fields of the record keep the meaning they have in `WebSession`, whose operators
are used (`W!`). A text is the counties it names, the districts it affirms and
excludes, and whether it is a correction. `memory` is what the tool results in the
conversation say, `proposal` the text that is put aside while the branch it names waits for the consumer
(`replacement_text`): other texts are taken meanwhile, and the branch is confirmed (`Confirm`, which captures
it then, after the newer ones), rejected, overwritten by another proposal or withdrawn. Not captured at all are texts of
rejected proposals (`RejectProposal`) and those about something else than repairs (`NonTarget`). `turn` is the running turn with the facts `_apply_agent_trace` has
staged, judged entry by entry as the results arrive (the code judges them in the same
order after the turn, and nobody changes the record meanwhile: the session's lock is held). `heard`, which is not
in the code, is what the last text captured on each district says of it, with no window; it is
there to state `AdoptedDistrictIsTheLastCaptured`. That is the order of capture and not of speech: see the observations
in section 4. The serialisation of turns by
`_tool_client_lock` and the pacing of model calls are left out.

### SessionPage
`requests` holds what is in flight in the order it was begun. A sequence number is
kept as an age (requests begun since), which is all the coordinator compares; it
makes the state space finite, so polling can go on for ever. `Handle` is the server, in
any order; `Applied`, `Dropped`, `ApplyMediaResponse` and `Failed` settle a request
together with its `finally` block. Two things are assumed: a request that fails
before the server handled it is not handled later, and the voice state is idle.

### ProviderWorkbench
The variables are the fields of `providerStore`, plus what is on the screen, which
may lag behind: while a newly selected case is loading, or after its load failed,
the old one is `shown`. `busy` admits one request at a time (`request`), so an answer
is taken to show the server as it is on arrival; images are fetched on the
side (`fetches`), each with the answer the server gave it. The first of the
visible cases is any of them (the list is ordered by time of update). An open dialog is
modal: under it only the poll goes on. A decision repeated in another window has the same
idempotency key (`accept:<case>`), so it is a replay.

### DataRules, DataGate, DataImport
A dataset is a record of what the rules tell apart: which vendors, services, districts and
reference areas exist and what refers to what. `DataRules` has one operator for each
output (`Services`, `Locations`, `Mappings`, `Quarantine`, `Areas`) and one for each table
it is written to; `Upsert` is `ON CONFLICT DO UPDATE`; `Integrity` is the foreign keys
and the unique name of a location. `DataImport` adds time: files are written one by one,
migrations are committed one by one, tables are written in one transaction, and the
process may be killed or a row refused anywhere. `gen` is the dataset of the running
process, so a file of another run would show.

### RemoteDemo
`cloud` is what exists in the AWS account, each resource with the deployment that made
it and its tags; `disk` the state file, `mem` the record of the running command, `step`
its place in the script. `unsaved` says that the next thing the script does is
`_save_state`. Each call has its outcomes: it works, it fails without effect, it has its effect and
its answer is lost (`Fault`). `Crash` keeps only `cloud` and `disk`. `Outside` is other people's use of the fixed names,
with the demo's tags too, since who uses these names is most likely the same script in another checkout;
`LogGroupAppears` AgentCore's own log group. A lookup may mislead, without a fault where a list is read to its first page
only (the runtimes before a deployment, line 650; the identities in a cleanup, 1307 and 1503: `OnLaterPages`), and by a fault
whose code counts as `not found` (`_NOT_FOUND_CODES`, line 79, with `ValidationException`), in the collision check, the
discovery, a deletion and the last look. `until` is the expiry in the tags, which a deployment compares when it reads its tags
back (`_assert_exact_tags`) and a cleanup does not (`_purpose_tags_match`). `misled` and `held` are not in the code: what the
last look took for gone although it was not, and which deployments ever held a shared name.

## 3. Runs

| Run | Checks | Bounds |
|---|---|---|
| `case_workflow` | all safety properties of `CaseWorkflow` | 2 sessions, 2 providers, 4 keys, 2 start times, 2 case ids, clock 0..1 |
| `pg_case_workflow` | implementation of `CaseWorkflow`, locks protect checks, torn reads, no deadlock, every call ends | 2 workers, 1 session, 1 provider, 3 keys, 3 writing calls, clock 0..1 |
| `pg_creation_order` | finding 1 | 2 providers, 2 decidable cases |
| `web_session` | approval, saved form, safety stop, frozen form, images | 2 branches, 2 districts, 1 provider, 2 tasks, 2 summary ids, 1 image, clock 0..1 |
| `agent_loop` | provenance, conversation, turns as `WebSession` takes them | 2 counties, 2 districts, 7 kinds of text, 3 texts, window 2, 2 steps of 2 calls |
| `session_page` | the coordinated page never goes back, catches up, and shows the decision | 2 items, 2 sessions, 3 changes, 2 polls in flight, 2 failures, with and without images |
| `session_page_media` | finding 2 | minimal |
| `provider_workbench` | image and decision are those of the case shown | 2 cases, 2 identities, 1 failure |
| `data_import` | whole loads, the last load decides, slots resolve | datasets that differ in vendors, catalogue, orders, districts or reference, over 2 of each; 3 migrations; 2 runs |
| `data_import_unresolved` | finding 3 | as above |
| `remote_demo` | what a cleanup may delete, when its report may be wrong, what a smooth cleanup may leave | 2 deployments, 1 fault, 1 action of others |
| `remote_demo_second` | finding 4 | 2 deployments, no fault |

Why the bounds are enough to be interesting. Two workers, two submissions and
a decision (3 calls with 3 keys) give every race of the idempotency key, the
session and the row, including a retry that overlaps the first attempt. Sessions
do not interact in the case workflow except through keys, and a key is bound to
its request, so one session exposes what the locks protect (the proofs cover any
number). Two branches and two tasks give one switch and one reset between approval
and dispatch; two summary ids give a stale and a current one, two districts a
correction. On the page two items are the least in which one answer lacks the other's
change. A window of two and three texts is the least in which the window forgets a text; three texts also are the least for
a proposal that is put aside, a newer text captured before it, and the turn that adopts a place from both. Two imports give every pair of an
earlier and a later dataset, of which the instance holds those that add, drop, quarantine
and rename a row. Two deployments are the least in which one could touch the other's
resources, one fault makes any one call of them fail, with or without its effect, and
one action of others deletes a resource of ours or, when a first cleanup has deleted it, takes its name with the demo's tags or
other ones, so that a repeated cleanup finds it. Every exception that the properties name was seen in this instance but one:
a log group that exists after "passed" because the last look was misled about its runtime takes a deletion without effect
and a misled look, two faults. The proofs cover it, and also the others who delete a bucket and make another before
`deploy` puts the tags (`agentcore_remote_mcp_demo.py:711`), which takes two of their actions.
Every bound is a constant tested in a guard.

**Fairness.** `EveryCallEnds` assumes that a worker with a step keeps being
scheduled (strong fairness per worker: PostgreSQL queues lock waiters, so a lock
that is released again and again is granted). A crash is never required.
`DecisionReachesPage` assumes that the timer fires while it is set, that the
oldest request is handled and answered, and that time and again an answer comes back
before the next poll is due (`Only`); nothing about the consumer's actions or
the provider's. Without the last assumption it fails: with answers slower than the
polling interval each is dropped for a newer poll that has been begun.
Deadlock checking is off where the system may really stop: a page whose first session
could not be created or whose consumer is done, a session whose texts are used up, an import after its
last run, a demo with nothing left to deploy and no state file.

## 4. Findings

1. `pg_creation_order`: `submit_case` reads `created_at` before it waits for the
   session's lock (`case_services.py:105,107`), cases are listed by `created_at`, and
   `case_ports.py:44` promises "creation order, oldest first". A consumer could be
   shown an older rejected case over the active one. Today's web sessions live in one
   process whose service lock serialises its methods, so it takes a deployment in
   which two workers serve the same session.
2. `session_page_media`: `docs/consumer-accessibility.md:12` says that older responses
   cannot overwrite newer state; the image handlers assign the session directly, and a
   checkbox works during an image operation. `session_page` shows
   that the coordinator keeps this promise wherever it is asked (`CoordinatedNeverOlder`).
3. `data_import_unresolved`: the comment on `agent.service_catalog`
   (`001_b_plus_schema.sql:574`) says that it holds no unresolved service. Loading never
   withdraws a row, so a service that the newer master file lacks stays verified and
   offered, while its own mapping turns unresolved.
4. `remote_demo_second`: `deploy` writes a new record over the state file before it looks for
   collisions (`agentcore_remote_mcp_demo.py:907`); the resources of the deployment
   before are then named nowhere, and `cleanup` answers that none is needed. The design document
   (`.kiro/specs/agentcore-remote-mcp-demo/design.md:44`) gives that file the task of keeping
   what a cleanup needs.

Observations that no run repeats:

* `README.md:11-12` names the checklist among the confirmations without which no case is
  created, and `dispatch_case` never looks at it (`docs/consumer-accessibility.md:22` only
  says that it does not replace `confirmed=true`).
* One failed poll stops the consumer page's timer for good, and only a dispatch starts it
  (`app.js:649`), while `docs/provider-workflow.md:115` says that it polls until a terminal state.
* The provider's dialog names no case: the one decided is the case on the screen when the
  button is pressed, which the poll may have changed since the dialog was opened.
* After a deletion that failed twice the record names an image that cannot be staged, so
  `remove_image`, a new image, a branch switch and reset are refused from then on. An
  image that cannot be read back, or a quiet deletion that fails, leaves a file that
  no record names (`docs/data-policy.md` says that such images are removed).
* A turn that commits sets `pending_county` to the county of the location staged before,
  even if the consumer has named another county since (`service.py:1839`).
* A district that was known by its reference id and later gets an organizer's id makes every load fail:
  `full_name` is unique, and the conflict clause names `location_id` only. A service of an unlisted vendor makes
  the load fail too (foreign key), although it was quarantined. Stale rows, old quarantine
  records and the issues of a longer earlier run stay for ever.
* The text of a proposed branch is captured only when that branch is confirmed (`service.py:877`), after texts written
  later and captured before; if it names a place and takes another branch it also clears them (`service.py:858`). Texts of rejected
  proposals and texts about something else (`service.py:703-714`, `798-838`) are never captured. So the place that is adopted may
  come from a text older than the last one the consumer wrote on it: `AdoptedDistrictIsTheLastCaptured` is about
  the texts captured, in the order of capture. The summary shows the place, and the consumer confirms it before anything is sent.
* `cleanup` lists identities to their first page (`agentcore_remote_mcp_demo.py:1307`, `1503`). One beyond it is
  neither deleted nor missed: the cleanup answers "passed", removes the state file, and the identity stays. "passed" is
  claimed as well of a resource about which the last look answers with an error such as `ValidationException`
  (`:85`, `:1498`). `PassedMeansGone` and `SmoothCleanupLeavesNothing` name these as exceptions. `list_agent_runtimes` is read to
  its first page too (`:650`), so a taken runtime name may be met only at its creation.
* `_purpose_tags_match` (`:1261`) ignores `ExpiresAt`, which `_assert_exact_tags` compares. A cleanup that is repeated
  after it has deleted a role or a bucket therefore deletes the one that a colleague's run of the script has made since under
  the same name. And a resource that the record does not yet call tagged is deleted whatever its tags (`:1432`), although
  `design.md:44` of the demo has a cleanup check purpose, expiry and remote tags, and
  `ENGINEER_LOG-agentcore-remote-mcp-demo.md:60` says that purpose and owner tags are verified before anything is deleted.
  `OwnResourcesOnly` states what is left of that promise.
* A bucket whose tags were never put, and a log group that AgentCore makes after the record
  says it is tagged, are never deleted by a cleanup; a resource whose creation succeeded
  while its answer was lost is in no record.
* A bucket that somebody else makes under the demo's name between its creation and its tags
  (`agentcore_remote_mcp_demo.py:711`) gets the demo's tags, and the cleanup deletes it.

## 5. Proofs

Each `*Proofs` module proves its theorems for every value of the constants; TLC evaluates the
assumptions, the named ones of the modules, in the runs: numbers are numbers, `None` and
`NoState` are nothing else, bounds that the first step needs are not zero (`MaxSessions`, `MaxTask`), and in `DataImport`
a source is a dataset. Every invariant and action property that a passing run checks is
stated by a theorem, and so is every refinement (`AtomicSpec`, `TurnAsPromised`, `GateSpec`).

**CaseWorkflowProofs**: type correctness, every safety invariant of `CaseWorkflow`
and `DecisionsAreFinal`, for any `Lag`.
`TypeCorrect` is inductive by itself once it says that a record names
an existing case. The rest is inductive only together: `CaseInv` is the conjunction
of all of them. `OneActiveCasePerSession` needs nothing but the guard of
`SubmitRefusal`; `OneCasePerProvider` needs that a provider asked before is active
(refused because a case is active) or has rejected (refused because it rejected);
`ActiveCaseIsLatest` needs `OneActiveCasePerSession` when a case is appended;
`ContactDisclosure` needs `WrittenOnce` (the acceptance is on record) and
`HistoryMatchesStatus` (the audit trail is that of an accepted case). `StepKinds`
reduces `Next` to three kinds of step: a submission that writes, a decision that
writes, and a step that leaves the tables alone; `CreatedFacts` and `DecidedFacts` say what
the first two do. Each invariant then has one step lemma.
Because `Lag` is arbitrary, the invariants hold for the specification that
`PgCaseWorkflow` implements.

**PgCaseWorkflowProofs**: `AtomicSpec` (the refinement), `ChecksHoldUntilCommit`, `TornReadsAreSafe`, `NoDeadlock` and `TypeOK`, for
any number of workers, sessions, providers and keys, which the run can only show for two workers and three
calls. The invariant says of each transaction which locks it owns and what it has read under them
(`CallOK`, `CreateOK`, `DecideOK`, `ReadOK`), and that no two workers hold the same lock. `OthersCreate` and
`OthersDecide` are the heart: a commit changes only the key, the session or the row its own
transaction has locked, so what the others have checked stays true. (A decision needs no session lock to leave a
submission of that session alone: it closes a waiting case, and the submission has seen that there is none.) A commit
is then `SubmitCreated` or `DecideApplied` of `CaseWorkflow`, and with the theorems of `CaseWorkflowProofs`
the invariants of the case workflow hold of the shared tables (`SharedDatabaseIsSafe`). `NoDeadlock` speaks of
every set of workers, and rests on the order of the locks (`LocksInOrder`): a call that waits for its key holds nothing, and one that
waits for its session or row holds only keys. One that writes waits for nobody, since whatever could conflict is under its
own locks; the database's row locks and unique indexes therefore add no wait of their own. `EveryCallEnds` adds that the waits do end.

**WebSessionProofs**: `TypeOK`, `SummaryIsWhatWasSaved`, `SentAsApproved`, `CaseImageKept`, `SafetyStopHolds` and
`DispatchedFormIsFrozen`, for any branches, places, answers, texts and any number of tasks, images and
providers. Every handler either keeps the summary (`Keeps`: its id, its approval and what it says) or
renews it (`Renews`: a fresh id, no approval). A record whose summary is in force (`Fixed`: made,
and nothing to check again) has nothing left to ask (`Settled`), so the agent's turns and the guided
questions, which would change what it says, run only where it is not in force. Hence what the page holds for the present id, and what
was approved under it, is what the record says (`OnScreen`, `Approved`). `Turn` is what most
handlers do, and one lemma each shows it of them; `submit_form`, `confirm_summary`, `dispatch_case`,
`reset` and `get_session` do more and have lemmas of their own. Once there is a case (`Late`) all
but a few handlers are closed (`Closed`), and those touch neither the form nor the files. The case tables are typed by
`TypeStep` of `CaseWorkflowProofs`. `TypeOK` rests on that invariant, and is carried through the operators the handlers are
built from (`Typed`, with one lemma for each). A summary that is in force has a start, so a dispatch is a `Submission` of the
case workflow, and every step is one of `CaseWorkflow` or leaves its variables alone (`WorkflowStep`): the session is a client
of the case workflow (`SessionIsAClient`), and the theorems of `CaseWorkflowProofs` hold of the cases
it makes (`SessionCasesAreSafe`).

**AgentLoopProofs**: `TypeOK`, `MemoryMatchesRecord`, `AdoptedDistrictIsTheLastCaptured`, `TurnAsPromised`, for any
texts, window and limits. The invariant relates three things while a turn runs: the conversation to
the staged facts and to the mark it would be cut back to (`MemoryInv`), the staged facts
to what `AgentTurn` may find from the record (`TurnInv`), and the texts of the window to what
the captured texts say last (`TextsInv`: whatever the window forgot was captured before all it holds). A text is put aside
exactly as long as its branch is pending, and is one of the consumer's texts, so what a confirmation captures is like what any other
text captures.
`AdoptInv` says that a location staged in this turn had its provenance when it was resolved, which
nothing can change before the turn ends. `TypeOK` needs the staged facts typed as well (`TypeInv`): a form is only ever staged
on a location, so the record that a verified turn commits has none without one.

**DataImportProofs**: `TypeOK`, `GateSpec` (the refinement), `GateShowsTheLastLoad`, `SlotsResolve`. The invariant says that at
each point of a load the transaction holds what the tables written so far make of the committed database, from
files that are all of the running process's dataset; at the commit this is `Loaded(db, gen)`,
one step of `DataGate`. `SlotsResolve` rests on `NamesAreUnique`, which every commit has passed. That the tables keep their
types is a lemma for each rule and each statement; that the area of a demo row is a location holds only for a dataset
whose rules passed (`RulesPass`), which `RunInv` says of the dataset of a run that is under way.

**SessionPageProofs**: `TypeOK`, `CoordinatedNeverOlder`, `SettledPageIsCurrent`, for any number of sessions, changes, items, polls
and failures. `TInv` says that one operation that blocks the page is in flight at most, what each flag of the page
promises about the requests (the `finally` blocks), and that the changes made and those still unhandled are no more
than were asked for. `PInv` holds while no image is used. Exactly one request was begun last (`Latest`), and only its
answer can be accepted; whatever is in flight belongs to the session shown (`Onward`, `Controls`), and that answer is at
least as new as the page (`Fresh`), because no other answer has been accepted since it was begun, and the server it then
reads is never behind the page (`Behind`). Beside the request begun last only polls are in flight, unless several items of the checklist are being saved
(`Alone`): such an answer has every change there is (`Current`). So a page that lags has an operation in flight or has
shown a failure (`Explained`), of which `SettledPageIsCurrent` is the case with nothing in flight. TLC checked
`IInv` as an invariant of `session_page`'s instance before it was proved.

**RemoteDemoProofs**: `TypeOK`, `PassedMeansGone`, `OwnResourcesOnly`, `SmoothCleanupLeavesNothing`, for any number of
deployments, faults and interventions. Nothing comes back once it
was found to be gone: a running command, and the state file, are never of a deployment that was passed
(`Live`), a log group appears only where there is a runtime, and a record that has a log group has
a runtime, so both are claimed together, and what a last look was misled about is all that can be there (`IInv`). The other properties need `RInv`, which adds what
the records say of the account. A record is saved before its deployment makes anything (`SavedFirst`); each kind of
resource is made at one step of the script, before its tags are noted (`NotYet`); a role or a bucket is made only under a free
name, so what bears the name of a recorded one is the record's own or somebody else's (`Owned`), who came after
this deployment had held the name (`HeldNames`). While a cleanup deletes, what
it saw is of its own record or is somebody else's (`SeenFor`), and if no call has failed, what is left of the record is still
ahead or is one of the exceptions the property names (`Left`); the runtime is taken first, and no log group appears after it.

**ProviderWorkbenchProofs**: `TypeOK`, `ImageIsOfTheCaseShown`, `DecisionIsForTheCaseShown`. Whatever the store holds of a
case is on the screen (`ShownInv`), so a case checked against the store is checked against the screen;
every rendering forgets the image before.

Only model-checked: liveness (`EveryCallEnds`, `DecisionReachesPage`), which needs `ENABLED` and is out of the prover's
reach. The four runs that expect a violation have nothing to prove.

## 6. Not modelled, and the plan

Next, in this order:

1. Clocks per worker in `PgCaseWorkflow` (`updated_at >= created_at`).
2. `VoiceCapture`: recorder, timers and transcription of `app.js`; the pacing of model calls.
3. Candidate ranking and the guided form as operators checked against a reference.

Not modelled: rendering, formatting and validation of texts; the regular expressions of the
policies (the models branch over every answer they may give); image decoding; credentials, connection
set-up and routing; amounts, codes and order items of the data cleaning; the redaction of reports;
evaluation scripts.
