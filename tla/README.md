# rbpmn: a verification development

rbpmn is an embeddable BPMN engine: a Rust library that keeps every process
instance as rows in PostgreSQL and advances it by a pure step function. This
directory holds TLA+ models of it, TLC configurations that check them on small
instances, and proofs checked by TLAPS. Everything is translated from the Rust
source and the SQL inside it (paths below are relative to the repository
root), not from the prose about it and not from the repository's own `spec/`.

    tlc -workers 2 -config MCRoutes.cfg MCRoutes   # one run
    tlapm InstanceStep_proofs.tla                 # the proofs of one module

`PROJECT.json` lists the runs, the properties each checks, the source lines each
definition translates, a mutation of the code that each property catches, the
hazards, and the theorems.

## 1. Inventory

### The core: a pure step machine

| component | state | operations | what must be right |
|---|---|---|---|
| `rbpmn-core/step.rs`, `state.rs` | `InstanceState`: status, variables, tokens, work items, timers, subscriptions, scopes, open incident, counters | `step(process, state, command)`: Start, CompleteWorkItem, RaiseError, FireTimer, CorrelateMessage, AnswerDecision / DecisionFailed, RetryIncident (five dispositions), AbandonInstance | a wait can always be ended and ends once; nothing armed outlives its token; joins wait only for tokens that can come; scopes close with their last token; a failure freezes and loses nothing |
| `rbpmn-core/compile.rs` | `ExecutableProcess`, immutable | compile; queries: flows, boundaries, error boundaries, resume point, side paths | facts the step machine relies on: one way on, boundaries attached to one host, gateways race catches |
| `rbpmn-core/merge_patch.rs`, `decisions.rs`, `check.rs` | none | RFC 7386 merge, answer binding, deploy check | merge is the RFC's; a check refuses what would fail at run time |
| `rbpmn-model` (parse, model, condition, iso8601, lint) | none | XML to tree; conditions; durations and cycles; lint rules, block structure | a model that lints clean keeps its tokens matched; comparison is total and by value |
| `rbpmn-dmn` | none | evaluates a decision table (third-party FEEL) | an answer or an error |

### The engine: rows, locks and clocks

| component | state | operations | what must be right |
|---|---|---|---|
| `runtime.rs` | instance, token, scope, work item, timer, subscription, incident and event rows | start, complete, correlate, fail, repair: each loads under the instance row lock, steps, persists, all in one transaction | rows are the state; one destination per message; a result is taken once, by the lease that is live |
| `tasks.rs`, `work_items.rs` | work item row: state, owner, lease number, expiry, retries | claim, extend, release, complete, fail, requeue | two holders never both succeed; a late or repeated request touches no later claim; a lost worker's item comes back |
| `worker.rs`, `http_handler.rs` | in memory: wake-up flag, current lease | claim, handle, renew, complete or fail, park | as above, from the worker's side |
| `scheduler.rs` | advisory lock, in-memory deferrals; timer row: due, anchored | drain, claim one due timer, record a failure, next wake-up | a timer fires once per occurrence, not before due, and in the end |
| `listen.rs` | one LISTEN connection, in-memory notifiers | listen, forward, reconnect | a wake-up that is lost is made up for |
| `events.rs` | event rows, read floor | read a page after a cursor | no committed event is skipped; a deleted page is reported |
| `retention.rs` | definitions, instances, sweep lease, floor | plan, archive, delete instance, delete definition, sweep | what is deleted was archived; nothing live or referenced is deleted |
| `deploy.rs`, `lib.rs` | definitions, topics, environment, caches | deploy, declare / undeclare topics, sync, migrate | versions are dense; a deployed definition's topics are covered |
| `inspect.rs`, `instances.rs`, `definitions.rs`, `timers.rs`, `subscriptions.rs` | none | queries | change nothing |

### Around it

`rbpmn-server` (HTTP over the verbs), `rbpmn-ui`, `rbpmn-wasm`, `ui`, `playground`,
the bpmnlint plugin, benchmarks and conformance suites keep no state of the
system and are not modelled.

### How the parts interact

A verb of the engine opens a transaction, locks the instance's row, rebuilds
`InstanceState` from the rows, calls `step`, answers the decisions the step left
pending (each an evaluation and a further `step`), writes the difference back,
appends the events, and commits; a NOTIFY goes out with the commit. Workers and
the scheduler find work without the instance lock (a claim is one UPDATE of the
item row; a due timer is read), so what they found may be stale when the lock is
theirs. Retention and the event reader never take the instance lock for what
they read. The shared state is the database only; wake-ups, deferrals and caches
are per process.

### What is hard

* inside a step: teardown of nested scopes with moves, items and arms open inside
  and beside them; a failure half-way through a step, or half-way through opening
  one wait; repairs that resume what the freeze halted; races at event gateways;
  re-arming boundaries; joins in loops and after repairs;
* between transactions: leases that expire while their owner works; requests
  delivered twice or late; matches and picks made without a lock; clock read at the
  start of a transaction, rows read after a wait;
* across transactions: plan / archive / delete; deploy against undeclare;
  commit order against id order in the event stream;
* before anything runs: the linter decides from the drawing alone that joins are
  fed, that races race, that side paths keep to themselves. What it misses is a
  model that deploys and then breaks at run time.

`PROJECT.json` lists each of them at the line where it bites, with the
properties that cover it or the reason why none does.

## 2. What is modelled

### ProcessGraph (crates/rbpmn-core/src/compile.rs)

The compiled process as CONSTANTS: nodes with their kind, flows in declaration
order, boundaries in XML order, error codes, messages, and for each arm the
variable its key or deadline is read from. The ASSUMEs are what lint and compile
establish, each used somewhere in the proofs or by an action: one way on from
everything but gateways and ends, and from a split at least one (`OneWayOn`), a boundary on one host of a fitting
kind (`BoundariesAttached`), never the target of a flow (`BoundariesNotEntered`),
event gateways followed by catches of their own (`GatewaysRaceCatches`), message
keys read from variables (`MessagesReadVariables`). Six more say how the whole hangs together:
the graph is finite (`GraphIsFinite`), a flow leaves one node once (`FlowsHaveOneSource`), no flow leads to a start
(`StartsNotEntered`), what a flow leads to can be reached from a start (`GraphConnected`), no flow joins a side
path from outside it and no parallel gateway is on one (`SidePathsStandApart`), and splits and joins are matched one to one, each
pair closing a block as `check_region` of the linter's `regions.rs` wants it (`GatewaysBalance`, by `Branch`, `HandsOver`, `Closes`). A condition is the set of
documents it holds on. The operators are the compiled process's queries:
`Catching` (error boundary: exact code before catch-all), `ResumePoints`,
`SidePath`, `Takes` (exclusive split). `Reach`, in `Reachability`, is the search `Linter` and `ProcessGraph` share.

### InstanceStep (crates/rbpmn-core/src/step.rs, state.rs)

The whole state of an instance and every command and node kind of the step
machine. Correspondence:

| model | code |
|---|---|
| `tokens` with `wait` | `InstanceState.tokens`, `WaitState` |
| `items`, `arms` | `work_items`; `timers` and `subscriptions`. Ids are left out: an item is named by its token, an arm by token and element |
| `scopes` | `scopes`, with the parked parent token |
| `queue`, popped by `at` | `Advancer`'s worklist of moves |
| `wait` = inflight, awaiting | `halted_at`: what the freeze found under way or pending |
| `nextToken`, `nextScope`, `nextIncident` | the id counters |
| `Start`, `CompleteWorkItem`, `RaiseError`, `FireTimer`, `DeliverMessage` | the commands |
| `Repair`, `IsOpen` | `Command::Repair` names an incident, which must be the open one |
| `Disposition`: `Retry`, `Advance`, `Divert`, `Abandon`, `AbandonInstance` | the repair dispositions |
| `EnterStart` ... `EnterTerminate` | `Advancer::enter`, one action per node kind |
| `AnswerDecision`, `DecisionFails` | `step_answering_decisions` in `rbpmn-engine/src/runtime.rs` |
| `Freeze`, `ResumeHalted` | `incident`, and its inverse in the repair |

*Granularity.* A command action is followed by one `Enter` action per move and one
`Answer` action per pending decision; `Ready` keeps the next command out until
the step has come to rest, as the row lock does. So every intermediate state of
a step is a state of the model, and the invariants speak of those too, unless
they say `Between`.

*Data.* A variable document is a function from a few names to a few values; a
merge patch is any document, since a patch can produce any. A timer's instant is
left out: whether a deadline expression resolves is kept (an arm can fail), when
it fires is any time. Events and their wording are left out.

*Errors of the step machine.* Where the code returns `StepError::Invariant`, the
action is disabled, and a property says that this is never met: `NoStepErrors`,
`ItemsHaveLiveTokens`, `ArmsHaveLiveTokens` (the code's "no token with id", "a
timer fired on a token in an unrelated wait state", "flow into a boundary",
"second token on one flow"). Where it rejects a command without changing
anything (unknown item, stale incident number, a message whose boundary could
not be armed again), the action is disabled too: a rejected step is a stutter.

### Lifecycle (state.rs, docs/design/incident-scope.md)

The abstract specification: status, document, the number of incidents raised and
the numbers of those that repairs answered. `InstanceStep` implements it under
`incidents <- nextIncident`: an ended instance never changes, a failure takes the
next number, a repair answers the one open failure, which is the last one raised,
ending an instance by a repair changes no variable. A caller of `Repair` names an
incident, any that was ever raised, and `IsOpen` is the check of the step machine: a repair
that was meant for an earlier failure finds it closed and answers nothing. `answered` is
history, and records the number the *caller* named; that it is always the open one is
what the refinement says.

### TaskLease (crates/rbpmn-engine/src/tasks.rs, runtime.rs, worker.rs)

The task API of one instance: its work item rows, the clients that hold claims on
them, and the requests under way. Correspondence:

| model | code |
|---|---|
| `rows` | `rbpmn_work_item`: state, owner, `lock_until`, `lease_no`, retries, `available_at` |
| `status` | `rbpmn_instance.status`; completed and terminated are both `ended` |
| `held` | what a worker remembers: item, owner, lease number. `Forget` is being done, a crash, or an answer that never came |
| `calls` | transactions under way; one that was sent and has not begun has `age = NotBegun` |
| `Claimable`, `Claim` | the `CLAIMABLE` predicate, the UPDATE of `get_task` |
| `GuardLease`, `LiveFor` | `guard_lease`: `lock_until > now()`, with the `now()` of the transaction's start |
| `Complete`; `Retry`, `Exhaust` | `complete_work_item_in_tx`; the two ends of `fail_work_item_in_tx` |
| `Release`, `Extend` | `release_task`, `extend_lock` |
| `Ask`, `AskBare` | a worker's requests carry its owner name, and its lease number where the verb takes one; the HTTP routes for completing and failing carry neither |
| `Proceeds`, `Step` | what the step itself does to the other items and the status; free here, since `InstanceStep` says it |

*Two moments.* PostgreSQL's `now()` is the start of the transaction, and the rows are
read after waiting for the instance's lock. So a request begins (`Begin`), ages with
the clock, and decides later, against the rows of that moment. `Claim` is one
moment: it is one UPDATE, whose predicate is evaluated again on the row it waited
for; the status it reads may be from before a freeze, which is the order in which
the claim came first, since a claim and a freeze that leaves the item open
write different rows.

*Relative time.* `until` is what is left of a lease, `gap` what is left of the backoff,
`age` how long ago a request began. `Tick` moves all of them; values that no
comparison tells apart are merged (`until` below `-MaxWait`). So time itself is not
bounded.

*Loss and repetition.* `Drop` is a refusal, a rollback or a lost request; `Ask` may be
repeated as long as the client remembers the claim, so every request can also
arrive twice, late, or after the client claimed the item anew.

### EventStream (crates/rbpmn-engine/src/events.rs, runtime.rs, retention.rs)

The event log as its reader sees it: transactions that append, retention that
deletes whole histories, one consumer with a cursor. Correspondence:

| model | code |
|---|---|
| `xid`, `locks`, `wrote` | an open transaction: its number, the instance rows it holds, the events it inserted. What others see is `events` |
| `Numbered` | PostgreSQL gives a transaction its number at its first write; locking a row is one |
| `Load`, `Append` | a verb's `load_instance` under the lock, and `insert_event` under it |
| `Note` | `record_timer_failure`: one autocommitted insert, with no lock |
| `Referenced` | the foreign key of `rbpmn_event`: an insert waits for whoever holds the instance's row, and fails when it is deleted |
| `Retire`, `Rises` | the deleting transaction of a sweep or of `delete_instance`: histories and floor together |
| `Final`, `Readable`, `Read` | `read_events`: `txid < pg_snapshot_xmin(...)`, ordered after the cursor. Page and floor come from one statement, so from one snapshot |
| `Truncated`, `Resume` | `EventsTruncated`: a cursor below the floor is refused with the floor, where the consumer goes on |
| `Write` | any other transaction of the cluster; it takes a number and holds pages back |

`came`, `read`, `early`, `skipped` are history variables: how the consumer got where it is
and what it was given. Which instances are retired is free here, since that
depends on policies and not on the stream. A verb may run any number of
steps on any number of instances before it commits, as an embedder's
transaction may.

### Retention (crates/rbpmn-engine/src/retention.rs)

What is deleted, and what the archive sink has been handed when it is. Correspondence:

| model | code |
|---|---|
| `status`, `log`, `endedAt` | the instance's row (completed and terminated are both `ended`), how many events it has, its `completed_at` |
| `old` | `completed_at < now() - age` for the finite age; grows as time passes |
| `override`, `Age` | `rbpmn_retention_policy`: no row (`unset`), forever, finite |
| `Due` | the `DUE` predicate, used by the plan and by the deletion |
| `lease`, `Claim`, `Lapse`, `Release` | `rbpmn_retention_lease`; a pass may outlive it |
| `Candidates`, `Count`, `Headers`, `Histories` | the four statements of `plan_due` and `load_records`, with no transaction around them |
| `Archive`, `Execute` | the two halves of `execute_retention` |
| `PassFails`, `Crash` | an error, which still releases the lease; a process that dies and does not |
| `Snapshot`, `Deliver`, `Erase`, `Changed`, `GivesUp` | `delete_instance` with its one retry: the repeatable-read snapshot, the sink, the re-check |
| `Step`, `FireFails`, `Note` | `persist_step`; a firing that errors and `record_timer_failure` after it, in its own statement |
| `latest`, `most` | the sink that upserts by id, and the one that keeps every delivery |

A sink is registered; without one nothing is promised about archives. Each action is one
statement or one transaction. A log is append-only, so a copy is known by its
size: steps and notes are counted apart. A step appends one event, which is enough for a copy to be
behind. One finite age stands for all; a record under a longer one is one that is not
yet `old`. `Execute` takes any subset of what is still due: the rest is locked by others (`skip
locked`). A caller of `plan_retention` and `execute_retention` without the lease behaves like
a pass whose lease ran out. Of `delete_instance` the first probe is left out: it
refuses only what the snapshot would refuse.

### DefinitionDeletion (crates/rbpmn-engine/src/retention.rs, deploy.rs)

The versions of one key, and `delete_definition` statement by statement.

| model | code |
|---|---|
| `version`, `retired` | rows of `rbpmn_definition`, `retired_instances` |
| `instance`, `Start`, `End`, `Retire` | rows of `rbpmn_instance`; `Retire` is `delete_records`, which counts |
| `CountInstances`, `ReadRetired`, `Remove`, `DecidePolicy`, `Commit` | the statements of `delete_definition`; at read committed each sees what was committed before it |
| `Locked`, `Holding` | the foreign key of `rbpmn_instance.definition_id`: an insert waits for a deletion under way, and a deletion is refused while a row refers to it |
| `FindKey`, `SetPolicy` | the two statements of `set_retention_policy` |
| `seen` | history: instances started when the deletion was asked for |

### Deployment (crates/rbpmn-engine/src/deploy.rs, lib.rs, tasks.rs)

EXTENDS `DefinitionDeletion`: where the versions come from, and what a version needs of the
environment. One key, one topic, one declared index, any number of engines.

| model | code |
|---|---|
| `Check` | `check_bundle` and the link step of `deploy_bundle`: topics are declared in the database or held in memory |
| `Lock`, `Reuse`, `Insert`, `NextNumber` | the key's advisory lock, the read of the latest version, the insert of the next |
| `Create`, `Built`, `Probed`, `DropInvalid` | the index after the commit: CREATE INDEX CONCURRENTLY IF NOT EXISTS, the probe for an invalid one |
| `DeployFails`, `Restart` | any statement that fails; a process that ends and syncs its topics at startup |
| `Declare`, `Look`, `Withdraw` | `declare_topic`; the two halves of `undeclare_topic`, the look taking no lock |
| `Pick`, `StartPicked` | a start reads the latest version, then inserts |
| `Deletes` | every step of `DefinitionDeletion` |
| `excused` | history: versions the protection of topics lets through (see "What is not promised") |

### Delivery (crates/rbpmn-engine/src/scheduler.rs, listen.rs, runtime.rs, lib.rs)

Timers and messages meeting the waits of instances. An instance is seen through one wait; what
its steps do to it is free (`Settle`), since `InstanceStep` says it.

| model | code |
|---|---|
| `wait`, `made` | the row of `rbpmn_timer` or `rbpmn_subscription`, its id |
| `loop` | `run_scheduler`: draining, trying one candidate, in the transaction, parked |
| `Pick`, `Begin`, `Busy`, `Resolved`, `Fire`, `FireFails` | `drain`: the unlocked pick, the try-locks, the re-check under them, the firing, the recorded failure |
| `deferral`, `Deferred`, `DeferTransient`, `DeferFailed`, `Retained` | `SchedulerDeferrals` in `lib.rs` with their two backoffs |
| `Wait`, `NextDueIn`, `UntilEligible`, `Park`, `Wake` | `next_wakeup` and the nap |
| `Listen`, `Notify`, `Break` | `Wakeup::ensure` and `forward` in `listen.rs`: a notification before, during or while nobody listens; `patched` is a connection the library renewed by itself |
| `Match`, `Take`, `Found`, `Refuse`, `Deliver` | `correlate_in_tx`: match without a lock, re-check under it, follow a re-armed wait |
| `Hold`, `StepOther`, `FireElsewhere`, `Mend` | any other verb that holds the row; a scheduler of another process; a repair |
| `FirstDues`, `New`, `News` | `insert_timer`: a cycle with an anchor (`Anchors`) begins at its first occurrence that is not past, one without a period from now |
| `NextOccurrence`, `Thawed` | the clock arithmetic of `next_occurrence` and `resume_after_freeze` |
| `lived` | history: how long a duration's instance has been active, outages not counted, since the timer was armed |

Each transaction's `now()` is a value between its start and its commit, fixed by `at`, and arming and
freezing use it; so a commit that comes late is a commit that comes late in the model too. The batch of eight
candidates is a set. The deferral of an instance is kept per process, as in the code.

### Linter, DeployCheck (crates/rbpmn-model/src/lint, crates/rbpmn-core/src/check.rs, compile.rs)

Pure predicates on a drawing and its manifest, one operator per lint rule, in the order of
`lint/mod.rs`: elements, timers, messages, scopes, starts, degrees, reachability, conditions, event gateways,
boundaries, side paths, and the block structure of `regions.rs` (`Closes`, `MatchingJoins`,
`GatewaysBalance`). `Warnings` are the two warnings about side paths. `DeployCheck` adds what the
compiler refuses (`IsExecutable`, `AreCorrelated`, `AreDecided`, `NoAmbiguousArms`), what it
takes for granted ("survived lint", `SurvivesCompiler`), the four manifest rules, and the verdict `Check`.

### Admission

Composes them with what they are for. A deployment is submitted, edited and accepted or refused;
the instances of an accepted one then run every way they can, in an executable semantics of
its own: tokens on nodes, one action per node kind, decisions and conditions free. It is a much coarser
machine than `InstanceStep` (no documents, no repairs), because it is run on thousands of graphs, but it does
run into what `InstanceStep` assumes away: `Breaks` is what the step machine cannot do, `Doubles` is two tokens of
one lane meeting at an activity. `lane` is history: which firing of a non-interrupting boundary a token
runs on behalf of; `caught` too: the lanes whose own path an error handler took over.
`AcceptedGraphsFit` states that what `ProcessGraph` ASSUMEs of a graph (`GraphIsFit`: `OneWayOn`,
`BoundariesAttached`, `BoundariesNotEntered`, `GatewaysRaceCatches`; `BlocksFit`: `StartsNotEntered`, `GraphConnected`,
`SidePathsStandApart`, `GatewaysBalance`) is what an accepted
deployment has: the assumption of the one is the guarantee of the other.

### The model-checking modules

Each `MC*.tla` of the step machine gives the graph; `GraphNotation` builds flows from
a successor table. `MCLeases`, `MCStream`, `MCSweep`, `MCDefinitions` and `MCDelivery` give the actors.
`MCAdmission` has two drawings with their manifests and the edits made of them: a flow led elsewhere, or
from elsewhere, or swapped with another; an element of another kind; a boundary moved or made to cancel; a default, a
condition, a code, a deadline or a message name changed; a binding forgotten, unreadable or gone astray. Two such edits
reach about 104 000 deployments.

| run | instance | asks | states |
|---|---|---|---|
| `parallel` | fork: a task with an interrupting timer and a non-interrupting message boundary with a side path, beside a message catch on a key that may collide; join | do items end with their tokens and waits stay endable across freezes and repairs; is every join fed; is no subscription ambiguous; does the machine never meet its own internal errors | 21 907 |
| `routes` | one process, the document decides: two nested subprocesses with boundaries of every kind and a terminate event inside; a loop through an event gateway with deadlines and keys read from the document; business rules on parallel branches beside a message catch | are tokens unique, arms held, scopes matched; does a teardown spare everything outside its scope; does a freeze in the middle of a step keep every token; does the machine implement Lifecycle; does every step come to rest | 8 523 |
| `waitless_loop` | an exclusive loop without a wait | the documented "guaranteed to run to quiescence" is violated | |
| `leases` | one item with two attempts, two holders, completions and failures also sent bare, two requests under way | does a running lease end only by its holder; does a repeated request free no later claim; is closed closed and frozen left alone; does an abandoned item come back | 762 315 |
| `stream` | two connections, two instances, four transaction numbers, three events | does a cursor pass an event that commits later; is a deleted event reported; do ids follow the steps of an instance; is what is held back read in the end | 375 046 |
| `gap` | the same, three numbers, three events | the floor as a cursor: the documented "no event can later appear behind a cursor" is violated | |
| `sweep` | one instance, two sweepers, a caller that deletes by name, one failure, one note | is what is deleted the record that was archived, over, and still due by the policy of that moment; do passes overlap only when a lease ran out; does what is due go in the end | 313 253 |
| `stall` | three instances, two per pass | the documented "retention is not stalled by them" is violated | |
| `copies` | one instance, a sweeper and a caller | the documented "the latest delivery for a deleted id is its whole record" is violated | |
| `definitions` | two engines, two bundles, two versions, one instance, one deletion | is a model there while a row needs it; which deletion takes the policy with it; do version numbers stay apart; is a returned deployment's index usable; are the topics of what runs declared | 2 022 882 |
| `delivery` | one instance that waits for a duration, a cycle or a message; a scheduler, a sender, a caller; one fault | is no timer early; is an outage given back to a duration, once; does a cycle keep its grid, with no occurrence skipped or replayed; is no message given to another wait; is nobody asleep past what is due; is what is due fired | 645 145 |
| `admission` | two drawings, two edits each, up to two side paths at once | do accepted models run; are their joins fed; are surprises warned of; are deliveries unambiguous | 387 403 |

A conjunction of properties has one name where they need each other to say something:
`WorkEndsWithItsToken` is `ItemsHaveLiveTokens` and `NothingOpenAfterEnd`; `StateIsCoherent` is
`TokensAreUnique`, `ScopesMatchTokens` and `FrozenHasOneCause`; `TokensAreKept` is `SiblingsSurvive` and
`FreezeKeepsTokens`; `ItemsAreSettled` is `ClosedStaysClosed` and `FrozenItemsKeep`; `DeletesAsAllowed` is
`ForeverIsKept` and `LiveIsKept`; `SurprisesAreWarned` is `EscapesAreWarned` and `RepeatedArmsAreWarned`.

*Bounds.* `MaxToken`, `MaxScope` and `MaxIncident` stop *commands* once that many
numbers were handed out; a step under way always finishes, so no state is cut off
in the middle. Six tokens take `parallel` through both branches, a side path,
the join and at least one freeze and repair of each. Eight tokens, three scopes and three
incidents take `routes` through both subprocesses open at once and torn down, through its
race won by either side and run again, and through failures of its rules one after
the other. Documents have one or two variables of two or three values: a usable,
another usable and an unusable one, which is what arming, colliding and failing tell
apart.

For the task API: one item suffices, since no guard reads another item's row (what
a step does to the others is `Proceeds`). Two holders are the contender and the
contended. A lease of two ticks and a lock wait of one let a request begin while
the lease runs and decide before, at and after its end. `MaxLease` = 2 lets an item
be claimed again, by the same holder or the other, and `MaxCalls` = 2 lets two requests race,
a duplicate and a late one included. `AbandonedComesBack` is asked up to the last claim the
bound allows.

For the stream: two writers are what overtaking needs, two instances let one history
go while the other stays and let one transaction write to both. Four numbers let a
transaction run while two others begin and end on either side of a deletion; three
events are one read, one late and one deleted. `MaxXid` and `MaxId` stop new
transactions and inserts, never a commit or a read.

For retention: overruns and releases need two sweepers, and the sweeper and the
caller meet on one record. `MaxSteps` = 2 with a freeze lets the record change between a
copy and a deletion; one note and one failure are the
cases that differ from none. `stall` has one record more than a pass
considers.

For deployments: two versions because a policy and the word "latest" belong to the last one, two engines because they
allocate numbers and build the index against each other, one of which alone is asked to withdraw the
topic; one fault interrupts any one step, and what it leaves is met by the other deployment.

For delivery: a duration and a period of two ticks and a clock of four let a timer be armed, be overdue by one tick, be
frozen across its due date and be repaired before or after it; one cycle of two firings has one re-arm. The anchor at zero makes
a cycle armed at an odd time begin after one tick instead of two, and a clock of four lets one be late
by a whole period, so that it passes over an occurrence.
`MaxWork` = 1 lets a transaction that began before a tick commit after it. One instance and one scheduler
are enough because another instance matters only through deferrals (`saw`), and another scheduler only
through the row (`FireElsewhere`, `Hold`). `MaxFaults` = 1 is a crash, a lost
connection, a firing or a pass that fails, at any place.

For admission: `MaxFires` = 2 starts a side path from a side path, and two of one boundary. A first edit may be
anything; the second is one of those that change what an element is, which is how a rule is met that the first
edit alone would trip over another rule. During development a wider second edit was run once
(173 000 deployments, 3 478 of them accepted), with the same result.

*Deadlock* is not checked: an instance ends, a deployment is refused, and the bounds stop
commands, claims, requests, transactions and the clock.

*Fairness* in `InstanceStep` is weak fairness of `Internal` only: the loop of
`step_answering_decisions` and `Advancer::run` take the next move or answer as
long as there is one, inside one transaction. Nothing is assumed of commands,
timers, messages or repairs, which come from outside; that a waiting instance
ever moves is not claimed. In `TaskLease` it is weak fairness of `Tick` (time passes)
and of deciding, once a request has waited for `MaxWait`: a transaction ends,
committed or not, because the locks it waits for are held by transactions that end.
Nothing is assumed of clients: a holder may never ask for anything again, and that
is when `AbandonedComesBack` matters. In `EventStream`, a transaction ends (committed
or not) and the consumer keeps reading, from the floor when it is told to: that is
a consumer's loop as `events.rs` describes it. A transaction left open for ever
holds the stream back, which the code says too. In `Retention` a lease runs out, and a
sweeper goes on with its pass and begins another, as `run_retention` does. The deletion of
everything still due is strongly fair: the rows of records that have ended are locked for
moments only (a note's foreign key, another deletion), and not at every
attempt. Fairness says nothing of callers, repairs or policies.
In `Delivery` time passes, the scheduler's loop goes on (each of its steps, taken together, is one fair action, since
the loop is one thread) and a transaction ends. Nothing is assumed of callers, so `DueIsFired` excepts an instance whose row
callers keep taking: the code takes both of its locks without waiting, so nothing else could be promised.

*The violations.* `Advancer::run` has no bound and no lint rule forbids a loop of
exclusive gateways without a wait, while `compile.rs:6-8` and
`docs/rules.md:8-9` say that a model that compiles runs to quiescence. The step
of such an instance never ends, under its row lock. (`waitless_loop`)

The floor is the place of a deleted event, and a deletion does not look at the horizon:
a transaction with a lower number may still be running when a consumer resumes
from the floor. Its event then appears behind the cursor and is never read, while
`events.rs:20-22` says that nothing can, and the migration calls the floor a safe cursor.
`NothingBehindAPage` is what does hold: a place a *page* ended at is safe; and
`NothingMissed` counts what lies below the floor as given up. (`gap`)

`plan_due` takes the oldest `max_instances` due records and then drops the oversized ones
of them. That many oversized records, each older than the rest, and no pass ever
finds anything, although `retention.rs:285` says that retention is not stalled by them.
`sweep` checks the same property where no such crowd exists. (`stall`)

The doc of `RetentionArchive` guarantees that the latest delivery for a deleted id is its
whole record (`retention.rs:195-196`). A plan reads headers and histories in two statements; when
`delete_instance`, which takes no lease, archives and deletes the record between them, the sweep
delivers a header without a history after it. (`copies`) The same property also fails when a
firing's failure is noted while the ended record is at the sink (`MaxNotes = 1`), and when
two callers delete one failed instance and the older snapshot is delivered last.
`SweptWasDelivered` and `ErasedAsDelivered` are what does hold: a sink that keeps every delivery
has every step of what was swept, and all of what was deleted by name.

*What is not promised.*

* *Deleting a definition.* `delete_definition` locks nothing before it deletes. An instance that
  starts, ends and is retired between its checks and the deletion leaves no row to refuse it,
  so the model of an archived record goes; `EarlierRecordsBlock` is the part that holds: no
  instance started before the call. Two deletions of the last two versions each see the
  other's version, and the policy stays; a version deployed between the policy's deletion and
  the commit loses the policy. So `PolicyOutlivesVersions` speaks of the versions that were there
  as the deletion began.
* *Withdrawing a topic.* `undeclare_topic` looks, then deletes, and nothing keeps a deployment out in between; another
  engine goes on accepting bundles from its own memory. Instances that are failed do not count, though a repair
  brings them back; nor does an older version that a deletion makes the latest again, nor a start that has read its version and has
  not inserted yet. `TopicsAreGuarded` exempts exactly these (`excused`).
  The startup report (`check_active_definitions`) is where they show.
* *Side paths as a way out.* The linter counts the side path of a non-interrupting boundary as a way to an end event
  (`structure.rs:123-139`, `structure.rs:335`, `regions.rs:34`), though the host's own token never takes it. A loop whose
  only way out is such a path is accepted, and a join beside it waits for ever. `JoinsAreFed` exempts
  tokens that cannot reach an end by their own flows (`NeverJoins`).
* *Ambiguous messages.* `ambiguous_message_arm` looks only at hosts with a message boundary, so two catches for one message
  on parallel branches are not refused. Its walk of a side path leaves out error boundaries (`compile.rs:1602-1624`), although the
  comment above it (1596-1601) says that it is the set the linter walks. So a message catch behind an error handler of a side path
  may open beside the host's own arm for the same message. `DeliveriesAreUnambiguous` is stated for what the
  check does cover: lanes no such handler led to (`caught`).
* *The length of a nap.* A pass that deferred an instance sleeps until that deferral lapses, capped by no poll interval (`scheduler.rs:102`), though
  the comment at `scheduler.rs:1-5` calls the poll interval the cap: `WokenInTime` speaks of passes that left nothing
  alone, and `DueIsFired` shows that the others are late and not lost.

## 3. What is proved

`InstanceStep_proofs.tla` proves, for every graph that satisfies the assumptions
of `ProcessGraph` and every bound:

* `TypeCorrect`: `Spec => []TypeOK`;
* `ArmsAreHeld`: `Spec => []ArmsHaveLiveTokens`: no timer fires and no message
  arrives on a token that is gone or that does not wait for it;
* `DeliveryIsUnambiguous`: `Spec => []NoAmbiguousSubscription`;
* `Coherence`: `Spec => []StateIsCoherent`, in every state of every step;
* `WorkIsLive`: `Spec => []WorkEndsWithItsToken`;
* `WaitsCanEnd`: `Spec => []EveryWaitCanEnd`;
* `StepsSpareTheRest`: `Spec => TokensAreKept`;
* `LifecycleIsKept`: `Spec => ImplementsLifecycle`: `InstanceStep` implements `Lifecycle`.

*The argument, first part.* The inductive invariant of the first three is
`Stable(s) == Sound(s) /\ Held(s) /\ Distinct(s) /\ CauseHoldsNothing(s)`:
`Held` is the second property of a whole state, `Distinct` the third. `Sound` adds
to the types that a token waits as its node makes tokens wait (`Fits`): without
it a boundary's host could be anything. `CauseHoldsNothing` says that
the token at an incident holds no arm: without it a repair that
moves the token on would leave its arms behind. In the middle of a step the proof
uses `Good`, which says in addition that no token is at an incident (`Calm`). Because
the model's helpers map states to states, there is one lemma per
helper (what it keeps and what it removes), one per action, and `NextStable`
puts them together by the disjuncts of `Next`.

*Second part.* `Coherence`, `WorkIsLive` and `WaitsCanEnd` come from one stronger invariant,
`Coherent(s) == Whole(s) /\ Frozen(s)`. `Whole` is what ties the parts of a state together at every point between two
helpers: ids are unique (`Unique`), every scope lies in an open one and is numbered later than it (`Nested`, so that nesting has no
cycles and no induction over trees is needed), has its one waiting owner (`Parented`) and something inside; every open item belongs
to a token that waits for it (`Worked`), and every token that waits has what will end its wait (`Owns`, `CanEnd`).
`Frozen` says how tokens may wait, by status: one cause once it has failed, nothing at all once it has ended. `Whole` does not
hold *between any two* helpers: an action takes a token in hand before it puts it somewhere, and a scope may be empty between a token's
leaving and the scope's completion. So the lemmas of the helpers speak of weaker states: `Loose(s, id, x)`, whole but for
the token in hand, what it holds and the scope it owns, with its own scope x possibly empty; `Vacant(s, x)`, whole but
for x possibly empty; `Gone(s, id)`, nothing of the token left. Each helper goes from one of these to another, and an
action's lemma ends where nothing is missing.

*Third part.* `TokensAreKept` compares the state before a step with the one after it, and a step is a composition of
helpers, so the proof is by relations on pairs of states that compose: `Spares` (in the scopes still open the tokens
are as they were, but for the named ones), `Carries` (the end of an action loses no token and changes none but the
collateral of a freeze), and `Moves` (what the two make of a whole action: one token moves, and the rest is as it was). There is one lemma per helper
and per action, and `NextKeeps` reads the two conjuncts off them.

*Fourth part.* Of all the helpers a step is made of, only `Freeze`, `Terminate`,
`Settle` and the patch a command begins with touch what `Lifecycle` speaks of; there is one lemma per helper that says so
(`Like`), one per action, and the document's type comes from `TypeCorrect`. The one repair that may complete an
instance, `Abandon`, starts from the document as it is. That a repair's number is the open incident's is `IsOpen`.

*Assumptions used:* `GraphTyped`, `OneWayOn`, `BoundariesAttached`,
`BoundariesNotEntered`, `GatewaysRaceCatches`, `MessagesReadVariables`,
`BoundsAreNumbers`; TLC evaluates each of them on every run.

`Blocks_proofs.tla` proves what the parallel blocks of a graph are for, for the same graphs and bounds, the six assumptions about the
whole graph included:

* `NoStepErrorIsRaised`: `Spec => []NoStepErrors`: no second token comes to a join on one flow, none comes to a
  join by no flow, and none enters a boundary;
* `JoinsStayFed`: `Spec => []JoinsStillFed`: where tokens wait at joins, a token of their scope that is at none, and on no side path, is
  still to come; and an active instance has a token;
* `SeatsStaySorted`: `Spec => []Flowing(Now)`, the invariant of both.

*The argument.* Neither property is inductive: to know that a token to come is not a second one, one must know where all others are.
A token's *seat* is where it stands, or is about to enter, in which scope, and for a join by which flow; of a token at an incident it is
where its repair re-enters, so that a freeze and a retry leave the seats alone. A seat *lies* before join j at flow h when its
node is on the branch that hands over by h, or when it is at j by h itself (`Lies`, by `On`). The invariant is
`Flowing(s) == Sorted(Seats(s)) /\ Missing(s) /\ Running(s)`. `Sorted` says of the seats off the side paths that two of one scope are always
before one join at different flows (`Parted`), and that where one is before a join, every flow of that join has one of that scope before
it (`Covered`). `Missing` says that no waiting join has all its flows, and `Running` that an active instance that is at rest has
a token.

`Sorted` speaks of sets of seats, and all that steps do to those are a few things, each with a lemma about sets: a seat goes on
to a place before the same joins, a split's seat is replaced by one on each of its flows, a join's seats, one for each flow, by
one behind it, a seat at an end goes
away, which is before no join and so alone in its scope. That these keep a set sorted rests on the graph: the
branches of a block are disjoint and nothing enters them but through the split (`BranchPreds`), so a step stays on its branches; two
blocks that share a node nest (`BlocksNest`), for two that overlap would be an island no start leads to, against `GraphConnected`;
so what is behind a join is before the same outer joins as the split was. Then each helper of a step has a lemma,
and each action one; `NextFlows` puts them together. Scopes that a boundary, a terminate event or a repair tears down need the nesting of
scopes from `Coherent`: all seats within go, and the owner's seat goes on.

The theorems follow. Two tokens that come to one join by one flow are not `Parted`, since a seat at a
join is before that join at its own flow only. And of the joins where tokens of a scope wait, one has
none of the others in its block (`InnermostJoin`, by the well-foundedness of `<` on the number of blocks around): `Covered` gives a token for the
flow it is `Missing`, and that one, not at a join itself, is the token to come.
`GraphsFit` shows that deployment ensures the structural assumptions; that a graph is finite and a flow has one source is how
`compile.rs` builds it, from a list of flows each of which names its source.

`TaskLease_proofs.tla` proves, for any sets of items and owners and any times and
bounds:

* `LeasesHold`: `Spec => LiveLeaseIsRespected`;
* `SettledOnce`: `Spec => ItemsAreSettled`, from `ClosedForGood` (`ClosedStaysClosed`) and `FrozenIsLeftAlone` (`FrozenItemsKeep`);
* `ReplaysAreHarmless`: `Spec => ReplayFreesNoLaterClaim`;
* `BudgetIsClaimed`: `Spec => []RetriesWereClaimed`;
* `TypeCorrect`: `Spec => []TypeOK`.

*The argument.* The inductive invariant is `Fine == TypeOK /\ RequestsAreNamed /\
RetriesWereClaimed`. The budget alone is not inductive: a failure that names no lease
may be under way, and it spends a retry of an item nobody claimed. `RequestsAreNamed`
says that only the bare verbs name none, and, because claims are numbered from one,
that a held claim always has a number to name. `TypeOK` carries that an open item has
budget left (`Sound`), which makes the subtraction of a retry stay in range. The two
action properties follow from `Fine` one action at a time (`TickKeeps`, `ClaimKeeps`,
`DecisionKeeps`): a lease that is running now was running when the request began,
as its age is not negative, so the gate or the comparison of names identifies the
requester as the holder. Assumptions: `Numbers`, `Nobody`, `BareRequests`.

`EventStream_proofs.tla` proves, for any sets of clients and instances and any bounds:

* `CursorMissesNothing`: `Spec => []NothingMissed`;
* `PagesAreClosed`: `Spec => NothingBehindAPage`;
* `IdsAscend`: `Spec => IdsFollowSteps`;
* `FloorIsExact`: `Spec => []FloorIsTheLastDeleted`.

*The argument.* The inductive invariant is `Tidy`: the types and `NothingMissed`, with
what that needs.
`NumbersInOrder` says that what was given out lies below the counters and that an
uncommitted event carries its transaction's number, which is what
`Final` compares. `PagesAreFinal` says that a cursor that came with a page is at a
final number, so that a commit, whose number is not, lands after it. `StepsHoldTheirLock`
says that an uncommitted step's instance is still locked: two of them on one instance
are then of one transaction or one after the other, and ids follow. `FloorIsTheLastDeleted`
closes the case of a cursor behind the floor. Assumption: `Limits`.

`Retention_proofs.tla` proves, for any sets of instances, keys, sweepers and callers and any
bounds:

* `SweepsArchiveFirst`: `Spec => []SweptWasDelivered`;
* `ErasuresArchiveFirst`: `Spec => []ErasedAsDelivered`;
* `LeaseExcludes`: `Spec => []OneSweepPerLease`;
* `DeletionsAreAllowed`: `Spec => DeletesAsAllowed`, from `PoliciesAreObeyed` (`ForeverIsKept`) and `NothingLiveIsDeleted` (`LiveIsKept`);
* `TypeCorrect`: `Spec => []TypeOK`.

*The argument.* The inductive invariant is `Careful`. `CopiesAreBehind`: no copy, at a pass, at a
call or at the sink, has more than the log; so equal sizes mean equal copies, which is
all that the re-check of `delete_instance` compares. `ChosenAreOver`: what a plan chose has
ended, and ends only once. `SweepsCarryAll`: a pass that has loaded an instance carries
all its steps, unless it is gone already, since an ended instance takes no more steps; and once
it is archived, the sink has them. `CallsDeliver`: what a call archived is covered by
`most`. `LeaseIsTheOwners`: of all passes, only the one named by the lease row has a lease
that has not run out. Assumptions: `Policies`, `Limits`, `Rows`, `Nobody`.

Of `DefinitionDeletion`, which `Deployment` extends, `Deployment_proofs.tla` proves first `ModelsAreThere` (`Spec => []RowsHaveTheirModel`),
`CounterBlocks` (`Spec => []EarlierRecordsBlock`), `PoliciesOutlive`
(`Spec => PolicyOutlivesVersions`) and `TypeCorrect`. *The argument.* The
invariant is `Guarded`: an instance a deletion has seen started has, once the first check
passed, been retired (`SeenAreGone`); the counter equals the number of retired instances, so
a counter of zero means there was none (`UnretiredSawNothing`); and while a deletion holds the
row, the foreign key keeps it without instances (`RemovedHaveNoRows`). `PoliciesOutlive` rests on `Looked`: a version another
deletion found was deployed, and what a deletion that drops the policy found has been
deleted since, which no later step undoes. Assumption: `Pinned`.

Of the composed system, `Deployment_proofs.tla` proves, for any sets of engines, bundles, versions, instances and deletions:

* `Refines`: `SpecAll => Spec`, the composed system implements `DefinitionDeletion`: each of its steps is one of
  that module's or leaves its variables alone. `DeletionKeepsItsPromises` carries the three properties over;
* `NumbersNeverMeet`: `SpecAll => []NumbersAreUnique`;
* `ReturnedIsIndexed`: `SpecAll => []DeployedIsIndexed`;
* `TopicsStay`: `SpecAll => []TopicsAreGuarded`;
* `TypesStay`: `SpecAll => []TypeOKAll`.

*The argument.* `LockedSeesAll`: what a deployment read under the key's lock bounds every number that is there, since only
the lock's owner inserts and a deletion only takes away; so the next number is new. That a set of versions has one of the
greatest number is the one place that needs an induction, done by the well-foundedness of `<` on the naturals over
the bound minus the number. For the index: a usable one is never made unusable, and a deployment is done
only by a probe that saw it. For the topic, `Unguarded`: when the topic is not declared every binding version that is not excused is
irrelevant, and a withdrawal that has looked vouches for the versions it saw.

`Delivery_proofs.tla` proves, for any sets of instances, schedulers and clients and any bounds:

* `NobodyOversleeps`: `Spec => []WokenInTime`;
* `NoTimerIsEarly`: `Spec => NeverFiresEarly`;
* `OutagesAreGivenBack`: `Spec => []OutagesAreNotCounted`;
* `GridIsKept`: `Spec => CyclesKeepTheirGrid`;
* `MessagesMeetTheirWait`: `Spec => MessagesFollowTheWait`;
* `TypeCorrect`: `Spec => []TypeOK`.

*The argument.* The inductive invariant is `Fine`: `RowsFine`, `LocksFine`, `ClientFine` of every client and `LoopFine` of
every scheduler. `RowsFine` ties a wait to the clock (`Runs`): what a duration has lived and what is still ahead of it make up
exactly its length, and while the instance is frozen the clock that counts is the one of the freeze. So an outage, which
moves the due date by its own length, neither shortens nor lengthens it, and a second repair finds nothing frozen. For
cycles, the next occurrence is a whole number of periods on, and less than one period ahead of the first that is not past. `LocksFine` says that the holder of a row is in its
transaction, and nobody else. `ClientFine` says that a delivery under way still has the wait it found, since it holds the
row, and that a match, which does not, at least names a wait that was there. `LoopFine` says that a pass that left nothing
alone has no deferral, and that a nap no notification has ended yet ends in time for every timer (`RisesFor`):
a step that arms or moves one notifies, and what changed while the scheduler decided on its nap is in the rows it
computes the nap from. The earliest due date of the rows exists because they are finitely many.
Assumptions: `Times`, `Bounds`, `FiniteInstances`, `Waits`, `Locks`.

`Admission_proofs.tla` proves, for every set of deployments and every kind of edit:

* `GraphsFit`: `Spec => []AcceptedGraphsFit`, so the assumptions of `ProcessGraph`, from single ways on to balanced
  blocks, are what deployment guarantees;
* `NothingLeft`: `Spec => []LintLeavesNothing`: a drawing that lints clean and is executable meets none of the
  compiler's internal errors ("survived lint");
* `TokensStayInOrder`: `Spec => []Admitted`, the invariant of what follows;
* `AcceptedRuns`: `Spec => []AcceptedModelsRun`;
* `NothingSurprises`: `Spec => []SurprisesAreWarned`;
* `MessagesFindOneArm`: `Spec => []DeliveriesAreUnambiguous`;
* `JoinsStayFed`: `Spec => []JoinsAreFed`;
* `TypeCorrect`: `Spec => []TypeOK`.

*The argument.* The first two are by the rules: which of them a fact follows from is what each leaf cites (`CleanIsFit`, `CleanHasBlocks`). For the rest the
inductive invariant is `Admitted`: while an accepted model runs, its tokens are `Orderly`, its firings fit the model (`FiringsFit`),
and every escape so far was warned of. `Orderly` says where tokens can be. Each stands on a node of the scope it is in (`Placed`),
in scopes nested as the model's (`Chained`), whose owners wait for it (`HasOwners`), on the side path of its lane or within a body on it
(`OnLane`); and any two of one scope and lane are `Separate`: on different branches of one split that the region check matched to a
join. `Separate` is what makes it inductive: without it nothing tells two tokens at a merge from one. A step along a flow keeps a token
on its branch (`SeparateGoesOn`), a join waits for branches of its own split only, and what is behind
it is outside all of them, a split puts its tokens on branches of itself, a body that ends hands back a token that stands where the
owner stood, and the start of a side path is in a lane of its own. The branches and side paths are computed by
`Reach`, a recursive function; that it is the least set closed under its steps is derived from the library's well-founded
induction, for a set instead of a predicate (`SetOfAllNumbers`), and used in that form (`ReachHasSeeds`, `ReachIsClosed`, `ReachIsLeast`). Then a doubled or broken
token contradicts `Separate` or a rule; an arm opened twice belongs to two lanes, or to a lane and its host, and `Warnings` names it;
an escape met no catch-all on its lane (`NoCatchAllOnLane`), which is `FailuresEscaping`; and two arms of one message would be the
pair `ambiguous_message_arm` looks for.

For the joins, `Separate` keeps tokens apart, and does not say that none is missing. So a second induction, on top of
`Admitted`, keeps `Populated`: a block of split and join with a token in one of its branches has one of the same scope and lane in each
of them, or at the join for each (`Fed`). A step inside a branch, or past the whole block, changes nothing of that (`WithinStays`); a split populates all its
branches at once; a token can enter a branch from the side neither from outside the block nor from a side path, an end event or a start (`BranchEntry`, `SidePathsAreLoose`);
and when the join fires, nothing of that lane is left in the block (`NoneIsLeftBehind`), for which blocks must nest: two that share a node
are one within a branch of the other (`BlocksNest`), since a set of nodes into which no flow leads would be an island the linter's connectivity rule
refuses. Then the branch of a missing flow holds a token, and either that branch's one way out is the flow (`JoinEntry`,
`BranchComesToJoin`) or the token has no way to any end. The models and the edits are arbitrary; `Bounds` (the bounds are numbers) is used for `TypeOK` only.

*Proved and not run.* The type invariants of the modules (`TypesStay` is the composed system's), `ClosedStaysClosed`, `FrozenItemsKeep`, `ForeverIsKept`, `LiveIsKept`
by themselves (the runs check their conjunctions), `RetriesWereClaimed`, `FloorIsTheLastDeleted` and
`LintLeavesNothing` have theorems for every value of the constants.

*Model-checked only.* Liveness (`StepReachesQuiescence`, `AbandonedComesBack`, `CommittedIsRead`, `DueIsRetired`, `DueIsFired`) is
outside the prover's reach. Every safety invariant and every action property of the passing runs has a theorem.

## 4. What is left

1. `LockOrder`: the rows each verb locks, in order. PostgreSQL breaks a cycle by failing one
   transaction, and every module has that failure; that there is no cycle is not stated.
2. Pure algorithms against reference definitions: conditions on decimal text, merge patches.

## 5. What is not modelled, and why

* Parsing and serialisation (XML, JSON, ISO 8601 syntax, SQL text): `Linter` starts from the parsed drawing. String
  syntax has no state and no interleaving.
* Conditions and merge patches: pure functions of texts and documents. A condition is the set of documents it holds on; a
  patch ends in any document. The comparison of decimal numbers is exercised by the repository's number-parity suite on inputs
  TLC cannot enumerate.
* The FEEL evaluator of `rbpmn-dmn` (third-party): an answer, or none.
* The mapping of an `InstanceState` to rows and back, column by column: `InstanceStep` is the state, the other modules are
  the rows that more than one transaction reads.
* The caches of compiled processes: a definition's row never changes, so a cached one is never stale.
* Registered handlers as a cover of a topic, and `check_active_definitions`, which only reports.
* The read surface (`inspect`, `instances`, `definitions`, `timers`, `subscriptions`): queries that change nothing.
* The HTTP routes, the browser bindings, the UI, the benchmarks and the tests: no state of this system's.
* The instants of timers, the contents of messages and the event log are abstracted in `InstanceStep`; `Delivery` has the
  first, `EventStream` the last.
