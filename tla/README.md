# Specifications of wuko

wuko is a local workflow runner written in Go: it reads YAML workflows, renders and executes their
steps, runs controls (batch, foreach, matrix, race, attempt, once, concurrent groups, observe) around
them, supervises background services, and shares state with other wuko processes through locked files.
These modules model the parts in which interleavings, failures and ordering decide whether a run is
correct. `PROJECT.json` lists the components, the runs, which lines each definition stands for, the
hazards and the theorems; a path such as `engine/once.go` below is relative to `src/`.

Run a check with `tlc -config X.cfg MCModule`, a proof with `tlapm ModuleProofs.tla`.

## The system and what is modelled

| component | state and operations | what is hard | correct when | modules |
|---|---|---|---|---|
| file lock (`internal/filelock`) | a lock file, its flock and body; acquire, Release, SetContent | Release deletes the file others wait on; crashes; cancelled waits | one holder; a finished payload is readable; nobody is stuck | ExclusiveLock, FileLock |
| key-value store (`keyvalue/store.go`) | one JSON map per file; Get, Set, Delete, List, Update | read-modify-write across processes, lock-free readers, failing writes, crashes | every operation is atomic on one map | StoreOperations, AtomicStore, KeyValueStore |
| once blocks and key claims (`engine/once.go`, `keyvalue/store.go`) | claim files with announced waits, stored outcomes | double-checked records, nested claims of several processes, deadlock detection by an unlocked walk | one body per key, one outcome, a wait announced by a block that does not wait only after a failed write, everybody ends | OnceClaims |
| concurrent groups (`engine/concurrent.go`) | edge counts, ready set, branch goroutines, completion channel | fail-fast, timeouts and cancellation against completions in flight | edges and the bound respected, no step forgotten, all or nothing committed | ConcurrentGraph |
| services of a scope (`engine/background.go`, `engine.go`, `steps/process/process.go`) | supervisor, causes of cancellation, startup handshake, join and cleanup | services that fail, exit, start and abort while the scope is sealed or cancelled | cleanup after the last service, failures reported, the handshake agreed on | ServiceScope |
| fan-out (`control/fanout.go`, `control/control.go`, `engine/control.go`) | iterations, slots, collected results | admission against cancellation; which error wins | bounded, honest outcome, no failure lost | FanOut |
| process RPC (`steps/process/rpc.go`) | workers, sessions of restarting instances, reservations, response channels | a session replaced under a caller, late answers, interrupted writes, wake-ups | no request twice, no answer to another call, no lost wake-up, every call returns | ProcessRPC |
| process lifecycle (`steps/process/lifecycle.go`, `process.go`) | current instance, restarts, readiness and liveness probes, shutdown command | exit, probe, protocol error, commit, abandonment and the end of the scope race in every select | one live instance, restarts the policy allows, an honest result, none left behind | ManagedProcess |
| observe (`observe/scheduler.go`, `engine/background_control.go`) | source pump, debounce, queue, current body | events during a body, a dying source, a stop against a result | bodies started and ended in pairs, the newest observation wins, every change is answered unless skipped | ObserveScheduler |
| attempt, retry (`engine/attempt.go`, `retry.go`) | passes, deadlines, acquired state, its release | deadline against a completed pass | no completed pass repeated, acquired state released in time | WorkflowTree, ControlFlow |
| race, cancel_on, loop (`control/race.go`, `loop.go`, `engine/cancel_on.go`) | racers, first winner or failure; iterations | results in flight when the winner is known | one outcome, every racer joined | WorkflowTree, ControlFlow |
| defer, finally, try, return (`engine/defer.go`, `try_catch.go`, `return.go`) | stack of cleanups of each scope | cleanup under failure, return and cancellation | each cleanup once, in order, whatever failed before it | WorkflowTree, ControlFlow |
| plugin connection (`plugin/client.go`, `plugin/sdk/peer.go`) | pending calls, callbacks and their budget, abandoned requests; the plugin's requests | late responses, calls cancelled while written or answered, callbacks of ended calls, backpressure, a dying peer | each answer to its call, no frame misread, nothing left pending | PluginWire, PluginClient, PluginPeer, PluginLink |
| plugin manager and sessions (`plugin/manager.go`, `session.go`) | loaded plugins, launches, start and stop | a start whose context ends | one live client per plugin | later |
| plugin cache and lock document, cookie jar, secret session, sudo session, staged files of a git hook | small stateful protocols, several over FileLock | two processes, crashes between two steps | no update lost, single flight | later |
| process execution, local resource limits, file watching | process groups, signals, sampling | the kernel | – | not modelled: mostly the kernel's behaviour |
| loading, validation, expressions, data and system steps, user interface, providers | documents and values | – | – | not modelled: no state shared or kept between calls |

How they interact.  The engine runs steps in sequence (`engine.go`) and hands controls to FanOut and
ConcurrentGraph, whose bodies are sequences again.  A process step registers a service with the scope
that surrounds it (ServiceScope), whose goroutine is the lifecycle of ManagedProcess, and, with `rpc`, a worker with the run's
registry (ProcessRPC), which other steps of the run call. An observe control is a service as well
(ObserveScheduler). ControlFlow is the recursion of the engine through sequences and controls; concurrent groups
and fan-outs, whose bodies do not interact with it, have modules of their own. A step of a plugin is a call over
its connection (PluginLink), which may call back into the host while it runs.  once blocks and the key_value step of all processes of the machine share the
store's file and its claim files, all of them under FileLock.  Three compositions are stated: PluginLink puts the
host's client and the plugin's peer at the two ends of two pipes; FileLock
implements ExclusiveLock, and KeyValueStore and OnceClaims use that lock's contract, an atomic acquire and
release (a crash releases), instead of the protocol below it: their locks are shown to satisfy it.

## The modules

**ExclusiveLock** is the contract of the lock: a holder or nobody; acquire, release.

**FileLock** has one action per system call of `filelock.go`: open, flock, the comparison of descriptor
and path, truncate and write, remove, unlock, close; a caller may give up or crash between any two.  The
kernel's side is three variables: what the path names, the flock on every file, the files' bodies.
`ImplementsExclusiveLock` maps "someone has a Handle" to the abstract holder.

**StoreOperations** defines the store's operations on a map; **AtomicStore** performs each in one step;
**KeyValueStore** has the code's steps: lock, read and decode, write the temporary file and rename, sync,
release, each of which may fail, with readers that find no lock file reading without one. `Update`'s
`mutate` is the constant `Mutate`.  `ImplementsAtomicStore` maps the file to the map, an operation taking
effect at its rename, or at its read.

**OnceClaims** has a member of `Blocks` per execution of a once block, nested through `ParentOf`.  It follows
`once.go`: lookup, claim, on a busy claim the announcement of the wait in the claim files the block's ancestors
hold, the walk over the claim files of others (one file per step), withdrawal, second lookup, body, record,
release; a process dies with all its blocks.  A claim's holder keeps the announced waits in memory (`waits`) and writes all of them to the
claim file (`announced`) at every change; the write may fail for the blocks in `Faulty`, and the file then shows what it did or nothing that can be parsed.
`told` is the list `announced` of `executeOnce`, the claims a block is to withdraw its wait from, and `unwritten` remembers which writes failed. Failing
lookups of the record, failing claims and releases may happen to every block (`Failure`).

**ConcurrentGraph** chooses any group that validation accepts (all acyclic needs and after edges, limit,
fail_fast, timeout, `if`-like ends are the branch's outcome) and then runs the scheduler loop and the branch
goroutines. The completion channel is the set of branches that have sent.  `validateConcurrentNeeds` takes away the steps that
wait for nothing until none is left to take, and accepts if no step is left over; what it would leave is the largest set of steps each
of which waits for another of the set, so `Valid` says that there is no such set.  The queue of `skipConcurrentDescendants` likewise
computes the least set that is closed under "needs one of them" (`Skipped`).

**ServiceScope** has a record of what each goroutine is doing: the step that starts a service (StartService,
ready, committed, abandoned), the service's goroutine (running, returned, reported to the supervisor) and the
owner (foreground, seal, join, cleanup). `cause` is `context.Cause` of the scope.

**FanOut** has the admission loop (context, slot, context, start), the iterations' goroutines, fail_fast
cancellation, the control's timeout and the parent's end, and the evaluation of the outcome with collect.

**ProcessRPC** has the worker's side (launch, attach, close, protocol failure, forget, answers) and the
caller's side (reserve with the pool's rotation cursor, wait on the broadcast channel, look at the session,
write, receive, give up).  Each critical section of the registry's mutex is one action; what the code does in
two is two actions.  `woken` is the set of waiting callers whose `changed` channel has been closed, so a wake-up can be
missed in the model as it could be in the code.  A write may still succeed on a session that has just
failed, because `fail` detaches before it closes the pipe. The instances are the environment: they answer
each request they got at most once, with its id, and may print a line that is no answer.

**ManagedProcess** is `runLifecycle`: launch, readiness, the handshake with the step that started it, the liveness
watch, the restart with its backoff, the shutdown command and the stop. `attempt` counts launches and `alive` says which
of them still run, so that an instance nobody holds any more is visible. A service is one of `Services`: its policy, `max_restarts`, whether
it is detached, has probes and a shutdown command. Every select of the code is a disjunction, whichever of its
channels are ready.

**ObserveScheduler** is `Run`: the pump goroutine, the select loop with debounce and overlap policy (queue, restart, skip), the
body's goroutine and its result. A source is polling (it keeps the last observation, `latest`) or pushing (it keeps
all); it may fail, and is polled again at a pace, or end. The history variables `accepted` and `handled` are the observations
the loop has kept and those some body was given.

**WorkflowTree** has the declared steps as a tree, what `validateSteps` accepts of them, and the scope every cleanup is registered
with. **ControlFlow** runs such a tree: a frame per node that is executing, with its context (`cancelled`), its outcome and
where it is in its children. Sequences, attempts, try and catch, loops, early returns, executor and worktree blocks, the branches of a race and
the cleanup scopes are frames of the same kind; an action is what one handler does between two calls. A step may succeed,
fail, be skipped, acquire something that must be released, or run into its context's end.

**PluginWire** has the two pipes: ordered frames, room for `Room` of them, torn frames when a writer was cut off.
**PluginClient** is the host's end (`client.go`): the reader with its dispatch, callers with their pending entry, cancellation notices,
event sinks, callbacks with their budget, refusals, and `close`. **PluginPeer** is the plugin's end (`sdk/peer.go`): requests, their contexts, the
plugin's own calls to the host, the responses. Either end may be given a value that makes no frame (it cannot be marshalled, or exceeds 10 MiB; the
calls in `unframed`): the host then withdraws its request, the SDK fails a callback, and drops a reply without telling anyone (`AnswerUnframed`). **PluginLink** puts them together and adds what may happen to the plugin in a scene: it dies, it hangs, it ends.

## The runs

Every passing run checks safety and liveness on the same instance.

| run | instance | shows |
|---|---|---|
| MCFileLock | 2 callers that call, give up, crash and come back; 2 files | `Safety` (a finished payload stays visible), `ImplementsExclusiveLock`; `Progress`: a caller that waits for ever sees others get the lock again and again |
| MCKeyValueStore | 2 clients, 2 keys, 2 values that Update swaps | `StoreTypeOK` (what is stored decodes: deleted keys are gone, not null); `ImplementsAtomicStore` through failures and crashes; `LockReturned` on every path |
| MCOnceClaims | 3 levels of nesting, 2 concurrent branches on either side, a process nesting the other way and not waiting; claim-file writes of one sibling in each process may fail (221,933 states, two minutes) | `Safety`: one body per key, the outcome is stored, an announcement outlives its wait only where the block's own write failed, and that block fails; `RecordedOnce`; `EverybodyEnds` |
| MCConcurrentGraph | every valid group of 3 steps, limits 1 and 2, one variable | `Safety`: bound, edges, nobody forgotten, all or nothing; `NothingStartsAfterFailure`; `Returns` |
| MCFanOut | 3 iterations, limits 1 and 2, every policy | `FanOutSafety`: bound, honest outcome, named failures, no one held back without fail_fast; `FanOutReturns` |
| MCServiceScope | 2 services, each fail-fast or keep-alive with exit_on_end; parent ends | `Safety`: cleanup after the join, failures reported, success earned, no aborted service ready; `CancellationShows`; `ScopeEnds` |
| MCProcessRPC | a caller of one worker with one restart, a caller of a pool of two; requests of any size | `Safety`: no lost wake-up, honest calls; `HeldUntilAnswered`; `CallsReturn` |
| MCManagedProcess | 6 services, up to 3 launches (52,671 states) | `Safety`: every restart is justified by the policy; `NoStacking`: a replacement is launched, and the lifecycle returns, only when no instance within cancellation's reach is left; `ResultHonest`: what the lifecycle returns is what happened; `LifecycleReturns` |
| MCObserveScheduler | 7 observers: every overlap policy, both kinds of source (90,383 states) | `ObserverSafety`: iterations paired; `NewestFirst`: a body that starts is given all that no body before it was given, and of a polling source the newest; `Converges`: what the source has reported reaches a body, under restart and queue always, under skip if it is reported time and again; `ObserverEnds` |
| MCControlFlow | six workflows that nest blocks, an executor, a worktree, a try, attempts, loops and a race (25,645 states) | `Safety`: every live resource registered once and released in time, the outcome that of the failures nothing made up for; `CleanupComplete`; `ReleasedInReverse`; `OnlyCleanupStarts` after a cancellation or a return; `CompletedNotRepeated`; `RaceHonest`; `RunReturns` |
| MCPluginLink | eight scenes of two calls, or of one and the close of the connection, two of them with a value that makes no frame (307,252 states, two minutes) | `Safety`: sinks released with their calls; `NeverMisread`; `ShutdownIsLast`; `NothingRemembered`; `EverythingReturns` |

`Safety` of a module is the conjunction of its type invariant and of its named state invariants; each conjunct has a comment of
its own in the module. Deadlock is checked except where a system may really stop: the plugin run is one, because a
connection whose calls have returned, or a hung plugin whose caller nobody cancels, stands still.

Why the bounds suffice to be interesting.  FileLock: the classic failure needs a holder, a waiter on the deleted
file and a creator of the new one; a caller that comes back plays the third, and as many files as callers
are enough because a caller about to create one has none open (`InodesSuffice`).  KeyValueStore: a lost
update needs two writers, a torn view two keys.  OnceClaims: the smallest cycle has two keys, sharing of the
announcement records needs two branches, and a wait hidden or left behind by a failed write another branch that is (or is no longer) waiting.  ConcurrentGraph and FanOut: with three, one can run, one be admitted
and one be left out at the moment of a failure.  ServiceScope: one service fails or ends while the other
starts, runs, stops or was abandoned.  ProcessRPC: the second instance and the second caller are what a stale session
and a stale answer need; rotation needs the pool of two.  ManagedProcess: with three launches a `max_restarts` of one or two is
reached and a second restart follows the first; the six services cover each policy, detached and not, with and without
probes and shutdown command.  ObserveScheduler: of two
changes that arrive while a body runs one is kept and one merged, queued or skipped.
ControlFlow: the trees hold each pair of controls that validation lets stand in one another with two cleanups where order counts
and two passes where repetition does; one has an attempt in a loop, so that two iterations hold the same resource.  PluginLink: two calls share the connection, so that one is cancelled, forgotten or answered
late while the other runs; one callback allowed, one refusal allowed and pipes with room for one frame make
the budget, the refusals and the backpressure bite; `Asking` has a call that asks twice, the other scenes a plugin that dies, or a
connection that is closed while a call asks, streams or hangs.

One run must be violated, and shows where the code does something else than its documentation says:

- `MCProcessRPCInFlight`: between `reserve` and its look at `worker.session` a caller may lose its reservation to
  a restart and then write to the new instance beside the call that reserved it; the answer to the first request has
  an unknown id and fails the new instance. `docs/steps-automation.md` permits one request in flight.

Each passing property has a mutant in `PROJECT.json`: a plausible slip in one mapped definition that makes
the same run violate it.  The mutants are the operators marked `Mutant:` in the modules.

### Further divergences from the documentation

Each of these has a property and a configuration in this directory, run with `tlc -config X.cfg MCModule`, that TLC finds violated
by what the code does; they are kept beside the runs of `PROJECT.json`, not among them.

| configuration (module) | property | the code | the text |
|---|---|---|---|
| MCOnceClaimsBothRefused (MCOnceClaims) | OneSideRefused | both sides of a deadlock may be refused (`engine/once.go:153`) | one finishes (`docs/execution.md:251`) |
| MCOnceClaimsPhantom (MCOnceClaims) | RefusalsAreCycles | a wait may be refused although no cycle ever existed: the walk reads one file after the other | a proof of a cycle (`docs/execution.md:253`) |
| MCPluginLinkUnanswered (MCPluginLink) | RequestsAnswered | a reply that makes no frame is dropped: `serve` ignores the error of `reply` (`plugin/sdk/peer.go:190`), so a plugin that runs on never answers, and the host keeps the call until its caller gives up; `plugin/sdk/plugin.go:619` guards `fs.read` against this | the plugin returns exactly one response to a request (`docs/plugin-protocol.md:27`) |
| MCServiceScopeEnded (MCServiceScope) | EndedScopeSucceeds | a service with exit_on_end that ends while a step is about to start another makes the run fail (`engine/background.go:77`) | it ends the run successfully (`docs/steps-automation.md:562`) |
| MCServiceScopeShutdown (MCServiceScope) | ShutdownTriggersNoPolicy | a failing shutdown command of a service that is being sealed triggers exit_on_failure (`engine/background.go:106`) | shutdown triggers no restart or exit policy (`docs/steps-automation.md:210`) |
| MCManagedProcessAborted (MCManagedProcess) | CommandRunsFirst | a start that is given up cancels an attached instance without its shutdown command, even under an executor that leaves it running (`steps/process/lifecycle.go:203`) | such a session "can only stop its services with `shutdown.command`" (`docs/steps-automation.md:227`) |
| MCControlFlowDropped (MCControlFlow) | CommittedIsRegistered | validation looks at an attempt before the rule that rejects a defer in a loop or in cleanup, so the attempt's own defer is accepted there, and nobody registers it (`workflow/structure_validation.go:353`) | it is rejected (`docs/finally.md:45`), and runs after the control commits (`workflow/attempt.go:516`) |
| MCControlFlowReturned (MCControlFlow) | OnlyCleanupStarts | nor does it look for a return there (`workflow/attempt.go:541` leaves the defers to a rule that is not reached, `workflow/structure_validation.go:349`): one that triggers in the cleanup of an executor is forgotten with that cleanup, and the steps behind the executor run | a return is not supported inside defer (`workflow/return.go:115`), and steps following a triggered one do not run (`docs/return.md:178`) |
| MCPluginLinkForwarding (MCPluginLink) | ForwardingStops | events that arrive while a cancelled call drains still reach its sinks (`plugin/client.go:611`) | forwarding stops immediately on cancellation (`docs/plugin-protocol.md:421`) |

Two consequences of failing writes to claim files are visible in the conditions of the properties of OnceClaims. A wait that could not be announced or withdrawn
(`engine/once.go:144`, `engine/once.go:157`) stays in the claim: a failing `AddWanted` has appended it to the list that a sibling's next write publishes, and a failing
`RemoveWanted` leaves the file as it was, so until the claim is given up other waiters may "refuse a deadlock that does not exist", which the comment at
`engine/once.go:154` sets out to prevent (`NoStaleWaits` excepts these waits; `UnwrittenFails` says that the block at least fails).  And when the files of two claims that
a cycle goes through are both unreadable, or were both never updated, neither side sees the cycle and both wait for ever: `EverybodyEnds` excepts exactly the states in which two claims
hide a wait that goes on, and TLC finds such a run when the exception is taken away. One such file is not enough.

One more, outside the models: `plugin.start` is sent again when an earlier start's context ended
(`plugin/manager.go:735`), where `docs/plugin-protocol.md:408` has it called at most once, and a start that succeeds late is
not followed by a stop.

## Fairness

Weak fairness only, per goroutine or process.

- FileLock: a call in progress runs on (acquire, Release); nobody has to call, to release or to be cancelled.
- KeyValueStore: an operation that has started runs on, `mutate` included.
- OnceClaims: blocks run on and bodies end; a waiting claim keeps polling. No failure has to happen.
- ConcurrentGraph, FanOut: the scheduler and the goroutines run; a body ends by itself or by its context (the
  documented contract of a step); no context has to end.
- ServiceScope: goroutines run; the foreground and a service end at the latest when their context is cancelled;
  startups end because every probe and pattern has a timeout.
- ManagedProcess: the lifecycle's goroutine and the instances' executors run; an executor returns once it is
  cancelled, a detached launcher that fails leaves no child; probes and commands end by their timeouts. The backoff elapses only
  `MaxLaunches` times, which bounds the instance, not the policy.
- ObserveScheduler: pump, loop, iterations and timers run; a case of a select that stays ready is chosen in the end, as Go
  chooses at random among the ready ones; an endless body ends once cancelled, and the bodies of queue and skip
  end by themselves. A pump under `always` with a debounce longer than its interval would postpone its batch for ever, so no
  such observer is among the instances.  Skip under on_change drops observations for good, which the documentation states:
  `Converges` does not claim it.
- ControlFlow: every handler runs on, and the deadline of an attempt with max_elapsed_time passes in the end.
- PluginLink: one condition per kind of goroutine, each of which has finitely many steps; event sinks, host handlers and the
  plugin's handlers end and write their reply or drop it; the context of close has a deadline; a write to a full pipe times out.  Nothing is
  assumed of a plugin that hangs, and no caller has to give up.
- ProcessRPC: the callers' goroutines run and their timers fire (`process_call` always sets a timeout, 30 seconds by
  default). Nothing is assumed of the instances: they need not read, answer, exit, or restart.

## What is proved

All theorems hold for every value of the constants under the modules' named assumptions, which say only that
names differ, that functions have their domains, that limits are positive, and of a workflow that validation accepts it (`TreeAssumption`) and that it is a
finite tree which declares every step once (`TreeShape`).  One theorem, `OnlyCleanupFollows`, has a hypothesis of its own (`NoReturnDeferred`, explained there), which
the assumption `ReturnsInTheOpen` of MCControlFlow lets TLC evaluate for the workflows of the run;
the proofs need no bound of the runs. Each proof
names an inductive invariant, shows Init, one step per action, and reads the properties off it; TLC has
checked each part of the invariants on the instances of the runs first.  Eight modules hold the proofs, three of them for two components each:
StorageProofs for FileLock and KeyValueStore, BackgroundProofs for ServiceScope and ObserveScheduler, ControlProofs for ControlFlow and FanOut
(which is why the names of KeyValueStore, ObserveScheduler and FanOut do not meet those of the other three).

`Safety` of every run is proved, whole, as a theorem (`SafeAlways`, `LockSafeAlways`, `ObserverSafeAlways`, `FanOutSafeAlways`, `RunSafeAlways`; `StoreTypeCorrect`
is the store's), and so is every refinement and every action property.

- **StorageProofs**, the lock: `LockInv` (a flock is held on the file its caller opened, and the path names a handle's file until its holder
  removes it). `LockTypeCorrect`; `Exclusion` and `PayloadStays` follow because two
  handles' files are both what the path names and a file has one flock; `Refinement` shows the safety part of the
  lock's contract step by step.  The store: in `StoreInv` a client between read and rename holds the lock, decoded what is still in
  the file, and has computed its answer from it. `UpdatesCompose` (no lost update), `Linearizable` (the refinement of AtomicStore) and
  `StoreUsesLock`: the lock of the store's model takes the steps of ExclusiveLock, the contract that FileLock implements, through
  failures, deaths and late errors; the two levels fit together.
- **BackgroundProofs**, the scope: `ScopeInv` adds to the properties that nothing is accepted after the join, how far each side of the
  handshake can be ahead of the other, and that no service counts as cancelled by seal before the scope is sealed.  `CleanupAlone`, `NoFailureLost`,
  `SuccessEarned`, `HandshakeAgrees`, `ExitsEnd`, `CancellationSeen`.  The observer: `ObserverInv` says that versions stand in order in the accepted
  set, the channel and the pump's hand, that a timer runs exactly when a batch waits for it, and where what was accepted is now: with
  a body, queued, or in the waiting batch; of a polling source, its newest.  `ObserverSafeAlways`, and `NewestServed` for the action property `NewestFirst`.
- **ControlProofs**, control flow: what a handler owns is everything that stands in it, so the first part is about the tree. `Around` is a
  recursive function, `Within` what it reaches; four lemmas say that it is the least set with a node and the places of its nodes, which takes the place of
  induction, and from them come whose scope a step belongs to, what an attempt collects, and that a stack names each step once. The invariant `RunInv` says in named parts
  that the handlers in progress are nested like the tree and each stands where its child requires (`Nested`), that outside a race one path runs (`OneRun`, `Raced`), that a
  handler holds an error exactly when a failure below it was not made up for, and that what is owed is always some running handler's to answer for, or the result's
  (`Tracked`), which pass a step was last run in (`Fresh`, `Discarded`), and whose cleanup a committed step waits for (`Attached`). It is proved
  with one lemma per action; the steps' common effects (a report, a start, an end, a failure made up for) are lemmas that those share.
  `RunInvariance`, `RunTypeCorrect`; `OutcomeIsHonest` for `OutcomeHonest`: the result is a failure exactly when one is still owed;
  `PassesThatCompleteStay` for `CompletedNotRepeated`, and `RacesAreHonest` for `RaceHonest`.
  Resources: `HoldInv` adds that only a run and a pass hold any, and not while they wait (`Settled`), and that each place of the list of live resources is
  one place of one handler's list and the other way round (`Registered`), such that of two live resources the earlier stands earlier in the same list, or in that of a handler
  further out, unless a race runs them side by side. Acquiring, handing over to the enclosing scope, and releasing the last are lemmas about such lists that know nothing of
  handlers (`AcquiredPlaces`, `AdoptedPlaces`, `ReleasedPlaces`); what they need of the tree is that a handler which holds something runs around the step
  that acquires, or in another branch (`BesideOrAbove`). `ResourcesReverse` for `ReleasedInReverse`; `RunSafeAlways` for `Safety`, where the correspondence gives
  the counts of `ReleasedInTime`. That no resource of a node is live while its attempt waits is not claimed: in a loop, what an earlier iteration acquired and won
  is held by the run while a later one fails.
  After an interruption or a return: what each step of a run does to the handlers is first put into a few forms (`Form`: it starts a step, moves one handler on,
  ends one, ends contexts, or only warns), shown to be all by `StepsHaveForms`, so that the two invariants that follow are proved per form and not per action.
  `Cut` says that once the run is interrupted the context of every handler outside cleanup has ended, from which `InterruptedStops` follows for every workflow.  A return needs the
  places where it may stand: validation is a recursive function over steps and scopes (`Accepted`), and no induction theorem can be used, so
  `AcceptedDef` and `BodyDef` show from well-foundedness of the tree that the recursive definitions solve their equations, and `ReturnsArePlaced` takes the innermost place that
  validation would have refused: an accepted return stands in the bodies, not the cleanup, of blocks, executors, worktrees and the run. Then `LeaveInv` says that while a return is
  on its way out no handler calls anything more (`Leaving`), that a scope which set it aside for its cleanup runs alone but for the handlers around it, which call nothing either (`Keeping`),
  that it is never forgotten before the run ends (`Remembered`), and that a cleanup has no step of the body left to call (`CleansAfter`).
  `OnlyCleanupFollows` for `OnlyCleanupStarts`, of every workflow in which
  no return stands in an attempt's own `defer`: of the others it is false (MCControlFlowReturned above), because validation does not look there.
  The fan-out: `FanOutInv` ties the admission index to the iterations that have left the queue, the running bodies to slots, and an
  iteration over without an outcome to a context that is done.  `ConcurrencyBounded`, `FanOutOutcomeCorrect`, `FailuresKept`, `NobodyHeldBack`.
- **ConcurrentGraphProofs**: the scheduler keeps only counts of edges. `GroupInv` says that a pending step's count is the number of its edges that
  are not satisfied (`Counted`), that a step which runs may (`Ordered`), what a goroutine has sent (`Reporting`), and that admission is closed for
  a reason (`Closing`). The hard part is that nobody is forgotten: if the loop ends with nothing running and no context done,
  the pending steps would each wait for another pending one (`NobodyLeft`), and no valid group has such a set; in the same way no step is skipped
  without a failure behind it.  `SafeAlways` for groups of any size, `FailFastCloses`.
- **ProcessRPCProofs**: `IInv` says that a reserved worker serves, that it is reserved for one call which knows it, whose channel
  is empty and which, from its look at the session on, took the session of the current instance, and that a request
  is in an inbox only after its one write.  The effects of `detach` and `release` are lemmas of their own, then one
  lemma per action.  `NobodySleepsThroughASignal`, `NeverReplayed`, `LateAnswersStayTheirOwn` (an action property), `TypeCorrect`
  with the bound of the rotation cursor.  The finding above is consistent with them: the call that writes without a
  reservation has its (closed) answer already, so nobody receives another call's answer.
- **ManagedProcessProofs**: `Counted` ties `restarts` to `attempt` by where the lifecycle stands, `Contained` says what may still run of the current and
  of earlier instances (only what is out of cancellation's reach, and then its shutdown command was tried), `Accounted` what the lifecycle knows of failures.
  `RestartsEarned`; `NoInstanceStacked` and `ResultTold` for `NoStacking` and `ResultHonest`.
- **OnceClaimsProofs**: `Claimed` (the holder of a claim is the block that took it and has not let go), `Nested` (the blocks around an active one run
  their bodies, so that announcements into their claim files are theirs to withdraw), `Stored`, and what memory and file say of a wait (`WaitsWithdrawn`: beyond the wait a claim shows it only after
  a failed write of that very block, whose failure is then certain). The blocks around a block are the least set that contains its parent and
  theirs; four lemmas about that set take the place of induction. `SafeAlways`, `NoClaimLeft`, `RecordsStay` for `RecordedOnce`, and
  `ClaimsAreLocks`: the claims of a key, seen by themselves, are an ExclusiveLock.
- **PluginLinkProofs**: the invariant follows a request from its registration through the pipe, the plugin's handler and back, and a callback the other way: it is in one
  place at a time, its answer is written once and after its events, and unless a writer gave up each end remembers it as long as a frame about it can come
  (`RequestsKept`, `CallbacksKept`) and no longer than one will (`RequestsLive`, `CallbacksLive`), except that the host goes on waiting for a reply that the SDK dropped. `SinksGivenBack`, `SafeAlways`, `HonestEnds`
  for `NeverMisread`, `ShutdownLast`, `SettledForgets` for `NothingRemembered`.

Only model-checked: every liveness property (`Progress`, `LockReturned`, `EverybodyEnds`, `Returns`, `FanOutReturns`, `ScopeEnds`, `CallsReturn`, `LifecycleReturns`,
`Converges`, `ObserverEnds`, `RunReturns`, `EverythingReturns`), because the prover reaches neither fairness nor ENABLED; of ControlFlow, `CleanupComplete`, which compares the order of the recursive `Collect` with the order in which steps commit and does not hold of every tree
that validation accepts (MCControlFlowDropped above); and the mutants.

## Plan

What comes next, most important first.

1. ControlFlow: `CleanupComplete` for the trees whose committed groups are all registered, which needs the order of a stack to be that of the steps.
2. ProcessRPC's lifecycle actions (launch, attach, close, forget) as the abstraction of ManagedProcess.
3. Further models, each in the place of a weaker run: the plugin manager's load gate, launch, start and stop; the cookie jar's load
   and merge around a request (`steps/http/cookiejar.go:70`); the plugin cache and its lock document over ExclusiveLock.

## Not modelled

Contents of messages, rendering, logging and layout; the values flowing through workflows; the file system below open, rename, flock and
unlink; the kernel's treatment of signals and terminals. Most of the repository is of that kind: step implementations that
transform documents, decoding and validation of declarations, the dashboard, installers and providers, which keep no state
between calls and meet no concurrency of their own. Their correctness is about data, and tests reach it better
than a state machine would; the modules stand for the coordination around them.

What the modelled components leave out:

- Validation appears as the set of groups and trees a run may be given.
- ProcessRPC: the payload and the wording of errors; the request's size is one bit, random call ids are assumed to differ.
- ControlFlow: a step's timeout, a template error and a condition that cannot be evaluated are its failure; `when` stands for retry
  conditions and retryable HTTP statuses; a wait of fixed duration without attempts is left out, and so are
  concurrent groups, fan-outs and services, which have modules of their own. The order of release is not demanded between
  branches of a race, which run side by side; what an executor or worktree block registers belongs to the run or pass around it.
- ManagedProcess: output buffers and patterns are one bit, `matched`; protocol messages are in ProcessRPC.
- PluginLink: retries of a launch, attached connections, terminal sizes, the byte budget of events, and malformed frames of
  plugins not written with the SDK.  A write that was cut off may have left nothing, part of a frame, or all of it.
  `NeverMisread` is claimed of connections whose writer did not give up and that nobody is closing: afterwards the code itself
  abandons the connection.
- The plugin manager, sessions and the other components with status `not_modelled` in `PROJECT.json`, for the reasons given there.
