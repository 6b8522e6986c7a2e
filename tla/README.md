# QuickServe: specifications, model checking and proofs

QuickServe serves requests to one language model. A *scheduler* thread keeps the lifecycle of
every request and decides, iteration by iteration, which tokens the model processes next; an
*environment* thread owns the model, its sequences and a prefix cache. They share one object, the
*handoff*: bounded lock-free channels, a slot for the next plan, the epoch of the last one
executed, a stop flag and a progress notification. A replay program feeds recorded requests to the
scheduler and records what happened.

This directory holds TLA+ modules for that runtime (`src/src/runtime`), its scheduling policies
(`src/src/policies`) and the replay program (`src/src/benchmark`), the TLC configurations that check
them on small instances, and proofs that TLAPS checks for every value of the constants.
`PROJECT.json` maps each definition to the source lines it stands for.

## 1. Inventory

| component | state | operations | interacts through |
|---|---|---|---|
| SPSC ring, `spsc.hpp` | two wrapping indices, raw storage | `try_emplace`, `try_pop`, destructor | release/acquire on the indices |
| plan publication and pool, `handoff.hpp` | `pool_`, `spare_`, `published_`, `retired_`, `epoch_`, `completed_epoch_` | `begin`, `commit`, `consume_plan`, `retire_plan` | atomic exchange, a ring of plan pointers |
| progress notification, `handoff.hpp` | generation, mutex, condition variable, stop flag | `notify_scheduler_progress`, `wait_for_scheduler_progress` | mutex and condition variable |
| channels, `handoff.hpp`, `protocol.hpp` | seven queues | `try_...` on each side | the rings |
| scheduler, `scheduler.cpp` | live requests, pending admissions, retirement markers, counters, drain cause, published and observed epoch | `submit`, `run_once`, `run`, `request_stop` | handoff; virtual `build_plan`; observers |
| environment, `environment.cpp` | records, free sequences, held admission, fatal flag, prefix cache | one loop: releases, admissions, one plan | handoff; the model library |
| prefix cache, `prefix_cache.hpp` | entries with last use and conversation | retain, longest full prefix | called by the environment |
| policies, `src/src/policies` | none (FIFO family), windows and counters (AIMD), solver (ProxQP) | `build_plan`, timing hooks | read the live requests |
| replay, `src/src/benchmark/replay.cpp`, `benchmark_main.cpp` | cursor, causal gate, pending records | load, submit, `run_once`, wait, stop | drives the scheduler |
| results, `results.cpp` | sketches, files in a temporary directory | observe, finish | terminal, batch and workload observers |
| trace files, scripts, profiles, experiments | - | sequential tools | - |

What is hard in it, and what makes it correct:

* **Ring**: no overwrite, no read of raw storage, FIFO, although each thread acts on a stale copy of
  the other's index and both indices wrap.
* **Plans**: at most one epoch outstanding; a buffer is never written while it is executed; the pool
  does not grow.
* **Epoch order**: the scheduler reads the completed epoch *before* it drains, so that it never
  builds a plan from positions whose completions are still queued (`scheduler.cpp:133-136`).
* **Lifecycle**: a request occupies the environment exactly while the scheduler thinks so; a release
  is sent once; late messages do not revive a request; counters do not underflow.
* **Failure**: a stop, a fatal, a rejected plan or a failing observer starts a drain at any point of
  the protocol; the drain has to end and to leave nothing behind.
* **Waiting**: the replay thread sleeps between iterations and must not sleep through news.
* **Policies**: a plan must be valid, must not be empty while something can be scheduled (that ends the
  whole run), and must not leave a request waiting for ever because others keep arriving.
* **Replay**: a turn follows the turn before it, at the trace's distance; whatever fails, all threads
  are told to stop and joined, and the results are published whole or not at all.

`PROJECT.json` lists these one by one, at their lines, as hazards, with the properties meant to
catch each of them.

## 2. Modules

| module | models | correspondence |
|---|---|---|
| `BoundedQueue` | what a channel promises | abstract: push, pop, close |
| `Spsc` | `spsc.hpp` | `push_pc`/`pop_pc` are the program counters of `try_emplace`/`try_pop`; one action per shared access |
| `PlanSlot` | what plan publication promises | abstract: publish, take, retire |
| `PlanPool` | `begin`, `commit`, `consume_plan`, `retire_plan`, `run_once`'s reading after the commit | one action per access the other thread sees; a plan's work is the epoch it was built for; the indices of `retired_` may be stale |
| `ProgressWait` | notification and the replay loop's wait | each notifier and the waiter have a program counter; the mutex is explicit |
| `Handoff` | the shared object | a queue per channel, `published`, `completed_epoch`, `stop_requested` |
| `Scheduler` | `scheduler.cpp` | `run_pc` is the place in `run_once`; one action per handoff access, one per decision |
| `PrefixCache` | `prefix_cache.hpp` | operators on sequences of entries |
| `Environment` | `environment.cpp`, `run` | `env_pc` is the place in the loop; one action per handoff access |
| `QuickServe` | both threads | composition, system properties, fairness |
| `RequestLifecycle` | what the callers of `submit` are promised | abstract: submit, serve, refuse, generate, end, drain |
| `PolicyWork` | candidates and work items, common to the policies | operators on the list of live requests |
| `FifoPolicies` | `build_plan` of FIFO, continuous FIFO, cache-aware FIFO | an operator each |
| `BatchResources` | `batch_utilities.cpp` | the limits of a batch |
| `HeuristicAIMD` | `heuristic_aimd.cpp` | the batches it may select, window, bypass counts |
| `ProxQP` | `proxqp_scheduler.cpp` | the batches it may select |
| `PolicyLoop` | any of these at work for ever | one step builds, executes and folds a plan; requests arrive, are admitted and leave in between |
| `ReplayGate` | `replay.cpp` | selection, scaled deadlines, the causal gate, as operators on the trace |
| `Replay` | `benchmark_main.cpp`, `run`; `results.cpp`; environment startup | `main_pc`, `env_pc`, `replay_pc` are the places of the three threads |
| `SequenceLoops` | loops over a vector | `Filter` keeps the elements that are in a set, `Tally` adds up tokens |
| `MC...` | | small constants for TLC |
| `SpscProofs`, `PlanPoolProofs`, `ProgressWaitProofs`, `PolicyLoopProofs`, `ReplayProofs` | | theorems about the module of that name |
| `SequenceLemmas` | | what the operators on sequences return |
| `QuickServeInvariants`, `QuickServeProofs` | | theorems about the composition, the second module on top of the first |

The channels of `Handoff` are sequences because `Spsc` is proved to implement `BoundedQueue`; the
slot is a variable because `PlanPool` is proved to implement `PlanSlot`. The composed model is thus
sequentially consistent: stale index reads are examined in `Spsc` and, for the queue of retired plans,
in `PlanPool`, and a channel that looks empty a moment too long is an interleaving the composition has
anyway.

The scheduler, the environment and the policies filter lists and add up tokens with recursive functions,
most of them those of `SequenceLoops`, and not with `SelectSeq` and the folds, about which the provers know nothing: what
they return is proved in `SequenceLemmas`.

A definition named `X_Something` next to `X` is a plausible bug in the code that `X` models (a
dropped guard, an update in the wrong order). It is used by nothing: putting it in the place of `X`
must make TLC refute the property `PROJECT.json` pairs it with, which shows that the property
depends on that code.

### Abstractions

* Tokens and conversations are model values; a text piece is counted, not spelled; timestamps and
  timing hooks are left out. `emitted` and `outcome` are history variables.
* `Scheduler!PolicyPlans` is any policy: every batch of ready work in every order within the token
  budget (`SoundPlans`), and the plans `validate_plan` must refuse, given by the constant
  `RoguePlans`, which may hold an empty one. `ShippedPoliciesConform`, checked in a run and
  proved, says that what the FIFO family builds is among the sound ones. `BuildThrows` is a policy that throws,
  with the catch clause of the driver.
* The model library is external: `Faults` names the calls that may fail (`validate`, `sampler`,
  `restore`, `seq_rm`, `accept`, `decode`, `sample`, `save`, `remember`) and the callbacks
  (`observer`, `policy`). `accept` and `remember` are exceptions that unwind to the loop's outer
  `catch`. An exception while a plan is being validated takes the same way as `remember` and has no
  action.
* The push of a fatal is part of the step that fails: that channel is never full, because a fatal is
  reported once.
* `Completion::error` is never set by the environment, so the branch for it is left out; so is the
  branch of `flush_pending_admissions` for stale entries (lines 325-331), which nothing can reach,
  and the guard against decode positions beyond 2^32.
* The caller submits between iterations and not from inside an observer.
* `PolicyLoop` relies on `OneEpochOutstanding` and `SuccessfulBatchesAreFolded`: a policy is asked
  only when its last plan is executed and folded, so the three are one step. Requests are known by
  their place in the list. A request cached in full is left to the run `exact_hit`.
* In `HeuristicAIMD` clocks are external: the moving average of batch durations decides freely between
  growing, shrinking and keeping the window, which is followed in whole numbers, as `window_capacity`
  uses it. Of two candidates one may come first if it has waited at least as long (a prefill since its
  arrival, a decode since its last token, in batches) or has been passed over at least as often. In
  `ProxQP` the solver is external too: any batch of the projection or the fallback may be chosen.
* `Replay` knows the runtime only by what `QuickServe` shows of it: a submitted request ends in some
  later `run_once`. The file system has an exclusive rename, operations that fail, and other
  processes. The main, environment and replay threads are interleaved step by step; a kill
  (`Crash`) may come at any moment. The rename is that of macOS and Linux.

## 3. Runs

`tlc -config X.cfg M` for each; the times are for two to four cores.

| run | module / cfg | question | distinct states |
|---|---|---|---|
| `spsc` | `MCSpsc` | is the ring a bounded queue, and is a message taken at last? | 16,317 |
| `plan_pool` | `MCPlanPool` | are plan buffers exclusive, stable, never lost, with any caller and any stale index? | 123,026 |
| `progress_wait` | `MCProgressWait` | is a wakeup ever lost? does a stop end the blocking? | 47,480 |
| `faults` | `MCFaults` | are ownership, sequences and counters right whatever fails? | 4,885,301, 90 s |
| `observer` | `MCObserver` | what if the terminal observer fails, or the policy throws or returns wrong plans? are answers and outcomes exact, and do the shipped policies conform? | 272,686 |
| `cache` | `MCCache` | does the cache hold what it should, evict what it should, and keep the positions right? | 4,284,857, 85 s |
| `live` | `MCLive` | what if every channel and the only sequence are full? does the composition implement `RequestLifecycle`, does every request and every drain end? | 277,900, 90 s |
| `policies` | `MCPolicyLoop` | does any policy starve a request, end the run without need, or overtake more than it says? | 22,968, 90 s |
| `replay` | `MCReplay` | whatever fails: are turns in order, results whole, threads joined, does the benchmark end? | 1,416,488, 100 s |
| `late_submit` | `MCLateSubmit` | a disagreement, see below | violated |
| `exact_hit` | `MCExactHit` | a disagreement, see below | violated |
| `unwind` | `MCUnwind` | a disagreement, see below | violated |

### Bounds

* `Spsc`: capacity 4 and indices modulo 8, so that both indices wrap past each other while the ring
  is full, empty and half full. The state space is finite without further bounds.
* `PlanPool`: two plans, the least the constructor admits, so that the pool grows when the pop fails;
  a queue of four, which a pool grown by stale indices can exceed; `MaxEpoch` = 8 commits, which cycle
  every buffer several times.
* `ProgressWait`: two notifiers and three channels, so that a channel already read receives news
  while a later one is being read; `MaxGeneration` = 5 bounds the notifications.
* Composed runs: two or three requests with prompts of one or two tokens and one or two tokens of
  output. Two requests batch, one of two tokens is prefilled in one or two chunks, the other decodes;
  the third makes channels of two places (`QueueCapacity`) overflow. One sequence makes admissions
  wait, two make requests share a batch. `MCCache` has four requests of three conversations, one of which
  comes back with a longer prompt, and `CacheCapacity` = 2: an entry is replaced, extended or the least
  recently used of two is evicted, in whichever order the requests end. No counter needs a bound: a request has finitely many steps.
* `MCPolicyLoop`: `Slots` = 3 live requests at a time, so that one can wait while the two others take
  turns and are replaced for ever; prompts and answers of one and two tokens, a budget of two, memory
  for three tokens (a full house does not fit), a cached prefix of one token under every policy, a locality window of
  two (one prefill is outside), a starvation threshold and a limit on decode batches of two. The
  bypass counts need no bound: `BoundedBypass` bounds those of prefills, and the state space is finite.
* `MCReplay`: a conversation of three turns, so that a turn waits for the end of one that waited
  itself, a record of no conversation in between, and a fifth record beyond `MaxRequests`;
  `max_sequences` 16 and 24, the second of which asks for a ring that is not a power of two. A request
  takes `MaxService` = 2 ticks at most, the poll is 2 ticks, and the loop wakes at most `MaxLag` = 1
  late, so that turns are overdue, due and early. Every operation that may fail does so at any time.
* Deadlock is checked everywhere except in `MCSpsc`, where both threads stop for good once the ring
  has been destroyed. Two joined threads are the explicit `Terminated` step of `QuickServe`.

### Fairness

* `Spsc`: the consumer calls `try_pop` again and again and threads complete the calls they began. The
  acquire load is strongly fair in returning the latest index: a store becomes visible at last.
* `ProgressWait`: the threads keep running; a notifier that waits for the mutex gets it if it is free
  again and again. Neither deadlines nor spurious wakeups are fair, so liveness rests on neither.
* `QuickServe`: weak fairness of each thread's loop. `run_once` is called until it returns false
  (`Scheduler::run`, the replay loop), and the environment loops until it is stopped. Submission and
  `request_stop` are not fair. A choice between success and failure of a model call is not fair
  either: liveness holds whatever fails.
* `PolicyLoop`: the scheduler keeps running (`Admit`, `Schedule`), and the environment acknowledges
  releases in their order. Arrivals are not fair, they may go on for ever or end; nor is a policy's
  choice where it is open.
* `Replay`: weak fairness of each thread and of the clock. No failure is fair, and none is excluded.

### Properties of the composition

`PlanFitsEnvironment`: a published plan matches the environment's records exactly. `OneEpochOutstanding`:
one plan in slot or execution, the next epoch. `SequencesExclusive`, `OwnershipAgrees`,
`ReleasesAreHeld`, `CountsExact`, `MarkersExact`: the two threads' books agree with each other.
`SuccessIsComplete`: an answer without error has its whole prompt, all its tokens and every piece of
text. `SuccessfulBatchesAreFolded`: a batch reported successful has been seen in full.
`LifecycleMonotone`: no late message revives a request. `CacheWellFormed`: the cache keeps to its
capacity and to one entry of a conversation. `UsedPrefixStays`: a request that started from
a saved prefix does not find that conversation evicted when its own prompt is saved; it takes one
sequence, as in `MCCache`. `CleanExit`, and the liveness properties `EveryRequestEnds` and `DrainEnds`.
`ImplementsLifecycle` is the refinement: under `PhaseOf` and the scheduler's list of waiting requests
every step of the two threads is a step of `RequestLifecycle` or none; first come, first admitted,
is part of it.

### Properties of the policies and of the benchmark

`BoundedBypass`: AIMD passes a prefill over at most `StarvationThreshold + Slots - 2` times.
`StarvationFree`: under FIFO, continuous FIFO and AIMD no request waits for ever, whatever arrives,
with one exception: FIFO takes a cached prefix for progress (`fifo.cpp:15`), so a stream of younger
requests that have one may keep a request without progress waiting for ever. The property says that a request waits
for ever only if it is overtaken in that way again and again; without the exception TLC finds it violated.
`EmptyOnlyWhenNothingFits`: an empty plan, which would drain the run, comes only when the memory holds
not even one more token. `OvertakesOnlyInWindow`: the order of service of the continuous policies.
`TurnsInOrder`: the gate and the loop together keep the turns' order and distance.
`PublishedIsComplete`, `NoLeftovers`: the output directory, after success, failure and a kill. `ThreadsJoined`, `ReplayEnds`: every failure path stops and joins both threads.

### Disagreements between the code and what it says

* **`late_submit`**: a request submitted once the scheduler drains is never sent nor failed
  (`scheduler.cpp:129`), so `all_terminal()` never holds; the replay loop keeps submitting after a
  fatal and would not end. `scheduler.hpp:112` allows submission "during replay".
* **`exact_hit`**: a cached prefix as long as the prompt (`prefix_cache.hpp:46`) admits a request
  with nothing to prefill and no logits to sample from; the next empty plan drains the run as a
  protocol violation of the policy (`scheduler.cpp:227-235`).
* **`unwind`**: an exception between two work items retires the plan while the stack unwinds, before
  the fatal is reported (`environment.cpp:418, 522`), against the contract of `handoff.hpp:153`; the
  scheduler may report the batch as successful.

More remarks, which no run checks as a disagreement:

* The ring's destructor destroys nothing once the write index has wrapped past the read index
  (`spsc.hpp:38`; `DestroyedAll` holds before that).
* `benchmark_main.cpp:223` may ask for a capacity that is not a power of two, which the ring refuses;
  the run then fails cleanly (`NoLeftovers`).
* A turn whose predecessor is missing from the trace, comes later, or has the same turn index as
  another is never due and the loop polls for ever; `TraceAssumption` excludes such traces, and
  `prepare_wildchat.py` does not write them.
* If the temporary directory exists already, `begin` throws after setting `temporary_`, and the
  destructor removes a directory that it did not make (`results.cpp:161-162, 149-154`). The name holds
  the process id, so it takes the leftover of a killed process with the same id. A kill leaves its
  own temporary directory behind.
* If a row cannot be written before everything is submitted, the error reported is that the trace "no
  longer matches" (`benchmark_main.cpp:388-391`); the run fails either way.
* FIFO takes a cached prefix for progress (`fifo.cpp:15`), so a younger request with one is served
  before the oldest, which such requests can starve (`StarvationFree`).
* `commit` may allocate although a retired plan is queued, if the pop goes by a stale index; the epoch
  gate rules that out (`PoolBounded`), a caller without it may see the pool grow with each such miss.
* The destructor ignores the error of `remove_all` (`results.cpp:153`), so the temporary directory may
  stay after an ordinary failure; nothing reports it.
* The cache-aware policy is not starvation-free: within its window better-cached arrivals are preferred
  for ever. AIMD is, as long as `starvation_threshold` is at least the number of other live requests
  (the default is 8): below it, always-starved prefills may keep decodes from ever running. ProxQP
  reads `bypasses_` and never writes it, so nothing but urgency bounds a wait there, and its latency
  windows are never pruned.
* When the memory is full while a release is pending, AIMD resets and raises bypass counts for plans it does not
  return (`heuristic_aimd.cpp:262-288`), so a starved prefill may be passed over beyond the bound of
  `BoundedBypass` until the release is acknowledged.
* `evaluate_batch_resources` does not count requests that wait for their release, whose KV cache is
  still resident.

## 4. Proofs

Checked by `tlapm`, for all values of the constants that satisfy the named assumptions
(`SpscAssumption`, `PlanPoolAssumption`, `ProgressWaitAssumption`, `ReplayAssumption` and
`TraceAssumption`, and in the composition `HandoffAssumption`, `SchedulerAssumption`,
`EnvironmentAssumption`; in the policies' loop `ResourcesAssumption`, `AIMDAssumption`, `ProxQPAssumption`
and `LoopAssumption`), which restate what the constructors check and what the types of the
arguments are.

* **`SpscProofs`**: `TypeCorrect`, `NeverOverwrites`, `NeverReadsRaw`, `SlotsAreNotShared`,
  `DestructorIsComplete`, `RingImplementsQueue`. The invariant `IInv` says that, going round the
  counters from the producer's stale read index, one meets `read_index`, the consumer's stale write
  index, and `write_index` after at most `Capacity` steps; and that exactly the slots of the live
  indices hold objects. Neither the type invariant nor the four safety properties are inductive
  without it: a stale copy must be known to lag behind, and not to run ahead. `SlotsDistinct`, the
  arithmetic that makes masking sound across the wrap, is a lemma. Each step is then a push at the
  tail, a pop at the head, or a stutter of `BoundedQueue`.
* **`PlanPoolProofs`**: `TypeCorrect`, `PlansAreExclusive`, `ExecutionIsStable`, `NoPlanIsLost`,
  `PoolIsBounded`, `PoolImplementsSlot`. `OrderInv` orders the epochs (published after executing
  after completed). `PoolInv` says that a gated caller sees a buffer in the queue from the building of
  its plan to the choice of a new spare (the epoch it waits for is stored after the push), and with `LagInv`
  that the pops which the environment may not see are of plans that are spare or published: so the
  queue looks no longer to it than the pool without the plan it gives back (`QueueIsShort`). The gated caller, which is the scheduler's way to use the
  class, is covered by the proofs; the run takes the caller that does not wait, whose behaviours
  include it.
* **`ProgressWaitProofs`**: `TypeCorrect`, `WakeupsAreNotLost`, for any number of threads and
  channels. The invariant: the snapshot is no newer than the generation; a channel read already is
  unread again only if its producer is on its way or the generation has moved; and a waiter about to
  block holds the mutex.
* **`SequenceLemmas`**: what `Filter`, `Tally`, `Remove`, `Ids`, `\o`, `Head` and `Tail` do to the
  elements, the length, the order and the injectivity of a list. Induction over data is stated of a
  set (`Induction`: a set that holds 0, and n + 1 with each n, holds every number), which the provers
  can instantiate, where the library's theorem is stated of an operator, which they cannot.
* **`QuickServeInvariants`**, first the types: `TypesInvariance`. `TypeInv` types the variables and each channel's messages;
  it needs to know that the item in execution is one the environment has validated (`ExecutionInv`).
  `CacheIsWellFormed` with `CacheInv`: no entry is newer than the cache's clock, so that the entry
  used next is newer than any other and evicting the oldest one is well defined.
  Then which thread, list or channel has a request, in three steps.
  `LifeInv` says of every request on which lists of the scheduler it is and what its fields say of each
  other: `MarkersAreExact`, `LifecycleIsMonotone`, `CountsAreExact`. `PathInv` says that the requests
  in flight are, each once, in the channel of admissions, in the environment's hand or among the
  answers, that a release is in one place likewise, and that the environment has a record of exactly
  the requests whose answer or ownership says so: `OwnershipAlwaysAgrees`, `ReleasesAreAlwaysHeld`,
  `ExitIsClean`. Neither thread's books can be shown right without the other's. `OrderInv` adds the
  order: what waits on the live list is, in that order, the path from the answers back to the
  channel, then the scheduler's pending list.
* **`QuickServeProofs`**, for any requests, prompts, capacities, policies and faults, by invariants each
  of which rests on those before it:
  * `OneEpochIsOutstanding`: `EpochInv` adds that what `plan_done` says stays true until the next
    publication, since only the scheduler publishes.
  * `SequencesAreExclusive`: `SequencesInv` counts the free and the held sequences.
  * `TypeCorrectness`: `BoundedInv` bounds the channels' lengths; a fatal is reported once.
  * `PlansAlwaysFit`: a published plan passes the environment's check. `LateInv` says that no completion
    is on its way once the scheduler has seen the epoch end and drained the channel, which is what the
    order of `scheduler.cpp:133-136` is for; `RecordsInv` and `ProgressInv` that the two sides'
    progress on a request agree up to the completions on their way; `FitsInv` that the plan was
    built from that progress. Two hypotheses: the token budget is within a batch's capacity, which
    the driver checks (`benchmark_main.cpp:180-181`), and `remember` does not throw. The second is
    needed: it is the disagreement `unwind` above, in which a plan is retired before its failure is known.
  * `SuccessIsAlwaysComplete`: `ServedInv` says that work goes to requests whose answer is not full,
    that a completion is at most a token ahead, and that a request which is about to end without an
    error is answered in full; `OutputsInv` accounts for the text on its way: the scheduler drains
    the text before the completions, and these before it sends a release, so none is left behind.
  * `SuccessfulBatchesAreAlwaysFolded`: `FoldInv` says of each item of the last plan published that the
    scheduler has folded it, or that it is still to be done, or on its way as a completion, or given
    up with a fatal which the scheduler finds before it looks at the plan's outcome. It has the second hypothesis of
    `PlansAlwaysFit`, for the same reason: that exception retires the plan first and reports later.
  * `LifecycleIsImplemented`: the refinement of `RequestLifecycle`, every step of the two threads. `Submit` is
    `Submit`; `TakeAdmissionResult` is `Serve`, or `Refuse` if the answer is an error; `TakeCompletion` is `Generate`, or a stutter for a prefill or a late
    message; `TakeReleaseAck` is `End`; the step that enters a drain for the first time, whichever it is,
    is `Drain`; all else stutters. It needs nearly all the invariants above: that the answer taken
    is the head of the abstract queue is `OrderInv`, that a token is owed and that an end is earned is
    `ServedInv`, and `ArrivalInv` adds that nothing new is sent in a drain.
  * `ShippedPoliciesAlwaysConform`: the model asks an abstract policy for plans (`SoundPlans`), and the
    shipped policies of the FIFO family return such plans, from the lemmas `FilledPrefix` (the batch is a
    prefix of the requests with work and its cost is within the budget) and `ReorderedPlaces` (an
    exchange of places loses and repeats no request) of `SequenceLemmas`. It is stated of the states in which
    `SchedulableHasWork` holds, and needs that: it is the disagreement `exact_hit` above, after which
    `fifo.cpp` may pick a request without work and return nothing although others have some.
    The batching policies pass over such a request: `BatchingPoliciesConform` has no hypothesis.
* **`ReplayProofs`**, for any trace that `TraceAssumption` admits: `ThreadsAreJoined` and
  `NothingIsLeftOver` from the control of the three threads alone (`ControlInv`); `TurnsAreInOrder`
  from `RecordsInv`, `ClockInv` and `GateInv`; `PublishedIsAlwaysComplete` from `OutcomeInv`, which says what each
  phase of the replay thread has established; `ReplayTypeCorrectness`. The last step of
  `PublishedIsAlwaysComplete` counts: a list of distinct rows that is as long as the selection holds every record of it.

* **`PolicyLoopProofs`**, for any workload, budget, window, limit of the hardware and of the two solvers:
  * `LoopTypes`: `LoopInv` adds to the types what a request in a stage has done and still has to do.
  * `EmptyPlansSayFull`: each of the five policies finds work where there is some. The first candidate in
    its order always fits, cut to what is spare, unless nothing is; the lemmas about each
    policy's selections (the candidates have work, the batch is within what is spare) lead to it.
  * `OvertakingIsBounded`: the batch of the continuous policies is a prefix of their order that ends only
    where the budget does (`FilledPrefix`), and the cache-aware policy's order differs from the
    arrivals' only within the window (`LocalityPlaces`).
  * `BypassesBounded`: `FewStarve` says that of the prefills passed over `StarvationThreshold + k` times there are at
    most `Slots - 1 - k`. Each batch serves one of those that are starved most, so the others are
    fewer by one whenever their count grows; the last of them is served next.

    It needs a hypothesis, `RoomWhileReleasing`: while a release is pending there is memory for one more token.
    If there is none, the fallback that `build_plan` selects does not fit; it has reset the counter of
    the request it selected and has counted the others' when it returns the empty plan
    (`heuristic_aimd.cpp:262-288`), and the scheduler, which expects an empty plan then
    (`scheduler.cpp:227-229`), asks again until the release is acknowledged. With four slots and memory
    for two tokens TLC finds `BoundedBypass` violated in that way. `Roomy`, that the memory holds the
    longest contexts of all slots but one and a token more, is a condition on the constants that
    implies it (`RoomyHasRoom`), and the constants of `MCPolicyLoop` meet it. Without it
    `BypassesBoundedWithRoom` still speaks of every run that has room at those moments.

Every inductive invariant was checked by TLC on a small instance before it was proved. Where a proof
covers all constants, the runs do not repeat it: the three handoff modules' `TypeOK`, that of `PolicyLoop`, and `NoOverwrite`,
`NoReadOfRaw` and `PoolBounded` are in no cfg.

Model-checked only: liveness (`EventuallyTaken`, `EventuallyNoticed`, `EveryRequestEnds`, `DrainEnds`,
`StarvationFree`, `ReplayEnds`), since weak and strong fairness are stated with ENABLED, which the prover
does not reason about. So is `UsedPrefixStays`. Every other safety invariant and action property that a passing
run checks is also the subject of a theorem, four of them under the hypotheses named above.

## 5. Not modelled, and the plan

Not modelled: the stages of environment startup (each failure ends in the same report); recovery from a
failed allocation in the scheduler (`scheduler.cpp:674-693`) and policies whose timing hooks throw;
submission from inside an observer; decision and latency statistics; the ProxQP solver, its tiers and
its records; sketches and formatting of the results; trace files, scripts, profiles and the offline
experiments, which are sequential and numerical or file plumbing.

The order in which this project was planned, most important behaviour first:

1. (done) ring, plan pool, notification, each with an abstract counterpart or a liveness property;
2. (done) handoff, scheduler, environment, their composition, faults, liveness;
3. (done) proofs of the three handoff parts and of the outstanding epoch;
4. (done) `RequestLifecycle` and its refinement by the composition;
5. (done) the five policies, their plans, windows and fairness;
6. (done) the replay gate and loop, startup, and publication of results;
7. (done) proofs for `Replay`;
8. (done) proofs for the composition, up to the refinement of `RequestLifecycle`;
9. (done) proof of `SuccessfulBatchesAreFolded`;
10. (done) proof of `ShippedPoliciesConform`;
11. (done) proofs for `PolicyLoop`, with recursive functions in the place of `SelectSeq` and the folds.
