------------------------------- MODULE Replay -------------------------------
(***************************************************************************)
(* The benchmark, src/src/benchmark/benchmark_main.cpp with results.cpp:   *)
(* a main thread that owns the result files, an environment thread, and a  *)
(* thread that replays the trace through a scheduler and writes one row    *)
(* for every request that ends.                                            *)
(*                                                                         *)
(* The runtime in between is external here: a request that was submitted   *)
(* ends in some later call of run_once, which is what QuickServe.tla shows *)
(* of it (EveryRequestEnds).  The file system is external too: an atomic   *)
(* rename that replaces nothing, operations that may fail, other processes *)
(* that may create the destination, and a kill at any moment.              *)
(***************************************************************************)
EXTENDS ReplayGate, Functions, SequencesExt, TLC

CONSTANTS
  SequenceOptions,  \* the values of --max-sequences that are tried
  Poll,             \* the ten milliseconds the loop waits at most
  MaxService,       \* how long a request takes to end, at most: a bound
  MaxLag,           \* how late the loop wakes up, at most: a bound
  Faults            \* the operations that may fail

ASSUME ReplayAssumption ==
  /\ SequenceOptions \subseteq Nat \ {0}
  /\ {Poll, MaxService} \subseteq Nat \ {0} /\ MaxLag \in Nat

VARIABLES
  max_sequences,
  main_pc, env_pc, replay_pc,  \* where each thread is
  startup,           \* what publish_startup has published
  stop_requested,    \* Handoff::request_stop was called
  dest, temporary,   \* the directories, by whom they were made
  owned,             \* temporary_ is set
  rows,              \* the records whose rows were written to requests.csv
  flushed, summary,  \* requests.csv and summary.json are complete
  loaded, pending, item,
  in_flight,         \* the submitted requests that have not ended
  submitted_at, finished_at, completed,
  output_ok,
  observer_enabled,  \* the scheduler's, which disables one that failed
  replay_error,
  elapsed, wake_at   \* the clock, and the deadline of the last wait

fileVars == <<dest, temporary, owned, rows, flushed, summary>>
threadVars == <<startup, stop_requested, replay_error>>
loadVars == <<loaded, pending, item>>
requestVars == <<in_flight, submitted_at>>
outputVars == <<finished_at, completed, output_ok, observer_enabled>>
loopVars == <<loadVars, requestVars, outputVars, elapsed, wake_at>>
replayVars == <<stop_requested, replay_error, rows, loadVars, requestVars,
               outputVars, wake_at>>
pcVars == <<main_pc, env_pc, replay_pc>>
vars == <<max_sequences, pcVars, threadVars, fileVars, loopVars>>

Absent == [i \in {} |-> 0]

Init ==
  /\ max_sequences \in SequenceOptions
  /\ main_pc = "begin" /\ env_pc = "none" /\ replay_pc = "none"
  /\ startup = "none" /\ stop_requested = FALSE /\ replay_error = FALSE
  /\ dest \in {"absent", "other"} /\ temporary \in {"absent", "other"}
  /\ owned = FALSE /\ rows = << >> /\ flushed = FALSE /\ summary = FALSE
  /\ loaded = 0 /\ pending = << >> /\ item = 1 /\ in_flight = {}
  /\ submitted_at = Absent /\ finished_at = Absent
  /\ completed = [c \in Conversations |-> {}]
  /\ output_ok = TRUE /\ observer_enabled = TRUE
  /\ elapsed = 0 /\ wake_at = 0

Observed == Len(rows)
Submitted == DOMAIN submitted_at
-----------------------------------------------------------------------------
(* The main thread.                                                        *)

MainGoes(from, to) ==
  /\ main_pc = from /\ main_pc' = to
  /\ UNCHANGED <<max_sequences, loopVars>>

(* AtomicResults::begin                                                    *)
Begin ==
  \/ /\ dest = "absent" /\ temporary = "absent"
     /\ temporary' = "ours" /\ owned' = TRUE
     /\ \/ MainGoes("begin", "start")
        \/ "open" \in Faults /\ MainGoes("begin", "unwind")
     /\ UNCHANGED <<env_pc, replay_pc, threadVars, dest, rows, flushed, summary>>
  \/ /\ dest # "absent" \/ temporary # "absent"
     /\ owned' = (dest = "absent")
     /\ MainGoes("begin", "unwind")
     /\ UNCHANGED <<env_pc, replay_pc, threadVars, dest, temporary, rows,
                    flushed, summary>>

(* The constructor of a ring throws unless its capacity is a power of two. *)
QueueCapacity == IF 4 * max_sequences > 64 THEN 4 * max_sequences ELSE 64
PowerOfTwo(n) == \E k \in 1 .. 30 : n = 2^k

StartEnvironment ==
  /\ IF PowerOfTwo(QueueCapacity)
     THEN MainGoes("start", "await") /\ env_pc' = "starting"
     ELSE MainGoes("start", "unwind") /\ UNCHANGED env_pc
  /\ UNCHANGED <<replay_pc, threadVars, fileVars>>

(* wait_for_startup, and the replay thread if it succeeded.                *)
AwaitStartup ==
  /\ \/ startup = "success" /\ MainGoes("await", "join") /\ replay_pc' = "create"
     \/ startup = "failure" /\ MainGoes("await", "guard") /\ UNCHANGED replay_pc
  /\ UNCHANGED <<env_pc, threadVars, fileVars>>

Ended(pc) == pc \in {"none", "exited"}

(* join_all(): nobody else tells the environment to stop.                  *)
Join_ReplayOnly ==
  /\ Ended(replay_pc)
  /\ MainGoes("join", IF replay_error THEN "guard" ELSE "flush")
  /\ UNCHANGED <<env_pc, replay_pc, threadVars, fileVars>>

Join ==
  /\ Ended(replay_pc) /\ Ended(env_pc)
  /\ MainGoes("join", IF replay_error THEN "guard" ELSE "flush")
  /\ UNCHANGED <<env_pc, replay_pc, threadVars, fileVars>>

(* AtomicResults::finish                                                   *)
FlushRows ==
  /\ \/ MainGoes("flush", "summary") /\ flushed' = TRUE
     \/ "flush" \in Faults /\ MainGoes("flush", "guard") /\ UNCHANGED flushed
  /\ UNCHANGED <<env_pc, replay_pc, threadVars, dest, temporary, owned, rows, summary>>

WriteSummary ==
  /\ \/ MainGoes("summary", "publish") /\ summary' = TRUE
     \/ "summary" \in Faults /\ MainGoes("summary", "guard") /\ UNCHANGED summary
  /\ UNCHANGED <<env_pc, replay_pc, threadVars, dest, temporary, owned, rows, flushed>>

(* publish_directory_exclusive                                             *)
Publish ==
  /\ \/ /\ dest = "absent"
        /\ MainGoes("publish", "returned") /\ dest' = "ours" /\ temporary' = "absent"
     \/ /\ dest # "absent" \/ "rename" \in Faults
        /\ MainGoes("publish", "guard") /\ UNCHANGED <<dest, temporary>>
  /\ UNCHANGED <<env_pc, replay_pc, threadVars, owned, rows, flushed, summary>>

(* An exception leaves run(): ~WorkerGuard stops and joins the threads ... *)
GuardStops ==
  /\ main_pc = "guard" /\ ~stop_requested /\ stop_requested' = TRUE
  /\ UNCHANGED <<max_sequences, pcVars, startup, replay_error, fileVars, loopVars>>

GuardJoins ==
  /\ stop_requested /\ Ended(replay_pc) /\ Ended(env_pc)
  /\ MainGoes("guard", "unwind")
  /\ UNCHANGED <<env_pc, replay_pc, threadVars, fileVars>>

(* ... and ~AtomicResults removes the temporary directory, if it can: the  *)
(* error of remove_all is ignored.                                         *)
Unwind_KeepsTemporary ==
  /\ MainGoes("unwind", "failed")
  /\ UNCHANGED <<env_pc, replay_pc, threadVars, fileVars>>

Unwind ==
  /\ \/ /\ MainGoes("unwind", "failed")
        /\ temporary' = IF owned THEN "absent" ELSE temporary
     \/ /\ "remove" \in Faults /\ owned
        /\ MainGoes("unwind", "unremoved") /\ UNCHANGED temporary
  /\ UNCHANGED <<env_pc, replay_pc, threadVars, dest, owned, rows, flushed, summary>>

MainThread ==
  \/ Begin \/ StartEnvironment \/ AwaitStartup \/ Join \/ FlushRows
  \/ WriteSummary \/ Publish \/ GuardStops \/ GuardJoins \/ Unwind
-----------------------------------------------------------------------------
(* The environment thread: its startup, and its end.                       *)
PublishStartup_Silent ==
  /\ env_pc = "starting"
  /\ \/ startup' = "success" /\ env_pc' = "serving"
     \/ "startup" \in Faults /\ env_pc' = "exited" /\ UNCHANGED startup
  /\ UNCHANGED <<max_sequences, main_pc, replay_pc, stop_requested, replay_error,
                 fileVars, loopVars>>

PublishStartup ==
  /\ env_pc = "starting"
  /\ \/ startup' = "success" /\ env_pc' = "serving"
     \/ "startup" \in Faults /\ startup' = "failure" /\ env_pc' = "exited"
  /\ UNCHANGED <<max_sequences, main_pc, replay_pc, stop_requested, replay_error,
                 fileVars, loopVars>>

EnvironmentStops ==
  /\ env_pc = "serving" /\ stop_requested /\ env_pc' = "exited"
  /\ UNCHANGED <<max_sequences, main_pc, replay_pc, threadVars, fileVars, loopVars>>

EnvironmentThread == PublishStartup \/ EnvironmentStops
-----------------------------------------------------------------------------
(* The replay thread.                                                      *)

ReplayGoes(from, to) ==
  /\ replay_pc = from /\ replay_pc' = to
  /\ UNCHANGED <<max_sequences, main_pc, env_pc, startup, dest, temporary, owned,
                 flushed, summary, elapsed>>

(* The catch clause: the scheduler drains, if there is one.                *)
Throws(from) ==
  /\ ReplayGoes(from, IF from = "create" THEN "stop" ELSE "drain")
  /\ replay_error' = TRUE
  /\ UNCHANGED <<stop_requested, rows, loadVars, requestVars, outputVars,
                 wake_at>>

CreateScheduler ==
  \/ "create" \in Faults /\ Throws("create")
  \/ /\ ReplayGoes("create", "top")
     /\ UNCHANGED replayVars

AllObserved ==
  loaded = SelectedCount /\ pending = << >> /\ Observed = Cardinality(Submitted)

(* The head of the loop.                                                   *)
LoopAgain ==
  /\ ReplayGoes("top", IF output_ok /\ ~AllObserved THEN "load" ELSE "checks")
  /\ item' = 1
  /\ UNCHANGED <<stop_requested, replay_error, rows, loaded, pending,
                 requestVars, outputVars, wake_at>>

MayLoad_PastSelection ==
  loaded < Len(Trace) /\ Nominal(loaded + 1) <= elapsed

MayLoad == loaded < SelectedCount /\ Nominal(loaded + 1) <= elapsed

(* The next record of the trace is due by the trace's own timing.          *)
Load ==
  \/ /\ MayLoad /\ ReplayGoes("load", "load")
     /\ pending' = Append(pending, loaded + 1)
     /\ loaded' = loaded + 1
     /\ UNCHANGED <<stop_requested, replay_error, rows, item, requestVars,
                    outputVars, wake_at>>
  \/ /\ MayLoad /\ loaded + 1 < SelectedCount
     /\ "trace" \in Faults /\ Throws("load")
  \/ /\ ~MayLoad /\ ReplayGoes("load", "submit")
     /\ UNCHANGED replayVars

(* Record i is stamped with the time, among the records that have one.     *)
Stamped(f, i) == [j \in {i} \cup DOMAIN f |-> IF j = i THEN elapsed ELSE f[j]]

IsDue(i) == \E d \in CausalDeadline(i, completed, finished_at) : d <= elapsed

(* The pass over the pending records: the one at item is submitted if it   *)
(* is due, also by the end of the turn before it.                          *)
SubmitDue ==
  /\ item \in DOMAIN pending /\ IsDue(pending[item])
  /\ ReplayGoes("submit", "submit")
  /\ in_flight' = in_flight \cup {pending[item]}
  /\ submitted_at' = Stamped(submitted_at, pending[item])
  /\ pending' = RemoveAt(pending, item)
  /\ UNCHANGED <<stop_requested, replay_error, rows, loaded, item, outputVars,
                 wake_at>>

PassOver ==
  /\ item \in DOMAIN pending => ~IsDue(pending[item])
  /\ IF item \in DOMAIN pending
     THEN ReplayGoes("submit", "submit") /\ item' = item + 1
     ELSE ReplayGoes("submit", "run") /\ UNCHANGED item
  /\ UNCHANGED <<stop_requested, replay_error, rows, loaded, pending,
                 requestVars, outputVars, wake_at>>

(* In a call of run_once a request ends and its observer is called: it     *)
(* writes the row and tells the gate, or fails and is not called again.    *)
Retire(i) ==
  /\ i \in in_flight /\ in_flight' = in_flight \ {i}
  /\ replay_pc \in {"run", "drain"} /\ ReplayGoes(replay_pc, replay_pc)
  /\ \/ /\ observer_enabled
        /\ rows' = Append(rows, i)
        /\ finished_at' = Stamped(finished_at, i)
        /\ completed' = IF Trace[i].conversation = NoConversation THEN completed
                        ELSE Completed(completed, i)
        /\ UNCHANGED <<output_ok, observer_enabled>>
     \/ /\ ~observer_enabled \/ "row" \in Faults
        /\ output_ok' = FALSE /\ observer_enabled' = FALSE
        /\ UNCHANGED <<rows, finished_at, completed>>
  /\ UNCHANGED <<stop_requested, replay_error, loadVars, submitted_at,
                 wake_at>>

Overdue == \E i \in in_flight : elapsed >= submitted_at[i] + MaxService

(* The wait's deadline: the next record, the next turn, or the poll.       *)
Deadlines ==
  {elapsed + Poll}
    \cup (IF loaded < SelectedCount THEN {Nominal(loaded + 1)} ELSE {})
    \cup UNION {CausalDeadline(i, completed, finished_at) : i \in Range(pending)}

RunDone ==
  /\ ~Overdue
  /\ ReplayGoes("run", IF output_ok /\ ~AllObserved THEN "wait" ELSE "checks")
  /\ wake_at' = CHOOSE d \in Deadlines : \A e \in Deadlines : d <= e
  /\ UNCHANGED <<stop_requested, replay_error, rows, loadVars, requestVars,
                 outputVars>>

(* The policy throws.  While the catch clause drains, that ends the drain. *)
RunThrows ==
  /\ "run_once" \in Faults
  /\ \/ Throws("run")
     \/ ~replay_error /\ in_flight # {} /\ Throws("drain")
     \/ /\ replay_error /\ in_flight # {} /\ ReplayGoes("drain", "stop")
        /\ UNCHANGED replayVars

(* The environment has made progress, or the deadline has come.            *)
Wake ==
  /\ in_flight # {} \/ elapsed >= wake_at
  /\ ReplayGoes("wait", "top")
  /\ UNCHANGED replayVars

(* After the loop: everything was replayed, or output failed on the way.   *)
Checks ==
  IF loaded # SelectedCount \/ Cardinality(Submitted) # SelectedCount
  THEN Throws("checks")
  ELSE /\ ReplayGoes("checks", "drain")
       /\ UNCHANGED replayVars

DrainDone_IgnoresOutput ==
  /\ in_flight = {} /\ ReplayGoes("drain", "stop")
  /\ UNCHANGED replayVars

DrainDone ==
  /\ in_flight = {} /\ ReplayGoes("drain", "stop")
  /\ replay_error' = (replay_error \/ ~output_ok)
  /\ UNCHANGED <<stop_requested, rows, loadVars, requestVars, outputVars,
                 wake_at>>

StopEnvironment ==
  /\ ReplayGoes("stop", "exited")
  /\ stop_requested' = TRUE
  /\ UNCHANGED <<replay_error, rows, loadVars, requestVars, outputVars,
                 wake_at>>

ReplayThread ==
  \/ CreateScheduler \/ LoopAgain \/ Load \/ SubmitDue \/ PassOver
  \/ (\E i \in in_flight : Retire(i)) \/ RunDone \/ RunThrows \/ Wake
  \/ Checks \/ DrainDone \/ StopEnvironment
-----------------------------------------------------------------------------
(* The clock.  A request ends, and the loop wakes up, within their bounds. *)
Tick ==
  /\ replay_pc \notin {"none", "create", "exited"} /\ main_pc # "crashed"
  /\ elapsed < wake_at + MaxLag /\ ~Overdue
  /\ elapsed' = elapsed + 1
  /\ UNCHANGED <<max_sequences, pcVars, threadVars, fileVars, loadVars,
                 requestVars, outputVars, wake_at>>

Finished == main_pc \in {"returned", "failed", "unremoved", "crashed"}

(* Another process takes the destination's name, at the latest moment.     *)
OtherPublishes ==
  /\ "other" \in Faults /\ dest = "absent" /\ main_pc = "publish"
  /\ dest' = "other"
  /\ UNCHANGED <<max_sequences, pcVars, threadVars, temporary, owned, rows,
                 flushed, summary, loopVars>>

(* The process is killed.                                                  *)
Crash ==
  /\ "crash" \in Faults /\ ~Finished
  /\ main_pc' = "crashed" /\ env_pc' = "none" /\ replay_pc' = "none"
  /\ UNCHANGED <<max_sequences, threadVars, fileVars, loopVars>>

Terminated == Finished /\ UNCHANGED vars

Next ==
  \/ MainThread \/ EnvironmentThread \/ ReplayThread
  \/ Tick \/ OtherPublishes \/ Crash \/ Terminated

(* Each thread runs, and time passes.                                      *)
Spec ==
  /\ Init /\ [][Next]_vars
  /\ WF_vars(MainThread) /\ WF_vars(EnvironmentThread)
  /\ WF_vars(ReplayThread) /\ WF_vars(Tick)
-----------------------------------------------------------------------------
TypeOK ==
  /\ main_pc \in {"begin", "start", "await", "join", "flush", "summary", "publish",
                  "guard", "unwind", "returned", "failed", "unremoved", "crashed"}
  /\ env_pc \in {"none", "starting", "serving", "exited"}
  /\ replay_pc \in {"none", "create", "top", "load", "submit", "run", "wait",
                    "checks", "drain", "stop", "exited"}
  /\ {dest, temporary} \subseteq {"absent", "other", "ours"}
  /\ startup \in {"none", "success", "failure"}
  /\ {rows, pending} \subseteq Seq(Selected) /\ loaded \in 0 .. SelectedCount
  /\ in_flight \subseteq Submitted /\ Submitted \subseteq 1 .. loaded
  /\ DOMAIN finished_at = Range(rows)
  /\ {elapsed, wake_at} \subseteq Nat

(* A turn is submitted only after the turn before it has ended, and not    *)
(* sooner after that than the two lay apart in the trace.                  *)
TurnsInOrder ==
  \A i \in Submitted :
    Trace[i].conversation # NoConversation /\ Trace[i].turn > 0 =>
      \E j \in DOMAIN finished_at :
        /\ Trace[j].conversation = Trace[i].conversation
        /\ Trace[j].turn = Trace[i].turn - 1
        /\ submitted_at[i] - finished_at[j] >= Nominal(i) - Nominal(j)

(* Results are published whole or not at all: whoever finds our directory, *)
(* also after a crash, finds the summary and one row for every record that *)
(* was selected, all of them written out.                                  *)
PublishedIsComplete ==
  dest = "ours" => /\ flushed /\ summary
                   /\ Len(rows) = SelectedCount /\ Range(rows) = Selected

(* A run that fails removes what it has written, unless the removal itself *)
(* fails, and publishes nothing; one that succeeds has published it all.   *)
NoLeftovers ==
  /\ main_pc = "failed" => temporary # "ours"
  /\ main_pc \in {"failed", "unremoved"} => dest # "ours"
  /\ main_pc = "returned" => temporary = "absent" /\ dest = "ours"

(* Both threads have ended when run() returns or throws: neither touches   *)
(* the handoff, the scheduler or the results after they are destroyed.     *)
ThreadsJoined ==
  main_pc \in {"flush", "summary", "publish", "unwind", "returned", "failed",
               "unremoved"} =>
    Ended(env_pc) /\ Ended(replay_pc)

(* The benchmark comes to an end, whatever fails.                          *)
ReplayEnds == <>Finished
=============================================================================
