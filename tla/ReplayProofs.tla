---------------------------- MODULE ReplayProofs ----------------------------
(***************************************************************************)
(* Proofs about the benchmark of Replay.tla, for any trace that            *)
(* select_prefix accepts, any delay of a request or of the loop, and       *)
(* whatever fails: its threads are joined, its results are published whole *)
(* or not at all, and no turn is submitted before the turn it follows.     *)
(***************************************************************************)
EXTENDS Replay, SequenceLemmas

(* Which threads run, by where the main thread is.                         *)
ThreadsInv ==
  /\ main_pc \in {"begin", "start"} => env_pc = "none" /\ replay_pc = "none"
  /\ main_pc = "await" => replay_pc = "none"
  /\ main_pc = "join" => replay_pc # "none"
  /\ main_pc = "crashed" => env_pc = "none" /\ replay_pc = "none"
  /\ ThreadsJoined

(* Which directories are there, and what is in ours.                       *)
FilesInv ==
  /\ temporary = "ours" => owned /\ main_pc \notin {"begin", "failed"}
  /\ dest = "ours" => flushed /\ summary /\ main_pc \in {"returned", "crashed"}
  /\ main_pc = "returned" => temporary = "absent" /\ dest = "ours"
  /\ main_pc \in {"summary", "publish"} => flushed
  /\ main_pc = "publish" => summary

ControlInv == ThreadsInv /\ FilesInv

ControlTypes ==
  /\ main_pc \in {"begin", "start", "await", "join", "flush", "summary", "publish",
                  "guard", "unwind", "returned", "failed", "unremoved", "crashed"}
  /\ env_pc \in {"none", "starting", "serving", "exited"}
  /\ replay_pc \in {"none", "create", "top", "load", "submit", "run", "wait",
                    "checks", "drain", "stop", "exited"}
  /\ {dest, temporary} \subseteq {"absent", "other", "ours"}
  /\ startup \in {"none", "success", "failure"}

(* The control holds at the start;                                         *)
LEMMA ControlInit == Init => ControlInv /\ ControlTypes
BY DEF Init, ControlInv, ThreadsInv, FilesInv, ThreadsJoined, Ended, ControlTypes

(* The replay thread goes from one place of its loop to another.           *)
LEMMA ReplayMoves ==
  ASSUME ReplayThread
  PROVE  \E from \in {"create", "top", "load", "submit", "run", "wait", "checks",
                      "drain", "stop"},
            to \in {"top", "load", "submit", "run", "wait", "checks", "drain",
                    "stop", "exited"} :
           ReplayGoes(from, to)
<1>1. CASE CreateScheduler BY <1>1 DEF CreateScheduler, Throws
<1>2. CASE LoopAgain BY <1>2 DEF LoopAgain
<1>3. CASE Load BY <1>3 DEF Load, Throws
<1>4. CASE SubmitDue BY <1>4 DEF SubmitDue
<1>5. CASE PassOver BY <1>5 DEF PassOver
<1>6. ASSUME NEW i \in in_flight, Retire(i)
      PROVE  ReplayGoes("run", "run") \/ ReplayGoes("drain", "drain")
  BY <1>6 DEF Retire
<1>7. CASE RunDone BY <1>7 DEF RunDone
<1>8. CASE RunThrows BY <1>8 DEF RunThrows, Throws
<1>9. CASE Wake BY <1>9 DEF Wake
<1>10. CASE Checks BY <1>10 DEF Checks, Throws
<1>11. CASE DrainDone BY <1>11 DEF DrainDone
<1>12. CASE StopEnvironment BY <1>12 DEF StopEnvironment
<1> QED
  BY <1>1, <1>2, <1>3, <1>4, <1>5, <1>6, <1>7, <1>8, <1>9, <1>10, <1>11, <1>12
  DEF ReplayThread

(* every step of main keeps it;                                            *)
LEMMA MainControl ==
  ASSUME ControlInv, ControlTypes, MainThread
  PROVE  ControlInv' /\ ControlTypes'
<1> USE DEF ControlInv, ControlTypes, ThreadsInv, FilesInv, ThreadsJoined, Ended, MainGoes
<1>1. CASE Begin BY <1>1 DEF Begin, threadVars
<1>2. CASE StartEnvironment BY <1>2 DEF StartEnvironment, threadVars, fileVars
<1>3. CASE AwaitStartup BY <1>3 DEF AwaitStartup, threadVars, fileVars
<1>4. CASE Join BY <1>4 DEF Join, threadVars, fileVars
<1>5. CASE FlushRows BY <1>5 DEF FlushRows, threadVars
<1>6. CASE WriteSummary BY <1>6 DEF WriteSummary, threadVars
<1>7. CASE Publish BY <1>7 DEF Publish, threadVars
<1>8. CASE GuardStops BY <1>8 DEF GuardStops, pcVars, fileVars
<1>9. CASE GuardJoins BY <1>9 DEF GuardJoins, threadVars, fileVars
<1>10. CASE Unwind BY <1>10 DEF Unwind, threadVars
<1> QED
  BY <1>1, <1>2, <1>3, <1>4, <1>5, <1>6, <1>7, <1>8, <1>9, <1>10 DEF MainThread

(* so does every step;                                                     *)
LEMMA ControlStep ==
  ASSUME ControlInv, ControlTypes, [Next]_vars
  PROVE  ControlInv' /\ ControlTypes'
<1> USE DEF ControlInv, ControlTypes, ThreadsInv, FilesInv, ThreadsJoined, Ended
<1>1. CASE MainThread BY <1>1, MainControl
<1>2. CASE EnvironmentThread
  BY <1>2 DEF EnvironmentThread, PublishStartup, EnvironmentStops, fileVars, threadVars
<1>3. CASE ReplayThread
  <2>1. PICK from \in {"create", "top", "load", "submit", "run", "wait", "checks",
                       "drain", "stop"},
             to \in {"top", "load", "submit", "run", "wait", "checks", "drain",
                     "stop", "exited"} :
          ReplayGoes(from, to)
    BY <1>3, ReplayMoves
  <2> QED BY <2>1 DEF ReplayGoes
<1>4. CASE Tick BY <1>4 DEF Tick, pcVars, fileVars, threadVars
<1>5. CASE OtherPublishes BY <1>5 DEF OtherPublishes, pcVars, threadVars
<1>6. CASE Crash BY <1>6 DEF Crash, threadVars, fileVars, Finished
<1>7. CASE UNCHANGED vars BY <1>7 DEF vars, pcVars, fileVars, threadVars
<1> QED
  BY <1>1, <1>2, <1>3, <1>4, <1>5, <1>6, <1>7 DEF Next, Terminated

(* so it always holds.                                                     *)
LEMMA ControlInvariance == Spec => [](ControlInv /\ ControlTypes)
<1> DEFINE Inv == ControlInv /\ ControlTypes
<1>1. Init => Inv BY ControlInit
<1>2. Inv /\ [Next]_vars => Inv' BY ControlStep
<1> HIDE DEF Inv
<1>3. Spec => []Inv BY <1>1, <1>2, PTL DEF Spec
<1> QED BY <1>3 DEF Inv

(* ~WorkerGuard and join_all: nobody returns from run(), or throws out of  *)
(* it, before both threads have ended (benchmark_main.cpp:153-171, 413).   *)
THEOREM ThreadsAreJoined == Spec => []ThreadsJoined
<1>1. ControlInv => ThreadsJoined BY DEF ControlInv, ThreadsInv
<1> QED BY <1>1, ControlInvariance, PTL

(* ~AtomicResults: a run that fails leaves no directory of its own unless  *)
(* remove_all fails too, and has published nothing; one that succeeds has  *)
(* published its results (results.cpp:149-155).                            *)
THEOREM NothingIsLeftOver == Spec => []NoLeftovers
<1>1. ControlInv => NoLeftovers BY DEF ControlInv, FilesInv, NoLeftovers
<1> QED BY <1>1, ControlInvariance, PTL
-----------------------------------------------------------------------------
(* The trace, and when its records are due by its own timing.              *)
LEMMA SelectedRecords ==
  /\ SelectedCount \in Nat /\ SelectedCount > 0 /\ SelectedCount <= Len(Trace)
  /\ Len(Trace) \in Nat /\ Selected \subseteq DOMAIN Trace
  /\ IsFiniteSet(Selected) /\ Cardinality(Selected) = SelectedCount
<1>1. Len(Trace) \in Nat /\ DOMAIN Trace = 1 .. Len(Trace)
  BY TraceAssumption, LenProperties
<1>2. IsFiniteSet(DOMAIN Trace) /\ Cardinality(DOMAIN Trace) = Len(Trace)
  <2>1. 1 \in Int /\ Len(Trace) \in Int BY <1>1, SMT
  <2>2. /\ IsFiniteSet(1 .. Len(Trace))
        /\ Cardinality(1 .. Len(Trace)) = IF 1 > Len(Trace) THEN 0 ELSE Len(Trace) - 1 + 1
    BY <2>1, FS_Interval
  <2> QED BY <1>1, <2>2, SMT
<1> DEFINE S == {n \in DOMAIN Trace :
                   n <= MaxRequests /\ \A i \in 1 .. n : Trace[i].offset <= MaxDuration}
<1>3. S \in SUBSET DOMAIN Trace OBVIOUS
<1>4. SelectedCount = Cardinality(S) BY DEF SelectedCount
<1> HIDE DEF S
<1>5. IsFiniteSet(S) /\ Cardinality(S) <= Len(Trace) BY <1>2, <1>3, FS_Subset
<1>6. SelectedCount \in Nat BY <1>4, <1>5, FS_CardinalityType
<1>7. SelectedCount > 0 BY TraceAssumption
<1>8. IsFiniteSet(Selected) /\ Cardinality(Selected) = SelectedCount
  BY <1>6, <1>7, FS_Interval, SMT DEF Selected
<1>9. Selected \subseteq DOMAIN Trace BY <1>1, <1>4, <1>5, <1>6, SMT DEF Selected
<1> QED BY <1>1, <1>4, <1>5, <1>6, <1>7, <1>8, <1>9

(* A product of naturals is one,                                           *)
LEMMA ProductNat == \A m, n \in Nat : m * n \in Nat
BY SMT

(* and positive when its factors are.                                      *)
LEMMA ProductPositive == \A m, n \in Nat : m > 0 /\ n > 0 => m * n > 0
BY SMT

(* What rounds to even is a natural number,                                *)
LEMMA RoundingIsNat ==
  ASSUME NEW n \in Nat, NEW d \in Nat, d > 0
  PROVE  RoundTiesEven(n, d) \in Nat
<1>1. n \div d \in Nat BY SMT
<1> QED BY <1>1, SMT DEF RoundTiesEven

(* and so is the nominal arrival of every selected record.                 *)
LEMMA NominalIsNat == \A i \in Selected : Nominal(i) \in Nat
<1> SUFFICES ASSUME NEW i \in Selected PROVE Nominal(i) \in Nat
  OBVIOUS
<1>1. CASE SelectedCount = 1 BY <1>1 DEF Nominal
<1>2. CASE SelectedCount # 1
  <2>1. SelectedCount \in Nat /\ SelectedCount >= 2 /\ i \in DOMAIN Trace
        /\ SelectedCount \in DOMAIN Trace
    <3>1. SelectedCount \in Selected BY SelectedRecords, SMT DEF Selected
    <3> QED BY <1>2, <3>1, SelectedRecords, SMT
  <2>2. \A j \in DOMAIN Trace : Trace[j].offset \in Nat
    <3>1. \A j \in DOMAIN Trace :
            Trace[j] \in [conversation : Conversations \cup {NoConversation},
                          turn : Nat, offset : Nat]
      BY TraceAssumption, ElementOfSeq, LenProperties
    <3> QED BY <3>1
  <2>3. /\ FinalOffset \in Nat /\ FinalOffset > 0 /\ TargetQps \in Nat /\ TargetQps > 0
        /\ Second \in Nat /\ Trace[i].offset \in Nat
    BY <2>1, <2>2, TraceAssumption DEF FinalOffset
  <2> DEFINE d == FinalOffset * TargetQps
             n == Trace[i].offset * (SelectedCount - 1) * Second
  <2>4. d \in Nat /\ d > 0 BY <2>3, ProductNat, ProductPositive
  <2>5. n \in Nat
    <3>1. SelectedCount - 1 \in Nat BY <2>1, SMT
    <3>2. Trace[i].offset * (SelectedCount - 1) \in Nat BY <2>3, <3>1, ProductNat
    <3> QED BY <2>3, <3>2, ProductNat
  <2> HIDE DEF d, n
  <2>6. RoundTiesEven(n, d) \in Nat BY <2>4, <2>5, RoundingIsNat
  <2> QED BY <1>2, <2>6 DEF Nominal, n, d
<1> QED BY <1>1, <1>2

(* A list of distinct elements without its k-th.                           *)
LEMMA RemoveOne ==
  ASSUME NEW S, NEW s \in Seq(S), NEW k \in DOMAIN s, IsInjective(s)
  PROVE  /\ RemoveAt(s, k) \in Seq(S) /\ IsInjective(RemoveAt(s, k))
         /\ ToSet(RemoveAt(s, k)) = ToSet(s) \ {s[k]}
<1> DEFINE t == RemoveAt(s, k)
           n == Len(s)
<1>1. /\ t \in Seq(S) /\ Len(t) = n - 1
      /\ \A i \in DOMAIN t : t[i] = s[IF i < k THEN i ELSE i + 1]
  BY LeaveOut
<1>2. n \in Nat /\ DOMAIN s = 1 .. n /\ k \in 1 .. n /\ DOMAIN t = 1 .. n - 1
  BY <1>1, LenProperties, SMT
<1> HIDE DEF t, n
<1>3. \A i \in 1 .. n - 1 : (IF i < k THEN i ELSE i + 1) \in (1 .. n) \ {k}
  BY <1>2, SMT
<1>4. \A i \in (1 .. n) \ {k} : \E j \in 1 .. n - 1 : i = IF j < k THEN j ELSE j + 1
  <2> SUFFICES ASSUME NEW i \in (1 .. n) \ {k}
               PROVE  \E j \in 1 .. n - 1 : i = IF j < k THEN j ELSE j + 1
    OBVIOUS
  <2>1. CASE i < k
    <3>1. i \in 1 .. n - 1 BY <1>2, <2>1, SMT
    <3> QED BY <2>1, <3>1
  <2>2. CASE i > k
    <3>1. i - 1 \in 1 .. n - 1 /\ ~(i - 1 < k) /\ i = (i - 1) + 1 BY <1>2, <2>2, SMT
    <3> QED BY <3>1
  <2> QED BY <1>2, <2>1, <2>2, SMT
<1>5. \A i, j \in 1 .. n : s[i] = s[j] => i = j BY <1>2 DEF IsInjective
<1>6. ToSet(t) = ToSet(s) \ {s[k]}
  <2>1. \A i \in 1 .. n - 1 : t[i] \in ToSet(s) \ {s[k]}
    <3> SUFFICES ASSUME NEW i \in 1 .. n - 1 PROVE t[i] \in ToSet(s) \ {s[k]}
      OBVIOUS
    <3> DEFINE j == IF i < k THEN i ELSE i + 1
    <3>1. j \in (1 .. n) \ {k} BY <1>3
    <3>2. t[i] = s[j] BY <1>1, <1>2
    <3> HIDE DEF j
    <3>3. s[j] \in ToSet(s) BY <1>2, <3>1 DEF ToSet
    <3> QED BY <1>2, <1>5, <3>1, <3>2, <3>3
  <2>2. \A i \in (1 .. n) \ {k} : s[i] \in ToSet(t)
    BY <1>1, <1>2, <1>4 DEF ToSet
  <2> QED BY <1>2, <2>1, <2>2 DEF ToSet
<1>7. IsInjective(t)
  <2> SUFFICES ASSUME NEW i \in 1 .. n - 1, NEW j \in 1 .. n - 1, t[i] = t[j]
               PROVE  i = j
    BY <1>2 DEF IsInjective
  <2>1. (IF i < k THEN i ELSE i + 1) = (IF j < k THEN j ELSE j + 1)
    BY <1>1, <1>2, <1>3, <1>5
  <2> QED BY <1>2, <2>1, SMT
<1> QED BY <1>1, <1>6, <1>7 DEF t
-----------------------------------------------------------------------------
(* The records: each that was loaded waits or was submitted, and each that *)
(* was submitted is in flight or has its row, unless an output has failed. *)
RecordsInv ==
  /\ loaded \in 0 .. SelectedCount
  /\ pending \in Seq(Selected) /\ IsInjective(pending)
  /\ rows \in Seq(Selected) /\ IsInjective(rows)
  /\ ToSet(pending) \cap Submitted = {}
  /\ ToSet(pending) \cup Submitted = 1 .. loaded
  /\ in_flight \subseteq Submitted
  /\ ToSet(rows) \subseteq Submitted \ in_flight
  /\ DOMAIN finished_at = ToSet(rows)
  /\ output_ok => observer_enabled /\ Submitted \subseteq in_flight \cup ToSet(rows)

(* The clock: no record is submitted before its time.                      *)
ClockInv ==
  /\ elapsed \in Nat /\ wake_at \in Nat
  /\ \A i \in Submitted :
       submitted_at[i] \in Nat /\ Nominal(i) <= submitted_at[i] /\ submitted_at[i] <= elapsed
  /\ \A i \in DOMAIN finished_at :
       finished_at[i] \in Nat /\ Nominal(i) <= finished_at[i]

(* The gate knows the last record that ended of every conversation.        *)
GateInv ==
  /\ completed \in [Conversations -> SUBSET DOMAIN finished_at]
  /\ \A c \in Conversations : \A j \in completed[c] : Trace[j].conversation = c
  /\ TurnsInOrder

dataVars == <<rows, loaded, pending, in_flight, submitted_at, finished_at, completed,
              output_ok, observer_enabled, elapsed, wake_at>>

LoadNext ==
  /\ MayLoad
  /\ pending' = Append(pending, loaded + 1) /\ loaded' = loaded + 1
  /\ UNCHANGED <<rows, in_flight, submitted_at, finished_at, completed, output_ok,
                 observer_enabled, elapsed, wake_at>>

(* The steps that touch the records, the gate or the results.              *)
LEMMA DataMoves ==
  ASSUME [Next]_vars
  PROVE  \/ UNCHANGED dataVars \/ LoadNext \/ SubmitDue
         \/ \E i \in in_flight : Retire(i)
         \/ RunDone \/ Tick
<1> USE DEF dataVars, loopVars, loadVars, requestVars, outputVars
<1>1. CASE MainThread
  <2> USE DEF MainGoes
  <2>1. CASE Begin BY <2>1 DEF Begin
  <2>2. CASE StartEnvironment \/ AwaitStartup \/ Join \/ GuardJoins
    BY <2>2 DEF StartEnvironment, AwaitStartup, Join, GuardJoins, fileVars
  <2>3. CASE FlushRows \/ WriteSummary \/ Publish \/ Unwind
    BY <2>3 DEF FlushRows, WriteSummary, Publish, Unwind
  <2>4. CASE GuardStops BY <2>4 DEF GuardStops, fileVars
  <2> QED BY <1>1, <2>1, <2>2, <2>3, <2>4 DEF MainThread
<1>2. CASE EnvironmentThread
  BY <1>2 DEF EnvironmentThread, PublishStartup, EnvironmentStops, fileVars
<1>3. CASE ReplayThread
  <2> USE DEF ReplayGoes, Throws, replayVars
  <2>1. CASE CreateScheduler BY <2>1 DEF CreateScheduler
  <2>2. CASE LoopAgain BY <2>2 DEF LoopAgain
  <2>3. CASE Load BY <2>3 DEF Load, LoadNext
  <2>4. CASE PassOver BY <2>4 DEF PassOver
  <2>5. CASE RunThrows BY <2>5 DEF RunThrows
  <2>6. CASE Wake BY <2>6 DEF Wake
  <2>7. CASE Checks BY <2>7 DEF Checks
  <2>8. CASE DrainDone BY <2>8 DEF DrainDone
  <2>9. CASE StopEnvironment BY <2>9 DEF StopEnvironment
  <2> QED
    BY <1>3, <2>1, <2>2, <2>3, <2>4, <2>5, <2>6, <2>7, <2>8, <2>9 DEF ReplayThread
<1>4. CASE OtherPublishes BY <1>4 DEF OtherPublishes
<1>5. CASE Crash BY <1>5 DEF Crash, fileVars
<1>6. CASE UNCHANGED vars BY <1>6 DEF vars, fileVars
<1> QED BY <1>1, <1>2, <1>3, <1>4, <1>5, <1>6 DEF Next, Terminated

(* A stamp adds one time and keeps the others.                             *)
LEMMA StampedFunction ==
  ASSUME NEW f, NEW i, i \notin DOMAIN f
  PROVE  /\ DOMAIN Stamped(f, i) = DOMAIN f \cup {i}
         /\ Stamped(f, i)[i] = elapsed
         /\ \A j \in DOMAIN f : Stamped(f, i)[j] = f[j]
BY DEF Stamped

(* Every step keeps the books on what is loaded, pending and submitted.    *)
LEMMA RecordsStep ==
  ASSUME RecordsInv, [Next]_vars
  PROVE  RecordsInv'
<1>0. /\ SelectedCount \in Nat /\ SelectedCount <= Len(Trace) /\ Len(Trace) \in Nat
      /\ Selected \subseteq DOMAIN Trace
  BY SelectedRecords
<1>1. CASE UNCHANGED dataVars BY <1>1 DEF dataVars, RecordsInv, Submitted
<1>2. CASE LoadNext
  <2> DEFINE n == loaded + 1
  <2>1. /\ n \in Selected /\ n \in 0 .. SelectedCount /\ n \notin 1 .. loaded
        /\ 1 .. n = (1 .. loaded) \cup {n}
    BY <1>0, <1>2, SMT DEF LoadNext, MayLoad, RecordsInv, Selected
  <2>2. /\ pending' = Append(pending, n) /\ loaded' = n
        /\ UNCHANGED <<rows, in_flight, submitted_at, finished_at, output_ok,
                       observer_enabled>>
    BY <1>2 DEF LoadNext
  <2> HIDE DEF n
  <2>3. n \notin ToSet(pending) BY <2>1 DEF RecordsInv
  <2>4. /\ pending' \in Seq(Selected) /\ IsInjective(pending')
        /\ ToSet(pending') = ToSet(pending) \cup {n}
    BY <2>1, <2>2, <2>3, AddLast DEF RecordsInv
  <2> QED BY <2>1, <2>2, <2>4 DEF RecordsInv, Submitted
<1>3. CASE SubmitDue
  <2> DEFINE i == pending[item]
  <2>1. /\ item \in DOMAIN pending /\ in_flight' = in_flight \cup {i}
        /\ submitted_at' = Stamped(submitted_at, i)
        /\ pending' = RemoveAt(pending, item)
        /\ UNCHANGED <<rows, loaded, finished_at, output_ok, observer_enabled>>
    BY <1>3 DEF SubmitDue, ReplayGoes, outputVars
  <2>2. /\ pending' \in Seq(Selected) /\ IsInjective(pending')
        /\ ToSet(pending') = ToSet(pending) \ {i}
    BY <2>1, RemoveOne DEF RecordsInv
  <2>3. i \in ToSet(pending) BY <2>1 DEF ToSet
  <2> HIDE DEF i
  <2>4. i \notin Submitted BY <2>3 DEF RecordsInv
  <2>5. DOMAIN submitted_at' = DOMAIN submitted_at \cup {i}
    BY <2>1, <2>4, StampedFunction DEF Submitted
  <2> QED BY <2>1, <2>2, <2>3, <2>4, <2>5 DEF RecordsInv, Submitted
<1>4. ASSUME NEW i \in in_flight, Retire(i) PROVE RecordsInv'
  <2>1. /\ in_flight' = in_flight \ {i} /\ UNCHANGED <<loaded, pending, submitted_at>>
    BY <1>4 DEF Retire, loadVars
  <2>2. CASE /\ observer_enabled /\ rows' = Append(rows, i)
             /\ finished_at' = Stamped(finished_at, i)
             /\ UNCHANGED <<output_ok, observer_enabled>>
    <3>1. i \in Submitted /\ i \in 1 .. loaded /\ i \notin ToSet(rows)
      BY <1>4 DEF RecordsInv
    <3>2. i \in Selected BY <1>0, <3>1, SMT DEF RecordsInv, Selected
    <3>3. /\ rows' \in Seq(Selected) /\ IsInjective(rows')
          /\ ToSet(rows') = ToSet(rows) \cup {i}
      BY <2>2, <3>1, <3>2, AddLast DEF RecordsInv
    <3>4. DOMAIN finished_at' = DOMAIN finished_at \cup {i}
      BY <2>2, <3>1, StampedFunction DEF RecordsInv
    <3> QED BY <2>1, <2>2, <3>1, <3>3, <3>4 DEF RecordsInv, Submitted
  <2>3. CASE output_ok' = FALSE /\ UNCHANGED <<rows, finished_at>>
    BY <2>1, <2>3 DEF RecordsInv, Submitted
  <2> QED BY <1>4, <2>2, <2>3 DEF Retire
<1>5. CASE RunDone
  BY <1>5 DEF RunDone, ReplayGoes, loadVars, requestVars, outputVars, RecordsInv, Submitted
<1>6. CASE Tick
  BY <1>6 DEF Tick, fileVars, loadVars, requestVars, outputVars, RecordsInv, Submitted
<1> QED BY <1>1, <1>2, <1>3, <1>4, <1>5, <1>6, DataMoves
-----------------------------------------------------------------------------
(* What the assumption on the trace says of its records.                   *)
LEMMA TraceRecords ==
  /\ \A i \in DOMAIN Trace :
       /\ Trace[i].turn \in Nat
       /\ Trace[i].conversation \in Conversations \cup {NoConversation}
  /\ NoConversation \notin Conversations
<1>1. \A i \in DOMAIN Trace :
        Trace[i] \in [conversation : Conversations \cup {NoConversation},
                      turn : Nat, offset : Nat]
  BY TraceAssumption, ElementOfSeq, LenProperties
<1> QED BY <1>1 DEF Conversations

(* A record is due by the gate only after its own time, and a later turn   *)
(* only as long after the turn before it as the two lie apart.             *)
LEMMA DueAfterTurn ==
  ASSUME RecordsInv, ClockInv, GateInv, NEW i \in Selected,
         NEW d \in CausalDeadline(i, completed, finished_at)
  PROVE  /\ d \in Nat /\ Nominal(i) \in Nat /\ Nominal(i) <= d
         /\ Trace[i].conversation # NoConversation /\ Trace[i].turn > 0 =>
              \E j \in DOMAIN finished_at :
                /\ Trace[j].conversation = Trace[i].conversation
                /\ Trace[j].turn = Trace[i].turn - 1
                /\ d - finished_at[j] >= Nominal(i) - Nominal(j)
<1>1. Nominal(i) \in Nat /\ i \in DOMAIN Trace BY NominalIsNat, SelectedRecords
<1>2. Trace[i].turn \in Nat BY <1>1, TraceRecords
<1>3. CASE Trace[i].conversation = NoConversation \/ Trace[i].turn = 0
  <2>1. d = Nominal(i) BY <1>3 DEF CausalDeadline
  <2> QED BY <1>1, <1>2, <1>3, <2>1, SMT
<1>4. CASE ~(Trace[i].conversation = NoConversation \/ Trace[i].turn = 0)
  <2> DEFINE c == Trace[i].conversation
  <2>1. c \in Conversations BY <1>1, <1>4, TraceRecords
  <2>2. PICK j \in completed[c] : /\ Trace[j].turn + 1 = Trace[i].turn
                                  /\ d = finished_at[j] + Nominal(i) - Nominal(j)
    BY <1>4 DEF CausalDeadline
  <2>3. j \in DOMAIN finished_at /\ Trace[j].conversation = c
    BY <2>1, <2>2 DEF GateInv
  <2>4. j \in Selected
    <3>1. DOMAIN finished_at = ToSet(rows) /\ rows \in Seq(Selected) BY DEF RecordsInv
    <3>2. ToSet(rows) \subseteq Selected
      <4>1. \A k \in DOMAIN rows : rows[k] \in Selected
        BY <3>1, ElementOfSeq, LenProperties
      <4> QED BY <4>1 DEF ToSet
    <3> QED BY <2>3, <3>1, <3>2
  <2>5. Nominal(j) \in Nat /\ j \in DOMAIN Trace BY <2>4, NominalIsNat, SelectedRecords
  <2>6. Trace[j].turn \in Nat BY <2>5, TraceRecords
  <2>7. finished_at[j] \in Nat /\ Nominal(j) <= finished_at[j] BY <2>3 DEF ClockInv
  <2>8. d \in Nat /\ Nominal(i) <= d /\ d - finished_at[j] >= Nominal(i) - Nominal(j)
        /\ Trace[j].turn = Trace[i].turn - 1
    BY <1>1, <1>2, <2>2, <2>5, <2>6, <2>7, SMT
  <2> QED BY <1>1, <2>3, <2>8
<1> QED BY <1>3, <1>4

(* Nothing but selected records is pending, submitted or finished.         *)
LEMMA RowsAreSelected ==
  ASSUME RecordsInv
  PROVE  /\ Submitted \subseteq Selected /\ DOMAIN finished_at \subseteq Submitted
         /\ ToSet(pending) \subseteq Selected
<1>1. 1 .. loaded \subseteq Selected BY SelectedRecords, SMT DEF RecordsInv, Selected
<1> QED BY <1>1 DEF RecordsInv

(* Every step keeps the clock ahead of the times it has stamped.           *)
LEMMA ClockStep ==
  ASSUME RecordsInv, ClockInv, GateInv, [Next]_vars
  PROVE  ClockInv'
<1>1. CASE UNCHANGED dataVars BY <1>1 DEF dataVars, ClockInv, Submitted
<1>2. CASE LoadNext BY <1>2 DEF LoadNext, ClockInv, Submitted
<1>3. CASE SubmitDue
  <2> DEFINE i == pending[item]
  <2>1. /\ item \in DOMAIN pending /\ IsDue(i)
        /\ submitted_at' = Stamped(submitted_at, i)
        /\ UNCHANGED <<finished_at, elapsed, wake_at>>
    BY <1>3 DEF SubmitDue, ReplayGoes, outputVars
  <2>2. i \in ToSet(pending) BY <2>1 DEF ToSet
  <2>3. i \in Selected /\ i \notin Submitted BY <2>2, RowsAreSelected DEF RecordsInv
  <2>4. PICK d \in CausalDeadline(i, completed, finished_at) : d <= elapsed
    BY <2>1 DEF IsDue
  <2>5. d \in Nat /\ Nominal(i) \in Nat /\ Nominal(i) <= d BY <2>3, <2>4, DueAfterTurn
  <2>6. elapsed \in Nat BY DEF ClockInv
  <2>7. Nominal(i) <= elapsed BY <2>4, <2>5, <2>6, SMT
  <2> HIDE DEF i
  <2>8. /\ DOMAIN submitted_at' = Submitted \cup {i} /\ submitted_at'[i] = elapsed
        /\ \A j \in Submitted : submitted_at'[j] = submitted_at[j]
    BY <2>1, <2>3, Zenon DEF Submitted, Stamped
  <2>9. \A j \in Submitted' :
          /\ submitted_at'[j] \in Nat /\ Nominal(j) <= submitted_at'[j]
          /\ submitted_at'[j] <= elapsed'
    <3>1. elapsed <= elapsed BY <2>6, SMT
    <3> QED BY <2>1, <2>6, <2>7, <2>8, <3>1 DEF ClockInv, Submitted
  <2> QED BY <2>1, <2>9 DEF ClockInv
<1>4. ASSUME NEW i \in in_flight, Retire(i) PROVE ClockInv'
  <2>1. UNCHANGED <<submitted_at, elapsed, wake_at>> BY <1>4 DEF Retire, ReplayGoes
  <2>2. CASE finished_at' = Stamped(finished_at, i)
    <3>1. i \in Submitted /\ i \notin DOMAIN finished_at BY DEF RecordsInv
    <3>2. Nominal(i) \in Nat BY <3>1, RowsAreSelected, NominalIsNat
    <3>3. /\ submitted_at[i] \in Nat /\ Nominal(i) <= submitted_at[i]
          /\ submitted_at[i] <= elapsed /\ elapsed \in Nat
      BY <3>1 DEF ClockInv
    <3>4. Nominal(i) <= elapsed BY <3>2, <3>3, SMT
    <3>5. /\ DOMAIN finished_at' = DOMAIN finished_at \cup {i}
          /\ finished_at'[i] = elapsed
          /\ \A j \in DOMAIN finished_at : finished_at'[j] = finished_at[j]
      BY <2>2, <3>1, Zenon DEF Stamped
    <3> QED BY <2>1, <3>3, <3>4, <3>5 DEF ClockInv, Submitted
  <2>3. CASE UNCHANGED finished_at BY <2>1, <2>3 DEF ClockInv, Submitted
  <2> QED BY <1>4, <2>2, <2>3 DEF Retire
<1>5. CASE RunDone
  <2>1. /\ wake_at' = CHOOSE d \in Deadlines : \A e \in Deadlines : d <= e
        /\ UNCHANGED <<submitted_at, finished_at, elapsed>>
    BY <1>5 DEF RunDone, ReplayGoes, requestVars, outputVars
  <2>2. Deadlines \subseteq Nat /\ Deadlines # {}
    <3>1. elapsed + Poll \in Nat BY ReplayAssumption, SMT DEF ClockInv
    <3>2. loaded < SelectedCount => Nominal(loaded + 1) \in Nat
      <4>1. loaded < SelectedCount => loaded + 1 \in Selected
        BY SelectedRecords, SMT DEF RecordsInv, Selected
      <4> QED BY <4>1, NominalIsNat
    <3>3. \A i \in Range(pending) : CausalDeadline(i, completed, finished_at) \subseteq Nat
      <4>1. Range(pending) \subseteq Selected BY RowsAreSelected DEF Range, ToSet
      <4> QED BY <4>1, DueAfterTurn
    <3> QED BY <3>1, <3>2, <3>3 DEF Deadlines
  <2>3. \E d \in Deadlines : \A e \in Deadlines : d <= e BY <2>2, LeastNumber
  <2>4. wake_at' \in Nat BY <2>1, <2>2, <2>3
  <2> QED BY <2>1, <2>4 DEF ClockInv, Submitted
<1>6. CASE Tick
  <2>1. /\ elapsed' = elapsed + 1 /\ UNCHANGED <<submitted_at, finished_at, wake_at>>
    BY <1>6 DEF Tick, requestVars, outputVars
  <2>2. elapsed \in Nat BY DEF ClockInv
  <2>3. elapsed' \in Nat /\ \A n \in Nat : n <= elapsed => n <= elapsed'
    BY <2>1, <2>2, SMT
  <2> QED BY <2>1, <2>3 DEF ClockInv, Submitted
<1> QED BY <1>1, <1>2, <1>3, <1>4, <1>5, <1>6, DataMoves

(* Every step keeps the turns of a conversation in order.                  *)
LEMMA GateStep ==
  ASSUME RecordsInv, ClockInv, GateInv, [Next]_vars
  PROVE  GateInv'
<1>1. CASE UNCHANGED dataVars
  BY <1>1 DEF dataVars, GateInv, TurnsInOrder, Submitted
<1>2. CASE LoadNext BY <1>2 DEF LoadNext, GateInv, TurnsInOrder, Submitted
<1>3. CASE SubmitDue
  <2> DEFINE i == pending[item]
  <2>1. /\ item \in DOMAIN pending /\ IsDue(i)
        /\ submitted_at' = Stamped(submitted_at, i)
        /\ UNCHANGED <<finished_at, completed>>
    BY <1>3 DEF SubmitDue, ReplayGoes, outputVars
  <2>2. i \in ToSet(pending) BY <2>1 DEF ToSet
  <2>3. i \in Selected /\ i \notin Submitted BY <2>2, RowsAreSelected DEF RecordsInv
  <2>4. PICK d \in CausalDeadline(i, completed, finished_at) : d <= elapsed
    BY <2>1 DEF IsDue
  <2>5. elapsed \in Nat BY DEF ClockInv
  <2>6. /\ d \in Nat /\ Nominal(i) \in Nat
        /\ Trace[i].conversation # NoConversation /\ Trace[i].turn > 0 =>
             \E j \in DOMAIN finished_at :
               /\ Trace[j].conversation = Trace[i].conversation
               /\ Trace[j].turn = Trace[i].turn - 1
               /\ d - finished_at[j] >= Nominal(i) - Nominal(j)
    BY <2>3, <2>4, DueAfterTurn
  <2>7. \A j \in DOMAIN finished_at : finished_at[j] \in Nat /\ Nominal(j) \in Nat
    BY RowsAreSelected, NominalIsNat DEF ClockInv
  <2>8. \A j \in DOMAIN finished_at :
          d - finished_at[j] >= Nominal(i) - Nominal(j) =>
            elapsed - finished_at[j] >= Nominal(i) - Nominal(j)
    BY <2>4, <2>5, <2>6, <2>7, SMT
  <2> HIDE DEF i
  <2>9. /\ DOMAIN submitted_at' = Submitted \cup {i} /\ submitted_at'[i] = elapsed
        /\ \A j \in Submitted : submitted_at'[j] = submitted_at[j]
    BY <2>1, <2>3, StampedFunction DEF Submitted
  <2>10. TurnsInOrder' BY <2>1, <2>6, <2>8, <2>9 DEF GateInv, TurnsInOrder, Submitted
  <2> QED BY <2>1, <2>10 DEF GateInv
<1>4. ASSUME NEW i \in in_flight, Retire(i) PROVE GateInv'
  <2>1. UNCHANGED submitted_at BY <1>4 DEF Retire
  <2>2. CASE /\ finished_at' = Stamped(finished_at, i)
             /\ completed' = IF Trace[i].conversation = NoConversation THEN completed
                             ELSE Completed(completed, i)
    <3>1. i \in Submitted /\ i \notin DOMAIN finished_at BY DEF RecordsInv
    <3>2. /\ DOMAIN finished_at' = DOMAIN finished_at \cup {i}
          /\ \A j \in DOMAIN finished_at : finished_at'[j] = finished_at[j]
      BY <2>2, <3>1, Zenon DEF Stamped
    <3>3. TurnsInOrder' BY <2>1, <3>2 DEF GateInv, TurnsInOrder, Submitted
    <3>4. /\ completed' \in [Conversations -> SUBSET DOMAIN finished_at']
          /\ \A c \in Conversations : \A j \in completed'[c] : Trace[j].conversation = c
      <4>1. CASE Trace[i].conversation = NoConversation
        BY <2>2, <3>2, <4>1 DEF GateInv
      <4>2. CASE Trace[i].conversation # NoConversation
        BY <2>2, <3>2, <4>2 DEF GateInv, Completed
      <4> QED BY <4>1, <4>2
    <3> QED BY <3>3, <3>4 DEF GateInv
  <2>3. CASE UNCHANGED <<finished_at, completed>>
    BY <2>1, <2>3 DEF GateInv, TurnsInOrder, Submitted
  <2> QED BY <1>4, <2>2, <2>3 DEF Retire
<1>5. CASE RunDone
  BY <1>5 DEF RunDone, requestVars, outputVars, GateInv, TurnsInOrder, Submitted
<1>6. CASE Tick
  BY <1>6 DEF Tick, requestVars, outputVars, GateInv, TurnsInOrder, Submitted
<1> QED BY <1>1, <1>2, <1>3, <1>4, <1>5, <1>6, DataMoves
-----------------------------------------------------------------------------
(* What the replay thread has established by the time it leaves its loop,  *)
(* drains, and exits, and what main relies on when it finishes.            *)
Complete == Len(rows) = SelectedCount /\ Range(rows) = Selected

OutcomeInv ==
  /\ replay_pc = "drain" /\ ~replay_error =>
       loaded = SelectedCount /\ Cardinality(Submitted) = SelectedCount
  /\ replay_pc \in {"stop", "exited"} /\ ~replay_error => Complete
  /\ main_pc \in {"flush", "summary", "publish"} =>
       replay_pc = "exited" /\ ~replay_error
  /\ dest = "ours" => Complete

(* Whoever has drained with its output intact has written every row.       *)
LEMMA DrainedIsComplete ==
  ASSUME RecordsInv, loaded = SelectedCount, Cardinality(Submitted) = SelectedCount,
         in_flight = {}, output_ok
  PROVE  Complete
<1>1. Submitted \subseteq Selected BY RowsAreSelected
<1>2. IsFiniteSet(Selected) /\ Cardinality(Selected) = SelectedCount
  BY SelectedRecords
<1>3. Submitted = Selected BY <1>1, <1>2, FS_Subset
<1>4. ToSet(rows) = Selected BY <1>3 DEF RecordsInv
<1>5. Len(rows) = Cardinality(ToSet(rows)) BY InjectiveLength DEF RecordsInv
<1>6. Range(rows) = ToSet(rows) BY DEF Range, ToSet
<1> QED BY <1>2, <1>4, <1>5, <1>6 DEF Complete

(* Main writes no row and submits no request.                              *)
LEMMA MainKeepsRecords ==
  ASSUME MainThread
  PROVE  UNCHANGED <<rows, loaded, submitted_at, replay_error>>
<1> USE DEF MainGoes, loopVars, loadVars, requestVars, threadVars
<1>1. CASE Begin BY <1>1 DEF Begin
<1>2. CASE StartEnvironment \/ AwaitStartup \/ Join \/ GuardJoins
  BY <1>2 DEF StartEnvironment, AwaitStartup, Join, GuardJoins, fileVars
<1>3. CASE FlushRows \/ WriteSummary \/ Publish \/ Unwind
  BY <1>3 DEF FlushRows, WriteSummary, Publish, Unwind
<1>4. CASE GuardStops BY <1>4 DEF GuardStops, fileVars
<1> QED BY <1>1, <1>2, <1>3, <1>4 DEF MainThread

(* Every step keeps what the files say of the run.                         *)
LEMMA OutcomeStep ==
  ASSUME ControlInv, ControlTypes, RecordsInv, OutcomeInv, [Next]_vars
  PROVE  OutcomeInv'
<1> USE DEF OutcomeInv
<1>1. /\ main_pc = "join" => replay_pc # "none"
      /\ main_pc \in {"flush", "summary", "publish", "unwind", "returned", "failed",
                       "unremoved"} =>
           Ended(replay_pc)
      /\ main_pc = "crashed" => replay_pc = "none"
      /\ dest = "ours" => main_pc \in {"returned", "crashed"}
  BY DEF ControlInv, ThreadsInv, FilesInv, ThreadsJoined
<1>2. CASE MainThread
  <2>1. UNCHANGED <<rows, loaded, submitted_at, replay_error>>
    BY <1>2, MainKeepsRecords
  <2>2. Complete' = Complete /\ Submitted' = Submitted BY <2>1 DEF Complete, Submitted
  <2> USE DEF MainGoes
  <2>3. CASE Begin BY <2>1, <2>2, <2>3, <1>1 DEF Begin
  <2>4. CASE StartEnvironment BY <2>1, <2>2, <2>4, <1>1 DEF StartEnvironment, fileVars
  <2>5. CASE AwaitStartup BY <2>1, <2>2, <2>5, <1>1 DEF AwaitStartup, fileVars
  <2>6. CASE Join BY <2>1, <2>2, <2>6, <1>1 DEF Join, fileVars, Ended
  <2>7. CASE FlushRows BY <2>1, <2>2, <2>7, <1>1 DEF FlushRows
  <2>8. CASE WriteSummary BY <2>1, <2>2, <2>8, <1>1 DEF WriteSummary
  <2>9. CASE Publish BY <2>1, <2>2, <2>9, <1>1 DEF Publish
  <2>10. CASE GuardStops BY <2>1, <2>2, <2>10, <1>1 DEF GuardStops, pcVars, fileVars
  <2>11. CASE GuardJoins BY <2>1, <2>2, <2>11, <1>1 DEF GuardJoins, fileVars
  <2>12. CASE Unwind BY <2>1, <2>2, <2>12, <1>1 DEF Unwind
  <2> QED
    BY <1>2, <2>3, <2>4, <2>5, <2>6, <2>7, <2>8, <2>9, <2>10, <2>11, <2>12 DEF MainThread
<1>3. CASE ReplayThread
  <2> USE DEF ReplayGoes, Ended
  <2>1. CASE Checks
    <3>1. CASE Throws("checks")
      BY <1>1, <3>1 DEF Throws
    <3>2. CASE /\ loaded = SelectedCount /\ Cardinality(Submitted) = SelectedCount
               /\ ReplayGoes("checks", "drain") /\ UNCHANGED replayVars
      BY <1>1, <3>2 DEF replayVars, loadVars, requestVars, Submitted
    <3> QED BY <2>1, <3>1, <3>2 DEF Checks
  <2>2. CASE DrainDone
    <3>1. /\ replay_pc = "drain" /\ replay_pc' = "stop" /\ in_flight = {}
          /\ replay_error' = (replay_error \/ ~output_ok)
          /\ UNCHANGED <<rows, loaded, submitted_at, main_pc, dest>>
      BY <2>2 DEF DrainDone, loadVars, requestVars
    <3>2. Complete' = Complete BY <3>1 DEF Complete
    <3>3. ~replay_error /\ output_ok => Complete
      BY <3>1, DrainedIsComplete
    <3> QED BY <1>1, <3>1, <3>2, <3>3
  <2>3. CASE StopEnvironment
    <3>1. /\ replay_pc = "stop" /\ replay_pc' = "exited"
          /\ UNCHANGED <<rows, replay_error, main_pc, dest>>
      BY <2>3 DEF StopEnvironment
    <3>2. Complete' = Complete BY <3>1 DEF Complete
    <3> QED BY <1>1, <3>1, <3>2
  <2>4. ASSUME NEW i \in in_flight, Retire(i) PROVE OutcomeInv'
    <3>1. /\ replay_pc \in {"run", "drain"} /\ replay_pc' = replay_pc
          /\ UNCHANGED <<loaded, submitted_at, replay_error, main_pc, dest>>
      BY <2>4 DEF Retire, loadVars
    <3>2. Submitted' = Submitted BY <3>1 DEF Submitted
    <3> QED BY <1>1, <3>1, <3>2
  <2>5. CASE RunThrows
    <3>1. /\ replay_pc \in {"run", "drain"} /\ replay_pc' \in {"drain", "stop"}
          /\ replay_error'
          /\ UNCHANGED <<rows, main_pc, dest>>
      BY <2>5 DEF RunThrows, Throws, replayVars
    <3>2. Complete' = Complete BY <3>1 DEF Complete
    <3> QED BY <1>1, <3>1, <3>2
  <2>6. CASE CreateScheduler \/ LoopAgain \/ Load \/ SubmitDue \/ PassOver \/ RunDone \/ Wake
    <3>1. /\ replay_pc \in {"create", "top", "load", "submit", "run", "wait"}
          /\ \/ replay_pc' \in {"top", "load", "submit", "run", "wait", "checks"}
             \/ replay_pc' \in {"drain", "stop"} /\ replay_error'
          /\ UNCHANGED <<rows, main_pc, dest>>
      BY <2>6 DEF CreateScheduler, LoopAgain, Load, SubmitDue, PassOver, RunDone, Wake,
                  Throws, replayVars
    <3>2. Complete' = Complete BY <3>1 DEF Complete
    <3> QED BY <1>1, <3>1, <3>2
  <2> QED BY <1>3, <2>1, <2>2, <2>3, <2>4, <2>5, <2>6 DEF ReplayThread
<1>4. CASE \/ EnvironmentThread \/ Tick \/ OtherPublishes \/ UNCHANGED vars
  <2>1. /\ UNCHANGED <<rows, loaded, submitted_at, replay_error, main_pc, replay_pc>>
        /\ dest' = dest \/ dest' = "other"
    BY <1>4 DEF EnvironmentThread, PublishStartup, EnvironmentStops, Tick, OtherPublishes,
                vars, fileVars, pcVars, threadVars, loopVars, loadVars, requestVars
  <2>2. Complete' = Complete /\ Submitted' = Submitted BY <2>1 DEF Complete, Submitted
  <2> QED BY <2>1, <2>2
<1>5. CASE Crash
  <2>1. /\ UNCHANGED <<rows, dest>> /\ main_pc' = "crashed" /\ replay_pc' = "none"
    BY <1>5 DEF Crash, fileVars
  <2>2. Complete' = Complete BY <2>1 DEF Complete
  <2> QED BY <2>1, <2>2
<1> QED BY <1>2, <1>3, <1>4, <1>5 DEF Next, Terminated

(* The inductive invariant holds at the start,                             *)
LEMMA ReplayInit == Init => RecordsInv /\ ClockInv /\ GateInv /\ OutcomeInv
<1> SUFFICES ASSUME Init PROVE RecordsInv /\ ClockInv /\ GateInv /\ OutcomeInv
  OBVIOUS
<1>1. /\ rows = << >> /\ loaded = 0 /\ pending = << >> /\ in_flight = {}
      /\ submitted_at = Absent /\ finished_at = Absent
      /\ completed = [c \in Conversations |-> {}]
      /\ output_ok = TRUE /\ observer_enabled = TRUE /\ elapsed = 0 /\ wake_at = 0
  BY DEF Init
<1>2. main_pc = "begin" /\ replay_pc = "none" /\ dest \in {"absent", "other"}
  BY DEF Init
<1>3. DOMAIN submitted_at = {} /\ DOMAIN finished_at = {} BY <1>1 DEF Absent
<1>4. RecordsInv
  <2>1. 0 \in 0 .. SelectedCount /\ 1 .. 0 = {} BY SelectedRecords, SMT
  <2>2. << >> \in Seq(Selected) /\ ToSet(<< >>) = {} /\ IsInjective(<< >>)
    BY ToSetEmpty, EmptySeq
  <2>3. /\ loaded \in 0 .. SelectedCount /\ 1 .. loaded = {} /\ Submitted = {}
        /\ pending \in Seq(Selected) /\ IsInjective(pending) /\ ToSet(pending) = {}
        /\ rows \in Seq(Selected) /\ IsInjective(rows) /\ ToSet(rows) = {}
    BY <1>1, <1>3, <2>1, <2>2 DEF Submitted
  <2> QED BY <1>1, <1>3, <2>3, Zenon DEF RecordsInv
<1>5. ClockInv
  <2>1. 0 \in Nat BY SMT
  <2> QED BY <1>1, <1>3, <2>1, Zenon DEF ClockInv, Submitted
<1>6. GateInv BY <1>1, <1>3 DEF GateInv, TurnsInOrder, Submitted
<1>7. OutcomeInv BY <1>2 DEF OutcomeInv
<1> QED BY <1>4, <1>5, <1>6, <1>7

ReplayInv ==
  ControlInv /\ ControlTypes /\ RecordsInv /\ ClockInv /\ GateInv /\ OutcomeInv

(* and always.                                                             *)
LEMMA ReplayInvariance == Spec => []ReplayInv
<1>1. Init => ReplayInv BY ControlInit, ReplayInit DEF ReplayInv
<1>2. ReplayInv /\ [Next]_vars => ReplayInv'
  BY ControlStep, RecordsStep, ClockStep, GateStep, OutcomeStep DEF ReplayInv
<1> QED BY <1>1, <1>2, PTL DEF Spec

(* The causal gate: the replay loop submits a turn of a conversation only  *)
(* after the observer saw the turn before it end, and keeps their distance *)
(* (replay.cpp:127-147, benchmark_main.cpp:353-370).                       *)
THEOREM TurnsAreInOrder == Spec => []TurnsInOrder
<1>1. ReplayInv => TurnsInOrder BY DEF ReplayInv, GateInv
<1> QED BY <1>1, ReplayInvariance, PTL

(* AtomicResults: the directory is renamed to its final name only when the *)
(* summary and one row for every selected record are in it, whatever fails *)
(* and whenever the process is killed (results.cpp:283-289, 421-425).      *)
THEOREM PublishedIsAlwaysComplete == Spec => []PublishedIsComplete
<1>1. ReplayInv => PublishedIsComplete
  BY DEF ReplayInv, ControlInv, FilesInv, OutcomeInv, Complete, PublishedIsComplete
<1> QED BY <1>1, ReplayInvariance, PTL

(* Every record is in at most one place of the loop: loaded in order, then *)
(* pending, then submitted, then with its row (benchmark_main.cpp:330-370).*)
THEOREM ReplayTypeCorrectness == Spec => []TypeOK
<1>1. ReplayInv => TypeOK
  <2> SUFFICES ASSUME ControlTypes, RecordsInv, ClockInv PROVE TypeOK
    BY DEF ReplayInv
  <2>1. Range(rows) = ToSet(rows) BY DEF Range, ToSet
  <2>2. /\ rows \in Seq(Selected) /\ pending \in Seq(Selected)
        /\ loaded \in 0 .. SelectedCount /\ in_flight \subseteq Submitted
        /\ Submitted \subseteq 1 .. loaded /\ DOMAIN finished_at = Range(rows)
    BY <2>1 DEF RecordsInv
  <2>3. elapsed \in Nat /\ wake_at \in Nat BY DEF ClockInv
  <2> QED BY <2>2, <2>3 DEF TypeOK, ControlTypes
<1> QED BY <1>1, ReplayInvariance, PTL
=============================================================================
