--------------------------- MODULE PlanPoolProofs ---------------------------
(***************************************************************************)
(* Proofs about the plan buffers of PlanPool.tla, for every pool and queue *)
(* size and any number of commits, by a gated caller and by any other.     *)
(***************************************************************************)
EXTENDS PlanPool, SequenceLemmas

PcInv ==
  /\ commit_pc = "built" =>
       /\ epoch > 0 /\ content[spare] = epoch /\ stamp[spare] = epoch
       /\ Gated => completed >= epoch - 1
  /\ executing = 0 <=> retire_pc = "idle"
  /\ held # Null <=> retire_pc \in {"executing", "retiring"}
  /\ reading # Null <=> commit_pc # "idle"

(* What is published is newer than what is executed, and that is newer     *)
(* than what is completed.                                                 *)
OrderInv ==
  /\ completed <= LastPublished /\ executing <= LastPublished
  /\ executing # 0 => executing > completed
  /\ published # Null =>
       /\ content[published] = stamp[published]
       /\ content[published] <= LastPublished
       /\ content[published] > completed
       /\ content[published] > executing

IInv ==
  /\ TypeOK /\ PlansExclusive /\ ExecutedIsStable /\ PcInv /\ OrderInv
  /\ PoolSize <= allocated

(* The pops the environment may not see are of the plans the scheduler     *)
(* holds, or has published since.                                          *)
LagInv ==
  /\ commit_pc = "exchanged" => popped = 0
  /\ unseen <= (IF commit_pc = "exchanged" THEN 0 ELSE 1) +
               (IF published = Null THEN 0 ELSE 1)

(* What bounds the pool: a gated caller sees a plan in the queue.          *)
PoolInv ==
  /\ NoPlanLost /\ PoolBounded /\ LagInv
  /\ Gated /\ commit_pc \in {"built", "exchanged"} => known > 0
-----------------------------------------------------------------------------
(* A plan that is reused is in the queue.                                  *)
LEMMA ReuseTakes ==
  ASSUME TypeOK, Reuse
  PROVE  retired # << >>
<1>1. PICK seen \in known .. Len(retired) : seen > 0 BY DEF Reuse
<1>2. Len(retired) \in Nat /\ known \in Nat BY LenProperties DEF TypeOK
<1>3. Len(retired) > 0 BY <1>1, <1>2, SMT
<1> QED BY <1>3, EmptySeq, SMT

(* A sequence of some plans is a sequence of more.                         *)
LEMMA SeqMonotone ==
  ASSUME NEW S, NEW T, S \subseteq T, NEW s \in Seq(S)
  PROVE  s \in Seq(T)
<1>1. Len(s) \in Nat /\ s \in [1 .. Len(s) -> S] BY LenProperties
<1>2. s \in [1 .. Len(s) -> T] BY <1>1
<1> QED BY <1>1, <1>2, SeqDef

(* Every step keeps the variables in their types.                          *)
LEMMA TypeStep ==
  ASSUME TypeOK, PcInv, [Next]_vars
  PROVE  TypeOK'
<1> USE PlanPoolAssumption DEF Null, Plans
<1>0. Len(retired) \in Nat BY LenProperties DEF TypeOK
<1>1. CASE Build
  <2>1. known' \in Nat /\ known' <= Len(retired')
    BY <1>0, <1>1, SMT DEF TypeOK, Build, Known
  <2> QED BY <1>1, <2>1, SMT DEF TypeOK, Build, environmentVars
<1>2. CASE BuildNothing
  <2>1. known' \in Nat /\ known' <= Len(retired')
    BY <1>0, <1>2, SMT DEF TypeOK, BuildNothing, Known
  <2> QED BY <1>2, <2>1 DEF TypeOK, BuildNothing, environmentVars
<1>3. CASE Publish
  BY <1>3 DEF TypeOK, Publish, environmentVars
<1>4. CASE Reuse
  <2>1. retired # << >> BY <1>4, ReuseTakes
  <2>2. /\ Head(retired) \in Plans /\ Tail(retired) \in Seq(Plans)
        /\ Len(Tail(retired)) = Len(retired) - 1
    BY <2>1, HeadTailProperties DEF TypeOK
  <2>3. known' \in Nat /\ known' <= Len(retired')
    BY <1>0, <1>4, <2>2, SMT DEF TypeOK, Reuse
  <2>4. unseen + 1 \in Nat BY SMT DEF TypeOK
  <2> QED BY <1>4, <2>2, <2>3, <2>4 DEF TypeOK, Reuse, environmentVars
<1>5. CASE Allocate
  <2>1. allocated' \in Nat /\ allocated + 1 \in Plans' /\ Plans \subseteq Plans'
    BY <1>5, SMT DEF TypeOK, Allocate
  <2>2. \A f \in [Plans -> Nat] : Append(f, 0) \in [Plans' -> Nat]
    <3> SUFFICES ASSUME NEW f \in [Plans -> Nat]
                 PROVE  Append(f, 0) \in [Plans' -> Nat]
      OBVIOUS
    <3>1. f \in Seq(Nat) BY SeqDef DEF TypeOK
    <3>2. Len(f) = allocated BY <3>1, LenProperties, SMT DEF TypeOK
    <3>3. Append(f, 0) \in Seq(Nat) /\ Len(Append(f, 0)) = allocated + 1
      BY <3>1, <3>2, AppendProperties
    <3> QED BY <1>5, <3>3, LenProperties DEF Allocate
  <2>3. /\ retired' \in Seq(Plans')
        /\ known' \in Nat /\ known' <= Len(retired')
    BY <1>5, <2>1, SeqMonotone DEF Allocate, TypeOK
  <2>4. stamp' \in [Plans' -> Nat] /\ content' \in [Plans' -> Nat]
    BY <1>5, <2>2 DEF Allocate, TypeOK
  <2>5. /\ spare' \in Plans' /\ published' \in Plans' \cup {Null}
        /\ held' \in Plans' \cup {Null} /\ reading' \in Plans' \cup {Null}
    BY <1>5, <2>1 DEF Allocate, TypeOK, environmentVars
  <2> QED BY <1>5, <2>1, <2>3, <2>4, <2>5 DEF Allocate, TypeOK, environmentVars
<1>6. CASE Consume
  BY <1>6 DEF TypeOK, Consume, schedulerVars
<1>7. CASE BeginRetire
  BY <1>7 DEF TypeOK, PcInv, BeginRetire, schedulerVars
<1>8. CASE GiveBack
  <2>1. held \in Plans BY <1>8 DEF TypeOK, PcInv, GiveBack
  <2>2. retired' = retired \/ retired' = Append(retired, held)
    BY <1>8 DEF GiveBack
  <2>3. retired' \in Seq(Plans) /\ Len(retired') >= Len(retired)
    <3>1. CASE retired' = retired BY <1>0, <3>1, SMT DEF TypeOK
    <3>2. CASE retired' = Append(retired, held)
      <4>1. retired' \in Seq(Plans) /\ Len(retired') = Len(retired) + 1
        BY <2>1, <3>2, AppendProperties DEF TypeOK
      <4> QED BY <1>0, <4>1, SMT
    <3> QED BY <2>2, <3>1, <3>2
  <2>4. Len(retired') \in Nat BY <2>3, LenProperties
  <2>5. known <= Len(retired') BY <1>0, <2>3, <2>4, SMT DEF TypeOK
  <2>6. unseen' \in Nat BY <1>8, SMT DEF TypeOK, GiveBack
  <2> QED BY <1>8, <2>3, <2>5, <2>6 DEF TypeOK, GiveBack, schedulerVars
<1>9. CASE StoreEpoch
  BY <1>9 DEF TypeOK, StoreEpoch, schedulerVars
<1>10. CASE UNCHANGED vars
  BY <1>10 DEF TypeOK, vars, schedulerVars, environmentVars
<1>11. CASE ReadCommitted
  BY <1>11 DEF TypeOK, PcInv, ReadCommitted, environmentVars
<1> QED
  BY <1>1, <1>2, <1>3, <1>4, <1>5, <1>6, <1>7, <1>8, <1>9, <1>10, <1>11
  DEF Next, Scheduler, Environment
-----------------------------------------------------------------------------
(* A plan changes hands at every step but is never in two.                 *)
LEMMA ExclusiveStep ==
  ASSUME TypeOK, PcInv, PlansExclusive, [Next]_vars
  PROVE  PlansExclusive'
<1> USE DEF Null, OwnSpare, Published, InUse
<1>1. CASE Build
  BY <1>1 DEF TypeOK, PlansExclusive, Build, environmentVars
<1>2. CASE BuildNothing
  BY <1>2 DEF TypeOK, PlansExclusive, BuildNothing, environmentVars
<1>3. CASE Publish
  <2>1. spare # 0 /\ {spare} \cap ({published} \ {0}) = {}
    BY <1>3, PlanPoolAssumption, SMT DEF TypeOK, Plans, PlansExclusive, Publish
  <2> QED BY <1>3, <2>1 DEF PlansExclusive, Publish, environmentVars
<1>4. CASE Reuse
  <2>1. /\ Head(retired) \in ToSet(retired) /\ IsInjective(Tail(retired))
        /\ ToSet(Tail(retired)) = ToSet(retired) \ {Head(retired)}
    BY <1>4, ReuseTakes, TakeHead DEF TypeOK, PlansExclusive
  <2> QED BY <1>4, <2>1 DEF PlansExclusive, Reuse, environmentVars
<1>5. CASE Allocate
  <2>1. retired' = retired BY <1>5 DEF Allocate
  <2>2. allocated + 1 \notin {published, held} \cup Plans
    BY <1>5, SMT DEF TypeOK, Plans
  <2>3. ToSet(retired) \subseteq Plans BY SeqElements DEF TypeOK, ToSet
  <2> QED BY <1>5, <2>1, <2>2, <2>3 DEF PlansExclusive, Allocate, environmentVars
<1>6. CASE Consume
  BY <1>6 DEF TypeOK, PcInv, PlansExclusive, Consume, schedulerVars
<1>7. CASE BeginRetire
  BY <1>7 DEF PlansExclusive, BeginRetire, schedulerVars
<1>8. CASE GiveBack
  <2>1. CASE retired' = retired
    BY <1>8, <2>1 DEF PlansExclusive, GiveBack, schedulerVars
  <2>2. CASE retired' = Append(retired, held)
    <3>1. held \in Plans /\ held # 0 /\ held \notin ToSet(retired)
      BY <1>8 DEF TypeOK, PcInv, PlansExclusive, GiveBack
    <3>2. IsInjective(retired') /\ ToSet(retired') = ToSet(retired) \cup {held}
      BY <2>2, <3>1, AddLast DEF TypeOK, PlansExclusive
    <3> QED BY <1>8, <3>1, <3>2 DEF PlansExclusive, GiveBack, schedulerVars
  <2> QED BY <1>8, <2>1, <2>2 DEF GiveBack
<1>9. CASE StoreEpoch
  BY <1>9 DEF PlansExclusive, StoreEpoch, schedulerVars
<1>10. CASE UNCHANGED vars
  BY <1>10 DEF PlansExclusive, vars, schedulerVars, environmentVars
<1>11. CASE ReadCommitted
  BY <1>11 DEF PlansExclusive, ReadCommitted, environmentVars
<1> QED
  BY <1>1, <1>2, <1>3, <1>4, <1>5, <1>6, <1>7, <1>8, <1>9, <1>10, <1>11
  DEF Next, Scheduler, Environment

(* The plan that is executed, or published, is not the one being built.    *)
LEMMA SpareIsFree ==
  ASSUME TypeOK, PlansExclusive, commit_pc = "idle"
  PROVE  spare # held /\ spare # published
BY PlanPoolAssumption, SMT
DEF TypeOK, PlansExclusive, OwnSpare, Published, InUse, Plans, Null

(* Appending to the stamps and contents leaves those of the others alone.  *)
LEMMA AllocateKeeps ==
  ASSUME TypeOK, Allocate
  PROVE  \A p \in Plans : stamp'[p] = stamp[p] /\ content'[p] = content[p]
<1>1. ASSUME NEW f \in [Plans -> Nat], NEW p \in Plans
      PROVE  Append(f, 0)[p] = f[p]
  <2>1. f \in Seq(Nat) BY SeqDef DEF TypeOK, Plans
  <2>2. Len(f) = allocated BY <2>1, LenProperties, SMT DEF TypeOK, Plans
  <2> QED BY <2>1, <2>2, AppendProperties DEF Plans
<1> QED BY <1>1 DEF TypeOK, Allocate

(* No step writes the plan the environment is executing.                   *)
LEMMA StableStep ==
  ASSUME IInv, [Next]_vars
  PROVE  ExecutedIsStable'
<1> USE DEF Null
<1>1. CASE Build
  <2>1. spare # held BY <1>1, SpareIsFree DEF IInv, Build
  <2> QED BY <1>1, <2>1 DEF IInv, TypeOK, ExecutedIsStable, Build, environmentVars
<1>2. CASE BuildNothing
  <2>1. spare # held BY <1>2, SpareIsFree DEF IInv, BuildNothing
  <2> QED
    BY <1>2, <2>1
    DEF IInv, TypeOK, PcInv, ExecutedIsStable, BuildNothing, environmentVars
<1>3. CASE Publish
  BY <1>3 DEF IInv, ExecutedIsStable, Publish, environmentVars
<1>4. CASE Reuse
  BY <1>4 DEF IInv, ExecutedIsStable, Reuse, environmentVars
<1>5. CASE Allocate
  BY <1>5, AllocateKeeps
  DEF IInv, TypeOK, ExecutedIsStable, Allocate, environmentVars
<1>6. CASE Consume
  BY <1>6 DEF IInv, TypeOK, ExecutedIsStable, OrderInv, Consume, schedulerVars
<1>7. CASE BeginRetire
  BY <1>7 DEF IInv, ExecutedIsStable, PcInv, BeginRetire, schedulerVars
<1>8. CASE GiveBack
  BY <1>8 DEF IInv, ExecutedIsStable, GiveBack, schedulerVars
<1>9. CASE StoreEpoch
  BY <1>9 DEF IInv, ExecutedIsStable, PcInv, StoreEpoch, schedulerVars
<1>10. CASE UNCHANGED vars
  BY <1>10 DEF IInv, ExecutedIsStable, vars, schedulerVars, environmentVars
<1>11. CASE ReadCommitted
  BY <1>11 DEF IInv, ExecutedIsStable, ReadCommitted, environmentVars
<1> QED
  BY <1>1, <1>2, <1>3, <1>4, <1>5, <1>6, <1>7, <1>8, <1>9, <1>10, <1>11
  DEF Next, Scheduler, Environment

(* Every step keeps what the program counters say of the plans in hand.    *)
LEMMA PcStep ==
  ASSUME IInv, [Next]_vars
  PROVE  PcInv'
<1> USE DEF Null, IInv, PcInv
<1>1. CASE Build
  <2>1. /\ spare # 0 /\ reading' = spare /\ commit_pc' = "built" /\ epoch' = epoch + 1
        /\ content'[spare] = epoch' /\ stamp'[spare] = epoch' /\ spare' = spare
        /\ Gated => completed >= epoch
        /\ UNCHANGED <<executing, retire_pc, held, completed>>
    BY <1>1, PlanPoolAssumption, SMT DEF TypeOK, Plans, MayCommit, Build, environmentVars
  <2>2. epoch' > 0 /\ epoch' - 1 = epoch BY <2>1, SMT DEF TypeOK
  <2> QED BY <2>1, <2>2
<1>2. CASE BuildNothing
  BY <1>2 DEF BuildNothing, environmentVars
<1>3. CASE Publish
  BY <1>3 DEF Publish, environmentVars
<1>4. CASE Reuse
  BY <1>4 DEF Reuse, environmentVars
<1>5. CASE Allocate
  BY <1>5 DEF Allocate, environmentVars
<1>6. CASE Consume
  BY <1>6, SMT DEF TypeOK, OrderInv, Consume, schedulerVars
<1>7. CASE BeginRetire
  BY <1>7 DEF BeginRetire, schedulerVars
<1>8. CASE GiveBack
  BY <1>8 DEF GiveBack, schedulerVars
<1>9. CASE StoreEpoch
  <2>1. completed' > completed /\ completed' \in Nat
    BY <1>9, SMT DEF TypeOK, OrderInv, ExecutedIsStable, StoreEpoch
  <2> QED BY <1>9, <2>1, SMT DEF TypeOK, StoreEpoch, schedulerVars
<1>10. CASE UNCHANGED vars
  BY <1>10 DEF vars, schedulerVars, environmentVars
<1>11. CASE ReadCommitted
  BY <1>11 DEF ReadCommitted, environmentVars
<1> QED
  BY <1>1, <1>2, <1>3, <1>4, <1>5, <1>6, <1>7, <1>8, <1>9, <1>10, <1>11
  DEF Next, Scheduler, Environment

(* Every step keeps the plans in the order of their epochs.                *)
LEMMA OrderStep ==
  ASSUME IInv, [Next]_vars
  PROVE  OrderInv'
<1> USE DEF Null, IInv, OrderInv, LastPublished
<1>1. CASE Build
  <2>1. spare # published BY <1>1, SpareIsFree DEF Build
  <2>2. epoch' - 1 = epoch BY <1>1, SMT DEF TypeOK, Build
  <2> QED BY <1>1, <2>1, <2>2 DEF TypeOK, Build, environmentVars
<1>2. CASE BuildNothing
  <2>1. spare # published BY <1>2, SpareIsFree DEF BuildNothing
  <2> QED BY <1>2, <2>1 DEF TypeOK, BuildNothing, environmentVars
<1>3. CASE Publish
  BY <1>3, SMT DEF TypeOK, PcInv, Publish, environmentVars
<1>4. CASE Reuse
  BY <1>4 DEF Reuse, environmentVars
<1>5. CASE Allocate
  BY <1>5, AllocateKeeps DEF TypeOK, Allocate, environmentVars
<1>6. CASE Consume
  BY <1>6, SMT DEF TypeOK, Consume, schedulerVars
<1>7. CASE BeginRetire
  BY <1>7 DEF BeginRetire, schedulerVars
<1>8. CASE GiveBack
  BY <1>8 DEF GiveBack, schedulerVars
<1>9. CASE StoreEpoch
  BY <1>9, SMT DEF TypeOK, PcInv, ExecutedIsStable, StoreEpoch, schedulerVars
<1>10. CASE UNCHANGED vars
  BY <1>10 DEF vars, schedulerVars, environmentVars
<1>11. CASE ReadCommitted
  BY <1>11 DEF TypeOK, ReadCommitted, environmentVars
<1> QED
  BY <1>1, <1>2, <1>3, <1>4, <1>5, <1>6, <1>7, <1>8, <1>9, <1>10, <1>11
  DEF Next, Scheduler, Environment
-----------------------------------------------------------------------------
(* While a plan is being given back, the queue, with the pops not seen     *)
(* yet, is shorter than the pool: that plan is in it no more than those    *)
(* the scheduler holds and has published.                                  *)
LEMMA QueueIsShort ==
  ASSUME IInv, LagInv, retire_pc = "retiring"
  PROVE  Len(retired) + unseen < allocated
<1> DEFINE away == OwnSpare \cup Published \cup {held}
<1> DEFINE own == IF commit_pc = "exchanged" THEN 0 ELSE 1
<1> DEFINE sent == IF published = 0 THEN 0 ELSE 1
<1>1. /\ allocated \in Nat /\ unseen \in Nat /\ retired \in Seq(1 .. allocated)
      /\ spare \in 1 .. allocated /\ held \in 1 .. allocated
      /\ published \in (1 .. allocated) \cup {0} /\ IsInjective(retired)
      /\ held # 0
  BY DEF IInv, TypeOK, PcInv, PlansExclusive, Plans, Null
<1>2. /\ away \cap ToSet(retired) = {}
      /\ held \notin OwnSpare \cup Published
      /\ OwnSpare \cap Published = {}
  BY <1>1 DEF IInv, PlansExclusive, InUse, Null
<1>3. /\ IsFiniteSet(OwnSpare) /\ Cardinality(OwnSpare) = own
      /\ IsFiniteSet(Published) /\ Cardinality(Published) = sent
  <2>1. OwnSpare = IF own = 0 THEN {} ELSE {spare} BY DEF OwnSpare
  <2>2. Published = IF sent = 0 THEN {} ELSE {published} BY DEF Published, Null
  <2>3. own \in {0, 1} /\ sent \in {0, 1} OBVIOUS
  <2> HIDE DEF own, sent
  <2>4. /\ IsFiniteSet({}) /\ Cardinality({}) = 0
        /\ IsFiniteSet({spare}) /\ Cardinality({spare}) = 1
        /\ IsFiniteSet({published}) /\ Cardinality({published}) = 1
    BY FS_EmptySet, FS_Singleton
  <2> QED BY <2>1, <2>2, <2>3, <2>4, SMT
<1>4. /\ IsFiniteSet(OwnSpare \cup Published)
      /\ Cardinality(OwnSpare \cup Published) = own + sent
  <2>1. Cardinality({}) = 0 BY FS_EmptySet
  <2>2. own \in Nat /\ sent \in Nat /\ own + sent - 0 = own + sent BY SMT
  <2> HIDE DEF own, sent
  <2>3. OwnSpare \cap Published = {} BY <1>2
  <2>4. Cardinality(OwnSpare \cup Published) = own + sent - 0
    BY <1>3, <2>1, <2>3, FS_Union
  <2>5. IsFiniteSet(OwnSpare \cup Published) BY <1>3, FS_Union
  <2> QED BY <2>2, <2>4, <2>5
<1>5. IsFiniteSet(away) /\ Cardinality(away) = own + sent + 1
  BY <1>2, <1>4, FS_AddElement
<1>6. away \subseteq 1 .. allocated BY <1>1 DEF OwnSpare, Published, Null
<1> HIDE DEF away
<1>7. IsFiniteSet(ToSet(retired)) /\ Cardinality(ToSet(retired)) = Len(retired)
      /\ ToSet(retired) \subseteq 1 .. allocated
  <2>1. ToSet(retired) \subseteq 1 .. allocated BY <1>1, SeqElements DEF ToSet
  <2> QED BY <1>1, <2>1, InjectiveLength
<1>8. /\ IsFiniteSet(ToSet(retired) \cup away)
      /\ Cardinality(ToSet(retired) \cup away) = Len(retired) + (own + sent + 1)
  <2>1. Cardinality({}) = 0 BY FS_EmptySet
  <2>2. Len(retired) \in Nat /\ own + sent + 1 \in Nat
        /\ Len(retired) + (own + sent + 1) - 0 = Len(retired) + (own + sent + 1)
    BY <1>1, LenProperties, SMT
  <2>3. ToSet(retired) \cap away = {} BY <1>2
  <2> HIDE DEF own, sent
  <2> QED BY <1>5, <1>7, <2>1, <2>2, <2>3, FS_Union
<1>9. Len(retired) + (own + sent + 1) <= allocated
  <2>1. ToSet(retired) \cup away \subseteq 1 .. allocated BY <1>6, <1>7
  <2>2. IsFiniteSet(1 .. allocated) /\ Cardinality(1 .. allocated) = allocated
    BY <1>1, FS_Interval, SMT
  <2> HIDE DEF own, sent
  <2> QED BY <1>8, <2>1, <2>2, FS_Subset
<1>10. unseen <= own + sent BY DEF LagInv, Null
<1>11. Len(retired) \in Nat BY <1>1, LenProperties
<1> QED BY <1>1, <1>9, <1>10, <1>11, SMT

(* No step loses a plan: each is in one place before and after it.         *)
LEMMA NoLossStep ==
  ASSUME IInv, NoPlanLost, LagInv, [Next]_vars
  PROVE  NoPlanLost'
<1> USE DEF Null, OwnSpare, Published, InUse, NoPlanLost
<1>1. CASE Build
  BY <1>1 DEF Plans, Build, environmentVars
<1>2. CASE BuildNothing
  BY <1>2 DEF Plans, BuildNothing, environmentVars
<1>3. CASE Publish
  BY <1>3 DEF IInv, TypeOK, Plans, Publish, environmentVars
<1>4. CASE Reuse
  <2>1. /\ Head(retired) \in ToSet(retired)
        /\ ToSet(Tail(retired)) = ToSet(retired) \ {Head(retired)}
    BY <1>4, ReuseTakes, TakeHead DEF IInv, TypeOK, PlansExclusive
  <2> QED BY <1>4, <2>1 DEF Plans, Reuse, environmentVars
<1>5. CASE Allocate
  <2>1. Plans' = Plans \cup {allocated + 1} /\ allocated <= allocated'
    <3>1. allocated \in Nat /\ allocated' = allocated + 1
      BY <1>5 DEF IInv, TypeOK, Allocate
    <3> QED BY <3>1, SMT DEF Plans
  <2>2. allocated' <= QueueCapacity => allocated <= QueueCapacity
    BY <1>5, PlanPoolAssumption, SMT DEF IInv, TypeOK, Allocate
  <2>3. ToSet(retired') = ToSet(retired) BY <1>5 DEF Allocate
  <2> QED BY <1>5, <2>1, <2>2, <2>3 DEF Allocate, environmentVars
<1>6. CASE Consume
  BY <1>6 DEF IInv, PcInv, Plans, Consume, schedulerVars
<1>7. CASE BeginRetire
  BY <1>7 DEF Plans, BeginRetire, schedulerVars
<1>8. CASE GiveBack
  <2> SUFFICES ASSUME allocated <= QueueCapacity
               PROVE  Plans' = (OwnSpare \cup Published \cup InUse \cup ToSet(retired))'
    BY <1>8 DEF GiveBack, schedulerVars
  <2>1. /\ held \in 1 .. allocated /\ held \notin ToSet(retired)
        /\ retired \in Seq(1 .. allocated) /\ IsInjective(retired)
        /\ allocated \in Nat
    BY <1>8 DEF IInv, TypeOK, PcInv, PlansExclusive, Plans, GiveBack
  <2>2. Len(retired) + unseen < allocated /\ Len(retired) \in Nat
    BY <1>8, QueueIsShort, LenProperties DEF GiveBack, IInv, TypeOK
  <2>3. retired' = Append(retired, held)
    <3>1. PICK lag \in 0 .. unseen :
            retired' = IF Len(retired) + lag < QueueCapacity
                       THEN Append(retired, held) ELSE retired
      BY <1>8 DEF GiveBack
    <3>2. unseen \in Nat /\ QueueCapacity \in Nat
      BY PlanPoolAssumption DEF IInv, TypeOK
    <3>3. Len(retired) + lag < QueueCapacity
      BY <2>1, <2>2, <3>2, SMT
    <3> QED BY <3>1, <3>3
  <2>4. ToSet(retired') = ToSet(retired) \cup {held}
    BY <2>1, <2>3, AddLast
  <2>5. held # 0 BY <2>1, SMT
  <2> QED BY <1>8, <2>4, <2>5 DEF Plans, GiveBack, schedulerVars
<1>9. CASE StoreEpoch
  BY <1>9 DEF Plans, StoreEpoch, schedulerVars
<1>10. CASE UNCHANGED vars
  BY <1>10 DEF Plans, vars, schedulerVars, environmentVars
<1>11. CASE ReadCommitted
  BY <1>11 DEF Plans, ReadCommitted, environmentVars
<1> QED
  BY <1>1, <1>2, <1>3, <1>4, <1>5, <1>6, <1>7, <1>8, <1>9, <1>10, <1>11
  DEF Next, Scheduler, Environment

(* What the environment may not have seen of the pops stays bounded: it    *)
(* sees those before the commit of a plan when it consumes the plan.       *)
LEMMA LagStep ==
  ASSUME IInv, LagInv, [Next]_vars
  PROVE  LagInv'
<1> USE DEF LagInv, Null
<1>0. unseen \in Nat /\ popped \in {0, 1} BY DEF IInv, TypeOK
<1>1. CASE Publish
  <2>1. spare # 0 BY PlanPoolAssumption, SMT DEF IInv, TypeOK, Plans
  <2> QED BY <1>0, <1>1, <2>1, SMT DEF Publish
<1>2. CASE Reuse BY <1>0, <1>2, SMT DEF Reuse
<1>3. CASE Allocate BY <1>0, <1>3, SMT DEF Allocate
<1>4. CASE Consume BY <1>0, <1>4, SMT DEF Consume, schedulerVars
<1>5. CASE GiveBack BY <1>0, <1>5, SMT DEF GiveBack, schedulerVars
<1>6. CASE Build \/ BuildNothing \/ ReadCommitted
  BY <1>0, <1>6, SMT DEF Build, BuildNothing, ReadCommitted
<1>7. CASE BeginRetire \/ StoreEpoch \/ UNCHANGED vars
  BY <1>7 DEF BeginRetire, StoreEpoch, vars, schedulerVars
<1> QED
  BY <1>1, <1>2, <1>3, <1>4, <1>5, <1>6, <1>7 DEF Next, Scheduler, Environment

(* No step takes the pool past its bound.                                  *)
LEMMA PoolStep ==
  ASSUME IInv, PoolInv, [Next]_vars
  PROVE  PoolInv'
<1> USE DEF PoolInv
<1>1. NoPlanLost' BY NoLossStep
<1>2. PoolBounded'
  <2>1. CASE Allocate
    <3>1. ~Gated BY <2>1, SMT DEF Allocate
    <3> QED BY <3>1 DEF PoolBounded
  <2>2. CASE ~Allocate
    <3>1. allocated' = allocated
      BY <2>2 DEF Next, Scheduler, Environment, vars, schedulerVars,
                  environmentVars, Build, BuildNothing, Publish, Reuse, ReadCommitted,
                  Consume, BeginRetire, GiveBack, StoreEpoch
    <3> QED BY <3>1 DEF PoolBounded
  <2> QED BY <2>1, <2>2
<1>3. LagInv' BY LagStep
<1>4. (Gated /\ commit_pc \in {"built", "exchanged"} => known > 0)'
  <2> SUFFICES ASSUME Gated, commit_pc' \in {"built", "exchanged"}
               PROVE  known' > 0
    OBVIOUS
  <2>1. CASE Build
    <3>1. /\ commit_pc = "idle" /\ known' = Len(retired) /\ completed >= epoch
      BY <2>1 DEF Build, Known, MayCommit
    <3>2. published = 0 /\ executing = 0
      BY <3>1, SMT DEF IInv, TypeOK, OrderInv, LastPublished, Null
    <3>3. held = 0 BY <3>2 DEF IInv, PcInv, Null
    <3>4. 1 .. allocated = {spare} \cup ToSet(retired)
      BY <3>1, <3>2, <3>3, PlanPoolAssumption
      DEF PoolBounded, NoPlanLost, Plans, OwnSpare, Published, InUse, Null
    <3>5. 1 \in 1 .. allocated /\ 2 \in 1 .. allocated /\ 1 # 2
      BY PlanPoolAssumption, SMT DEF PoolBounded
    <3>6. ToSet(retired) # {} BY <3>4, <3>5
    <3>7. retired # << >> BY <3>6 DEF ToSet
    <3>8. Len(retired) \in Nat BY LenProperties DEF IInv, TypeOK
    <3>9. retired \in Seq(Plans) BY DEF IInv, TypeOK
    <3>10. Len(retired) # 0 BY <3>7, <3>9, EmptySeq
    <3> QED BY <3>1, <3>8, <3>10, SMT
  <2>2. CASE ~Build
    <3>1. commit_pc \in {"built", "exchanged"} /\ known' = known
      BY <2>2 DEF Next, Scheduler, Environment, vars, schedulerVars, BuildNothing,
                  Publish, Reuse, Allocate, ReadCommitted, Consume, BeginRetire,
                  GiveBack, StoreEpoch
    <3> QED BY <3>1
  <2> QED BY <2>1, <2>2
<1> QED BY <1>1, <1>2, <1>3, <1>4
-----------------------------------------------------------------------------
(* The inductive invariant holds at the start;                             *)
LEMMA InitInv == Init => IInv /\ PoolInv
<1> SUFFICES ASSUME Init PROVE IInv /\ PoolInv
  OBVIOUS
<1> USE PlanPoolAssumption DEF Init, Null, Plans
<1>1. 1 \in 1 .. allocated /\ PoolSize - 1 \in Nat /\ PoolSize - 1 >= 1
  BY SMT
<1>2. \A i \in 1 .. PoolSize - 1 : i + 1 \in 2 .. PoolSize
  BY <1>1, SMT
<1>3. \A p \in 2 .. PoolSize : p - 1 \in 1 .. PoolSize - 1 /\ p = p - 1 + 1
  BY <1>1, SMT
<1>4. DOMAIN retired = 1 .. PoolSize - 1
  OBVIOUS
<1>5. \A i \in 1 .. PoolSize - 1 : retired[i] = i + 1
  OBVIOUS
<1>6. ToSet(retired) = 2 .. PoolSize
  BY <1>2, <1>3, <1>4, <1>5 DEF ToSet
<1>7. IsInjective(retired)
  <2> SUFFICES ASSUME NEW i \in 1 .. PoolSize - 1, NEW j \in 1 .. PoolSize - 1,
                      i + 1 = j + 1
               PROVE  i = j
    BY <1>4, <1>5 DEF IsInjective
  <2> QED BY <1>1, SMT
<1>8. 2 .. PoolSize \subseteq 1 .. allocated /\ 1 \notin 2 .. PoolSize
  BY SMT
<1>9. retired \in Seq(1 .. allocated)
  <2>1. retired \in [1 .. PoolSize - 1 -> 1 .. allocated]
    BY <1>2, <1>8
  <2> QED BY <1>1, <2>1, SeqDef
<1>10. TypeOK
  <2>1. Len(retired) = PoolSize - 1 BY <1>1, <1>4, <1>9, LenProperties
  <2> QED BY <1>1, <1>9, <2>1, SMT DEF TypeOK
<1>11. PlansExclusive
  BY <1>6, <1>7, <1>8 DEF PlansExclusive, OwnSpare, Published, InUse
<1>12. ExecutedIsStable /\ PcInv /\ OrderInv
  BY SMT DEF ExecutedIsStable, PcInv, OrderInv, LastPublished
<1>13. NoPlanLost
  <2>1. 1 .. PoolSize = {1} \cup (2 .. PoolSize) BY SMT
  <2> QED BY <1>6, <2>1 DEF NoPlanLost, OwnSpare, Published, InUse
<1>14. PoolBounded /\ LagInv BY SMT DEF PoolBounded, LagInv
<1> QED BY <1>10, <1>11, <1>12, <1>13, <1>14, SMT DEF IInv, PoolInv

(* every step keeps it;                                                    *)
LEMMA NextInv == IInv /\ PoolInv /\ [Next]_vars => IInv' /\ PoolInv'
<1> SUFFICES ASSUME IInv, PoolInv, [Next]_vars PROVE IInv' /\ PoolInv'
  OBVIOUS
<1>1. TypeOK' BY TypeStep DEF IInv
<1>2. PlansExclusive' BY ExclusiveStep DEF IInv
<1>3. ExecutedIsStable' BY StableStep
<1>4. PcInv' BY PcStep
<1>5. OrderInv' BY OrderStep
<1>6. PoolInv' BY PoolStep
<1>7. PoolSize <= allocated'
  <2>1. allocated' = allocated \/ allocated' = allocated + 1
    BY DEF Next, Scheduler, Environment, vars, schedulerVars, environmentVars,
           Build, BuildNothing, Publish, Reuse, Allocate, ReadCommitted, Consume,
           BeginRetire, GiveBack, StoreEpoch
  <2> QED BY <2>1, PlanPoolAssumption, SMT DEF IInv, TypeOK
<1> QED BY <1>1, <1>2, <1>3, <1>4, <1>5, <1>6, <1>7 DEF IInv

(* so it always holds.                                                     *)
LEMMA Invariance == Spec => [](IInv /\ PoolInv)
<1>1. Init => IInv /\ PoolInv BY InitInv
<1>2. IInv /\ PoolInv /\ [Next]_vars => IInv' /\ PoolInv' BY NextInv
<1> QED BY <1>1, <1>2, PTL DEF Spec

(* Type correctness.                                                       *)
THEOREM TypeCorrect == Spec => []TypeOK
<1>1. IInv => TypeOK BY DEF IInv
<1> QED BY <1>1, Invariance, PTL

(* At every step of begin, commit, consume_plan and retire_plan, a plan    *)
(* buffer is in one hand only (handoff.hpp:79-103, 120-122, 154-160).      *)
THEOREM PlansAreExclusive == Spec => []PlansExclusive
<1>1. IInv => PlansExclusive BY DEF IInv
<1> QED BY <1>1, Invariance, PTL

(* Nothing writes to the plan being executed, so the epoch retire_plan     *)
(* stores is the one that was executed (handoff.hpp:155-158), nor to the   *)
(* one run_once still reads after its commit (scheduler.cpp:207-225).      *)
THEOREM ExecutionIsStable == Spec => []ExecutedIsStable
<1>1. IInv => ExecutedIsStable BY DEF IInv
<1> QED BY <1>1, Invariance, PTL

(* The push whose result retire_plan discards never fails as long as the   *)
(* queue can hold the pool (handoff.hpp:157), however stale the read index *)
(* it goes by.                                                             *)
THEOREM NoPlanIsLost == Spec => []NoPlanLost
<1>1. PoolInv => NoPlanLost BY DEF PoolInv
<1> QED BY <1>1, Invariance, PTL

(* The pool of a caller that waits for the completed epoch never grows     *)
(* (handoff.hpp:93-101, 245-250; scheduler.cpp:136).                       *)
THEOREM PoolIsBounded == Spec => []PoolBounded
<1>1. PoolInv => PoolBounded BY DEF PoolInv
<1> QED BY <1>1, Invariance, PTL
-----------------------------------------------------------------------------
(* Every step of the pool is a step of the slot or changes nothing of it.  *)
LEMMA SlotStep == IInv /\ [Next]_vars =>
  [Slot!Next]_<<LastPublished, IF published = Null THEN 0 ELSE content[published],
                executing, completed>>
<1> SUFFICES ASSUME IInv, [Next]_vars
             PROVE  \/ Slot!Next
                    \/ /\ LastPublished' = LastPublished
                       /\ (IF published = Null THEN 0 ELSE content[published])' =
                            IF published = Null THEN 0 ELSE content[published]
                       /\ executing' = executing /\ completed' = completed
  OBVIOUS
<1> USE DEF Null, LastPublished, Slot!Next
<1>1. CASE Build
  <2>1. spare # published BY <1>1, SpareIsFree DEF IInv, Build
  <2>2. epoch' - 1 = epoch BY <1>1, SMT DEF IInv, TypeOK, Build
  <2> QED BY <1>1, <2>1, <2>2 DEF IInv, TypeOK, Build, environmentVars
<1>2. CASE BuildNothing
  <2>1. spare # published BY <1>2, SpareIsFree DEF IInv, BuildNothing
  <2> QED BY <1>2, <2>1 DEF IInv, TypeOK, BuildNothing, environmentVars
<1>3. CASE Publish
  <2>1. /\ commit_pc = "built" /\ published' = spare /\ spare # 0
        /\ content[spare] = epoch /\ content' = content /\ epoch' = epoch
        /\ commit_pc' # "built" /\ epoch - 1 + 1 = epoch
        /\ executing' = executing /\ completed' = completed
        /\ Gated => completed >= epoch - 1
    BY <1>3, SMT DEF IInv, TypeOK, Plans, PcInv, Publish, environmentVars
  <2> QED BY <2>1 DEF Slot!Publish
<1>4. CASE Reuse
  BY <1>4 DEF Reuse, environmentVars
<1>5. CASE Allocate
  BY <1>5, AllocateKeeps DEF IInv, TypeOK, Allocate, environmentVars
<1>6. CASE Consume
  BY <1>6, SMT DEF IInv, TypeOK, PcInv, OrderInv, Consume, schedulerVars, Slot!Take
<1>7. CASE BeginRetire
  BY <1>7 DEF BeginRetire, schedulerVars
<1>8. CASE GiveBack
  BY <1>8 DEF GiveBack, schedulerVars
<1>9. CASE StoreEpoch
  BY <1>9 DEF IInv, PcInv, ExecutedIsStable, StoreEpoch, schedulerVars, Slot!Retire
<1>10. CASE UNCHANGED vars
  BY <1>10 DEF vars, schedulerVars, environmentVars
<1>11. CASE ReadCommitted
  BY <1>11 DEF ReadCommitted, environmentVars
<1> QED
  BY <1>1, <1>2, <1>3, <1>4, <1>5, <1>6, <1>7, <1>8, <1>9, <1>10, <1>11
  DEF Next, Scheduler, Environment

(* The buffers implement a slot that keeps the newest plan and hands each  *)
(* to the environment at most once, as it was published.                   *)
THEOREM PoolImplementsSlot == Spec => ImplementsSlot
<1>1. Init => Slot!Init
  BY SMT DEF Init, Slot!Init, LastPublished, Null
<1>2. IInv /\ [Next]_vars =>
        [Slot!Next]_<<LastPublished, IF published = Null THEN 0 ELSE content[published],
                      executing, completed>>
  BY SlotStep
<1> QED BY <1>1, <1>2, Invariance, PTL DEF Spec, ImplementsSlot, Slot!Spec
=============================================================================
