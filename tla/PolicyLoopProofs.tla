-------------------------- MODULE PolicyLoopProofs --------------------------
(***************************************************************************)
(* Proofs about the policies' loop of PolicyLoop.tla, for any workload,    *)
(* budget, window and hardware.                                            *)
(***************************************************************************)
EXTENDS PolicyLoop, SequenceLemmas

States ==
  [stage : {"PendingAdmission", "Prefill", "Decode", "PendingRelease"},
   prompt_length : Nat, output : Nat, prefill_position : Nat,
   decoded_count : Nat, cached_prefix_tokens : Nat,
   bypasses : Nat, waited : Nat, watched : BOOLEAN]

(* A request in its stage: one that waits has not begun, and one that may  *)
(* be scheduled has something left to do.                                  *)
Sensible(q) ==
  /\ \E s \in Shapes : q.prompt_length = s.prompt /\ q.output = s.output
  /\ q.prefill_position <= q.prompt_length /\ q.decoded_count <= q.output
  /\ q.stage = "PendingAdmission" => q.decoded_count = 0 /\ q.bypasses = 0
  /\ q.stage = "Prefill" => q.decoded_count = 0 /\ q.prefill_position < q.prompt_length
  /\ q.stage = "Decode" => q.decoded_count > 0 /\ q.decoded_count < q.output

LoopInv == TypeOK /\ \A i \in DOMAIN requests : Sensible(requests[i])
-----------------------------------------------------------------------------
(* The larger of two numbers, and the least and the largest of a few.      *)
LEMMA MaxTwo ==
  ASSUME NEW a \in Int, NEW b \in Int
  PROVE  Max({a, b}) = IF a >= b THEN a ELSE b
<1>1. \E x \in {a, b} : \A y \in {a, b} : x >= y BY SMT
<1>2. Max({a, b}) \in {a, b} /\ \A y \in {a, b} : Max({a, b}) >= y
  BY <1>1 DEF Max
<1> HIDE DEF Max
<1> QED BY <1>2, SMT

LEMMA LeastOf ==
  ASSUME NEW a \in Int, NEW b \in Int, NEW c \in Int, NEW d \in Int
  PROVE  LET m == Min({a, b, c, d})
         IN  m \in {a, b, c, d} /\ m <= a /\ m <= b /\ m <= c /\ m <= d
<1> DEFINE S == {a, b, c, d}
<1>1. \E x \in S : \A y \in S : x <= y
  <2>1. \A x, y \in S : x <= y \/ y <= x BY SMT
  <2>2. \A x, y, z \in S : x <= y /\ y <= z => x <= z BY SMT
  <2> QED BY <2>1, <2>2
<1>2. Min(S) \in S /\ \A y \in S : Min(S) <= y BY <1>1 DEF Min
<1> QED BY <1>2

LEMMA LargestOf ==
  ASSUME NEW n \in Nat, NEW S \in SUBSET (1 .. n), S # {}
  PROVE  Max(S) \in S
<1> DEFINE T == {n - s : s \in S}
<1>1. T \subseteq Nat /\ T # {}
  <2>1. \A s \in S : s \in 1 .. n OBVIOUS
  <2>2. \A s \in S : n - s \in Nat BY <2>1, SMT
  <2> QED BY <2>2
<1>2. PICK t \in T : \A u \in T : t <= u BY <1>1, LeastNumber
<1>3. PICK x \in S : t = n - x OBVIOUS
<1>4. \A y \in S : n - x <= n - y BY <1>2, <1>3
<1>5. \A y \in S : x >= y BY <1>4, SMT
<1> QED BY <1>5 DEF Max
-----------------------------------------------------------------------------
(* The memory that the requests take.                                      *)
IsSum(f, list, states, n) ==
  f = [i \in 0 .. n |-> IF i = 0 THEN 0 ELSE f[i - 1] + Resident(states[list[i]])]

LEMMA SumExists ==
  ASSUME NEW list, NEW states, NEW n \in Nat
  PROVE  \E f : IsSum(f, list, states, n)
<1> DEFINE P == {m \in Nat : \E f : IsSum(f, list, states, m)}
           R(i) == Resident(states[list[i]])
<1>1. 0 \in P
  <2>1. IsSum([i \in 0 .. 0 |-> 0], list, states, 0) BY SMT DEF IsSum
  <2> QED BY <2>1
<1>2. ASSUME NEW m \in Nat, m \in P PROVE m + 1 \in P
  <2>1. PICK f : IsSum(f, list, states, m) BY <1>2
  <2> DEFINE g == [i \in 0 .. m + 1 |-> IF i = m + 1 THEN f[m] + R(m + 1) ELSE f[i]]
  <2>2. \A i \in 0 .. m : f[i] = IF i = 0 THEN 0 ELSE f[i - 1] + R(i)
    BY <2>1, Zenon DEF IsSum
  <2> HIDE DEF R
  <2>3. \A i \in 0 .. m + 1 : g[i] = IF i = 0 THEN 0 ELSE g[i - 1] + R(i)
    <3> SUFFICES ASSUME NEW i \in 0 .. m + 1
                 PROVE  g[i] = IF i = 0 THEN 0 ELSE g[i - 1] + R(i)
      OBVIOUS
    <3>1. CASE i = m + 1
      <4>1. i # 0 /\ i - 1 = m /\ m \in 0 .. m + 1 /\ m # m + 1 BY <3>1, SMT
      <4>2. g[i] = f[m] + R(m + 1) /\ g[i - 1] = f[m] BY <3>1, <4>1
      <4> HIDE DEF g
      <4> QED BY <3>1, <4>1, <4>2
    <3>2. CASE i # m + 1
      <4>1. i \in 0 .. m /\ g[i] = f[i] BY <3>2, SMT
      <4>2. i # 0 => i - 1 \in 0 .. m + 1 /\ i - 1 # m + 1 BY <3>2, SMT
      <4>3. i # 0 => g[i - 1] = f[i - 1] BY <4>2
      <4> HIDE DEF g
      <4> QED BY <2>2, <4>1, <4>3
    <3> QED BY <3>1, <3>2
  <2>4. IsSum(g, list, states, m + 1)
    <3>1. DOMAIN g = 0 .. m + 1 /\ g = [i \in 0 .. m + 1 |-> g[i]] OBVIOUS
    <3> HIDE DEF g
    <3> QED BY <2>3, <3>1, Zenon DEF IsSum, R
  <2>5. m + 1 \in Nat BY SMT
  <2> QED BY <2>4, <2>5
<1> HIDE DEF P
<1>3. n \in P BY <1>1, <1>2, Induction
<1> QED BY <1>3 DEF P

(* The memory of n requests, one of which takes none: at most n - 1 times  *)
(* what one may take.                                                      *)
LEMMA ResidentBound ==
  ASSUME NEW T, NEW list \in Seq(T), NEW states, NEW most \in Nat, NEW z \in Nat,
         \A i \in DOMAIN list : Resident(states[list[i]]) \in Nat
  PROVE  /\ ResidentTokens(list, states) \in Nat
         /\ /\ z \in DOMAIN list /\ Resident(states[list[z]]) = 0
            /\ \A i \in DOMAIN list : Resident(states[list[i]]) <= most
            => ResidentTokens(list, states) <= (Len(list) - 1) * most
<1> DEFINE n == Len(list)
           f == CHOOSE g : IsSum(g, list, states, n)
           R(i) == Resident(states[list[i]])
           Small == /\ z \in DOMAIN list /\ R(z) = 0
                    /\ \A i \in DOMAIN list : R(i) <= most
           others(m) == IF z <= m THEN m - 1 ELSE m
<1>0. n \in Nat /\ DOMAIN list = 1 .. n BY LenProperties
<1>1. IsSum(f, list, states, n) BY <1>0, SumExists
<1>2. ResidentTokens(list, states) = f[n] BY DEF ResidentTokens, IsSum
<1> HIDE DEF f, n
<1>3. 0 \in 0 .. n /\ \A i \in 1 .. n : i \in 0 .. n /\ i # 0 BY <1>0, SMT
<1>4. f[0] = 0 BY <1>1, <1>3, Zenon DEF IsSum
<1>5. \A i \in 1 .. n : f[i] = f[i - 1] + R(i)
  BY <1>1, <1>3, Zenon DEF IsSum, R
<1>6. /\ \A i \in 1 .. n : R(i) \in Nat /\ (Small => R(i) <= most)
      /\ Small => z \in 1 .. n /\ R(z) = 0
  BY <1>0
<1> HIDE DEF R, Small
<1> DEFINE P == {m \in Nat : m <= n => f[m] \in Nat /\ (Small => f[m] <= others(m) * most)}
<1>7. 0 \in P
  <2>1. Small => others(0) = 0 BY <1>0, <1>6, SMT
  <2>2. 0 * most = 0 /\ 0 \in Nat /\ 0 <= 0 BY SMT
  <2> HIDE DEF others
  <2> QED BY <1>4, <2>1, <2>2
<1>8. ASSUME NEW m \in Nat, m \in P PROVE m + 1 \in P
  <2> SUFFICES ASSUME m + 1 <= n
               PROVE  f[m + 1] \in Nat /\ (Small => f[m + 1] <= others(m + 1) * most)
    BY SMT
  <2>1. m <= n /\ m + 1 \in 1 .. n /\ (m + 1) - 1 = m BY <1>0, SMT
  <2>2. f[m] \in Nat /\ (Small => f[m] <= others(m) * most) BY <1>8, <2>1
  <2>3. f[m + 1] = f[m] + R(m + 1) BY <1>5, <2>1
  <2>4. R(m + 1) \in Nat /\ (Small => R(m + 1) <= most) BY <1>6, <2>1
  <2>5. /\ others(m) \in Int /\ others(m) * most \in Int
        /\ m + 1 = z => others(m + 1) = others(m)
        /\ m + 1 # z => others(m + 1) * most = others(m) * most + most
    <3>1. others(m) \in Int BY SMT
    <3>2. m + 1 = z => others(m + 1) = others(m) BY SMT
    <3>3. m + 1 # z => others(m + 1) = others(m) + 1 BY SMT
    <3> HIDE DEF others
    <3>4. others(m) * most \in Int /\ (others(m) + 1) * most = others(m) * most + most
      BY <3>1, SMT
    <3> QED BY <3>1, <3>2, <3>3, <3>4
  <2>6. f[m + 1] \in Nat BY <2>2, <2>3, <2>4, SMT
  <2>7. ASSUME Small PROVE f[m + 1] <= others(m + 1) * most
    <3> HIDE DEF others
    <3>1. CASE m + 1 = z
      <4>1. R(m + 1) = 0 BY <1>6, <2>7, <3>1
      <4> QED BY <2>2, <2>3, <2>5, <2>7, <3>1, <4>1, SMT
    <3>2. CASE m + 1 # z BY <2>2, <2>3, <2>4, <2>5, <2>7, <3>2, SMT
    <3> QED BY <3>1, <3>2
  <2> QED BY <2>6, <2>7
<1> HIDE DEF P
<1>9. n \in P BY <1>0, <1>7, <1>8, Induction
<1>10. n <= n BY <1>0, SMT
<1>11. Small => others(n) = n - 1 BY <1>0, <1>6, SMT
<1> HIDE DEF others
<1>12. f[n] \in Nat /\ (Small => f[n] <= (n - 1) * most)
  BY <1>9, <1>10, <1>11 DEF P
<1> QED BY <1>2, <1>12 DEF n, Small, R
-----------------------------------------------------------------------------
(* The tokens of a batch of items of at most a token each.                 *)
LEMMA SmallItems ==
  ASSUME NEW p, NEW m \in Nat, Len(p) = m,
         \A i \in 1 .. m : /\ p[i].begin \in Nat /\ p[i].end \in Nat
                           /\ p[i].end - p[i].begin <= 1
  PROVE  Cost(p) \in Int /\ Cost(p) <= m
<1> DEFINE t == CHOOSE g : IsTally(g, p, m)
<1>1. IsTally(t, p, m) BY TallyExists
<1>2. Cost(p) = t[m] BY DEF Cost, Tally, IsTally
<1> HIDE DEF t
<1>3. t[0] = 0 /\ \A i \in 1 .. m : t[i] = t[i - 1] + (p[i].end - p[i].begin)
  <2>1. 0 \in 0 .. m /\ \A i \in 1 .. m : i \in 0 .. m /\ i # 0 BY SMT
  <2> QED BY <1>1, <2>1, Zenon DEF IsTally
<1> DEFINE P == {k \in Nat : k <= m => t[k] \in Int /\ t[k] <= k}
<1>4. 0 \in P BY <1>3, SMT
<1>5. ASSUME NEW k \in Nat, k \in P PROVE k + 1 \in P
  <2> SUFFICES ASSUME k + 1 <= m PROVE t[k + 1] \in Int /\ t[k + 1] <= k + 1
    BY SMT
  <2>1. k <= m /\ k + 1 \in 1 .. m /\ (k + 1) - 1 = k BY SMT
  <2>2. t[k] \in Int /\ t[k] <= k BY <1>5, <2>1
  <2>3. t[k + 1] = t[k] + (p[k + 1].end - p[k + 1].begin) BY <1>3, <2>1
  <2>4. /\ p[k + 1].begin \in Nat /\ p[k + 1].end \in Nat
        /\ p[k + 1].end - p[k + 1].begin <= 1
    BY <2>1
  <2> QED BY <2>2, <2>3, <2>4, SMT
<1> HIDE DEF P
<1>6. m \in P BY <1>4, <1>5, Induction
<1>7. m <= m BY SMT
<1> QED BY <1>2, <1>6, <1>7 DEF P

(* The function inside PrefillBatch: what is left for each prefill.        *)
Chunk(q) == Least(MaxPrefillChunk, q.prompt_length - q.prefill_position)

IsRest(f, order, states, spare, n) ==
  f = [i \in 1 .. n |->
         IF i = 1 THEN Least(PrefillWindow, spare)
         ELSE f[i - 1] - Least(Chunk(states[order[i - 1]]), f[i - 1])]

LEMMA RestExists ==
  ASSUME NEW order, NEW states, NEW spare, NEW n \in Nat
  PROVE  \E f : IsRest(f, order, states, spare, n)
<1> DEFINE P == {m \in Nat : \E f : IsRest(f, order, states, spare, m)}
           D(i, x) == Least(Chunk(states[order[i]]), x)
           start == Least(PrefillWindow, spare)
<1>1. 0 \in P
  <2>1. IsRest([i \in 1 .. 0 |-> 0], order, states, spare, 0) BY SMT DEF IsRest
  <2> QED BY <2>1
<1>2. ASSUME NEW m \in Nat, m \in P PROVE m + 1 \in P
  <2>1. PICK f : IsRest(f, order, states, spare, m) BY <1>2
  <2> DEFINE next == IF m = 0 THEN start ELSE f[m] - D(m, f[m])
             g == [i \in 1 .. m + 1 |-> IF i = m + 1 THEN next ELSE f[i]]
  <2>2. \A i \in 1 .. m : f[i] = IF i = 1 THEN start ELSE f[i - 1] - D(i - 1, f[i - 1])
    BY <2>1, Zenon DEF IsRest
  <2> HIDE DEF D, start
  <2>3. \A i \in 1 .. m + 1 :
          g[i] = IF i = 1 THEN start ELSE g[i - 1] - D(i - 1, g[i - 1])
    <3> SUFFICES ASSUME NEW i \in 1 .. m + 1
                 PROVE  g[i] = IF i = 1 THEN start ELSE g[i - 1] - D(i - 1, g[i - 1])
      OBVIOUS
    <3>1. CASE i = m + 1
      <4>1. (i = 1 <=> m = 0) /\ i - 1 = m /\ (m # 0 => m \in 1 .. m + 1) /\ m # m + 1
        BY <3>1, SMT
      <4>2. g[i] = next /\ (m # 0 => g[i - 1] = f[m]) BY <3>1, <4>1
      <4> HIDE DEF g
      <4> QED BY <4>1, <4>2
    <3>2. CASE i # m + 1
      <4>1. i \in 1 .. m /\ g[i] = f[i] BY <3>2, SMT
      <4>2. i # 1 => i - 1 \in 1 .. m + 1 /\ i - 1 # m + 1 BY <3>2, SMT
      <4>3. i # 1 => g[i - 1] = f[i - 1] BY <4>2
      <4> HIDE DEF g
      <4> QED BY <2>2, <4>1, <4>3
    <3> QED BY <3>1, <3>2
  <2>4. IsRest(g, order, states, spare, m + 1)
    <3>1. DOMAIN g = 1 .. m + 1 /\ g = [i \in 1 .. m + 1 |-> g[i]] OBVIOUS
    <3> HIDE DEF g
    <3> QED BY <2>3, <3>1, Zenon DEF IsRest, D, start
  <2>5. m + 1 \in Nat BY SMT
  <2> QED BY <2>4, <2>5
<1> HIDE DEF P
<1>3. n \in P BY <1>1, <1>2, Induction
<1> QED BY <1>3 DEF P

(* A batch of prefills serves the first ones, fits, and serves one at      *)
(* least if anything fits at all.                                          *)
LEMMA PrefillPrefix ==
  ASSUME NEW T, NEW order \in Seq(T), NEW states, NEW spare \in Nat,
         \A r \in ToSet(order) : /\ HasWork(states[r]) /\ Countable(states[r])
                                 /\ states[r].stage = "Prefill",
         NEW p, p = PrefillBatch(order, states, spare)
  PROVE  \E m \in 0 .. Len(order) :
           /\ m <= MaxSequences
           /\ order # << >> /\ spare > 0 => m > 0
           /\ Cost(p) <= spare
           /\ \E c \in [1 .. m -> Nat \ {0}] :
                p = [i \in 1 .. m |-> WorkFor(order[i], states[order[i]], c[i])]
<1> DEFINE n == Len(order)
           q(i) == states[order[i]]
           f == CHOOSE g : IsRest(g, order, states, spare, n + 1)
           last == Least(n, MaxSequences)
<1>0. /\ MaxSequences \in Nat /\ MaxSequences > 0
      /\ PrefillWindow \in Nat /\ PrefillWindow > 0
      /\ MaxPrefillChunk \in Nat /\ MaxPrefillChunk > 0
  BY ResourcesAssumption, AIMDAssumption, SMT
<1>1. /\ n \in Nat /\ n + 1 \in Nat /\ DOMAIN order = 1 .. n
      /\ \A i \in 1 .. n : /\ HasWork(q(i)) /\ Countable(q(i))
                           /\ q(i).stage = "Prefill"
  <2>1. n \in Nat /\ DOMAIN order = 1 .. n BY LenProperties
  <2>2. \A i \in 1 .. n : order[i] \in ToSet(order) BY <2>1 DEF ToSet
  <2>3. n + 1 \in Nat BY <2>1, SMT
  <2> QED BY <2>1, <2>2, <2>3
<1>2. IsRest(f, order, states, spare, n + 1) BY <1>1, RestExists
<1>3. p = [i \in {j \in 1 .. last : f[j] > 0} |->
             WorkFor(order[i], states[order[i]], Least(MaxPrefillChunk, f[i]))]
  BY DEF PrefillBatch, IsRest, Chunk
<1>4. \A i \in 1 .. n : Chunk(q(i)) \in Nat /\ Chunk(q(i)) > 0
                        /\ Chunk(q(i)) = Least(MaxPrefillChunk, Demand(q(i)))
  <2> SUFFICES ASSUME NEW i \in 1 .. n
               PROVE  /\ Chunk(q(i)) \in Nat /\ Chunk(q(i)) > 0
                      /\ Chunk(q(i)) = Least(MaxPrefillChunk, Demand(q(i)))
    OBVIOUS
  <2>1. HasWork(q(i)) /\ Countable(q(i)) /\ q(i).stage = "Prefill" BY <1>1
  <2>2. Demand(q(i)) = q(i).prompt_length - q(i).prefill_position BY <2>1 DEF Demand
  <2>3. Demand(q(i)) \in Nat /\ Demand(q(i)) > 0
    <3>1. 1 \in Nat /\ 1 > 0 BY SMT
    <3> QED BY <2>1, <3>1, WorkCost
  <2>4. Chunk(q(i)) = Least(MaxPrefillChunk, Demand(q(i))) BY <2>2 DEF Chunk
  <2> HIDE DEF q
  <2> QED BY <1>0, <2>3, <2>4, SMT DEF Least
<1> HIDE DEF f
<1>5. /\ f[1] = Least(PrefillWindow, spare)
      /\ \A i \in 1 .. n : f[i + 1] = f[i] - Least(Chunk(q(i)), f[i])
  <2>1. 1 \in 1 .. n + 1 BY <1>1, SMT
  <2>2. \A i \in 1 .. n : i + 1 \in 1 .. n + 1 /\ i + 1 # 1 /\ (i + 1) - 1 = i
    BY <1>1, SMT
  <2> QED BY <1>2, <2>1, <2>2, Zenon DEF IsRest
<1> HIDE DEF q, last, n
<1>6. f[1] \in Nat /\ f[1] <= spare /\ (spare > 0 => f[1] > 0)
  BY <1>0, <1>5, SMT DEF Least
<1>7. \A i \in 1 .. n : f[i] \in Nat => f[i + 1] \in Nat /\ (f[i] = 0 => f[i + 1] = 0)
  <2> SUFFICES ASSUME NEW i \in 1 .. n, f[i] \in Nat
               PROVE  f[i + 1] \in Nat /\ (f[i] = 0 => f[i + 1] = 0)
    OBVIOUS
  <2>1. f[i + 1] = f[i] - Least(Chunk(q(i)), f[i]) BY <1>5
  <2>2. Chunk(q(i)) \in Nat BY <1>4
  <2> QED BY <2>1, <2>2, SMT DEF Least
<1>8. \A i \in 1 .. n + 1 : f[i] \in Nat
  <2> DEFINE P == {k \in Nat : k <= n => f[k + 1] \in Nat}
  <2>1. 0 \in P
    <3>1. 0 + 1 = 1 BY SMT
    <3> QED BY <1>6, <3>1
  <2>2. ASSUME NEW k \in Nat, k \in P PROVE k + 1 \in P
    <3> SUFFICES ASSUME k + 1 <= n PROVE f[(k + 1) + 1] \in Nat
      BY SMT
    <3>1. k <= n /\ k + 1 \in 1 .. n BY <1>1, SMT
    <3>2. f[k + 1] \in Nat BY <2>2, <3>1
    <3> QED BY <1>7, <3>1, <3>2
  <2> HIDE DEF P
  <2>3. \A k \in Nat : k \in P BY <2>1, <2>2, Induction
  <2>4. \A i \in 1 .. n + 1 : i - 1 \in Nat /\ i - 1 <= n /\ (i - 1) + 1 = i
    BY <1>1, SMT
  <2> QED BY <2>3, <2>4 DEF P
<1>9. last \in Nat /\ last <= n /\ last <= MaxSequences /\ (n > 0 => last > 0)
  BY <1>0, <1>1, SMT DEF Least, last
<1>10. PICK m \in 0 .. last : /\ {j \in 1 .. last : f[j] > 0} = 1 .. m
                              /\ last > 0 /\ spare > 0 => m > 0
  <2> DEFINE P == {k \in Nat : k <= last => \E m \in 0 .. k :
                     /\ {j \in 1 .. k : f[j] > 0} = 1 .. m
                     /\ k > 0 /\ spare > 0 => m > 0
                     /\ m < k => f[k] = 0}
  <2>1. 0 \in P
    <3>1. {j \in 1 .. 0 : f[j] > 0} = 1 .. 0 /\ 0 \in 0 .. 0 /\ ~(0 > 0) /\ ~(0 < 0) BY SMT
    <3> QED BY <3>1
  <2>2. ASSUME NEW k \in Nat, k \in P PROVE k + 1 \in P
    <3> SUFFICES ASSUME k + 1 <= last
                 PROVE  \E m \in 0 .. k + 1 :
                          /\ {j \in 1 .. k + 1 : f[j] > 0} = 1 .. m
                          /\ k + 1 > 0 /\ spare > 0 => m > 0
                          /\ m < k + 1 => f[k + 1] = 0
      BY SMT
    <3>1. PICK m \in 0 .. k : /\ {j \in 1 .. k : f[j] > 0} = 1 .. m
                              /\ k > 0 /\ spare > 0 => m > 0
                              /\ m < k => f[k] = 0
      <4>1. k <= last BY <1>9, SMT
      <4> QED BY <2>2, <4>1
    <3>2. f[k + 1] \in Nat
      <4>1. k + 1 \in 1 .. n + 1 BY <1>1, <1>9, SMT
      <4> QED BY <1>8, <4>1
    <3>3. 1 .. k + 1 = (1 .. k) \cup {k + 1} BY SMT
    <3>4. k > 0 /\ f[k] = 0 => f[k + 1] = 0
      <4>1. k > 0 => k \in 1 .. n BY <1>1, <1>9, SMT
      <4>2. 0 \in Nat BY SMT
      <4> QED BY <1>7, <4>1, <4>2
    <3>5. CASE f[k + 1] > 0
      <4>1. m = k
        <5>1. SUFFICES ASSUME m < k PROVE FALSE BY SMT
        <5>2. k > 0 BY <5>1, SMT
        <5>3. f[k + 1] = 0 BY <3>1, <3>4, <5>1, <5>2
        <5> QED BY <3>5, <5>3, SMT
      <4>2. {j \in 1 .. k + 1 : f[j] > 0} = 1 .. k + 1 BY <3>1, <3>3, <3>5, <4>1
      <4>3. k + 1 \in 0 .. k + 1 /\ ~(k + 1 < k + 1) /\ k + 1 > 0 BY SMT
      <4> QED BY <4>2, <4>3
    <3>6. CASE ~(f[k + 1] > 0)
      <4>1. {j \in 1 .. k + 1 : f[j] > 0} = 1 .. m BY <3>1, <3>3, <3>6
      <4>2. m \in 0 .. k + 1 /\ f[k + 1] = 0 BY <3>2, <3>6, SMT
      <4>3. spare > 0 => m > 0
        <5>1. CASE k = 0
          <6>1. k + 1 = 1 BY <5>1, SMT
          <6> QED BY <1>6, <3>6, <6>1
        <5>2. CASE k # 0
          <6>1. k > 0 BY <5>2, SMT
          <6> QED BY <3>1, <6>1
        <5> QED BY <5>1, <5>2
      <4> QED BY <4>1, <4>2, <4>3
    <3> QED BY <3>5, <3>6
  <2> HIDE DEF P
  <2>3. last \in P BY <1>9, <2>1, <2>2, Induction
  <2>4. last <= last BY <1>9, SMT
  <2> QED BY <2>3, <2>4 DEF P
<1>11. m \in 0 .. n /\ m <= MaxSequences /\ m \in Nat BY <1>0, <1>1, <1>9, SMT
<1>12. \A i \in 1 .. m : i \in 1 .. n /\ i \in 1 .. n + 1 BY <1>1, <1>11, SMT
<1>13. \A i \in 1 .. m : f[i] \in Nat /\ f[i] > 0
  <2>1. \A i \in 1 .. m : f[i] > 0 BY <1>10
  <2> QED BY <1>8, <1>12, <2>1
<1> DEFINE c == [i \in 1 .. m |-> Least(MaxPrefillChunk, f[i])]
<1>14. c \in [1 .. m -> Nat \ {0}]
  <2>1. \A i \in 1 .. m : Least(MaxPrefillChunk, f[i]) \in Nat \ {0}
    BY <1>0, <1>13, SMT DEF Least
  <2> QED BY <2>1
<1>15. p = [i \in 1 .. m |-> WorkFor(order[i], states[order[i]], c[i])]
  BY <1>3, <1>10
<1>16. \A i \in 1 .. m : /\ p[i].begin \in Nat /\ p[i].end \in Nat
                         /\ p[i].end - p[i].begin = f[i] - f[i + 1]
  <2> SUFFICES ASSUME NEW i \in 1 .. m
               PROVE  /\ p[i].begin \in Nat /\ p[i].end \in Nat
                      /\ p[i].end - p[i].begin = f[i] - f[i + 1]
    OBVIOUS
  <2>1. p[i] = WorkFor(order[i], q(i), c[i]) BY <1>15 DEF q
  <2>2. c[i] \in Nat /\ c[i] > 0 /\ c[i] = Least(MaxPrefillChunk, f[i])
    <3>1. c[i] \in Nat \ {0} BY <1>14
    <3> QED BY <3>1, SMT
  <2> HIDE DEF c
  <2>3. HasWork(q(i)) /\ Countable(q(i)) BY <1>1, <1>12
  <2>4. /\ p[i].begin \in Nat /\ p[i].end \in Nat
        /\ p[i].end - p[i].begin = Least(Demand(q(i)), c[i])
        /\ Demand(q(i)) \in Nat
    BY <2>1, <2>2, <2>3, WorkCost
  <2>5. f[i + 1] = f[i] - Least(Least(MaxPrefillChunk, Demand(q(i))), f[i])
    BY <1>4, <1>5, <1>12
  <2>6. Least(Demand(q(i)), Least(MaxPrefillChunk, f[i]))
          = Least(Least(MaxPrefillChunk, Demand(q(i))), f[i])
    BY <1>0, <1>13, <2>4, SMT DEF Least
  <2>7. Least(Least(MaxPrefillChunk, Demand(q(i))), f[i]) \in Int
    BY <1>0, <1>13, <2>4, SMT DEF Least
  <2>8. f[i] \in Int BY <1>13
  <2> QED BY <2>2, <2>4, <2>5, <2>6, <2>7, <2>8, SMT
<1> HIDE DEF c
<1>17. Len(p) = m
  <2>1. p \in [1 .. m -> {p[i] : i \in 1 .. m}] BY <1>15
  <2> QED BY <1>11, <2>1, SMT
<1>18. Cost(p) <= spare
  <2> DEFINE t == CHOOSE g : IsTally(g, p, m)
  <2>1. IsTally(t, p, m) BY <1>11, TallyExists
  <2>2. Cost(p) = t[m] BY <1>17 DEF Cost, Tally, IsTally
  <2> HIDE DEF t
  <2>3. t[0] = 0 /\ \A i \in 1 .. m : t[i] = t[i - 1] + (p[i].end - p[i].begin)
    <3>1. 0 \in 0 .. m /\ \A i \in 1 .. m : i \in 0 .. m /\ i # 0 BY <1>11, SMT
    <3> QED BY <2>1, <3>1, Zenon DEF IsTally
  <2> DEFINE P == {k \in Nat : k <= m => t[k] = f[1] - f[k + 1]}
  <2>4. 0 \in P
    <3>1. 0 + 1 = 1 BY SMT
    <3>2. f[1] - f[1] = 0 BY <1>6, SMT
    <3> QED BY <2>3, <3>1, <3>2
  <2>5. ASSUME NEW k \in Nat, k \in P PROVE k + 1 \in P
    <3> SUFFICES ASSUME k + 1 <= m PROVE t[k + 1] = f[1] - f[(k + 1) + 1]
      BY SMT
    <3>1. k <= m /\ k + 1 \in 1 .. m /\ (k + 1) - 1 = k BY <1>11, SMT
    <3>2. t[k] = f[1] - f[k + 1] BY <2>5, <3>1
    <3>3. t[k + 1] = t[k] + (f[k + 1] - f[(k + 1) + 1]) BY <1>16, <2>3, <3>1
    <3>4. f[k + 1] \in Int /\ f[(k + 1) + 1] \in Int /\ f[1] \in Int
      <4>1. k + 1 \in 1 .. n + 1 /\ (k + 1) + 1 \in 1 .. n + 1 BY <1>1, <1>11, <3>1, SMT
      <4>2. f[k + 1] \in Nat /\ f[(k + 1) + 1] \in Nat BY <1>8, <4>1
      <4> QED BY <1>6, <4>2, SMT
    <3> QED BY <3>2, <3>3, <3>4, SMT
  <2> HIDE DEF P
  <2>6. m \in P BY <1>11, <2>4, <2>5, Induction
  <2>7. m <= m /\ m + 1 \in 1 .. n + 1 BY <1>1, <1>11, SMT
  <2>8. t[m] = f[1] - f[m + 1] BY <2>6, <2>7 DEF P
  <2>9. f[m + 1] \in Nat BY <1>8, <2>7
  <2> QED BY <1>6, <2>2, <2>8, <2>9, SMT
<1>19. order # << >> /\ spare > 0 => m > 0
  <2>1. order # << >> => n > 0 BY <1>1, SMT DEF n
  <2> QED BY <1>9, <1>10, <2>1
<1> QED BY <1>11, <1>14, <1>15, <1>18, <1>19 DEF n
-----------------------------------------------------------------------------
(* The list a policy is given, and the states of its requests.             *)
Places == DOMAIN requests

LEMMA ListFacts ==
  ASSUME TypeOK
  PROVE  /\ requests \in Seq(States) /\ Len(requests) \in Nat /\ Len(requests) <= Slots
         /\ Places = 1 .. Len(requests)
         /\ List \in Seq(Places) /\ Len(List) = Len(requests) /\ DOMAIN List = Places
         /\ ToSet(List) = Places /\ IsInjective(List)
         /\ \A i \in Places : List[i] = i /\ requests[i] \in States /\ Countable(requests[i])
<1>1. requests \in Seq(States) /\ Len(requests) <= Slots BY DEF TypeOK, States
<1>2. /\ Len(requests) \in Nat /\ Places = 1 .. Len(requests)
      /\ \A i \in Places : requests[i] \in States
  BY <1>1, SeqElements DEF Places
<1>3. \A i \in Places : Countable(requests[i])
  BY <1>2, Zenon DEF States, Countable
<1>4. /\ List \in [1 .. Len(requests) -> Places] /\ DOMAIN List = Places
      /\ \A i \in Places : List[i] = i
  BY <1>2 DEF List, Places
<1>5. List \in Seq(Places) /\ Len(List) = Len(requests) BY <1>2, <1>4, SMT
<1>6. ToSet(List) = Places /\ IsInjective(List) BY <1>4 DEF ToSet, IsInjective
<1> QED BY <1>1, <1>2, <1>3, <1>4, <1>5, <1>6

(* What a policy selects is work of requests in the list that have some.   *)
IsItem(w) ==
  \E i \in Places, c \in Nat \ {0} :
    HasWork(requests[i]) /\ w = WorkFor(i, requests[i], c)

IsBatch(b) == /\ DOMAIN b = {} => b = << >>
              /\ \A n \in DOMAIN b : IsItem(b[n])

LEMMA NoItems ==
  ASSUME NEW m \in Nat, NEW b, b \in [1 .. m -> {b[n] : n \in 1 .. m}]
  PROVE  Len(b) = m /\ (DOMAIN b = {} => b = << >>)
<1>1. b \in Seq({b[n] : n \in 1 .. m}) /\ Len(b) = m /\ DOMAIN b = 1 .. m BY SMT
<1>2. DOMAIN b = {} => Len(b) = 0
  <2>1. 1 .. m = {} => m = 0 BY SMT
  <2> QED BY <1>1, <2>1
<1> QED BY <1>1, <1>2, EmptySeq

LEMMA ItemFacts ==
  ASSUME TypeOK, NEW w, IsItem(w)
  PROVE  w.id \in Places /\ HasWork(requests[w.id]) /\ w.begin \in Nat /\ w.end \in Nat
<1>1. PICK i \in Places, c \in Nat \ {0} :
        HasWork(requests[i]) /\ w = WorkFor(i, requests[i], c)
  BY DEF IsItem
<1>2. Countable(requests[i]) BY ListFacts
<1>3. c \in Nat /\ c > 0 BY SMT
<1>4. w.id = i /\ w.begin \in Nat /\ w.end \in Nat BY <1>1, <1>2, <1>3, WorkCost
<1> QED BY <1>1, <1>4

(* The candidates of a policy.                                             *)
LEMMA Selected ==
  ASSUME TypeOK, NEW S
  PROVE  /\ Filter(List, S) \in Seq(Places) /\ IsInjective(Filter(List, S))
         /\ ToSet(Filter(List, S)) = Places \cap S
BY ListFacts, FilterProperties

LEMMA CandidateFacts ==
  ASSUME TypeOK, NEW stage, NEW s, s = Candidates(List, requests, stage)
  PROVE  /\ s \in Seq(Places) /\ IsInjective(s)
         /\ ToSet(s) = {i \in Places : requests[i].stage = stage /\ HasWork(requests[i])}
<1>1. PICK S : S = {i \in Places : requests[i].stage = stage /\ HasWork(requests[i])}
  OBVIOUS
<1>2. s = Filter(List, S) BY <1>1, ListFacts DEF Candidates
<1> QED BY <1>1, <1>2, Selected

LEMMA ItemsBatch ==
  ASSUME TypeOK, NEW order \in Seq(Places), \A i \in ToSet(order) : HasWork(requests[i]),
         NEW c \in Nat \ {0}, NEW b, b = Items(order, requests, c)
  PROVE  IsBatch(b) /\ Len(b) = Len(order) /\ (order = << >> <=> b = << >>)
         /\ DOMAIN b = 1 .. Len(order)
         /\ \A n \in 1 .. Len(order) : b[n] = WorkFor(order[n], requests[order[n]], c)
<1>1. /\ DOMAIN order = 1 .. Len(order) /\ Len(order) \in Nat
      /\ \A n \in 1 .. Len(order) : order[n] \in Places /\ order[n] \in ToSet(order)
  BY SeqElements DEF ToSet
<1>2. b = [n \in 1 .. Len(order) |-> WorkFor(order[n], requests[order[n]], c)]
  BY <1>1 DEF Items
<1>3. b \in [1 .. Len(order) -> {b[n] : n \in 1 .. Len(order)}] BY <1>2
<1>4. Len(b) = Len(order) /\ b \in Seq({b[n] : n \in 1 .. Len(order)}) BY <1>1, <1>3, SMT
<1>5. order = << >> <=> b = << >> BY <1>4, EmptySeq, SMT
<1>6. DOMAIN b = {} => b = << >> BY <1>1, <1>3, NoItems
<1>7. IsBatch(b) BY <1>1, <1>2, <1>6 DEF IsBatch, IsItem
<1> QED BY <1>2, <1>4, <1>5, <1>7

LEMMA ItemBatch ==
  ASSUME NEW i \in Places, HasWork(requests[i]), NEW c \in Nat \ {0}
  PROVE  IsBatch(<<WorkFor(i, requests[i], c)>>)
<1> DEFINE w == WorkFor(i, requests[i], c)
<1>1. IsItem(w) BY DEF IsItem
<1> HIDE DEF w
<1>2. (\A n \in DOMAIN <<w>> : <<w>>[n] = w) /\ DOMAIN <<w>> # {} BY SMT
<1>3. IsBatch(<<w>>) BY <1>1, <1>2 DEF IsBatch
<1> QED BY <1>3 DEF w

LEMMA EmptyBatch == IsBatch(<< >>)
BY SMT DEF IsBatch

(* fifo.cpp;                                                               *)
LEMMA FifoSelects ==
  ASSUME TypeOK, NEW p, p = FifoPlan(List, requests, TokenBudget)
  PROVE  /\ IsBatch(p)
         /\ p = << >> /\ (\E i \in Places : Runnable(requests[i]))
              => \/ Releasing
                 \/ \E i \in Places : Runnable(requests[i]) /\ ~HasWork(requests[i])
<1> DEFINE Underway == {r \in Places : Runnable(requests[r]) /\ HasProgress(requests[r])}
           Known == {r \in Places : requests[r].stage \notin {"PendingAdmission", "Terminal"}}
           list == Filter(List, Underway) \o Filter(List, Known)
           Blocked == \E r \in Places :
                        requests[r].stage = "PendingRelease" /\ HasProgress(requests[r])
           selected == Head(list)
<1>0. ToSet(List) = Places BY ListFacts
<1>1. p = IF list = << >> \/ Blocked \/ ~HasWork(requests[selected]) THEN << >>
          ELSE <<WorkFor(selected, requests[selected], TokenBudget)>>
  BY <1>0 DEF FifoPlan
<1>2. list \in Seq(Places) /\ ToSet(list) = (Places \cap Underway) \cup (Places \cap Known)
  <2> HIDE DEF Underway, Known
  <2> QED BY Selected, ToSetConcat
<1>3. list # << >> => selected \in ToSet(list)
  <2> HIDE DEF list
  <2> SUFFICES ASSUME list # << >> PROVE selected \in ToSet(list)
    OBVIOUS
  <2>1. Len(list) \in Nat /\ Len(list) > 0 /\ DOMAIN list = 1 .. Len(list)
    BY <1>2, LenProperties, EmptySeq, SMT
  <2>2. 1 \in DOMAIN list /\ Head(list) = list[1] BY <1>2, <2>1, SMT
  <2> QED BY <2>2 DEF ToSet
<1>4. \A i \in ToSet(list) : i \in Places /\ (Runnable(requests[i]) \/ requests[i].stage = "PendingRelease")
  <2>1. \A i \in Places : requests[i].stage
                            \in {"PendingAdmission", "Prefill", "Decode", "PendingRelease"}
    BY ListFacts DEF States
  <2> QED BY <1>2, <2>1 DEF Runnable
<1>5. \A i \in Places : Runnable(requests[i]) => i \in ToSet(list)
  BY <1>2 DEF Runnable
<1>6. TokenBudget \in Nat \ {0} BY ResourcesAssumption
<1> HIDE DEF list, selected
<1>7. IsBatch(p)
  <2>1. CASE p = << >> BY <2>1, EmptyBatch
  <2>2. CASE p # << >>
    <3>1. /\ list # << >> /\ HasWork(requests[selected])
          /\ p = <<WorkFor(selected, requests[selected], TokenBudget)>>
      BY <1>1, <2>2
    <3>2. selected \in Places BY <1>3, <1>4, <3>1
    <3> QED BY <1>6, <3>1, <3>2, ItemBatch
  <2> QED BY <2>1, <2>2
<1>8. ASSUME p = << >>, NEW i \in Places, Runnable(requests[i]), ~Releasing
      PROVE  \E j \in Places : Runnable(requests[j]) /\ ~HasWork(requests[j])
  <2>1. list # << >> /\ selected \in ToSet(list) BY <1>3, <1>5, <1>8, ToSetEmpty
  <2>2. ~Blocked BY <1>8 DEF Releasing, Places
  <2>3. ~HasWork(requests[selected])
    <3>1. <<WorkFor(selected, requests[selected], TokenBudget)>> # << >> BY SMT
    <3> QED BY <1>1, <1>8, <2>1, <2>2, <3>1
  <2>4. requests[selected].stage # "PendingRelease" /\ selected \in Places
    BY <1>4, <1>8, <2>1 DEF Releasing, Places
  <2> QED BY <1>4, <2>1, <2>3, <2>4
<1> QED BY <1>7, <1>8

(* the continuous policies, which serve the first of an order;             *)
LEMMA FilledSelects ==
  ASSUME TypeOK, NEW order \in Seq(Places),
         NEW p, p = Filled(order, requests, TokenBudget),
         NEW w, w = Working(order, requests)
  PROVE  /\ IsBatch(p) /\ (p = << >> => \A i \in ToSet(order) : ~HasWork(requests[i]))
         /\ \E m \in 0 .. Len(w) : DOMAIN p = 1 .. m /\ \A n \in 1 .. m : p[n].id = w[n]
<1>2. TokenBudget \in Nat /\ TokenBudget > 0 BY ResourcesAssumption, SMT
<1>3. \A i \in ToSet(order) : i \in Places /\ Countable(requests[i])
  BY ListFacts, SeqElements
<1>4. \A i \in ToSet(order) : HasWork(requests[i]) => Countable(requests[i]) BY <1>3
<1>5. PICK m \in 0 .. Len(w) :
        /\ w # << >> => m > 0
        /\ \E left \in [1 .. m -> 1 .. TokenBudget] :
             p = [i \in 1 .. m |-> WorkFor(w[i], requests[w[i]], left[i])]
  BY <1>2, <1>4, FilledPrefix, SMTT(60)
<1>6. PICK left \in [1 .. m -> 1 .. TokenBudget] :
        p = [i \in 1 .. m |-> WorkFor(w[i], requests[w[i]], left[i])]
  BY <1>5
<1>7. w \in Seq(Places) /\ ToSet(w) = {i \in ToSet(order) : HasWork(requests[i])}
  <2>1. PICK S : S = {i \in ToSet(order) : HasWork(requests[i])} OBVIOUS
  <2>2. Filter(order, S) \in Seq(Places) /\ ToSet(Filter(order, S)) = ToSet(order) \cap S
    BY FilterProperties
  <2>3. w = Filter(order, S) BY <2>1 DEF Working
  <2> QED BY <2>1, <2>2, <2>3
<1>8. \A i \in 1 .. m : w[i] \in Places /\ HasWork(requests[w[i]])
  <2>1. Len(w) \in Nat /\ DOMAIN w = 1 .. Len(w) BY <1>7, LenProperties
  <2>2. \A i \in 1 .. m : i \in DOMAIN w
    <3>1. m \in 0 .. Len(w) BY <1>5
    <3> QED BY <2>1, <3>1, SMT
  <2>3. \A i \in 1 .. m : w[i] \in ToSet(w) BY <2>2 DEF ToSet
  <2> QED BY <1>3, <1>7, <2>3
<1>9. IsBatch(p)
  <2>1. \A i \in 1 .. m : left[i] \in Nat \ {0}
    <3>1. \A i \in 1 .. m : left[i] \in 1 .. TokenBudget BY <1>6
    <3> QED BY <3>1, SMT
  <2>2. DOMAIN p = {} => p = << >>
    <3>1. m \in Nat
      <4>1. m \in 0 .. Len(w) BY <1>5
      <4> QED BY <1>7, <4>1, LenProperties, SMT
    <3>2. p \in [1 .. m -> {p[n] : n \in 1 .. m}] BY <1>6
    <3> QED BY <3>1, <3>2, NoItems
  <2> QED BY <1>6, <1>8, <2>1, <2>2 DEF IsBatch, IsItem
<1>10. ASSUME p = << >> PROVE \A i \in ToSet(order) : ~HasWork(requests[i])
  <2>1. DOMAIN p = 1 .. m /\ DOMAIN << >> = {} BY <1>6, SMT
  <2>2. ~(m > 0)
    <3>1. 1 .. m = {} BY <1>10, <2>1
    <3>2. m \in Nat
      <4>1. m \in 0 .. Len(w) BY <1>5
      <4> QED BY <1>7, <4>1, LenProperties, SMT
    <3> QED BY <3>1, <3>2, SMT
  <2>3. w = << >> BY <1>5, <2>2
  <2> QED BY <1>7, <2>3, ToSetEmpty
<1>11. DOMAIN p = 1 .. m /\ \A n \in 1 .. m : p[n].id = w[n]
  BY <1>6 DEF WorkFor
<1> QED BY <1>5, <1>9, <1>10, <1>11
-----------------------------------------------------------------------------
(* What a batch may take is a number of tokens, and some unless the        *)
(* requests have filled the memory.                                        *)
SpareNow == Spare(List, requests)

LEMMA ResidentIsNat ==
  ASSUME TypeOK PROVE \A i \in Places : Resident(requests[i]) \in Nat
<1> TAKE i \in Places
<1> DEFINE q == requests[i]
<1>1. q.prefill_position \in Nat /\ q.decoded_count \in Nat BY ListFacts DEF Countable
<1> HIDE DEF q
<1>2. q.decoded_count > 0 => q.decoded_count - 1 \in Nat BY <1>1, SMT
<1>3. Resident(q) \in Nat BY <1>1, <1>2, SMT DEF Resident
<1> QED BY <1>3 DEF q

LEMMA SpareFacts ==
  ASSUME TypeOK
  PROVE  /\ ResidentTokens(List, requests) \in Nat
         /\ SpareNow \in Nat
         /\ ResidentTokens(List, requests) < MemoryTokens => SpareNow > 0
<1> DEFINE R == ResidentTokens(List, requests)
           m == Min({TokenBudget, BatchCapacity, MemoryTokens - R})
<1>1. R \in Nat
  <2>1. \A i \in DOMAIN List : Resident(requests[List[i]]) \in Nat
    BY ListFacts, ResidentIsNat
  <2>2. 0 \in Nat BY SMT
  <2> QED BY <2>1, <2>2, ListFacts, ResidentBound
<1>2. /\ TokenBudget \in Nat /\ TokenBudget > 0 /\ BatchCapacity \in Nat /\ BatchCapacity > 0
      /\ MemoryTokens \in Nat
  BY ResourcesAssumption, SMT
<1> HIDE DEF R
<1>3. MemoryTokens - R \in Int BY <1>1, <1>2, SMT
<1>4. m \in {TokenBudget, BatchCapacity, MemoryTokens - R}
  <2>1. {TokenBudget, BatchCapacity, MemoryTokens - R}
          = {TokenBudget, BatchCapacity, MemoryTokens - R, MemoryTokens - R}
    OBVIOUS
  <2>2. TokenBudget \in Int /\ BatchCapacity \in Int BY <1>2, SMT
  <2> QED BY <1>3, <2>1, <2>2, LeastOf
<1> HIDE DEF m
<1>5. m \in Int /\ (R < MemoryTokens => m > 0)
  BY <1>1, <1>2, <1>3, <1>4, SMT
<1>6. SpareNow = IF 0 >= m THEN 0 ELSE m
  <2>1. SpareNow = Max({0, m}) BY DEF SpareNow, Spare, m, R
  <2> QED BY <1>5, <2>1, MaxTwo
<1> QED BY <1>1, <1>5, <1>6, SMT DEF R

LEMMA FitsIf ==
  ASSUME NEW b, Cost(b) <= SpareNow, Len(b) <= MaxSequences
  PROVE  Fits(List, requests, b)
BY DEF Fits, SpareNow
-----------------------------------------------------------------------------
(* heuristic_aimd.cpp.  The order of the prefills, as one number: those    *)
(* starved longest are first, then those that have begun.                  *)
Key(q) == (IF Starved(q) THEN 2 * q.bypasses ELSE 0) + (IF q.prefill_position # 0 THEN 1 ELSE 0)

LEMMA PrefillKey ==
  ASSUME NEW a \in States, NEW b \in States
  PROVE  /\ Key(a) \in Nat /\ Key(b) \in Nat
         /\ PrefillFirst(a, b) <=> Key(a) > Key(b)
         /\ Starved(b) /\ ~(Key(b) > Key(a)) => a.bypasses >= b.bypasses
<1> DEFINE x == a.bypasses
           y == b.bypasses
           s == a.prefill_position
           t == b.prefill_position
           T == StarvationThreshold
           A == (IF x >= T THEN 2 * x ELSE 0) + (IF s # 0 THEN 1 ELSE 0)
           B == (IF y >= T THEN 2 * y ELSE 0) + (IF t # 0 THEN 1 ELSE 0)
<1>1. x \in Nat /\ y \in Nat /\ s \in Nat /\ t \in Nat BY DEF States
<1>2. T \in Nat /\ T > 0 BY AIMDAssumption, SMT
<1>3. Key(a) = A /\ Key(b) = B BY DEF Key, Starved
<1>4. PrefillFirst(a, b) <=>
        \/ x >= T /\ (~(y >= T) \/ x > y)
        \/ /\ (x >= T) = (y >= T) /\ (x >= T => x = y)
           /\ s # 0 /\ t = 0
  BY Zenon DEF PrefillFirst, Starved
<1>5. (x >= T) = (y >= T) <=> (x >= T <=> y >= T) OBVIOUS
<1>6. Starved(b) <=> y >= T BY DEF Starved
<1> HIDE DEF x, y, s, t, T
<1>7. A \in Nat /\ B \in Nat BY <1>1, SMT
<1>8. /\ x >= T /\ (~(y >= T) \/ x > y) => A > B
      /\ (x >= T <=> y >= T) /\ (x >= T => x = y) /\ s # 0 /\ t = 0 => A > B
  BY <1>1, <1>2, SMT
<1>9. A > B => \/ x >= T /\ (~(y >= T) \/ x > y)
               \/ /\ (x >= T <=> y >= T) /\ (x >= T => x = y)
                  /\ s # 0 /\ t = 0
  BY <1>1, <1>2, SMT
<1>10. y >= T /\ ~(B > A) => x >= y BY <1>1, <1>2, SMT
<1> HIDE DEF A, B
<1>11. PrefillFirst(a, b) <=> A > B BY <1>4, <1>5, <1>8, <1>9, Zenon
<1> QED BY <1>3, <1>6, <1>7, <1>10, <1>11, Zenon DEF x, y

LEMMA PrefillOrderFacts ==
  ASSUME TypeOK, NEW s, s = Candidates(List, requests, "Prefill"),
         NEW order, order = PrefillOrder(List, requests)
  PROVE  /\ order \in Seq(Places) /\ ToSet(order) \subseteq ToSet(s)
         /\ order = << >> <=> s = << >>
         /\ \A i \in ToSet(s) : Starved(requests[i]) =>
              1 \in DOMAIN order /\ requests[order[1]].bypasses >= requests[i].bypasses
<1> DEFINE F == {p \in (DOMAIN s) \X (DOMAIN s) :
                   \/ PrefillFirst(requests[s[p[1]]], requests[s[p[2]]])
                   \/ (p[1] < p[2] /\ ~PrefillFirst(requests[s[p[2]]], requests[s[p[1]]]))}
           D == DOMAIN s
           key == [i \in D |-> Key(requests[s[i]])]
<1>1. s \in Seq(Places) BY CandidateFacts
<1>2. D = 1 .. Len(s) /\ Len(s) \in Nat /\ \A i \in D : s[i] \in Places
  BY <1>1, SeqElements
<1>3. \A i \in D : requests[s[i]] \in States BY <1>2, ListFacts
<1>4. order = Sorted(s, F) BY DEF PrefillOrder, StableSort
<1>5. key \in [D -> Nat] BY <1>3, PrefillKey
<1>6. \A i, j \in D : PrefillFirst(requests[s[i]], requests[s[j]]) <=> key[i] > key[j]
  BY <1>3, PrefillKey
<1>7. \A i, j \in D : <<i, j>> \in F <=> key[i] > key[j] \/ (i < j /\ ~(key[j] > key[i]))
  <2> DEFINE Q(p) == \/ PrefillFirst(requests[s[p[1]]], requests[s[p[2]]])
                     \/ (p[1] < p[2] /\ ~PrefillFirst(requests[s[p[2]]], requests[s[p[1]]]))
             G(i, j) == PrefillFirst(requests[s[i]], requests[s[j]])
  <2>1. F = {p \in D \X D : Q(p)} OBVIOUS
  <2>2. \A i, j \in D : <<i, j>> \in F <=> Q(<<i, j>>)
    <3> HIDE DEF F, Q, D
    <3> QED BY <2>1
  <2>3. \A i, j : Q(<<i, j>>) <=> G(i, j) \/ (i < j /\ ~G(j, i))
    <3>1. \A i, j : <<i, j>>[1] = i /\ <<i, j>>[2] = j OBVIOUS
    <3> QED BY <3>1, Zenon
  <2>4. \A i, j \in D : G(i, j) <=> key[i] > key[j] BY <1>6
  <2> HIDE DEF F, Q, G, D, key
  <2> QED BY <2>2, <2>3, <2>4
<1> HIDE DEF F
<1>8. Ordering(F, D)
  <2> HIDE DEF key
  <2> QED BY <1>1, <1>5, <1>7, KeyOrdering
<1>9. PICK place \in [D -> D] :
        /\ Sorted(s, F) = [k \in D |-> s[place[k]]]
        /\ \A i, j \in D : place[i] = place[j] => i = j
        /\ \A i, j \in D : i < j => <<place[i], place[j]>> \in F
  BY <1>1, <1>8, SortedPlaces
<1>10. /\ order = [k \in D |-> s[place[k]]] /\ DOMAIN order = D
       /\ \A k \in D : order[k] \in Places /\ order[k] \in ToSet(s)
  BY <1>2, <1>4, <1>9 DEF ToSet
<1>11. order \in Seq(Places) /\ Len(order) = Len(s)
  <2>1. order \in [1 .. Len(s) -> Places] BY <1>2, <1>10
  <2> QED BY <1>2, <2>1, SMT
<1>12. ToSet(order) \subseteq ToSet(s) BY <1>10 DEF ToSet
<1>13. order = << >> <=> s = << >> BY <1>1, <1>11, EmptySeq, SMT
<1>14. ASSUME NEW i \in ToSet(s), Starved(requests[i])
       PROVE  1 \in D /\ requests[order[1]].bypasses >= requests[i].bypasses
  <2>1. PICK k \in D : i = s[k] BY DEF ToSet
  <2>2. 1 \in D BY <1>2, <2>1, SMT
  <2>3. ~(key[k] > key[place[1]])
    <3>1. \E j \in D : place[j] = k
      <4>1. place \in Injection(D, D) BY <1>9 DEF Injection, IsInjective
      <4>2. IsFiniteSet(D) BY <1>2, FS_Interval, SMT
      <4>3. place \in Surjection(D, D) BY <4>1, <4>2, FS_Injection
      <4> QED BY <4>3 DEF Surjection
    <3>2. PICK j \in D : place[j] = k BY <3>1
    <3>3. key[k] \in Nat /\ key[place[1]] \in Nat /\ place[1] \in D BY <1>5, <1>9, <2>2
    <3>4. CASE j = 1 BY <3>2, <3>3, <3>4, SMT
    <3>5. CASE j # 1
      <4>1. 1 < j BY <1>2, <3>5, SMT
      <4>2. <<place[1], k>> \in F BY <1>9, <2>2, <3>2, <4>1
      <4>3. \/ key[place[1]] > key[k]
            \/ (place[1] < k /\ ~(key[k] > key[place[1]]))
        BY <1>7, <3>3, <4>2
      <4> HIDE DEF key
      <4> QED BY <3>3, <4>3, SMT
    <3> QED BY <3>4, <3>5
  <2>4. place[1] \in D /\ order[1] = s[place[1]] BY <1>9, <1>10, <2>2
  <2>5. ~(Key(requests[i]) > Key(requests[order[1]])) BY <2>1, <2>3, <2>4
  <2>6. requests[i] \in States /\ requests[order[1]] \in States BY <1>3, <2>1, <2>4
  <2> QED BY <1>14, <2>2, <2>5, <2>6, PrefillKey
<1> QED BY <1>10, <1>11, <1>12, <1>13, <1>14
(* A batch of decodes: as many as fit.                                     *)
LEMMA DecodeBatchFacts ==
  ASSUME TypeOK, NEW window \in Nat \ {0},
         NEW b, b \in DecodeBatches(List, requests, window)
  PROVE  /\ IsBatch(b) /\ Cost(b) <= SpareNow /\ Len(b) <= MaxSequences
         /\ Candidates(List, requests, "Decode") # << >> /\ SpareNow > 0 => b # << >>
<1> DEFINE decodes == ToSet(Candidates(List, requests, "Decode"))
           n == Cardinality(decodes)
           size == Min({n, window, MaxSequences, SpareNow})
<1>1. /\ Candidates(List, requests, "Decode") \in Seq(Places)
      /\ decodes = {i \in Places : requests[i].stage = "Decode" /\ HasWork(requests[i])}
  BY CandidateFacts
<1>2. /\ IsFiniteSet(decodes) /\ n \in Nat
      /\ Candidates(List, requests, "Decode") # << >> => n > 0
  <2>1. IsFiniteSet(decodes) BY <1>1, ToSetFinite
  <2>2. n \in Nat BY <2>1, FS_CardinalityType
  <2>3. ASSUME Candidates(List, requests, "Decode") # << >> PROVE decodes # {}
    <3>1. PICK s \in Seq(Places) : s = Candidates(List, requests, "Decode") BY <1>1
    <3>2. Len(s) \in Nat /\ Len(s) > 0 /\ DOMAIN s = 1 .. Len(s)
      BY <2>3, <3>1, LenProperties, EmptySeq, SMT
    <3>3. 1 \in DOMAIN s BY <3>2, SMT
    <3> QED BY <3>1, <3>3 DEF ToSet
  <2>4. decodes # {} => n # 0 BY <2>1, FS_EmptySet
  <2> HIDE DEF decodes, n
  <2> QED BY <2>1, <2>2, <2>3, <2>4, SMT
<1>3. PICK chosen \in SUBSET decodes :
        Cardinality(chosen) = size /\ b = Items(Filter(List, chosen), requests, 1)
  <2>1. DecodeBatches(List, requests, window)
          \subseteq {Items(Filter(List, chosen), requests, 1) :
                       chosen \in {c \in SUBSET decodes : Cardinality(c) = size}}
    BY DEF DecodeBatches, SpareNow
  <2> HIDE DEF decodes, size
  <2> QED BY <2>1
<1>4. /\ MaxSequences \in Nat /\ MaxSequences > 0 /\ SpareNow \in Nat
      /\ window \in Nat /\ window > 0
  BY ResourcesAssumption, SpareFacts, SMT
<1> HIDE DEF n
<1>5. /\ size \in {n, window, MaxSequences, SpareNow}
      /\ size <= MaxSequences /\ size <= SpareNow
  <2>1. n \in Int /\ window \in Int /\ MaxSequences \in Int /\ SpareNow \in Int
    BY <1>2, <1>4, SMT
  <2> QED BY <2>1, LeastOf
<1> HIDE DEF size
<1>6. size \in Nat BY <1>2, <1>4, <1>5
<1>7. n > 0 /\ SpareNow > 0 => size > 0 BY <1>2, <1>4, <1>5, SMT
<1>8. PICK order : order = Filter(List, chosen) OBVIOUS
<1>9. order \in Seq(Places) /\ IsInjective(order) /\ ToSet(order) = chosen
  <2>1. chosen \subseteq Places BY <1>1
  <2> QED BY <1>8, <2>1, Selected
<1>10. Len(order) = size BY <1>3, <1>9, InjectiveLength
<1>11. \A i \in ToSet(order) : HasWork(requests[i]) /\ requests[i].stage = "Decode"
  BY <1>1, <1>9
<1>12. 1 \in Nat \ {0} BY SMT
<1>13. /\ IsBatch(b) /\ Len(b) = size /\ (order = << >> <=> b = << >>)
       /\ \A k \in 1 .. size : b[k] = WorkFor(order[k], requests[order[k]], 1)
  BY <1>3, <1>8, <1>9, <1>10, <1>11, <1>12, ItemsBatch
<1>14. \A k \in 1 .. size : /\ b[k].begin \in Nat /\ b[k].end \in Nat
                            /\ b[k].end - b[k].begin <= 1
  <2> SUFFICES ASSUME NEW k \in 1 .. size
               PROVE  /\ b[k].begin \in Nat /\ b[k].end \in Nat
                      /\ b[k].end - b[k].begin <= 1
    OBVIOUS
  <2>1. PICK i \in Places : i = order[k] /\ HasWork(requests[i])
    <3>1. k \in DOMAIN order BY <1>9, <1>10, SeqElements
    <3>2. order[k] \in ToSet(order) BY <3>1 DEF ToSet
    <3> QED BY <1>9, <1>11, <3>2, SeqElements
  <2>2. b[k] = WorkFor(i, requests[i], 1) BY <1>13, <2>1
  <2>3. Countable(requests[i]) BY ListFacts
  <2>4. 1 \in Nat /\ 1 > 0 BY SMT
  <2>5. /\ b[k].begin \in Nat /\ b[k].end \in Nat
        /\ b[k].end - b[k].begin = Least(Demand(requests[i]), 1)
        /\ Demand(requests[i]) \in Nat
    BY <2>1, <2>2, <2>3, <2>4, WorkCost
  <2>6. Least(Demand(requests[i]), 1) <= 1 BY <2>5, SMT DEF Least
  <2> QED BY <2>5, <2>6
<1>15. Cost(b) \in Int /\ Cost(b) <= size BY <1>6, <1>13, <1>14, SmallItems
<1>16. Cost(b) <= SpareNow /\ Len(b) <= MaxSequences
  BY <1>4, <1>5, <1>6, <1>13, <1>15, SMT
<1>17. size > 0 => b # << >>
  <2>1. b = << >> => Len(order) = 0 BY <1>9, <1>13, EmptySeq
  <2> QED BY <1>6, <1>10, <2>1, SMT
<1> QED BY <1>2, <1>7, <1>13, <1>16, <1>17
(* A batch of one request.                                                 *)
LEMMA FallbackFacts ==
  ASSUME TypeOK, NEW stage, NEW b, b \in Fallbacks(List, requests, stage)
  PROVE  IsBatch(b) /\ b # << >> /\ (Fits(List, requests, b) => SpareNow > 0)
<1> DEFINE candidates == ToSet(Candidates(List, requests, stage))
<1>1. PICK i \in candidates : b = <<WorkFor(i, requests[i], 1)>>
  <2> DEFINE starved == {r \in candidates : Starved(requests[r])}
  <2>1. b \in {<<WorkFor(r, requests[r], 1)>> :
                 r \in IF starved = {} THEN candidates ELSE starved}
    BY DEF Fallbacks
  <2>2. starved \subseteq candidates OBVIOUS
  <2> HIDE DEF candidates, starved
  <2> QED BY <2>1, <2>2
<1>2. i \in Places /\ HasWork(requests[i]) /\ Countable(requests[i])
  BY <1>1, CandidateFacts, ListFacts
<1>3. 1 \in Nat \ {0} /\ 1 \in Nat /\ 1 > 0 BY SMT
<1>4. PICK w : w = WorkFor(i, requests[i], 1) OBVIOUS
<1>5. /\ w.begin \in Nat /\ w.end \in Nat /\ Demand(requests[i]) \in Nat
      /\ Demand(requests[i]) > 0 /\ w.end - w.begin = Least(Demand(requests[i]), 1)
  BY <1>2, <1>3, <1>4, WorkCost
<1>6. Least(Demand(requests[i]), 1) = 1 BY <1>5, SMT DEF Least
<1>7. b = <<w>> /\ Cost(b) = 1 BY <1>1, <1>4, <1>5, <1>6, SingleCost
<1>8. Fits(List, requests, b) => SpareNow > 0
  <2>1. SpareNow \in Nat BY SpareFacts
  <2>2. Fits(List, requests, b) => 1 <= SpareNow BY <1>7 DEF Fits, SpareNow
  <2> QED BY <2>1, <2>2, SMT
<1>9. b # << >> BY <1>7, SMT
<1> QED BY <1>1, <1>2, <1>3, <1>8, <1>9, ItemBatch

(* A batch of prefills serves the one that starved longest.                *)
Covers(b) ==
  \A j \in Places :
    requests[j].stage = "Prefill" /\ HasWork(requests[j]) /\ Starved(requests[j]) =>
      \E n \in DOMAIN b : /\ requests[b[n].id].stage = "Prefill"
                          /\ requests[b[n].id].bypasses >= requests[j].bypasses

LEMMA PrefillBatchFacts ==
  ASSUME TypeOK,
         NEW b, b = PrefillBatch(PrefillOrder(List, requests), requests, SpareNow)
  PROVE  /\ IsBatch(b) /\ Cost(b) <= SpareNow /\ Len(b) <= MaxSequences
         /\ Candidates(List, requests, "Prefill") # << >> /\ SpareNow > 0 => b # << >>
         /\ b # << >> => Covers(b)
<1>1. PICK s : s = Candidates(List, requests, "Prefill") OBVIOUS
<1>2. PICK order : order = PrefillOrder(List, requests) OBVIOUS
<1>3. ToSet(s) = {i \in Places : requests[i].stage = "Prefill" /\ HasWork(requests[i])}
  BY <1>1, CandidateFacts
<1>4. /\ order \in Seq(Places) /\ ToSet(order) \subseteq ToSet(s)
      /\ order = << >> <=> s = << >>
      /\ \A i \in ToSet(s) : Starved(requests[i]) =>
           1 \in DOMAIN order /\ requests[order[1]].bypasses >= requests[i].bypasses
  BY <1>1, <1>2, PrefillOrderFacts
<1>5. \A i \in ToSet(order) : /\ i \in Places /\ HasWork(requests[i])
                              /\ Countable(requests[i]) /\ requests[i].stage = "Prefill"
  BY <1>3, <1>4, ListFacts
<1>6. SpareNow \in Nat BY SpareFacts
<1>7. PICK m \in 0 .. Len(order) :
        /\ m <= MaxSequences
        /\ order # << >> /\ SpareNow > 0 => m > 0
        /\ Cost(b) <= SpareNow
        /\ \E c \in [1 .. m -> Nat \ {0}] :
             b = [i \in 1 .. m |-> WorkFor(order[i], requests[order[i]], c[i])]
  <2>1. b = PrefillBatch(order, requests, SpareNow) BY <1>2
  <2>2. \A r \in ToSet(order) : /\ HasWork(requests[r]) /\ Countable(requests[r])
                                /\ requests[r].stage = "Prefill"
    BY <1>5
  <2> HIDE DEF SpareNow
  <2> QED BY <1>4, <1>6, <2>1, <2>2, PrefillPrefix, SMTT(60)
<1>8. PICK c \in [1 .. m -> Nat \ {0}] :
        b = [i \in 1 .. m |-> WorkFor(order[i], requests[order[i]], c[i])]
  BY <1>7
<1>9. /\ m \in Nat /\ DOMAIN order = 1 .. Len(order)
      /\ \A i \in 1 .. m : i \in DOMAIN order
  <2>1. PICK n \in Nat : n = Len(order) /\ DOMAIN order = 1 .. n BY <1>4, LenProperties
  <2>2. m \in 0 .. n BY <1>7, <2>1
  <2> QED BY <2>1, <2>2, SMT
<1>10. \A i \in 1 .. m : order[i] \in ToSet(order) BY <1>9 DEF ToSet
<1>11. IsBatch(b)
  <2>1. DOMAIN b = 1 .. m BY <1>8
  <2>3. DOMAIN b = {} => b = << >>
    <3>1. b \in [1 .. m -> {b[i] : i \in 1 .. m}] BY <1>8
    <3> QED BY <1>9, <3>1, NoItems
  <2>2. \A i \in 1 .. m : IsItem(b[i])
    <3>1. \A i \in 1 .. m : c[i] \in Nat \ {0} BY <1>8
    <3>2. \A i \in 1 .. m : b[i] = WorkFor(order[i], requests[order[i]], c[i]) BY <1>8
    <3> QED BY <1>5, <1>10, <3>1, <3>2 DEF IsItem
  <2> QED BY <2>1, <2>2, <2>3 DEF IsBatch
<1>12. Len(b) = m /\ DOMAIN b = 1 .. m
  <2>1. b \in [1 .. m -> {b[i] : i \in 1 .. m}] /\ DOMAIN b = 1 .. m BY <1>8
  <2> QED BY <1>9, <2>1, SMT
<1>13. m > 0 => b # << >>
  <2>1. b = << >> => DOMAIN b = {} BY SMT
  <2>2. m > 0 => 1 \in 1 .. m BY <1>9, SMT
  <2> QED BY <1>12, <2>1, <2>2
<1>14. ASSUME b # << >> PROVE Covers(b)
  <2>1. 1 \in 1 .. m
    <3>1. m # 0
      <4>1. SUFFICES ASSUME m = 0 PROVE b = << >> BY <1>14
      <4>2. b \in Seq({b[i] : i \in 1 .. m}) /\ Len(b) = 0
        <5>1. b \in [1 .. m -> {b[i] : i \in 1 .. m}] BY <1>8
        <5> QED BY <1>9, <1>12, <4>1, <5>1, SMT
      <4> QED BY <4>2, EmptySeq
    <3> QED BY <1>9, <3>1, SMT
  <2>2. b[1].id = order[1]
    <3>1. b[1] = WorkFor(order[1], requests[order[1]], c[1]) BY <1>8, <2>1
    <3> QED BY <3>1 DEF WorkFor
  <2>3. requests[order[1]].stage = "Prefill" BY <1>5, <1>10, <2>1
  <2> QED BY <1>3, <1>4, <1>12, <2>1, <2>2, <2>3 DEF Covers
<1> QED BY <1>1, <1>4, <1>7, <1>11, <1>12, <1>13, <1>14
LEMMA AIMDSelects ==
  ASSUME TypeOK, policy = "aimd", NEW b \in Selections
  PROVE  /\ IsBatch(b)
         /\ SpareNow > 0 /\ (\E i \in Places : HasWork(requests[i]))
              => b # << >> /\ Fits(List, requests, b)
         /\ b # << >> /\ Fits(List, requests, b) => Covers(b)
<1> DEFINE decoding == DecodeMode(List, requests, consecutive)
           prefill == PrefillBatch(PrefillOrder(List, requests), requests, SpareNow)
           batches == IF decoding THEN DecodeBatches(List, requests, decode_window) ELSE {prefill}
           stage == IF decoding THEN "Decode" ELSE "Prefill"
           fallbacks == Fallbacks(List, requests, stage)
           Some == \E i \in Places : HasWork(requests[i])
           prefills == Candidates(List, requests, "Prefill")
           decodes == Candidates(List, requests, "Decode")
<1>1. b \in IF << >> \in batches /\ fallbacks # {} THEN fallbacks ELSE batches
  <2>1. Selections = AIMDSelections(List, requests, decode_window, consecutive)
    BY DEF Selections
  <2> QED BY <2>1 DEF AIMDSelections, SpareNow
<1>2. decode_window \in Nat \ {0}
  <2>1. decode_window \in MinWindow .. MaxWindow BY DEF TypeOK
  <2> QED BY <2>1, AIMDAssumption, SMT
<1>3. /\ prefills \in Seq(Places) /\ decodes \in Seq(Places)
      /\ ToSet(prefills) = {i \in Places : requests[i].stage = "Prefill" /\ HasWork(requests[i])}
      /\ ToSet(decodes) = {i \in Places : requests[i].stage = "Decode" /\ HasWork(requests[i])}
  BY CandidateFacts
<1>4. decoding => /\ decodes # << >>
                  /\ \A j \in ToSet(prefills) : ~Starved(requests[j])
  <2>1. prefills = << >> => ToSet(prefills) = {} BY ToSetEmpty
  <2>2. (\A i \in DOMAIN prefills : ~Starved(requests[prefills[i]]))
          => \A j \in ToSet(prefills) : ~Starved(requests[j])
    BY DEF ToSet
  <2>3. decoding => /\ decodes # << >>
                    /\ \/ prefills = << >>
                       \/ \A i \in DOMAIN prefills : ~Starved(requests[prefills[i]])
    BY DEF DecodeMode
  <2> HIDE DEF decoding, prefills, decodes
  <2> QED BY <2>1, <2>2, <2>3
<1>5. ~decoding /\ Some => prefills # << >>
  <2> SUFFICES ASSUME ~decoding, Some, prefills = << >> PROVE FALSE
    OBVIOUS
  <2>1. decodes = << >> BY DEF DecodeMode
  <2>2. \A i \in Places : HasWork(requests[i]) => requests[i].stage \in {"Prefill", "Decode"}
    BY DEF HasWork
  <2>3. ToSet(prefills) = {} /\ ToSet(decodes) = {} BY <2>1, ToSetEmpty
  <2> HIDE DEF decoding, prefills, decodes
  <2> QED BY <1>3, <2>2, <2>3
<1>6. decoding => Covers(b) BY <1>3, <1>4 DEF Covers
<1>7. ASSUME b \in batches
      PROVE  /\ IsBatch(b) /\ Cost(b) <= SpareNow /\ Len(b) <= MaxSequences
             /\ Some /\ SpareNow > 0 => b # << >>
             /\ b # << >> => Covers(b)
  <2> HIDE DEF prefills, decodes, Some
  <2>1. CASE decoding
    <3>1. b \in DecodeBatches(List, requests, decode_window) BY <1>7, <2>1
    <3>2. /\ IsBatch(b) /\ Cost(b) <= SpareNow /\ Len(b) <= MaxSequences
          /\ decodes # << >> /\ SpareNow > 0 => b # << >>
      BY <1>2, <3>1, DecodeBatchFacts DEF decodes
    <3> QED BY <1>4, <1>6, <2>1, <3>2
  <2>2. CASE ~decoding
    <3>1. b = PrefillBatch(PrefillOrder(List, requests), requests, SpareNow)
      BY <1>7, <2>2
    <3>2. /\ IsBatch(b) /\ Cost(b) <= SpareNow /\ Len(b) <= MaxSequences
          /\ prefills # << >> /\ SpareNow > 0 => b # << >>
          /\ b # << >> => Covers(b)
      BY <3>1, PrefillBatchFacts DEF prefills
    <3> HIDE DEF decoding
    <3> QED BY <1>5, <2>2, <3>2
  <2> QED BY <2>1, <2>2
<1>8. CASE b \in batches
  <2> HIDE DEF batches
  <2>1. Fits(List, requests, b) BY <1>7, <1>8, FitsIf
  <2> QED BY <1>7, <1>8, <2>1
<1>9. CASE b \in fallbacks /\ << >> \in batches
  <2>1. IsBatch(b) /\ b # << >> /\ (Fits(List, requests, b) => SpareNow > 0)
    <3> HIDE DEF stage
    <3> QED BY <1>9, FallbackFacts
  <2>2. SpareNow > 0 => ~Some
    <3> HIDE DEF prefills, decodes, Some
    <3>1. CASE decoding
      <4>1. << >> \in DecodeBatches(List, requests, decode_window) BY <1>9, <3>1
      <4>2. decodes # << >> /\ SpareNow > 0 => << >> # << >>
        BY <1>2, <4>1, DecodeBatchFacts DEF decodes
      <4> QED BY <1>4, <3>1, <4>2
    <3>2. CASE ~decoding
      <4>1. << >> = PrefillBatch(PrefillOrder(List, requests), requests, SpareNow)
        BY <1>9, <3>2
      <4>2. prefills # << >> /\ SpareNow > 0 => << >> # << >>
        BY <4>1, PrefillBatchFacts DEF prefills
      <4> HIDE DEF decoding
      <4> QED BY <1>5, <3>2, <4>2
    <3> QED BY <3>1, <3>2
  <2>3. ~Some => Covers(b) BY DEF Covers
  <2> HIDE DEF Some
  <2> QED BY <2>1, <2>2, <2>3 DEF Some
<1> HIDE DEF batches, fallbacks
<1> QED BY <1>1, <1>8, <1>9
-----------------------------------------------------------------------------
(* proxqp_scheduler.cpp.                                                   *)
LEMMA ProxQPSelects ==
  ASSUME TypeOK, NEW b \in ProxQPPlans(List, requests)
  PROVE  /\ IsBatch(b)
         /\ SpareNow > 0 /\ (\E i \in Places : HasWork(requests[i])) => b # << >>
<1> DEFINE A == Projections(List, requests)
           B == UrgentFallbacks(List, requests)
           limit == Least(MaxChunk, TokenBudget)
<1>0. limit \in Nat \ {0} /\ limit \in Nat /\ 1 \in 1 .. limit
  <2>1. MaxChunk \in Nat \ {0} /\ TokenBudget \in Nat \ {0}
    BY ProxQPAssumption, ResourcesAssumption
  <2> QED BY <2>1, SMT DEF Least
<1>1. ASSUME NEW p \in A PROVE IsBatch(p) /\ p # << >>
  <2> DEFINE prefills == PrefillCandidates(List, requests)
             decodes == DecodeCandidates(List, requests)
  <2>1. PICK n \in 0 .. Len(prefills), d \in SetToAllKPermutations(decodes) :
          p = Items(SubSeq(prefills, 1, n) \o d, requests, limit) /\ p # << >>
    BY DEF Projections
  <2>2. /\ prefills \in Seq(Places)
        /\ ToSet(prefills) = {i \in Places : requests[i].stage = "Prefill" /\ HasWork(requests[i])}
    <3>1. PICK S : S = {i \in Places : requests[i].stage = "Prefill" /\ HasWork(requests[i])}
      OBVIOUS
    <3>2. prefills = Filter(List, S) BY <3>1, ListFacts DEF PrefillCandidates
    <3> QED BY <3>1, <3>2, Selected
  <2>3. decodes = {i \in Places : requests[i].stage = "Decode" /\ HasWork(requests[i])}
    BY ListFacts DEF DecodeCandidates
  <2>4. d \in Seq(Places) /\ ToSet(d) \subseteq decodes
    <3>1. PICK s \in SUBSET decodes : d \in [1 .. Cardinality(s) -> s]
      BY <2>1 DEF SetToAllKPermutations, SetToSeqs
    <3>2. Cardinality(s) \in Nat
      <4>1. IsFiniteSet(Places)
        <5>1. IsFiniteSet(ToSet(List)) BY ListFacts, ToSetFinite
        <5> QED BY <5>1, ListFacts
      <4>2. s \subseteq Places BY <2>3
      <4> QED BY <4>1, <4>2, FS_Subset, FS_CardinalityType
    <3>3. s \subseteq Places BY <2>3
    <3> HIDE DEF decodes
    <3>4. d \in Seq(s) BY <3>1, <3>2, SMT
    <3>5. d \in Seq(Places) BY <3>1, <3>2, <3>3, SMT
    <3>6. ToSet(d) \subseteq s BY <3>4, SeqElements
    <3> QED BY <3>5, <3>6
  <2> HIDE DEF prefills, decodes
  <2>5. PICK first : first = SubSeq(prefills, 1, n) OBVIOUS
  <2>6. first \in Seq(Places) /\ ToSet(first) \subseteq ToSet(prefills)
    BY <2>1, <2>2, <2>5, FirstOnes
  <2>10. PICK order : order = first \o d OBVIOUS
  <2>7. order \in Seq(Places) /\ ToSet(order) \subseteq ToSet(prefills) \cup ToSet(d)
    BY <2>4, <2>6, <2>10, ToSetConcat
  <2>8. \A i \in ToSet(order) : HasWork(requests[i]) BY <2>2, <2>3, <2>4, <2>7
  <2>9. IsBatch(p) BY <1>0, <2>1, <2>5, <2>7, <2>8, <2>10, ItemsBatch
  <2> QED BY <2>1, <2>9
<1> DEFINE fitting(r) == {n \in 1 .. limit : Fits(List, requests, <<WorkFor(r, requests[r], n)>>)}
<1>2. B = {<<WorkFor(r, requests[r], Max(fitting(r)))>> :
             r \in {r \in Places : HasWork(requests[r]) /\ fitting(r) # {}}}
  BY ListFacts DEF UrgentFallbacks
<1>3. ASSUME NEW p \in B PROVE IsBatch(p) /\ p # << >>
  <2>1. PICK r \in Places : /\ HasWork(requests[r]) /\ fitting(r) # {}
                            /\ p = <<WorkFor(r, requests[r], Max(fitting(r)))>>
    BY <1>2
  <2>2. PICK S \in SUBSET (1 .. limit) : S = fitting(r) OBVIOUS
  <2>3. Max(S) \in S BY <1>0, <2>1, <2>2, LargestOf
  <2>4. PICK c \in Nat \ {0} : c = Max(S)
    <3>1. Max(S) \in 1 .. limit BY <2>3
    <3> HIDE DEF limit
    <3> QED BY <1>0, <3>1, SMT
  <2>5. p = <<WorkFor(r, requests[r], c)>> BY <2>1, <2>2, <2>4
  <2>6. p # << >> BY <2>5, SMT
  <2> QED BY <2>1, <2>5, <2>6, ItemBatch
<1>4. ASSUME SpareNow > 0, NEW i \in Places, HasWork(requests[i]) PROVE B # {}
  <2>1. PICK w : w = WorkFor(i, requests[i], 1) OBVIOUS
  <2>2. Countable(requests[i]) /\ 1 \in Nat /\ 1 > 0 BY ListFacts, SMT
  <2>3. /\ w.begin \in Nat /\ w.end \in Nat /\ Demand(requests[i]) \in Nat
        /\ Demand(requests[i]) > 0 /\ w.end - w.begin = Least(Demand(requests[i]), 1)
    BY <1>4, <2>1, <2>2, WorkCost
  <2>4. Least(Demand(requests[i]), 1) = 1 BY <2>3, SMT DEF Least
  <2>5. Cost(<<w>>) = 1 BY <2>3, <2>4, SingleCost
  <2>6. 1 <= SpareNow
    <3>1. SpareNow \in Nat BY SpareFacts
    <3> QED BY <1>4, <3>1, SMT
  <2>7. Len(<<w>>) <= MaxSequences
    <3>1. Len(<<w>>) = 1 OBVIOUS
    <3> QED BY <3>1, ResourcesAssumption, SMT
  <2>8. Fits(List, requests, <<w>>) BY <2>5, <2>6, <2>7, FitsIf
  <2>9. 1 \in fitting(i) BY <1>0, <2>1, <2>8
  <2> HIDE DEF fitting
  <2> QED BY <1>2, <1>4, <2>9
<1>5. b \in A \cup B \/ (A \cup B = {} /\ b = << >>) BY DEF ProxQPPlans
<1> HIDE DEF A, B
<1> QED BY <1>1, <1>3, <1>4, <1>5, EmptyBatch
-----------------------------------------------------------------------------
(* The continuous policies.  Those that may be scheduled have work.        *)
LEMMA RunnableHasWork ==
  ASSUME LoopInv, NEW i \in Places
  PROVE  Runnable(requests[i]) <=> HasWork(requests[i])
<1>1. Sensible(requests[i]) BY DEF LoopInv, Places
<1>2. CASE requests[i].stage = "Prefill" BY <1>1, <1>2 DEF Sensible, Runnable, HasWork
<1>3. CASE requests[i].stage = "Decode" BY <1>1, <1>3 DEF Sensible, Runnable, HasWork
<1>4. CASE requests[i].stage \notin {"Prefill", "Decode"} BY <1>4 DEF Runnable, HasWork
<1> QED BY <1>2, <1>3, <1>4

LEMMA BeforeFacts ==
  ASSUME TypeOK, NEW before, before = BeforeRelease(List, requests)
  PROVE  /\ before \in Seq(Places) /\ IsInjective(before) /\ Ascending(before)
         /\ \A i \in ToSet(before) : requests[i].stage # "PendingRelease"
         /\ \A j \in ToSet(before), i \in Places : i < j => i \in ToSet(before)
         /\ Releasing \/ before = List
<1>1. PICK n \in Nat : n = Len(requests) BY ListFacts
<1>2. /\ List \in Seq(Places) /\ Len(List) = n /\ Places = 1 .. n /\ DOMAIN List = Places
      /\ IsInjective(List) /\ \A i \in Places : List[i] = i
  BY <1>1, ListFacts
<1>3. PICK k \in 0 .. Len(List) :
        /\ before = SubSeq(List, 1, k)
        /\ \A i \in 1 .. k : requests[List[i]].stage # "PendingRelease"
        /\ k < Len(List) => requests[List[k + 1]].stage = "PendingRelease"
        /\ k = Len(List) => before = List
  BY <1>2, BeforeReleaseIsFirst
<1>4. k \in 0 .. n /\ k \in Nat /\ k <= n BY <1>2, <1>3, SMT
<1>5. /\ before \in Seq(Places) /\ DOMAIN before = 1 .. k /\ IsInjective(before)
      /\ \A i \in 1 .. k : before[i] = List[i]
  <2> DEFINE first == SubSeq(List, 1, k)
  <2>1. List \in Seq(Places) /\ k \in 0 .. Len(List) BY <1>2
  <2>2. /\ first \in Seq(Places) /\ DOMAIN first = 1 .. k
        /\ IsInjective(List) => IsInjective(first)
        /\ \A i \in 1 .. k : first[i] = List[i]
    BY <2>1, FirstOnes
  <2> HIDE DEF first
  <2>3. before = first BY <1>3 DEF first
  <2> QED BY <1>2, <2>2, <2>3
<1>6. \A i \in 1 .. k : i \in Places BY <1>2, <1>4, SMT
<1>7. \A i \in 1 .. k : before[i] = i BY <1>2, <1>5, <1>6
<1>8. ToSet(before) = 1 .. k BY <1>5, <1>7 DEF ToSet
<1>9. Ascending(before) BY <1>5, <1>7 DEF Ascending
<1>10. \A j \in 1 .. k, i \in Places : i < j => i \in 1 .. k BY <1>2, <1>4, SMT
<1>11. \A i \in 1 .. k : requests[i].stage # "PendingRelease" BY <1>2, <1>3, <1>6
<1>12. Releasing \/ before = List
  <2>1. CASE k < n
    <3>1. k + 1 \in Places BY <1>2, <1>4, <2>1, SMT
    <3>2. requests[k + 1].stage = "PendingRelease" BY <1>2, <1>3, <2>1, <3>1
    <3> QED BY <3>1, <3>2 DEF Releasing, Places
  <2>2. CASE ~(k < n)
    <3>1. k = n BY <1>4, <2>2, SMT
    <3> QED BY <1>2, <1>3, <3>1
  <2> QED BY <2>1, <2>2
<1> QED BY <1>5, <1>8, <1>9, <1>10, <1>11, <1>12

(* continuous_batched_fifo.cpp serves in the order of the list;            *)
Served(b) == {b[n].id : n \in DOMAIN b}

LEMMA ContinuousSelects ==
  ASSUME LoopInv, NEW p, p = ContinuousFifoPlan(List, requests, TokenBudget)
  PROVE  /\ IsBatch(p)
         /\ p = << >> => Releasing \/ \A i \in Places : ~HasWork(requests[i])
         /\ \A j \in Served(p), i \in Places : i < j =>
              /\ requests[i].stage # "PendingRelease"
              /\ HasWork(requests[i]) => i \in Served(p)
<1>0. TypeOK BY DEF LoopInv
<1>1. PICK before : before = BeforeRelease(List, requests) OBVIOUS
<1>2. /\ before \in Seq(Places) /\ IsInjective(before) /\ Ascending(before)
      /\ \A i \in ToSet(before) : requests[i].stage # "PendingRelease"
      /\ \A j \in ToSet(before), i \in Places : i < j => i \in ToSet(before)
      /\ Releasing \/ before = List
  BY <1>0, <1>1, BeforeFacts
<1>3. PICK w : w = Working(before, requests) OBVIOUS
<1>4. /\ IsBatch(p) /\ (p = << >> => \A i \in ToSet(before) : ~HasWork(requests[i]))
      /\ \E m \in 0 .. Len(w) : DOMAIN p = 1 .. m /\ \A n \in 1 .. m : p[n].id = w[n]
  BY <1>0, <1>1, <1>2, <1>3, FilledSelects DEF ContinuousFifoPlan
<1>5. PICK m \in 0 .. Len(w) : DOMAIN p = 1 .. m /\ \A n \in 1 .. m : p[n].id = w[n]
  BY <1>4
<1>6. /\ w \in Seq(Places) /\ Ascending(w)
      /\ ToSet(w) = {i \in ToSet(before) : HasWork(requests[i])}
  <2>1. PICK S : S = {i \in ToSet(before) : HasWork(requests[i])} OBVIOUS
  <2>2. w = Filter(before, S) BY <1>3, <2>1 DEF Working
  <2>3. before \in Seq(Nat)
    <3>1. \A i \in DOMAIN before : before[i] \in Nat
      <4>1. \A i \in Places : i \in Nat BY <1>0, ListFacts, SMT
      <4> QED BY <1>2, <4>1, SeqElements
    <3> QED BY <1>2, <3>1, SMT
  <2> QED BY <1>2, <2>1, <2>2, <2>3, FilterAscending, FilterProperties
<1>7. PICK l \in Nat : l = Len(w) /\ DOMAIN w = 1 .. l BY <1>6, LenProperties
<1>8. m \in 0 .. l BY <1>5, <1>7
<1>9. Served(p) = {w[n] : n \in 1 .. m} BY <1>5 DEF Served
<1>10. ASSUME NEW j \in Served(p), NEW i \in Places, i < j
       PROVE  /\ requests[i].stage # "PendingRelease"
              /\ HasWork(requests[i]) => i \in Served(p)
  <2>1. PICK n \in 1 .. m : j = w[n] BY <1>9
  <2>2. n \in DOMAIN w BY <1>7, <1>8, SMT
  <2>3. j \in ToSet(before) BY <1>6, <2>1, <2>2 DEF ToSet
  <2>4. i \in ToSet(before) /\ requests[i].stage # "PendingRelease" BY <1>2, <1>10, <2>3
  <2>5. ASSUME HasWork(requests[i]) PROVE i \in Served(p)
    <3>1. PICK a \in DOMAIN w : i = w[a] BY <1>6, <2>4, <2>5 DEF ToSet
    <3>2. ~(n < a)
      <4>1. n < a => j < i BY <1>6, <2>1, <2>2, <3>1 DEF Ascending
      <4>2. i \in Nat /\ j \in Nat
        <5>1. j \in Places BY <1>2, <2>3, SeqElements
        <5> QED BY <1>0, <5>1, ListFacts, SMT
      <4> QED BY <1>10, <4>1, <4>2, SMT
    <3>3. a \in 1 .. m BY <1>7, <1>8, <3>1, <3>2, SMT
    <3> QED BY <1>9, <3>1, <3>3
  <2> QED BY <2>4, <2>5
<1>11. ASSUME p = << >>, ~Releasing PROVE \A i \in Places : ~HasWork(requests[i])
  BY <1>0, <1>2, <1>4, <1>11, ListFacts
<1> QED BY <1>4, <1>10, <1>11
(* The first few prefills: with one of them, all that are older.           *)
LEMMA FirstPrefills ==
  ASSUME TypeOK, NEW order \in Seq(Places), IsInjective(order), Ascending(order),
         NEW prefills, prefills = Prefills(order, requests),
         NEW k \in 0 .. Len(prefills), NEW some, some = ToSet(SubSeq(prefills, 1, k))
  PROVE  /\ IsFiniteSet(some) /\ Cardinality(some) = k
         /\ some \subseteq {i \in ToSet(order) : requests[i].stage = "Prefill"}
         /\ \A e \in some, i \in ToSet(order) :
              i <= e /\ requests[i].stage = "Prefill" => i \in some
<1>1. /\ prefills \in Seq(Places) /\ IsInjective(prefills) /\ Ascending(prefills)
      /\ ToSet(prefills) = {i \in ToSet(order) : requests[i].stage = "Prefill"}
  <2>1. PICK S : S = {i \in ToSet(order) : requests[i].stage = "Prefill"} OBVIOUS
  <2>2. prefills = Filter(order, S) BY <2>1 DEF Prefills
  <2>3. order \in Seq(Nat)
    <3>1. \A i \in DOMAIN order : order[i] \in Nat
      <4>1. \A i \in Places : i \in Nat BY ListFacts, SMT
      <4> QED BY <4>1, SeqElements
    <3> QED BY <3>1, SMT
  <2> QED BY <2>1, <2>2, <2>3, FilterAscending, FilterProperties
<1>2. PICK first : first = SubSeq(prefills, 1, k) OBVIOUS
<1>3. /\ first \in Seq(Places) /\ Len(first) = k /\ IsInjective(first)
      /\ some = {prefills[i] : i \in 1 .. k} /\ some \subseteq ToSet(prefills)
  BY <1>1, <1>2, FirstOnes
<1>4. IsFiniteSet(some) /\ Cardinality(some) = k BY <1>2, <1>3, InjectiveLength
<1>5. ASSUME NEW e \in some, NEW i \in ToSet(order), i <= e, requests[i].stage = "Prefill"
      PROVE  i \in some
  <2>1. PICK a \in DOMAIN prefills : i = prefills[a] BY <1>1, <1>5 DEF ToSet
  <2>2. PICK c \in 1 .. k : e = prefills[c] BY <1>3
  <2>3. PICK n \in Nat : n = Len(prefills) /\ DOMAIN prefills = 1 .. n
    BY <1>1, LenProperties
  <2>4. k \in 0 .. n /\ c \in DOMAIN prefills
    <3>1. k \in 0 .. n BY <2>3
    <3> QED BY <2>2, <2>3, <3>1, SMT
  <2>5. ~(c < a)
    <3>1. c < a => e < i BY <1>1, <2>1, <2>2, <2>4 DEF Ascending
    <3>2. i \in Nat /\ e \in Nat
      <4>1. i \in Places /\ e \in Places BY <1>1, <2>1, <2>2, <2>4, SeqElements
      <4> QED BY <4>1, ListFacts, SMT
    <3> QED BY <1>5, <3>1, <3>2, SMT
  <2>6. a \in 1 .. k BY <2>1, <2>2, <2>3, <2>4, <2>5, SMT
  <2> QED BY <1>3, <2>1, <2>6
<1> QED BY <1>1, <1>3, <1>4, <1>5

(* cache_aware_continuous_fifo.cpp: only the first few prefills overtake.  *)
LEMMA CacheAwareSelects ==
  ASSUME LoopInv, NEW p \in CacheAwarePlans(List, requests, TokenBudget, {LocalityWindow})
  PROVE  /\ IsBatch(p)
         /\ p = << >> => Releasing \/ \A i \in Places : ~HasWork(requests[i])
         /\ \A j \in Served(p), i \in Places : i < j =>
              /\ requests[i].stage # "PendingRelease"
              /\ HasWork(requests[i]) /\ i \notin Served(p) =>
                   Cardinality({k \in 1 .. j : requests[k].stage = "Prefill"}) <= LocalityWindow
<1>0. TypeOK BY DEF LoopInv
<1>1. PICK before : before = BeforeRelease(List, requests) OBVIOUS
<1>2. /\ before \in Seq(Places) /\ IsInjective(before) /\ Ascending(before)
      /\ \A i \in ToSet(before) : requests[i].stage # "PendingRelease"
      /\ \A j \in ToSet(before), i \in Places : i < j => i \in ToSet(before)
      /\ Releasing \/ before = List
  BY <1>0, <1>1, BeforeFacts
<1>3. PICK S : S = {i \in ToSet(before) : Runnable(requests[i])} OBVIOUS
<1>4. PICK order : order = Filter(before, S) OBVIOUS
<1>5. \A i \in Places : i \in Nat BY <1>0, ListFacts, SMT
<1>6. order \in Seq(Places) /\ IsInjective(order) /\ ToSet(order) = S /\ Ascending(order)
  <2>1. before \in Seq(Nat)
    <3>1. \A i \in DOMAIN before : before[i] \in Nat BY <1>2, <1>5, SeqElements
    <3> QED BY <1>2, <3>1, SMT
  <2> QED BY <1>2, <1>3, <1>4, <2>1, FilterAscending, FilterProperties
<1>7. PICK new : new = LocalityOrder(order, requests, LocalityWindow) OBVIOUS
<1>8. p = Filled(new, requests, TokenBudget)
  BY <1>1, <1>3, <1>4, <1>7 DEF CacheAwarePlans
<1>9. \A i \in S : i \in Places /\ HasWork(requests[i])
  BY <1>3, <1>6, SeqElements, RunnableHasWork
<1>10. PICK prefills : prefills = Prefills(order, requests) OBVIOUS
<1>11. /\ new \in Seq(Places) /\ Len(new) = Len(order) /\ IsInjective(new)
       /\ ToSet(new) = ToSet(order)
       /\ \E k \in 0 .. Len(prefills) :
            /\ k <= LocalityWindow
            /\ \A i \in DOMAIN order :
                 \/ new[i] = order[i]
                 \/ {new[i], order[i]} \subseteq ToSet(SubSeq(prefills, 1, k))
  <2>1. LocalityWindow \in Nat BY LoopAssumption
  <2>2. \A i \in ToSet(order) : requests[i].cached_prefix_tokens \in Nat
    BY <1>0, <1>6, <1>9, ListFacts DEF States
  <2> QED BY <1>6, <1>7, <1>10, <2>1, <2>2, LocalityPlaces
<1>12. PICK k \in 0 .. Len(prefills) :
         /\ k <= LocalityWindow
         /\ \A i \in DOMAIN order :
              \/ new[i] = order[i]
              \/ {new[i], order[i]} \subseteq ToSet(SubSeq(prefills, 1, k))
  BY <1>11
<1>13. PICK some : some = ToSet(SubSeq(prefills, 1, k)) OBVIOUS
<1>14. /\ IsFiniteSet(some) /\ Cardinality(some) = k
       /\ some \subseteq {i \in ToSet(order) : requests[i].stage = "Prefill"}
       /\ \A e \in some, i \in ToSet(order) :
            i <= e /\ requests[i].stage = "Prefill" => i \in some
  BY <1>0, <1>6, <1>10, <1>13, FirstPrefills
<1>15. Working(new, requests) = new
  <2>1. PICK W : W = {i \in ToSet(new) : HasWork(requests[i])} OBVIOUS
  <2>2. ToSet(new) \subseteq W BY <1>6, <1>9, <1>11, <2>1
  <2> QED BY <1>11, <2>1, <2>2, FilterAll DEF Working
<1>16. /\ IsBatch(p) /\ (p = << >> => \A i \in ToSet(new) : ~HasWork(requests[i]))
       /\ \E m \in 0 .. Len(new) : DOMAIN p = 1 .. m /\ \A n \in 1 .. m : p[n].id = new[n]
  BY <1>0, <1>8, <1>11, <1>15, FilledSelects
<1>17. PICK m \in 0 .. Len(new) : DOMAIN p = 1 .. m /\ \A n \in 1 .. m : p[n].id = new[n]
  BY <1>16
<1>18. PICK l \in Nat : l = Len(new) /\ DOMAIN new = 1 .. l /\ DOMAIN order = 1 .. l
  BY <1>6, <1>11, LenProperties
<1>19. m \in 0 .. l BY <1>17, <1>18
<1>20. Served(p) = {new[n] : n \in 1 .. m} BY <1>17 DEF Served
<1>21. ASSUME NEW j \in Served(p), NEW i \in Places, i < j
       PROVE  /\ requests[i].stage # "PendingRelease"
              /\ HasWork(requests[i]) /\ i \notin Served(p) =>
                   Cardinality({h \in 1 .. j : requests[h].stage = "Prefill"}) <= LocalityWindow
  <2>1. PICK n \in 1 .. m : j = new[n] BY <1>20
  <2>2. n \in 1 .. l BY <1>18, <1>19, SMT
  <2>3. j \in ToSet(order) /\ j \in ToSet(before) /\ j \in Places
    BY <1>3, <1>6, <1>9, <1>11, <1>18, <2>1, <2>2 DEF ToSet
  <2>4. i \in ToSet(before) /\ requests[i].stage # "PendingRelease" BY <1>2, <1>21, <2>3
  <2>5. ASSUME HasWork(requests[i]), i \notin Served(p)
        PROVE  Cardinality({h \in 1 .. j : requests[h].stage = "Prefill"}) <= LocalityWindow
    <3> DEFINE ahead == {h \in 1 .. j : requests[h].stage = "Prefill"}
    <3>1. i \in ToSet(order) BY <1>3, <1>6, <2>4, <2>5, RunnableHasWork
    <3>2. PICK x \in 1 .. l : i = order[x] BY <1>18, <3>1 DEF ToSet
    <3>3. PICK y \in 1 .. l : j = order[y] BY <1>18, <2>3 DEF ToSet
    <3>4. x < y
      <4>1. y < x => j < i BY <1>6, <1>18, <3>2, <3>3 DEF Ascending
      <4>2. x # y
        <5>1. i # j BY <1>5, <1>21, <2>3, SMT
        <5> QED BY <3>2, <3>3, <5>1
      <4>3. ~(j < i) BY <1>5, <1>21, <2>3, SMT
      <4> QED BY <4>1, <4>2, <4>3, SMT
    <3>5. \E e \in some : j <= e
      <4>1. CASE j \in some
        <5>1. j <= j BY <1>5, <2>3, SMT
        <5> QED BY <4>1, <5>1
      <4>2. CASE j \notin some
        <5>1. new[y] = j BY <1>12, <1>13, <1>18, <3>3, <4>2
        <5>2. n = y BY <1>11, <1>18, <2>1, <2>2, <3>3, <5>1 DEF IsInjective
        <5>3. new[x] # i
          <6>1. x \in 1 .. m BY <1>18, <1>19, <2>1, <3>2, <3>4, <5>2, SMT
          <6> QED BY <1>20, <2>5, <6>1
        <5>4. i \in some BY <1>12, <1>13, <1>18, <3>2, <5>3
        <5>5. PICK z \in 1 .. l : i = new[z]
          <6>1. i \in ToSet(new) BY <1>11, <3>1
          <6> QED BY <1>18, <6>1 DEF ToSet
        <5>6. ~(z <= m)
          <6>1. z <= m => z \in 1 .. m BY <1>18, <1>19, <5>5, SMT
          <6> QED BY <1>20, <2>5, <5>5, <6>1
        <5>7. y < z BY <1>18, <1>19, <2>1, <5>2, <5>5, <5>6, SMT
        <5>8. order[z] \in some
          <6>1. new[z] # order[z]
            <7>1. i # order[z]
              <8>1. x # z BY <1>18, <3>2, <3>3, <3>4, <5>5, <5>7, SMT
              <8> QED BY <1>6, <1>18, <3>2, <5>5, <8>1 DEF IsInjective
            <7> QED BY <5>5, <7>1
          <6> QED BY <1>12, <1>13, <1>18, <5>5, <6>1
        <5>9. j < order[z] BY <1>6, <1>18, <3>3, <5>5, <5>7 DEF Ascending
        <5>10. j <= order[z]
          <6>1. order[z] \in Places BY <1>6, <1>18, <5>5, SeqElements
          <6> QED BY <1>5, <2>3, <5>9, <6>1, SMT
        <5> QED BY <5>8, <5>10
      <4> QED BY <4>1, <4>2
    <3>6. PICK e \in some : j <= e BY <3>5
    <3>7. ahead \subseteq some
      <4> SUFFICES ASSUME NEW h \in 1 .. j, requests[h].stage = "Prefill" PROVE h \in some
        OBVIOUS
      <4>1. j \in Nat /\ e \in Nat BY <1>5, <1>14, <2>3, <3>6, SMT, <1>6, <1>9
      <4>2. h \in Nat /\ h <= e /\ (h = j \/ h < j) BY <3>6, <4>1, SMT
      <4>3. h \in Places
        <5>1. PICK s \in Nat : s = Len(requests) /\ Places = 1 .. s BY <1>0, ListFacts
        <5> QED BY <2>3, <5>1, SMT
      <4>4. h \in ToSet(before) BY <1>2, <2>3, <4>2, <4>3
      <4>5. h \in ToSet(order) BY <1>3, <1>6, <4>4 DEF Runnable
      <4> QED BY <1>14, <4>2, <4>5
    <3>8. Cardinality(ahead) <= k
      <4> HIDE DEF ahead
      <4>1. Cardinality(ahead) <= Cardinality(some) BY <1>14, <3>7, FS_Subset
      <4> QED BY <1>14, <4>1
    <3>9. Cardinality(ahead) \in Nat
      <4> HIDE DEF ahead
      <4> QED BY <1>14, <3>7, FS_Subset, FS_CardinalityType
    <3>10. k \in Int /\ LocalityWindow \in Int
      <4>1. Cardinality(some) \in Nat BY <1>14, FS_CardinalityType
      <4>2. LocalityWindow \in Int BY LoopAssumption, SMT
      <4> QED BY <1>14, <4>1, <4>2, SMT
    <3> HIDE DEF ahead
    <3> QED BY <1>12, <3>8, <3>9, <3>10, SMT DEF ahead
  <2> QED BY <2>4, <2>5
<1>22. ASSUME p = << >>, ~Releasing PROVE \A i \in Places : ~HasWork(requests[i])
  <2>1. \A i \in ToSet(new) : ~HasWork(requests[i]) BY <1>16, <1>22
  <2>2. ToSet(before) = Places BY <1>0, <1>2, <1>22, ListFacts
  <2> SUFFICES ASSUME NEW i \in Places, HasWork(requests[i]) PROVE FALSE OBVIOUS
  <2>3. i \in S BY <1>3, <2>2, RunnableHasWork
  <2> QED BY <1>6, <1>11, <2>1, <2>3
<1> QED BY <1>16, <1>21, <1>22
-----------------------------------------------------------------------------
(* What any of the policies selects.                                       *)
LEMMA PolicySelects ==
  ASSUME LoopInv, NEW b \in Selections
  PROVE  /\ IsBatch(b) /\ IsBatch(PlanOf(b))
         /\ PlanOf(b) = << >> /\ (\E i \in Places : HasWork(requests[i])) =>
              \/ Releasing
              \/ /\ policy \in {"aimd", "proxqp"}
                 /\ ResidentTokens(List, requests) >= MemoryTokens
<1> DEFINE Some == \E i \in Places : HasWork(requests[i])
           Full == ResidentTokens(List, requests) >= MemoryTokens
<1>0. TypeOK BY DEF LoopInv
<1>1. policy \in {"fifo", "continuous", "cache_aware", "aimd", "proxqp"}
  BY <1>0, LoopAssumption DEF TypeOK
<1>2. Full \/ SpareNow > 0
  <2>1. ResidentTokens(List, requests) \in Nat /\ MemoryTokens \in Nat
    BY <1>0, SpareFacts, ResourcesAssumption
  <2> QED BY <1>0, <2>1, SpareFacts, SMT
<1>3. PlanOf(b) = b \/ PlanOf(b) = << >> BY DEF PlanOf
<1>4. policy # "aimd" => PlanOf(b) = b BY DEF PlanOf
<1> SUFFICES /\ IsBatch(b)
             /\ PlanOf(b) = << >> /\ Some =>
                  Releasing \/ (policy \in {"aimd", "proxqp"} /\ Full)
  BY <1>3, EmptyBatch
<1>5. CASE policy = "fifo"
  <2>1. b = FifoPlan(List, requests, TokenBudget) BY <1>5 DEF Selections
  <2>2. /\ IsBatch(b)
        /\ b = << >> /\ (\E i \in Places : Runnable(requests[i]))
             => \/ Releasing
                \/ \E i \in Places : Runnable(requests[i]) /\ ~HasWork(requests[i])
    BY <1>0, <2>1, FifoSelects
  <2> QED BY <1>4, <1>5, <2>2, RunnableHasWork
<1>6. CASE policy = "continuous"
  <2>1. b = ContinuousFifoPlan(List, requests, TokenBudget) BY <1>6 DEF Selections
  <2>2. IsBatch(b) /\ (b = << >> => Releasing \/ ~Some) BY <2>1, ContinuousSelects
  <2> QED BY <1>4, <1>6, <2>2
<1>7. CASE policy = "cache_aware"
  <2>1. b \in CacheAwarePlans(List, requests, TokenBudget, {LocalityWindow})
    BY <1>7 DEF Selections
  <2>2. IsBatch(b) /\ (b = << >> => Releasing \/ ~Some) BY <2>1, CacheAwareSelects
  <2> QED BY <1>4, <1>7, <2>2
<1>8. CASE policy = "aimd"
  <2>1. IsBatch(b) /\ (SpareNow > 0 /\ Some => b # << >> /\ Fits(List, requests, b))
    BY <1>0, <1>8, AIMDSelects
  <2>2. Fits(List, requests, b) => PlanOf(b) = b BY DEF PlanOf
  <2> HIDE DEF Some, Full
  <2> QED BY <1>2, <1>8, <2>1, <2>2
<1>9. CASE policy = "proxqp"
  <2>1. b \in ProxQPPlans(List, requests) BY <1>9 DEF Selections
  <2>2. IsBatch(b) /\ (SpareNow > 0 /\ Some => b # << >>) BY <1>0, <2>1, ProxQPSelects
  <2> HIDE DEF Some, Full
  <2> QED BY <1>2, <1>4, <1>9, <2>2
<1> QED BY <1>1, <1>5, <1>6, <1>7, <1>8, <1>9
-----------------------------------------------------------------------------
(* A request after a work item.                                            *)
LEMMA AfterFacts ==
  ASSUME NEW q \in States, Sensible(q), HasWork(q), NEW i, NEW c \in Nat \ {0},
         NEW w, w = WorkFor(i, q, c), NEW r, r = After(q, w)
  PROVE  /\ r \in States /\ Sensible(r) /\ r.bypasses = q.bypasses
         /\ r.stage = "Prefill" => q.stage = "Prefill"
         /\ r.stage # "PendingAdmission"
<1>1. /\ q.prompt_length \in Nat /\ q.output \in Nat /\ q.prefill_position \in Nat
      /\ q.decoded_count \in Nat
  BY DEF States
<1>2. q.prompt_length > 0 /\ q.output > 0
  <2>1. PICK s \in Shapes : q.prompt_length = s.prompt /\ q.output = s.output
    BY DEF Sensible
  <2>2. s.prompt \in Nat \ {0} /\ s.output \in Nat \ {0} BY LoopAssumption
  <2> QED BY <2>1, <2>2, SMT
<1>3. /\ q.prefill_position <= q.prompt_length /\ q.decoded_count <= q.output
      /\ q.stage = "Prefill" => q.decoded_count = 0 /\ q.prefill_position < q.prompt_length
      /\ q.stage = "Decode" => q.decoded_count > 0 /\ q.decoded_count < q.output
  BY DEF Sensible
<1> DEFINE decoded == q.decoded_count
                      + (IF w.kind = "Decode" \/ w.end = q.prompt_length THEN 1 ELSE 0)
           position == IF w.kind = "Prefill" THEN w.end ELSE q.prefill_position
           stage == CASE decoded >= q.output -> "PendingRelease"
                      [] decoded \in 1 .. q.output - 1 -> "Decode"
                      [] decoded = 0 -> "Prefill"
<1>4. r = [q EXCEPT !.prefill_position = position, !.decoded_count = decoded, !.stage = stage]
  BY Zenon DEF After
<1>5. q.stage \in {"Prefill", "Decode"} BY DEF HasWork
<1>6. /\ position \in Nat /\ position <= q.prompt_length
      /\ decoded \in Nat /\ decoded <= q.output
      /\ decoded = 0 => q.stage = "Prefill" /\ position < q.prompt_length
  <2>1. CASE q.stage = "Prefill"
    <3>1. w.kind = "Prefill" /\ w.end = Least(q.prompt_length, q.prefill_position + c)
      BY <2>1 DEF WorkFor
    <3>2. /\ w.end \in Nat /\ w.end <= q.prompt_length
      BY <1>1, <3>1, SMT DEF Least
    <3>3. position = w.end BY <3>1
    <3>4. decoded = IF w.end = q.prompt_length THEN 1 ELSE 0 BY <1>3, <2>1, <3>1, SMT
    <3> HIDE DEF position, decoded
    <3> QED BY <1>1, <1>2, <2>1, <3>2, <3>3, <3>4, SMT
  <2>2. CASE q.stage = "Decode"
    <3>1. w.kind = "Decode" BY <2>2 DEF WorkFor
    <3>2. position = q.prefill_position /\ decoded = q.decoded_count + 1 BY <3>1
    <3> HIDE DEF position, decoded
    <3> QED BY <1>1, <1>3, <2>2, <3>2, SMT
  <2> QED BY <1>5, <2>1, <2>2
<1> HIDE DEF position, decoded
<1>7. /\ stage \in {"PendingRelease", "Decode", "Prefill"}
      /\ stage = "Prefill" => decoded = 0
      /\ stage = "Decode" => decoded > 0 /\ decoded < q.output
  <2>1. CASE decoded >= q.output
    <3>1. decoded # 0 /\ ~(decoded \in 1 .. q.output - 1) BY <1>1, <1>2, <1>6, <2>1, SMT
    <3>2. stage = "PendingRelease" BY <2>1, <3>1
    <3> QED BY <3>2
  <2>2. CASE ~(decoded >= q.output) /\ decoded = 0
    <3>1. ~(decoded \in 1 .. q.output - 1) BY <2>2, SMT
    <3>2. stage = "Prefill" BY <2>2, <3>1
    <3> QED BY <2>2, <3>2
  <2>3. CASE ~(decoded >= q.output) /\ decoded # 0
    <3>1. decoded \in 1 .. q.output - 1 /\ decoded > 0 /\ decoded < q.output
      BY <1>1, <1>6, <2>3, SMT
    <3>2. stage = "Decode" BY <2>3, <3>1
    <3> QED BY <3>1, <3>2
  <2> QED BY <2>1, <2>2, <2>3
<1> HIDE DEF stage
<1>8. r \in States BY <1>4, <1>6, <1>7, Zenon DEF States
<1>9. /\ r.prefill_position = position /\ r.decoded_count = decoded /\ r.stage = stage
      /\ r.prompt_length = q.prompt_length /\ r.output = q.output /\ r.bypasses = q.bypasses
  BY <1>4 DEF States
<1>10. Sensible(r)
  <2>1. \E s \in Shapes : r.prompt_length = s.prompt /\ r.output = s.output
    BY <1>9 DEF Sensible
  <2>2. r.stage # "PendingAdmission" BY <1>7, <1>9
  <2> QED BY <1>6, <1>7, <1>9, <2>1, <2>2 DEF Sensible
<1> QED BY <1>6, <1>7, <1>8, <1>9, <1>10

LEMMA ExecutedFacts ==
  ASSUME LoopInv, NEW plan, IsBatch(plan), NEW i \in Places, NEW r, r = Executed(i, plan)
  PROVE  /\ r \in States /\ Sensible(r) /\ r.bypasses = requests[i].bypasses
         /\ r.stage = "Prefill" => requests[i].stage = "Prefill"
         /\ r.stage = "PendingAdmission" => ~HasWork(requests[i])
<1> DEFINE items == {n \in DOMAIN plan : plan[n].id = i}
<1>1. requests[i] \in States /\ Sensible(requests[i])
  BY ListFacts DEF LoopInv, Places
<1>2. CASE items = {}
  <2>1. r = requests[i] BY <1>2 DEF Executed
  <2> QED BY <1>1, <2>1 DEF HasWork
<1>3. CASE items # {}
  <2>1. PICK n \in items : r = After(requests[i], plan[n]) BY <1>3 DEF Executed
  <2>2. PICK j \in Places, c \in Nat \ {0} :
          HasWork(requests[j]) /\ plan[n] = WorkFor(j, requests[j], c)
    BY DEF IsBatch, IsItem
  <2>3. j = i
    <3>1. plan[n].id = j BY <2>2 DEF WorkFor
    <3> QED BY <3>1
  <2>4. /\ r \in States /\ Sensible(r) /\ r.bypasses = requests[i].bypasses
        /\ r.stage = "Prefill" => requests[i].stage = "Prefill"
        /\ r.stage # "PendingAdmission"
    BY <1>1, <2>1, <2>2, <2>3, AfterFacts
  <2> QED BY <2>4
<1> QED BY <1>2, <1>3
(* A request after a batch, and after its bypasses are counted.            *)
Counted(i, plan, selected) ==
  [Executed(i, plan) EXCEPT !.bypasses = Bypassed(i, requests[i], selected).bypasses,
                            !.waited = Waited(i, requests[i], plan)]

LEMMA CountedFacts ==
  ASSUME LoopInv, NEW plan, IsBatch(plan), NEW i \in Places, NEW selected,
         NEW r, r = Counted(i, plan, selected)
  PROVE  /\ r \in States /\ Sensible(r)
         /\ r.stage = "Prefill" => requests[i].stage = "Prefill"
         /\ r.bypasses = IF ~HasWork(requests[i]) \/ i \in selected THEN 0
                         ELSE requests[i].bypasses + 1
<1>1. PICK e : e = Executed(i, plan) OBVIOUS
<1>2. /\ e \in States /\ Sensible(e)
      /\ e.stage = "Prefill" => requests[i].stage = "Prefill"
      /\ e.stage = "PendingAdmission" => ~HasWork(requests[i])
  BY <1>1, ExecutedFacts
<1>3. requests[i] \in States BY ListFacts DEF LoopInv
<1>4. PICK n : n = IF ~HasWork(requests[i]) \/ i \in selected THEN 0
                   ELSE requests[i].bypasses + 1
  OBVIOUS
<1>5. Bypassed(i, requests[i], selected).bypasses = n
  BY <1>3, <1>4 DEF Bypassed, States
<1>6. n \in Nat
  <2>1. requests[i].bypasses \in Nat BY <1>3 DEF States
  <2> QED BY <1>4, <2>1, SMT
<1>7. PICK m : m = Waited(i, requests[i], plan) OBVIOUS
<1>8. m \in Nat
  <2>1. requests[i].waited \in Nat /\ 0 \in Nat BY <1>3 DEF States
  <2>2. requests[i].waited + 1 \in Nat BY <2>1, SMT
  <2>3. m \in {requests[i].waited, 0, requests[i].waited + 1} BY <1>7 DEF Waited
  <2> QED BY <2>1, <2>2, <2>3
<1>9. r = [e EXCEPT !.bypasses = n, !.waited = m] BY <1>1, <1>5, <1>7 DEF Counted
<1>10. r \in States BY <1>2, <1>6, <1>9, <1>8, Zenon DEF States
<1>11. /\ r.stage = e.stage /\ r.prompt_length = e.prompt_length /\ r.output = e.output
      /\ r.prefill_position = e.prefill_position /\ r.decoded_count = e.decoded_count
      /\ r.bypasses = n
  BY <1>2, <1>9 DEF States
<1>12. Sensible(r)
  <2>1. r.stage = "PendingAdmission" => r.bypasses = 0 BY <1>2, <1>4, <1>11
  <2> QED BY <1>2, <1>11, <2>1 DEF Sensible
<1> QED BY <1>2, <1>4, <1>10, <1>11, <1>12
-----------------------------------------------------------------------------
(* The types are kept, and every request stays in its stage.               *)
LEMMA WindowStays ==
  ASSUME decode_window \in MinWindow .. MaxWindow, NEW w \in UpdatedWindows(decode_window)
  PROVE  w \in MinWindow .. MaxWindow
<1> DEFINE d == decode_window
<1>1. /\ MinWindow \in Nat /\ MinWindow > 0 /\ MaxWindow \in Nat /\ MaxWindow >= MinWindow
      /\ WindowStep \in Nat
  BY AIMDAssumption, SMT
<1>2. d \in Nat /\ MinWindow <= d /\ d <= MaxWindow BY <1>1, SMT
<1>3. \/ w = d \/ w = Least(d + WindowStep, MaxWindow)
      \/ \E n \in (4 * d) \div 5 .. (4 * d + 3) \div 5 : w = Max({n, MinWindow})
  BY DEF UpdatedWindows
<1> HIDE DEF d
<1>4. CASE w = d BY <1>1, <1>2, <1>4, SMT
<1>5. CASE w = Least(d + WindowStep, MaxWindow) BY <1>1, <1>2, <1>5, SMT DEF Least
<1>6. ASSUME NEW n \in (4 * d) \div 5 .. (4 * d + 3) \div 5, w = Max({n, MinWindow})
      PROVE  w \in MinWindow .. MaxWindow
  <2>1. n \in Int /\ n <= (4 * d + 3) \div 5 BY <1>2, SMT
  <2>2. (4 * d + 3) \div 5 <= d BY <1>1, <1>2, SMT
  <2>3. n <= d
    <3>1. (4 * d + 3) \div 5 \in Int BY <1>2, SMT
    <3> QED BY <1>2, <2>1, <2>2, <3>1, SMT
  <2>4. w = IF n >= MinWindow THEN n ELSE MinWindow
    <3>1. MinWindow \in Int BY <1>1, SMT
    <3> QED BY <1>6, <2>1, <3>1, MaxTwo
  <2> QED BY <1>1, <1>2, <2>1, <2>3, <2>4, SMT
<1> QED BY <1>3, <1>4, <1>5, <1>6

LEMMA InitLoop == Init => LoopInv
<1> SUFFICES ASSUME Init PROVE LoopInv
  OBVIOUS
<1>1. /\ MinWindow \in Nat /\ PrefillWindow \in Nat /\ MaxWindow \in Nat
      /\ MaxWindow >= MinWindow /\ MaxDecodeBatches \in Nat /\ Slots \in Nat
  BY AIMDAssumption, LoopAssumption, SMT
<1>2. PICK n : n = Least(PrefillWindow, MaxWindow) OBVIOUS
<1>3. n \in Int /\ n <= MaxWindow BY <1>1, <1>2, SMT DEF Least
<1>4. decode_window = IF n >= MinWindow THEN n ELSE MinWindow
  <2>1. MinWindow \in Int BY <1>1, SMT
  <2>2. decode_window = Max({n, MinWindow}) BY <1>2 DEF Init
  <2> QED BY <1>3, <2>1, <2>2, MaxTwo
<1>5. decode_window \in MinWindow .. MaxWindow BY <1>1, <1>3, <1>4, SMT
<1>6. consecutive \in 0 .. MaxDecodeBatches BY <1>1, SMT DEF Init
<1>7. requests = << >> /\ policy \in Policies /\ drained \in BOOLEAN BY DEF Init
<1>8. requests \in Seq(States) /\ Len(requests) = 0 BY <1>7, EmptySeq
<1>9. Len(requests) <= Slots BY <1>1, <1>8, SMT
<1>10. DOMAIN requests = {}
  <2>1. DOMAIN requests = 1 .. 0 BY <1>8, LenProperties
  <2> QED BY <2>1, SMT
<1>11. TypeOK BY <1>5, <1>6, <1>7, <1>8, <1>9 DEF TypeOK, States
<1> QED BY <1>10, <1>11 DEF LoopInv

(* What a step must leave to keep the invariant.                           *)
LEMMA LoopInvFrom ==
  ASSUME LoopInv, UNCHANGED policy, drained' \in BOOLEAN,
         decode_window' \in MinWindow .. MaxWindow, consecutive' \in 0 .. MaxDecodeBatches,
         requests' \in Seq(States), Len(requests') <= Slots,
         \A i \in DOMAIN requests' : Sensible(requests'[i])
  PROVE  LoopInv'
<1>1. policy' \in Policies BY DEF LoopInv, TypeOK
<1>2. TypeOK' BY <1>1 DEF TypeOK, States
<1> QED BY <1>2 DEF LoopInv, Sensible

LEMMA ArriveLoop == LoopInv /\ Arrive => LoopInv'
<1> SUFFICES ASSUME LoopInv, Arrive PROVE LoopInv'
  OBVIOUS
<1>0. TypeOK BY DEF LoopInv
<1>1. PICK shape \in Shapes, watched \in BOOLEAN :
        requests' = Append(requests,
          [stage |-> "PendingAdmission", prompt_length |-> shape.prompt,
           output |-> shape.output, prefill_position |-> 0, decoded_count |-> 0,
           cached_prefix_tokens |-> 0, bypasses |-> 0, waited |-> 0,
           watched |-> watched])
  BY DEF Arrive
<1>2. PICK q : q = [stage |-> "PendingAdmission", prompt_length |-> shape.prompt,
           output |-> shape.output, prefill_position |-> 0, decoded_count |-> 0,
           cached_prefix_tokens |-> 0, bypasses |-> 0, waited |-> 0,
           watched |-> watched]
  OBVIOUS
<1>3. shape.prompt \in Nat \ {0} /\ shape.output \in Nat \ {0} BY LoopAssumption
<1>4. 0 \in Nat /\ shape.prompt \in Nat /\ shape.output \in Nat
      /\ 0 <= shape.prompt /\ 0 <= shape.output
  BY <1>3, SMT
<1>5. q \in States BY <1>2, <1>4, Zenon DEF States
<1>6. Sensible(q) BY <1>2, <1>4 DEF Sensible
<1>7. requests \in Seq(States) /\ Len(requests) \in Nat /\ Slots \in Nat
  BY <1>0, ListFacts, LoopAssumption
<1>8. requests' = Append(requests, q) BY <1>1, <1>2
<1>9. requests' \in Seq(States) /\ Len(requests') = Len(requests) + 1
  BY <1>5, <1>7, <1>8, AppendProperties
<1>10. Len(requests') <= Slots
  <2>1. Len(requests) < Slots BY DEF Arrive
  <2> QED BY <1>7, <1>9, <2>1, SMT
<1>11. \A i \in DOMAIN requests' : Sensible(requests'[i])
  <2> TAKE i \in DOMAIN requests'
  <2>1. DOMAIN requests' = 1 .. Len(requests) + 1 /\ DOMAIN requests = 1 .. Len(requests)
    BY <1>7, <1>9, LenProperties
  <2>2. CASE i = Len(requests) + 1
    <3>1. requests'[i] = q BY <1>7, <1>8, <2>2, AppendProperties
    <3> QED BY <1>6, <3>1
  <2>3. CASE i # Len(requests) + 1
    <3>1. i \in 1 .. Len(requests) BY <1>7, <2>1, <2>3, SMT
    <3>2. requests'[i] = requests[i] BY <1>5, <1>7, <1>8, <3>1, AppendProperties
    <3> QED BY <2>1, <3>1, <3>2 DEF LoopInv
  <2> QED BY <2>2, <2>3
<1>12. UNCHANGED <<policy, decode_window, consecutive, drained>> BY DEF Arrive
<1> QED BY <1>0, <1>9, <1>10, <1>11, <1>12, LoopInvFrom DEF TypeOK

LEMMA AdmitLoop == LoopInv /\ Admit => LoopInv'
<1> SUFFICES ASSUME LoopInv, Admit PROVE LoopInv'
  OBVIOUS
<1>0. TypeOK BY DEF LoopInv
<1>1. PICK i \in Places :
        /\ requests[i].stage = "PendingAdmission"
        /\ \E cached \in 0 .. requests[i].prompt_length - 1 :
             requests' = [requests EXCEPT ![i].stage = "Prefill",
                                          ![i].prefill_position = cached,
                                          ![i].cached_prefix_tokens = cached]
  BY DEF Admit, Places
<1>2. PICK cached \in 0 .. requests[i].prompt_length - 1 :
        requests' = [requests EXCEPT ![i].stage = "Prefill",
                                     ![i].prefill_position = cached,
                                     ![i].cached_prefix_tokens = cached]
  BY <1>1
<1>3. PICK q : q = requests[i] OBVIOUS
<1>4. PICK r : r = [q EXCEPT !.stage = "Prefill", !.prefill_position = cached,
                             !.cached_prefix_tokens = cached]
  OBVIOUS
<1>5. requests' = [requests EXCEPT ![i] = r] BY <1>2, <1>3, <1>4
<1>6. q \in States /\ Sensible(q) BY <1>0, <1>3, ListFacts DEF LoopInv, Places
<1>7. q.prompt_length \in Nat /\ q.prompt_length > 0
  <2>1. PICK s \in Shapes : q.prompt_length = s.prompt BY <1>6 DEF Sensible
  <2>2. s.prompt \in Nat \ {0} BY LoopAssumption
  <2> QED BY <2>1, <2>2, SMT
<1>8. cached \in Nat /\ cached < q.prompt_length /\ cached <= q.prompt_length
  <2>1. cached \in 0 .. q.prompt_length - 1 BY <1>2, <1>3
  <2> QED BY <1>7, <2>1, SMT
<1>9. r \in States BY <1>4, <1>6, <1>8, Zenon DEF States
<1>10. /\ r.stage = "Prefill" /\ r.prefill_position = cached
       /\ r.prompt_length = q.prompt_length /\ r.output = q.output
       /\ r.decoded_count = q.decoded_count
  BY <1>4, <1>6 DEF States
<1>11. Sensible(r)
  <2>1. q.decoded_count = 0 BY <1>1, <1>3, <1>6 DEF Sensible
  <2> QED BY <1>6, <1>8, <1>10, <2>1 DEF Sensible
<1>12. requests \in Seq(States) /\ Len(requests) \in Nat /\ Places = 1 .. Len(requests)
       /\ \A j \in Places : requests[j] \in States
       /\ Len(requests) <= Slots
  BY <1>0, ListFacts
<1>13. /\ DOMAIN requests' = Places
       /\ \A j \in Places : requests'[j] = IF j = i THEN r ELSE requests[j]
  BY <1>5 DEF Places
<1>14. requests' \in Seq(States) /\ Len(requests') = Len(requests)
  <2>1. requests' \in [1 .. Len(requests) -> States]
    <3>1. \A j \in Places : requests'[j] \in States BY <1>9, <1>12, <1>13
    <3>2. requests' = [j \in Places |-> requests'[j]] BY <1>5, <1>13 DEF Places
    <3> QED BY <1>12, <3>1, <3>2
  <2> QED BY <1>12, <2>1, SMT
<1>15. \A j \in DOMAIN requests' : Sensible(requests'[j])
  BY <1>11, <1>13 DEF LoopInv, Places
<1>16. UNCHANGED <<policy, decode_window, consecutive, drained>> BY DEF Admit
<1> QED BY <1>0, <1>12, <1>14, <1>15, <1>16, LoopInvFrom DEF TypeOK
LEMMA LeaveLoop ==
  ASSUME LoopInv, NEW l \in DOMAIN requests, Leave(l)
  PROVE  LoopInv'
<1>0. TypeOK BY DEF LoopInv
<1>1. /\ requests \in Seq(States) /\ Len(requests) \in Nat /\ Len(requests) <= Slots
      /\ Slots \in Nat /\ DOMAIN requests = 1 .. Len(requests)
  BY <1>0, ListFacts, LoopAssumption DEF Places
<1>2. requests' = RemoveAt(requests, l) BY DEF Leave
<1>3. /\ requests' \in Seq(States) /\ Len(requests') = Len(requests) - 1
      /\ \A i \in DOMAIN requests' : requests'[i] = requests[IF i < l THEN i ELSE i + 1]
  BY <1>1, <1>2, LeaveOut
<1>4. Len(requests') <= Slots BY <1>1, <1>3, SMT
<1>5. \A i \in DOMAIN requests' : (IF i < l THEN i ELSE i + 1) \in DOMAIN requests
  <2>1. DOMAIN requests' = 1 .. Len(requests) - 1 BY <1>3, LenProperties
  <2> QED BY <1>1, <2>1, SMT
<1>6. \A i \in DOMAIN requests' : Sensible(requests'[i])
  <2> TAKE i \in DOMAIN requests'
  <2>1. PICK k \in DOMAIN requests : requests'[i] = requests[k] BY <1>3, <1>5
  <2> QED BY <2>1 DEF LoopInv
<1>7. UNCHANGED <<policy, decode_window, consecutive, drained>> BY DEF Leave
<1> QED BY <1>0, <1>3, <1>4, <1>6, <1>7, LoopInvFrom DEF TypeOK

(* The step that schedules, in the terms that the proofs need.             *)
LEMMA ScheduleCases ==
  ASSUME LoopInv, Schedule
  PROVE  /\ UNCHANGED policy
         /\ \E i \in Places : HasWork(requests[i])
         /\ \E b \in Selections :
              /\ drained' = (PlanOf(b) = << >> /\ ~Releasing)
              /\ \/ drained' /\ requests' = << >>
                 \/ /\ ~drained' /\ DOMAIN requests' = Places
                    /\ requests' \in Seq(States) /\ Len(requests') = Len(requests)
                    /\ \A i \in Places :
                         /\ Sensible(requests'[i])
                         /\ requests'[i].stage = "Prefill" => requests[i].stage = "Prefill"
                         /\ policy = "aimd" =>
                              requests'[i].bypasses =
                                IF ~HasWork(requests[i]) \/ i \in Served(b) THEN 0
                                ELSE requests[i].bypasses + 1
              /\ consecutive' \in 0 .. MaxDecodeBatches
              /\ decode_window' \in MinWindow .. MaxWindow
<1>0. TypeOK BY DEF LoopInv
<1> DEFINE Step(b, plan) ==
        LET selected == {b[i].id : i \in DOMAIN b}
            decodes == plan # << >> /\ plan[1].kind = "Decode"
            counted(i) == IF policy = "aimd"
                          THEN [Executed(i, plan) EXCEPT
                                  !.bypasses = Bypassed(i, requests[i], selected).bypasses,
                                  !.waited = Waited(i, requests[i], plan)]
                          ELSE Executed(i, plan)
        IN  /\ drained' = (plan = << >> /\ ~Releasing)
            /\ requests' = IF drained' THEN << >> ELSE [i \in DOMAIN requests |-> counted(i)]
            /\ consecutive' = IF policy # "aimd" \/ plan = << >> THEN consecutive
                              ELSE IF decodes THEN Least(consecutive + 1, MaxDecodeBatches)
                              ELSE 0
            /\ decode_window' \in IF policy = "aimd" /\ decodes
                                  THEN UpdatedWindows(decode_window) ELSE {decode_window}
<1>1. PICK b \in Selections : Step(b, PlanOf(b)) BY Zenon DEF Schedule
<1>2. PICK plan : plan = PlanOf(b) OBVIOUS
<1>3. UNCHANGED policy BY DEF Schedule
<1>4. \E i \in Places : HasWork(requests[i])
  <2>1. PICK i \in DOMAIN requests : Runnable(requests[i]) BY DEF Schedule
  <2> QED BY <2>1, RunnableHasWork DEF Places
<1>5. IsBatch(plan) BY <1>2, PolicySelects
<1>6. drained' = (plan = << >> /\ ~Releasing) BY <1>1, <1>2
<1>7. consecutive' \in 0 .. MaxDecodeBatches
  <2>1. consecutive' \in {consecutive, Least(consecutive + 1, MaxDecodeBatches), 0}
    BY <1>1, <1>2
  <2>2. consecutive \in 0 .. MaxDecodeBatches /\ MaxDecodeBatches \in Nat
    BY <1>0, AIMDAssumption DEF TypeOK
  <2>3. Least(consecutive + 1, MaxDecodeBatches) \in 0 .. MaxDecodeBatches
        /\ 0 \in 0 .. MaxDecodeBatches
    BY <2>2, SMT DEF Least
  <2> QED BY <2>1, <2>2, <2>3
<1>8. decode_window' \in MinWindow .. MaxWindow
  <2>1. decode_window \in MinWindow .. MaxWindow BY <1>0 DEF TypeOK
  <2>2. decode_window' \in UpdatedWindows(decode_window) \/ decode_window' = decode_window
    BY <1>1, <1>2
  <2> QED BY <2>1, <2>2, WindowStays
<1>9. CASE drained'
  <2>1. requests' = << >> BY <1>1, <1>2, <1>9
  <2> QED BY <1>2, <1>3, <1>4, <1>6, <1>7, <1>8, <1>9, <2>1
<1>10. CASE ~drained'
  <2>1. PICK sel : sel = Served(b) OBVIOUS
  <2> DEFINE counted(i) == IF policy = "aimd" THEN Counted(i, plan, sel)
                           ELSE Executed(i, plan)
  <2>2. requests' = [i \in Places |-> counted(i)]
    BY <1>1, <1>2, <1>10, <2>1 DEF Served, Places, Counted
  <2>3. ASSUME NEW i \in Places
        PROVE  /\ counted(i) \in States /\ Sensible(counted(i))
               /\ counted(i).stage = "Prefill" => requests[i].stage = "Prefill"
               /\ policy = "aimd" =>
                    counted(i).bypasses =
                      IF ~HasWork(requests[i]) \/ i \in sel THEN 0
                      ELSE requests[i].bypasses + 1
    <3>1. CASE policy = "aimd"
      <4>1. PICK r : r = Counted(i, plan, sel) OBVIOUS
      <4>2. counted(i) = r BY <3>1, <4>1
      <4> HIDE DEF counted
      <4>3. /\ r \in States /\ Sensible(r)
            /\ r.stage = "Prefill" => requests[i].stage = "Prefill"
            /\ r.bypasses = IF ~HasWork(requests[i]) \/ i \in sel THEN 0
                            ELSE requests[i].bypasses + 1
        BY <1>5, <4>1, CountedFacts
      <4> QED BY <4>2, <4>3
    <3>2. CASE policy # "aimd"
      <4>1. counted(i) = Executed(i, plan) BY <3>2
      <4> HIDE DEF counted
      <4> QED BY <1>5, <3>2, <4>1, ExecutedFacts
    <3> QED BY <3>1, <3>2
  <2>4. DOMAIN requests' = Places /\ \A i \in Places : requests'[i] = counted(i)
    BY <2>2
  <2>5. requests' \in Seq(States) /\ Len(requests') = Len(requests)
    <3>1. Places = 1 .. Len(requests) /\ Len(requests) \in Nat BY <1>0, ListFacts
    <3>2. requests' \in [1 .. Len(requests) -> States]
      <4> HIDE DEF counted
      <4> QED BY <2>2, <2>3, <3>1
    <3> QED BY <3>1, <3>2, SMT
  <2> HIDE DEF counted
  <2>6. \A i \in Places :
          /\ Sensible(requests'[i])
          /\ requests'[i].stage = "Prefill" => requests[i].stage = "Prefill"
          /\ policy = "aimd" =>
               requests'[i].bypasses =
                 IF ~HasWork(requests[i]) \/ i \in Served(b) THEN 0
                 ELSE requests[i].bypasses + 1
    BY <2>1, <2>3, <2>4
  <2> QED BY <1>2, <1>3, <1>4, <1>6, <1>7, <1>8, <1>10, <2>4, <2>5, <2>6
<1> QED BY <1>9, <1>10

LEMMA ScheduleLoop == LoopInv /\ Schedule => LoopInv'
<1> SUFFICES ASSUME LoopInv, Schedule PROVE LoopInv'
  OBVIOUS
<1>0. TypeOK BY DEF LoopInv
<1>1. /\ UNCHANGED policy /\ drained' \in BOOLEAN
      /\ \/ requests' = << >>
         \/ /\ DOMAIN requests' = Places
            /\ requests' \in Seq(States) /\ Len(requests') = Len(requests)
            /\ \A i \in Places : Sensible(requests'[i])
      /\ consecutive' \in 0 .. MaxDecodeBatches
      /\ decode_window' \in MinWindow .. MaxWindow
  BY ScheduleCases
<1>2. Slots \in Nat /\ Len(requests) <= Slots BY <1>0, ListFacts, LoopAssumption
<1>3. /\ requests' \in Seq(States) /\ Len(requests') <= Slots
      /\ \A i \in DOMAIN requests' : Sensible(requests'[i])
  <2>1. CASE requests' = << >>
    <3>1. requests' \in Seq(States) /\ Len(requests') = 0 BY <2>1, EmptySeq
    <3>2. Len(requests') <= Slots BY <1>2, <3>1, SMT
    <3>3. DOMAIN requests' = {}
      <4>1. DOMAIN requests' = 1 .. 0 BY <3>1, LenProperties
      <4> QED BY <4>1, SMT
    <3> QED BY <3>1, <3>2, <3>3
  <2>2. CASE requests' # << >> BY <1>1, <1>2, <2>2
  <2> QED BY <2>1, <2>2
<1> QED BY <1>1, <1>3, LoopInvFrom

LEMMA LoopInvariant == Spec => []LoopInv
<1>1. LoopInv /\ [Next]_vars => LoopInv'
  <2> SUFFICES ASSUME LoopInv, [Next]_vars PROVE LoopInv'
    OBVIOUS
  <2>1. CASE Arrive BY <2>1, ArriveLoop
  <2>2. CASE Admit BY <2>2, AdmitLoop
  <2>3. CASE Schedule BY <2>3, ScheduleLoop
  <2>4. ASSUME NEW i \in DOMAIN requests, Leave(i) PROVE LoopInv' BY <2>4, LeaveLoop
  <2>5. CASE UNCHANGED vars BY <2>5 DEF vars, LoopInv, TypeOK, Sensible
  <2> QED BY <2>1, <2>2, <2>3, <2>4, <2>5 DEF Next, Drained
<1> QED BY <1>1, InitLoop, PTL DEF Spec
-----------------------------------------------------------------------------
(* The state of the loop keeps its types, whatever arrives and whichever   *)
(* policy selects: no more requests than slots, a decode window between    *)
(* its bounds, no more decode batches in a row than are counted.           *)
THEOREM LoopTypes == Spec => []TypeOK
<1>1. LoopInv => TypeOK BY DEF LoopInv
<1> QED BY <1>1, LoopInvariant, PTL

(* A policy asked for a plan while no release is pending finds one, unless *)
(* it is one that counts memory and the memory is full: so the empty plan  *)
(* for which the scheduler drains the run says just that.                  *)
THEOREM EmptyPlansSayFull == Spec => []EmptyOnlyWhenNothingFits
<1>1. LoopInv => EmptyOnlyWhenNothingFits
  <2> SUFFICES ASSUME LoopInv, NEW i \in DOMAIN requests, Runnable(requests[i]),
                      NEW b \in Selections, PlanOf(b) = << >>, ~Releasing
               PROVE  /\ policy \in {"aimd", "proxqp"}
                      /\ ResidentTokens(List, requests) >= MemoryTokens
    BY Zenon DEF EmptyOnlyWhenNothingFits
  <2>1. i \in Places /\ HasWork(requests[i]) BY RunnableHasWork DEF Places
  <2> QED BY <2>1, PolicySelects
<1> QED BY <1>1, LoopInvariant, PTL

(* The continuous policy serves no prompt while an older one that could be *)
(* served goes without; the cache-aware policy does so only among the first*)
(* few prefills; neither serves anything behind a pending release.         *)
THEOREM OvertakingIsBounded == Spec => []OvertakesOnlyInWindow
<1>1. LoopInv => OvertakesOnlyInWindow
  <2> SUFFICES ASSUME LoopInv, policy \in {"continuous", "cache_aware"},
                      NEW b \in Selections, NEW i \in Places, NEW j \in Places,
                      i < j, j \in Served(b)
               PROVE  /\ requests[i].stage # "PendingRelease"
                      /\ HasWork(requests[i]) /\ i \notin Served(b) =>
                           /\ policy = "cache_aware"
                           /\ Cardinality({k \in 1 .. j : requests[k].stage = "Prefill"})
                                <= LocalityWindow
    <3>1. \A b, k : (\E n \in DOMAIN b : b[n].id = k) <=> k \in Served(b) BY DEF Served
    <3> QED BY <3>1, Zenon DEF OvertakesOnlyInWindow, Places
  <2>1. CASE policy = "continuous"
    <3>1. b = ContinuousFifoPlan(List, requests, TokenBudget) BY <2>1 DEF Selections
    <3> QED BY <3>1, ContinuousSelects
  <2>2. CASE policy = "cache_aware"
    <3>1. b \in CacheAwarePlans(List, requests, TokenBudget, {LocalityWindow})
      BY <2>2 DEF Selections
    <3> QED BY <2>2, <3>1, CacheAwareSelects
  <2> QED BY <2>1, <2>2
<1> QED BY <1>1, LoopInvariant, PTL
-----------------------------------------------------------------------------
(* The prefills that have been passed over k times more than it takes to   *)
(* starve.  Each time all of them but one are passed over again, so the    *)
(* larger k is the fewer they are.                                         *)
Starving(rs, k) ==
  {i \in DOMAIN rs : rs[i].stage = "Prefill" /\ rs[i].bypasses >= StarvationThreshold + k}

FewStarve(rs) ==
  \A k \in Nat : Starving(rs, k) # {} =>
    IsFiniteSet(Starving(rs, k)) /\ Cardinality(Starving(rs, k)) + k <= Slots - 1

BypassInv == LoopInv /\ (policy = "aimd" => FewStarve(requests))

LEMMA FewStarveFrom ==
  ASSUME FewStarve(requests), NEW rs,
         \A k \in Nat : Starving(rs, k) \subseteq Starving(requests, k)
  PROVE  FewStarve(rs)
<1> SUFFICES ASSUME NEW k \in Nat, Starving(rs, k) # {}
             PROVE  /\ IsFiniteSet(Starving(rs, k))
                    /\ Cardinality(Starving(rs, k)) + k <= Slots - 1
  BY DEF FewStarve
<1> DEFINE A == Starving(rs, k)
           B == Starving(requests, k)
<1>1. A \subseteq B /\ IsFiniteSet(B) /\ Cardinality(B) + k <= Slots - 1
  BY DEF FewStarve
<1> HIDE DEF A, B
<1>2. IsFiniteSet(A) /\ Cardinality(A) <= Cardinality(B) BY <1>1, FS_Subset
<1>3. Cardinality(A) \in Nat /\ Cardinality(B) \in Nat BY <1>1, <1>2, FS_CardinalityType
<1>4. Slots \in Nat BY LoopAssumption
<1>5. Cardinality(A) + k <= Slots - 1 BY <1>1, <1>2, <1>3, <1>4, SMT
<1> QED BY <1>2, <1>5 DEF A

LEMMA ArriveStarve == LoopInv /\ FewStarve(requests) /\ Arrive => FewStarve(requests')
<1> SUFFICES ASSUME LoopInv, FewStarve(requests), Arrive PROVE FewStarve(requests')
  OBVIOUS
<1>1. PICK q : requests' = Append(requests, q) /\ q.stage = "PendingAdmission"
  BY DEF Arrive
<1>2. requests \in Seq(States) /\ Len(requests) \in Nat /\ DOMAIN requests = 1 .. Len(requests)
  BY ListFacts DEF LoopInv, Places
<1>3. /\ DOMAIN requests' = 1 .. Len(requests) + 1 /\ requests'[Len(requests) + 1] = q
      /\ \A i \in 1 .. Len(requests) : requests'[i] = requests[i]
  BY <1>1, <1>2, SMT
<1>4. \A i \in DOMAIN requests' : i = Len(requests) + 1 \/ i \in DOMAIN requests
  BY <1>2, <1>3, SMT
<1>5. \A k \in Nat : Starving(requests', k) \subseteq Starving(requests, k)
  BY <1>1, <1>2, <1>3, <1>4 DEF Starving
<1> QED BY <1>5, FewStarveFrom

LEMMA AdmitStarve == LoopInv /\ FewStarve(requests) /\ Admit => FewStarve(requests')
<1> SUFFICES ASSUME LoopInv, FewStarve(requests), Admit PROVE FewStarve(requests')
  OBVIOUS
<1>1. PICK i \in Places :
        /\ requests[i].stage = "PendingAdmission"
        /\ \E r : /\ requests' = [requests EXCEPT ![i] = r]
                  /\ r.bypasses = requests[i].bypasses
  <2>1. PICK i \in Places :
          /\ requests[i].stage = "PendingAdmission"
          /\ \E cached :
               requests' = [requests EXCEPT ![i].stage = "Prefill",
                                            ![i].prefill_position = cached,
                                            ![i].cached_prefix_tokens = cached]
    BY DEF Admit, Places
  <2>6. PICK cached :
          requests' = [requests EXCEPT ![i].stage = "Prefill",
                                       ![i].prefill_position = cached,
                                       ![i].cached_prefix_tokens = cached]
    BY <2>1
  <2>2. PICK r : r = [requests[i] EXCEPT !.stage = "Prefill", !.prefill_position = cached,
                                         !.cached_prefix_tokens = cached]
    OBVIOUS
  <2>3. requests' = [requests EXCEPT ![i] = r] BY <2>2, <2>6
  <2>4. requests[i] \in States BY ListFacts DEF LoopInv
  <2>5. r.bypasses = requests[i].bypasses BY <2>2, <2>4 DEF States
  <2> QED BY <2>1, <2>3, <2>5
<1>2. PICK r : requests' = [requests EXCEPT ![i] = r] /\ r.bypasses = requests[i].bypasses
  BY <1>1
<1>3. requests[i].bypasses = 0
  <2>1. Sensible(requests[i]) BY DEF LoopInv, Places
  <2> QED BY <1>1, <2>1 DEF Sensible
<1>4. \A k \in Nat : ~(0 >= StarvationThreshold + k) BY AIMDAssumption, SMT
<1>5. \A k \in Nat : Starving(requests', k) \subseteq Starving(requests, k)
  <2>1. /\ DOMAIN requests' = Places /\ requests'[i] = r
        /\ \A j \in Places : j # i => requests'[j] = requests[j]
    BY <1>2 DEF Places
  <2> QED BY <1>2, <1>3, <1>4, <2>1 DEF Starving, Places
<1> QED BY <1>5, FewStarveFrom

LEMMA LeaveStarve ==
  ASSUME LoopInv, FewStarve(requests), NEW l \in DOMAIN requests, Leave(l)
  PROVE  FewStarve(requests')
<1>1. /\ requests \in Seq(States) /\ Len(requests) \in Nat
      /\ DOMAIN requests = 1 .. Len(requests)
  BY ListFacts DEF LoopInv, Places
<1>2. requests' = RemoveAt(requests, l) BY DEF Leave
<1>3. /\ requests' \in Seq(States) /\ Len(requests') = Len(requests) - 1
      /\ \A i \in DOMAIN requests' : requests'[i] = requests[IF i < l THEN i ELSE i + 1]
  BY <1>1, <1>2, LeaveOut
<1>4. \A i \in DOMAIN requests' : (IF i < l THEN i ELSE i + 1) \in DOMAIN requests
  <2>1. DOMAIN requests' = 1 .. Len(requests) - 1 BY <1>3, LenProperties
  <2> QED BY <1>1, <2>1, SMT
<1>5. \A i, j \in DOMAIN requests' :
        (IF i < l THEN i ELSE i + 1) = (IF j < l THEN j ELSE j + 1) => i = j
  <2>1. DOMAIN requests' = 1 .. Len(requests) - 1 BY <1>3, LenProperties
  <2> QED BY <1>1, <2>1, SMT
<1> SUFFICES ASSUME NEW k \in Nat, Starving(requests', k) # {}
             PROVE  /\ IsFiniteSet(Starving(requests', k))
                    /\ Cardinality(Starving(requests', k)) + k <= Slots - 1
  BY DEF FewStarve
<1>6. PICK A : A = Starving(requests', k) OBVIOUS
<1>7. PICK B : B = Starving(requests, k) OBVIOUS
<1> DEFINE f == [i \in A |-> IF i < l THEN i ELSE i + 1]
<1>8. A \subseteq DOMAIN requests' BY <1>6 DEF Starving
<1>9. \A i \in A : (IF i < l THEN i ELSE i + 1) \in B
  <2> TAKE i \in A
  <2>1. PICK j : j = IF i < l THEN i ELSE i + 1 OBVIOUS
  <2>2. j \in DOMAIN requests /\ requests'[i] = requests[j] BY <1>3, <1>4, <1>8, <2>1
  <2>3. i \in Starving(requests', k) BY <1>6
  <2>4. j \in B BY <1>7, <2>2, <2>3 DEF Starving
  <2> QED BY <2>1, <2>4
<1>10. f \in Injection(A, B)
  <2>1. f \in [A -> B] BY <1>9
  <2>2. \A i, j \in A : f[i] = f[j] => i = j BY <1>5, <1>8
  <2> HIDE DEF f
  <2>3. DOMAIN f = A BY <2>1
  <2> QED BY <2>1, <2>2, <2>3 DEF Injection, IsInjective
<1> HIDE DEF f
<1>11. B # {} BY <1>6, <1>9
<1>12. IsFiniteSet(B) /\ Cardinality(B) + k <= Slots - 1
  BY <1>7, <1>11 DEF FewStarve
<1>13. IsFiniteSet(A) /\ Cardinality(A) <= Cardinality(B) BY <1>10, <1>12, FS_Injection
<1>14. Cardinality(A) \in Nat /\ Cardinality(B) \in Nat
  BY <1>12, <1>13, FS_CardinalityType
<1>15. Slots \in Nat BY LoopAssumption
<1>16. Cardinality(A) + k <= Slots - 1 BY <1>12, <1>13, <1>14, <1>15, SMT
<1> QED BY <1>6, <1>13, <1>16

(* While a release is pending, an AIMD policy that finds the memory full   *)
(* counts a bypass for all but the request it could not serve.  So the     *)
(* bound needs room for one more token in the meantime,                    *)
RoomWhileReleasing ==
  policy = "aimd" /\ Releasing => ResidentTokens(List, requests) < MemoryTokens

(* which there is if the memory suffices for all requests but one.         *)
Roomy ==
  \E most \in Nat :
    /\ \A s \in Shapes : s.prompt + s.output - 2 <= most
    /\ (Slots - 1) * most < MemoryTokens

LEMMA ScheduleStarve ==
  ASSUME BypassInv, RoomWhileReleasing, policy = "aimd", Schedule
  PROVE  FewStarve(requests')
<1>0. TypeOK /\ LoopInv /\ FewStarve(requests) BY DEF BypassInv, LoopInv
<1>1. PICK b \in Selections :
        /\ drained' = (PlanOf(b) = << >> /\ ~Releasing)
        /\ \/ drained' /\ requests' = << >>
           \/ /\ ~drained' /\ DOMAIN requests' = Places
              /\ \A i \in Places :
                   /\ requests'[i].stage = "Prefill" => requests[i].stage = "Prefill"
                   /\ requests'[i].bypasses =
                        IF ~HasWork(requests[i]) \/ i \in Served(b) THEN 0
                        ELSE requests[i].bypasses + 1
  BY <1>0, ScheduleCases
<1>2. \E i \in Places : HasWork(requests[i]) BY <1>0, ScheduleCases
<1>3. /\ StarvationThreshold \in Nat /\ StarvationThreshold > 0 /\ Slots \in Nat /\ Slots > 0
  BY AIMDAssumption, LoopAssumption, SMT
<1>4. CASE requests' = << >>
  <2>1. DOMAIN requests' = {} BY <1>4, SMT
  <2>2. \A k \in Nat : Starving(requests', k) = {} BY <2>1 DEF Starving
  <2> QED BY <2>2 DEF FewStarve
<1>5. CASE requests' # << >>
  <2>1. ~drained' /\ (PlanOf(b) # << >> \/ Releasing) BY <1>1, <1>5
  <2>2. b # << >> /\ Fits(List, requests, b)
    <3>1. CASE PlanOf(b) # << >> BY <3>1 DEF PlanOf
    <3>2. CASE Releasing
      <4>1. SpareNow > 0 BY <1>0, <3>2, SpareFacts DEF RoomWhileReleasing
      <4> QED BY <1>0, <1>2, <4>1, AIMDSelects
    <3> QED BY <2>1, <3>1, <3>2
  <2>3. IsBatch(b) /\ Covers(b) BY <1>0, <2>2, AIMDSelects
  <2>4. DOMAIN requests' = Places BY <1>1, <2>1
  <2>5. \A i \in Places :
          /\ requests'[i].stage = "Prefill" => requests[i].stage = "Prefill"
          /\ i \in Served(b) => requests'[i].bypasses = 0
          /\ i \notin Served(b) =>
               \/ requests'[i].bypasses = 0
               \/ HasWork(requests[i]) /\ requests'[i].bypasses = requests[i].bypasses + 1
    BY <1>1, <2>1
  <2>6. \A i \in Places : requests[i].bypasses \in Nat BY <1>0, ListFacts DEF States
  <2>7. IsFiniteSet(Places) /\ Cardinality(Places) <= Slots
    <3>1. /\ List \in Seq(Places) /\ IsInjective(List) /\ ToSet(List) = Places
          /\ Len(List) = Len(requests) /\ Len(requests) <= Slots
      BY <1>0, ListFacts
    <3>2. IsFiniteSet(Places) /\ Cardinality(Places) = Len(List) BY <3>1, InjectiveLength
    <3> QED BY <3>1, <3>2
  <2> SUFFICES ASSUME NEW k \in Nat, Starving(requests', k) # {}
               PROVE  /\ IsFiniteSet(Starving(requests', k))
                      /\ Cardinality(Starving(requests', k)) + k <= Slots - 1
    BY DEF FewStarve
  <2>8. PICK A : A = Starving(requests', k) OBVIOUS
  <2>9. \A i \in A : /\ i \in Places /\ requests[i].stage = "Prefill"
                     /\ i \notin Served(b) /\ HasWork(requests[i])
                     /\ requests[i].bypasses + 1 >= StarvationThreshold + k
    <3> TAKE i \in A
    <3>1. /\ i \in Places /\ requests'[i].stage = "Prefill"
          /\ requests'[i].bypasses >= StarvationThreshold + k
      BY <2>4, <2>8 DEF Starving
    <3>2. requests'[i].bypasses # 0 BY <1>3, <3>1, SMT
    <3> QED BY <2>5, <3>1, <3>2
  <2>10. ASSUME NEW S, IsFiniteSet(S), A \subseteq S, NEW m \in S, m \notin A
         PROVE  /\ IsFiniteSet(A) /\ Cardinality(A) \in Nat /\ Cardinality(S) \in Nat
                /\ Cardinality(A) <= Cardinality(S) - 1
    <3>1. A \subseteq S \ {m} BY <2>10
    <3>2. IsFiniteSet(S \ {m}) /\ Cardinality(S \ {m}) = Cardinality(S) - 1
      BY <2>10, FS_RemoveElement
    <3> QED BY <2>10, <3>1, <3>2, FS_Subset, FS_CardinalityType
  <2>13. DOMAIN b # {} BY <2>2, <2>3 DEF IsBatch
  <2>11. CASE k = 0
    <3>1. PICK n \in DOMAIN b : TRUE BY <2>2, <2>13
    <3>2. b[n].id \in Places /\ b[n].id \in Served(b)
      BY <1>0, <2>3, <3>1, ItemFacts DEF IsBatch, Served
    <3>3. A \subseteq Places /\ b[n].id \notin A BY <2>9, <3>2
    <3>4. /\ IsFiniteSet(A) /\ Cardinality(A) \in Nat /\ Cardinality(Places) \in Nat
          /\ Cardinality(A) <= Cardinality(Places) - 1
      BY <2>7, <2>10, <3>2, <3>3
    <3>5. Cardinality(A) + k <= Slots - 1 BY <1>3, <2>7, <2>11, <3>4, SMT
    <3> QED BY <2>8, <3>4, <3>5
  <2>12. CASE k # 0
    <3>1. k - 1 \in Nat BY <2>12, SMT
    <3>2. PICK S : S = Starving(requests, k - 1) OBVIOUS
    <3>3. \A i \in Places : requests[i].bypasses + 1 >= StarvationThreshold + k
                              <=> requests[i].bypasses >= StarvationThreshold + (k - 1)
      BY <1>3, <2>6, SMT
    <3>4. A \subseteq S BY <2>9, <3>2, <3>3 DEF Starving, Places
    <3>5. PICK i \in A : TRUE BY <2>8
    <3>6. Starved(requests[i])
      <4>1. requests[i].bypasses \in Nat /\ requests[i].bypasses + 1 >= StarvationThreshold + k
        BY <2>6, <2>9, <3>5
      <4> QED BY <1>3, <3>1, <4>1, SMT DEF Starved
    <3>7. PICK n \in DOMAIN b : /\ requests[b[n].id].stage = "Prefill"
                                /\ requests[b[n].id].bypasses >= requests[i].bypasses
      BY <2>3, <2>9, <3>5, <3>6 DEF Covers
    <3>8. PICK m : m = b[n].id OBVIOUS
    <3>9. m \in Places /\ m \in Served(b)
      BY <1>0, <2>3, <3>7, <3>8, ItemFacts DEF IsBatch, Served
    <3>10. m \in S
      <4>1. /\ requests[m].bypasses \in Nat /\ requests[i].bypasses \in Nat
            /\ requests[m].bypasses >= requests[i].bypasses
            /\ requests[i].bypasses + 1 >= StarvationThreshold + k
        BY <2>6, <2>9, <3>5, <3>7, <3>8, <3>9
      <4>2. requests[m].bypasses >= StarvationThreshold + (k - 1) BY <1>3, <4>1, SMT
      <4> QED BY <3>2, <3>7, <3>8, <3>9, <4>2 DEF Starving, Places
    <3>11. m \notin A BY <2>9, <3>9
    <3>12. IsFiniteSet(S) /\ Cardinality(S) + (k - 1) <= Slots - 1
      <4>1. S # {} BY <3>10
      <4> QED BY <1>0, <3>1, <3>2, <4>1 DEF FewStarve
    <3>13. /\ IsFiniteSet(A) /\ Cardinality(A) \in Nat /\ Cardinality(S) \in Nat
           /\ Cardinality(A) <= Cardinality(S) - 1
      BY <2>10, <3>4, <3>10, <3>11, <3>12
    <3>14. Cardinality(A) + k <= Slots - 1 BY <1>3, <3>12, <3>13, SMT
    <3> QED BY <2>8, <3>13, <3>14
  <2> QED BY <2>11, <2>12
<1> QED BY <1>4, <1>5
LEMMA BypassStep ==
  BypassInv /\ RoomWhileReleasing /\ [Next]_vars => BypassInv'
<1> SUFFICES ASSUME BypassInv, RoomWhileReleasing, [Next]_vars PROVE BypassInv'
  OBVIOUS
<1>0. LoopInv BY DEF BypassInv
<1>1. CASE Arrive
  <2>1. policy' = policy BY <1>1 DEF Arrive
  <2> QED BY <1>0, <1>1, <2>1, ArriveLoop, ArriveStarve DEF BypassInv
<1>2. CASE Admit
  <2>1. policy' = policy BY <1>2 DEF Admit
  <2> QED BY <1>0, <1>2, <2>1, AdmitLoop, AdmitStarve DEF BypassInv
<1>3. CASE Schedule
  <2>1. policy' = policy BY <1>3 DEF Schedule
  <2> QED BY <1>0, <1>3, <2>1, ScheduleLoop, ScheduleStarve DEF BypassInv
<1>4. ASSUME NEW i \in DOMAIN requests, Leave(i) PROVE BypassInv'
  <2>1. policy' = policy BY <1>4 DEF Leave
  <2> QED BY <1>0, <1>4, <2>1, LeaveLoop, LeaveStarve DEF BypassInv
<1>5. CASE UNCHANGED vars
  <2>1. LoopInv' BY <1>0, <1>5 DEF vars, LoopInv, TypeOK, Sensible
  <2>2. policy' = policy /\ requests' = requests BY <1>5 DEF vars
  <2> QED BY <2>1, <2>2 DEF BypassInv
<1> QED BY <1>1, <1>2, <1>3, <1>4, <1>5 DEF Next, Drained

LEMMA BypassBound == BypassInv => BoundedBypass
<1> SUFFICES ASSUME BypassInv, policy = "aimd", NEW i \in DOMAIN requests,
                    requests[i].stage = "Prefill",
                    ~(requests[i].bypasses < StarvationThreshold + Slots - 1)
             PROVE  FALSE
  BY DEF BoundedBypass
<1>1. requests[i].bypasses \in Nat
  BY ListFacts DEF BypassInv, LoopInv, Places, States
<1>2. StarvationThreshold \in Nat /\ Slots \in Nat /\ Slots - 1 \in Nat
  BY AIMDAssumption, LoopAssumption, SMT
<1>3. requests[i].bypasses >= StarvationThreshold + (Slots - 1) BY <1>1, <1>2, SMT
<1>4. PICK A : A = Starving(requests, Slots - 1) OBVIOUS
<1>5. i \in A BY <1>3, <1>4 DEF Starving
<1>6. IsFiniteSet(A) /\ Cardinality(A) + (Slots - 1) <= Slots - 1
  BY <1>2, <1>4, <1>5 DEF BypassInv, FewStarve
<1>7. Cardinality(A) \in Nat /\ Cardinality(A) # 0
  BY <1>5, <1>6, FS_CardinalityType, FS_EmptySet
<1> QED BY <1>2, <1>6, <1>7, SMT

LEMMA InitBypass == Init => BypassInv
<1> SUFFICES ASSUME Init PROVE BypassInv
  OBVIOUS
<1>1. DOMAIN requests = {}
  <2>1. requests = << >> BY DEF Init
  <2> QED BY <2>1, SMT
<1>2. \A k \in Nat : Starving(requests, k) = {} BY <1>1 DEF Starving
<1> QED BY <1>2, InitLoop DEF BypassInv, FewStarve

(* With memory for all requests but one, there is room while one waits for *)
(* its release, as that one takes none.                                    *)
LEMMA RoomyHasRoom ==
  ASSUME Roomy PROVE LoopInv => RoomWhileReleasing
<1> SUFFICES ASSUME LoopInv, Releasing
             PROVE  ResidentTokens(List, requests) < MemoryTokens
  BY DEF RoomWhileReleasing
<1>0. TypeOK BY DEF LoopInv
<1>1. PICK most \in Nat : /\ \A s \in Shapes : s.prompt + s.output - 2 <= most
                          /\ (Slots - 1) * most < MemoryTokens
  BY DEF Roomy
<1>2. PICK z \in Places : requests[z].stage = "PendingRelease" BY DEF Releasing, Places
<1>3. Resident(requests[z]) = 0 BY <1>2 DEF Resident
<1>4. \A i \in Places : Resident(requests[i]) <= most
  <2> TAKE i \in Places
  <2>1. PICK q : q = requests[i] OBVIOUS
  <2>2. q \in States /\ Sensible(q) BY <1>0, <2>1, ListFacts DEF LoopInv, Places
  <2>3. PICK s \in Shapes : q.prompt_length = s.prompt /\ q.output = s.output
    BY <2>2 DEF Sensible
  <2>4. s.prompt \in Nat /\ s.prompt > 0 /\ s.output \in Nat /\ s.output > 0
        /\ s.prompt + s.output - 2 <= most
    <3>1. s.prompt \in Nat \ {0} /\ s.output \in Nat \ {0} BY LoopAssumption
    <3> QED BY <1>1, <3>1, SMT
  <2>5. q.prefill_position \in Nat /\ q.decoded_count \in Nat BY <2>2 DEF States
  <2>6. CASE q.stage = "Prefill"
    <3>1. q.decoded_count = 0 /\ q.prefill_position < q.prompt_length
      BY <2>2, <2>6 DEF Sensible
    <3>2. Resident(q) = q.prefill_position + 0
      <4>1. ~(q.decoded_count > 0) BY <3>1, SMT
      <4> QED BY <2>6, <4>1 DEF Resident
    <3>3. q.prefill_position + 0 <= most BY <2>3, <2>4, <2>5, <3>1, SMT
    <3> QED BY <2>1, <3>2, <3>3
  <2>7. CASE q.stage = "Decode"
    <3>1. /\ q.decoded_count > 0 /\ q.decoded_count < q.output
          /\ q.prefill_position <= q.prompt_length
      BY <2>2, <2>7 DEF Sensible
    <3>2. Resident(q) = q.prefill_position + (q.decoded_count - 1)
      BY <2>7, <3>1 DEF Resident
    <3>3. q.prefill_position + (q.decoded_count - 1) <= most
      BY <2>3, <2>4, <2>5, <3>1, SMT
    <3> QED BY <2>1, <3>2, <3>3
  <2>8. CASE q.stage \notin {"Prefill", "Decode"}
    <3>1. Resident(q) = 0 BY <2>8 DEF Resident
    <3>2. 0 <= most BY SMT
    <3> QED BY <2>1, <3>1, <3>2
  <2> QED BY <2>6, <2>7, <2>8
<1>5. PICK R : R = ResidentTokens(List, requests) OBVIOUS
<1>6. R \in Nat /\ R <= (Len(List) - 1) * most
  <2>1. z \in Nat BY <1>0, <1>2, ListFacts, SMT
  <2>2. \A i \in DOMAIN List : /\ Resident(requests[List[i]]) \in Nat
                               /\ Resident(requests[List[i]]) <= most
    BY <1>0, <1>4, ListFacts, ResidentIsNat
  <2>3. z \in DOMAIN List /\ Resident(requests[List[z]]) = 0
    BY <1>0, <1>2, <1>3, ListFacts
  <2> QED BY <1>0, <1>5, <2>1, <2>2, <2>3, ListFacts, ResidentBound
<1>7. PICK n \in Nat : n = Len(List) /\ n <= Slots /\ n > 0
  <2>1. PICK n \in Nat : n = Len(List) /\ n <= Slots /\ Places = 1 .. n
    BY <1>0, ListFacts
  <2>2. n > 0 BY <1>2, <2>1, SMT
  <2> QED BY <2>1, <2>2
<1>8. (n - 1) * most <= (Slots - 1) * most
  <2>1. Slots \in Nat BY LoopAssumption
  <2>2. PICK d \in Nat : Slots = n + d
    <3>1. Slots - n \in Nat /\ Slots = n + (Slots - n) BY <1>7, <2>1, SMT
    <3> QED BY <3>1
  <2>3. (Slots - 1) * most = (n - 1) * most + d * most BY <2>2, SMT
  <2>4. d * most \in Nat /\ (n - 1) * most \in Nat
    <3>1. n - 1 \in Nat BY <1>7, SMT
    <3> QED BY <3>1, SMT
  <2> HIDE DEF Places
  <2> QED BY <2>3, <2>4, SMT
<1>9. (n - 1) * most \in Int /\ (Slots - 1) * most \in Int /\ MemoryTokens \in Int
  BY LoopAssumption, ResourcesAssumption, SMT
<1> QED BY <1>1, <1>5, <1>6, <1>7, <1>8, <1>9, SMT

(* No prefill is passed over much more often than it takes to starve, as   *)
(* long as an AIMD policy finds room while a release is pending.           *)
THEOREM BypassesBoundedWithRoom ==
  Spec /\ []RoomWhileReleasing => []BoundedBypass
BY LoopInvariant, InitBypass, BypassStep, BypassBound, PTL DEF Spec

(* And it does if the memory suffices for all requests but one.            *)
THEOREM BypassesBounded ==
  ASSUME Roomy PROVE Spec => []BoundedBypass
<1>1. LoopInv => RoomWhileReleasing BY RoomyHasRoom
<1> QED BY <1>1, LoopInvariant, BypassesBoundedWithRoom, PTL
=============================================================================
