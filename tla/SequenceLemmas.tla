--------------------------- MODULE SequenceLemmas ---------------------------
(***************************************************************************)
(* What the operators on sequences that the model uses return: taking from *)
(* a queue, adding to it, filtering a list.                                *)
(***************************************************************************)
EXTENDS FifoPolicies, SequencesExt, SequenceTheorems, FiniteSetTheorems, TLAPS

(* Induction, stated of a set: unlike the library's theorem, which is      *)
(* stated of an operator, it can be instantiated by the provers.           *)
LEMMA Induction ==
  ASSUME NEW P, 0 \in P, \A n \in Nat : n \in P => n + 1 \in P
  PROVE  \A n \in Nat : n \in P
<1> DEFINE T == {n \in Nat : n \notin P}
           R == {ss \in Nat \X Nat : ss[1] < ss[2]}
<1> SUFFICES ASSUME T # {} PROVE FALSE
  OBVIOUS
<1>1. R = OpToRel(<, Nat) BY DEF OpToRel
<1>2. IsWellFoundedOn(R, Nat) BY <1>1, NatLessThanWellFounded
<1>3. PICK n \in T : \A m \in T : ~(<<m, n>> \in R)
  <2> HIDE DEF R
  <2>1. T \subseteq Nat OBVIOUS
  <2> HIDE DEF T
  <2> QED BY <1>2, <2>1, WFMin, Zenon
<1>4. n \in Nat /\ n # 0 BY <1>3
<1>5. n - 1 \in Nat /\ n - 1 < n /\ (n - 1) + 1 = n BY <1>4, SMT
<1>6. n - 1 \notin T
  <2>1. <<n - 1, n>> \in R BY <1>4, <1>5, SMT
  <2> QED BY <1>3, <2>1
<1> QED BY <1>3, <1>5, <1>6
-----------------------------------------------------------------------------
(* The function inside Filter: what the first i elements leave.            *)
IsKept(f, seq, S, n) ==
  f = [i \in 0 .. n |-> IF i = 0 THEN << >>
                        ELSE IF seq[i] \in S THEN Append(f[i - 1], seq[i])
                        ELSE f[i - 1]]

(* A function as in Filter exists, for every length;                       *)
LEMMA KeptExists ==
  ASSUME NEW seq, NEW S, NEW n \in Nat
  PROVE  \E f : IsKept(f, seq, S, n)
<1> DEFINE P == {m \in Nat : \E f : IsKept(f, seq, S, m)}
<1>1. 0 \in P
  <2>1. IsKept([i \in 0 .. 0 |-> << >>], seq, S, 0) BY SMT DEF IsKept
  <2> QED BY <2>1
<1>2. ASSUME NEW m \in Nat, m \in P PROVE m + 1 \in P
  <2>1. PICK f : IsKept(f, seq, S, m) BY <1>2
  <2> DEFINE next == IF seq[m + 1] \in S THEN Append(f[m], seq[m + 1]) ELSE f[m]
             g == [i \in 0 .. m + 1 |-> IF i = m + 1 THEN next ELSE f[i]]
  <2>2. \A i \in 0 .. m : f[i] = IF i = 0 THEN << >>
                                 ELSE IF seq[i] \in S THEN Append(f[i - 1], seq[i])
                                 ELSE f[i - 1]
    BY <2>1 DEF IsKept
  <2>3. \A i \in 0 .. m + 1 :
          g[i] = IF i = 0 THEN << >>
                 ELSE IF seq[i] \in S THEN Append(g[i - 1], seq[i])
                 ELSE g[i - 1]
    <3> SUFFICES ASSUME NEW i \in 0 .. m + 1
                 PROVE  g[i] = IF i = 0 THEN << >>
                               ELSE IF seq[i] \in S THEN Append(g[i - 1], seq[i])
                               ELSE g[i - 1]
      OBVIOUS
    <3>1. CASE i = m + 1
      <4>1. i # 0 /\ i - 1 = m /\ m \in 0 .. m + 1 /\ m # m + 1 BY <3>1, SMT
      <4>2. g[i] = next /\ g[i - 1] = f[m] BY <3>1, <4>1
      <4> QED BY <3>1, <4>1, <4>2
    <3>2. CASE i # m + 1
      <4>1. i \in 0 .. m /\ g[i] = f[i] BY <3>2, SMT
      <4>2. i # 0 => i - 1 \in 0 .. m + 1 /\ i - 1 # m + 1 BY <3>2, SMT
      <4>3. i # 0 => g[i - 1] = f[i - 1] BY <4>2
      <4> HIDE DEF g
      <4> QED BY <2>2, <4>1, <4>3
    <3> QED BY <3>1, <3>2
  <2>4. IsKept(g, seq, S, m + 1)
    <3>1. DOMAIN g = 0 .. m + 1 /\ g = [i \in 0 .. m + 1 |-> g[i]] OBVIOUS
    <3> HIDE DEF g
    <3> QED BY <2>3, <3>1 DEF IsKept
  <2>5. m + 1 \in Nat BY SMT
  <2> QED BY <2>4, <2>5
<1> HIDE DEF P
<1>3. n \in P BY <1>1, <1>2, Induction
<1> QED BY <1>3 DEF P

(* Filter goes through the sequence, from the first element to the last.   *)
LEMMA FilterDef ==
  ASSUME NEW seq, NEW S, Len(seq) \in Nat
  PROVE  \E f : /\ Filter(seq, S) = f[Len(seq)]
                /\ f[0] = << >>
                /\ \A i \in 1 .. Len(seq) :
                     f[i] = IF seq[i] \in S THEN Append(f[i - 1], seq[i]) ELSE f[i - 1]
<1> DEFINE n == Len(seq)
           f == CHOOSE g : IsKept(g, seq, S, n)
<1>1. IsKept(f, seq, S, n) BY KeptExists
<1>2. Filter(seq, S) = f[n] BY DEF Filter, IsKept
<1> HIDE DEF f
<1>3. 0 \in 0 .. n /\ \A i \in 1 .. n : i \in 0 .. n /\ i # 0 BY SMT
<1>4. f[0] = << >> BY <1>1, <1>3, Zenon DEF IsKept
<1>5. \A i \in 1 .. n : f[i] = IF seq[i] \in S THEN Append(f[i - 1], seq[i]) ELSE f[i - 1]
  BY <1>1, <1>3, Zenon DEF IsKept
<1> QED BY <1>2, <1>4, <1>5

(* The function inside Tally: what the first i items come to.              *)
IsTally(f, work, n) ==
  f = [i \in 0 .. n |-> IF i = 0 THEN 0 ELSE f[i - 1] + (work[i].end - work[i].begin)]

(* A function as in Tally exists, for every length;                        *)
LEMMA TallyExists ==
  ASSUME NEW work, NEW n \in Nat
  PROVE  \E f : IsTally(f, work, n)
<1> DEFINE P == {m \in Nat : \E f : IsTally(f, work, m)}
<1>1. 0 \in P
  <2>1. IsTally([i \in 0 .. 0 |-> 0], work, 0) BY SMT DEF IsTally
  <2> QED BY <2>1
<1>2. ASSUME NEW m \in Nat, m \in P PROVE m + 1 \in P
  <2>1. PICK f : IsTally(f, work, m) BY <1>2
  <2> DEFINE next == f[m] + (work[m + 1].end - work[m + 1].begin)
             g == [i \in 0 .. m + 1 |-> IF i = m + 1 THEN next ELSE f[i]]
  <2>2. \A i \in 0 .. m :
          f[i] = IF i = 0 THEN 0 ELSE f[i - 1] + (work[i].end - work[i].begin)
    BY <2>1 DEF IsTally
  <2>3. \A i \in 0 .. m + 1 :
          g[i] = IF i = 0 THEN 0 ELSE g[i - 1] + (work[i].end - work[i].begin)
    <3> SUFFICES ASSUME NEW i \in 0 .. m + 1
                 PROVE  g[i] = IF i = 0 THEN 0
                               ELSE g[i - 1] + (work[i].end - work[i].begin)
      OBVIOUS
    <3>1. CASE i = m + 1
      <4>1. i # 0 /\ i - 1 = m /\ m \in 0 .. m + 1 /\ m # m + 1 BY <3>1, SMT
      <4>2. g[i] = next /\ g[i - 1] = f[m] BY <3>1, <4>1
      <4> QED BY <3>1, <4>1, <4>2
    <3>2. CASE i # m + 1
      <4>1. i \in 0 .. m /\ g[i] = f[i] BY <3>2, SMT
      <4>2. i # 0 => i - 1 \in 0 .. m + 1 /\ i - 1 # m + 1 BY <3>2, SMT
      <4>3. i # 0 => g[i - 1] = f[i - 1] BY <4>2
      <4> HIDE DEF g
      <4> QED BY <2>2, <4>1, <4>3
    <3> QED BY <3>1, <3>2
  <2>4. IsTally(g, work, m + 1)
    <3>1. DOMAIN g = 0 .. m + 1 /\ g = [i \in 0 .. m + 1 |-> g[i]] OBVIOUS
    <3> HIDE DEF g
    <3> QED BY <2>3, <3>1 DEF IsTally
  <2>5. m + 1 \in Nat BY SMT
  <2> QED BY <2>4, <2>5
<1> HIDE DEF P
<1>3. n \in P BY <1>1, <1>2, Induction
<1> QED BY <1>3 DEF P

(* The tokens of a batch are a number.                                     *)
LEMMA TallyType ==
  ASSUME NEW work, Len(work) \in Nat,
         \A i \in 1 .. Len(work) : work[i].begin \in Nat /\ work[i].end \in Nat
  PROVE  Tally(work) \in Int
<1> DEFINE n == Len(work)
           f == CHOOSE g : IsTally(g, work, n)
<1>1. IsTally(f, work, n) BY TallyExists
<1>2. Tally(work) = f[n] BY DEF Tally, IsTally
<1> HIDE DEF f
<1>3. 0 \in 0 .. n /\ \A i \in 1 .. n : i \in 0 .. n /\ i # 0 BY SMT
<1>4. f[0] = 0 BY <1>1, <1>3, Zenon DEF IsTally
<1>5. \A i \in 1 .. n : f[i] = f[i - 1] + (work[i].end - work[i].begin)
  BY <1>1, <1>3, Zenon DEF IsTally
<1> DEFINE P == {m \in Nat : m <= n => f[m] \in Int}
<1>6. 0 \in P BY <1>4
<1>7. ASSUME NEW m \in Nat, m \in P PROVE m + 1 \in P
  <2> SUFFICES ASSUME m + 1 <= n PROVE f[m + 1] \in Int
    BY SMT
  <2>1. m <= n /\ m + 1 \in 1 .. n /\ (m + 1) - 1 = m BY SMT
  <2>2. f[m] \in Int BY <1>7, <2>1
  <2>3. f[m + 1] = f[m] + (work[m + 1].end - work[m + 1].begin) BY <1>5, <2>1
  <2>4. work[m + 1].begin \in Int /\ work[m + 1].end \in Int
    <3>1. work[m + 1].begin \in Nat /\ work[m + 1].end \in Nat BY <2>1
    <3> QED BY <3>1, SMT
  <2> QED BY <2>2, <2>3, <2>4, SMT
<1> HIDE DEF P
<1>8. \A m \in Nat : m \in P BY <1>6, <1>7, Induction
<1>9. n \in P BY <1>8
<1>10. n <= n BY SMT
<1> QED BY <1>2, <1>9, <1>10 DEF P
-----------------------------------------------------------------------------
(* Induction over sequences, by the length.                                *)
LEMMA SequenceInduction ==
  ASSUME NEW T, NEW P, << >> \in P,
         \A s \in Seq(T), x \in T : s \in P => Append(s, x) \in P
  PROVE  \A s \in Seq(T) : s \in P
<1> DEFINE Q == {n \in Nat : \A s \in Seq(T) : Len(s) = n => s \in P}
<1>1. 0 \in Q
  <2>1. \A s \in Seq(T) : Len(s) = 0 => s = << >> BY SMT
  <2> QED BY <2>1
<1>2. ASSUME NEW n \in Nat, n \in Q PROVE n + 1 \in Q
  <2> SUFFICES ASSUME NEW s \in Seq(T), Len(s) = n + 1 PROVE s \in P
    BY SMT
  <2>1. s # << >> BY SMT
  <2>2. PICK t \in Seq(T), x \in T : s = Append(t, x)
    BY <2>1, SequenceEmptyOrAppend
  <2>3. Len(t) = n BY <2>2, LenProperties, AppendProperties, SMT
  <2>4. t \in P BY <1>2, <2>3
  <2> QED BY <2>2, <2>4
<1> HIDE DEF Q
<1>3. \A n \in Nat : n \in Q BY <1>1, <1>2, Induction
<1> QED BY <1>3, LenProperties DEF Q

(* The elements of a longer list.                                          *)
LEMMA ToSetAppend ==
  ASSUME NEW T, NEW s \in Seq(T), NEW x
  PROVE  /\ ToSet(Append(s, x)) = ToSet(s) \cup {x}
         /\ IsInjective(Append(s, x)) <=> IsInjective(s) /\ x \notin ToSet(s)
<1> DEFINE t == Append(s, x)
<1>1. /\ Len(t) = Len(s) + 1 /\ t[Len(s) + 1] = x
      /\ \A i \in 1 .. Len(s) : t[i] = s[i]
  BY SMT
<1>2. /\ Len(s) \in Nat /\ DOMAIN s = 1 .. Len(s)
      /\ DOMAIN t = 1 .. Len(s) + 1
  BY SMT
<1> HIDE DEF t
<1>3. \A i \in DOMAIN t : i \in DOMAIN s \/ i = Len(s) + 1
  BY <1>2, SMT
<1>4. /\ \A i \in DOMAIN s : i \in DOMAIN t /\ t[i] = s[i] /\ i # Len(s) + 1
      /\ Len(s) + 1 \in DOMAIN t
  BY <1>1, <1>2, SMT
<1>5. ToSet(t) = ToSet(s) \cup {x}
  BY <1>1, <1>3, <1>4 DEF ToSet
<1>6. IsInjective(t) => IsInjective(s) /\ x \notin ToSet(s)
  BY <1>1, <1>4 DEF IsInjective, ToSet
<1>7. IsInjective(s) /\ x \notin ToSet(s) => IsInjective(t)
  BY <1>1, <1>3, <1>4 DEF IsInjective, ToSet
<1> QED BY <1>5, <1>6, <1>7 DEF t

(* Filter on a list without elements,                                      *)
LEMMA FilterEmpty == ASSUME NEW S PROVE Filter(<< >>, S) = << >>
<1>1. Len(<< >>) = 0 /\ 0 \in Nat BY SMT
<1> QED BY <1>1, FilterDef

(* and on a list with one more.                                            *)
LEMMA FilterAppend ==
  ASSUME NEW T, NEW s \in Seq(T), NEW x \in T, NEW S
  PROVE  Filter(Append(s, x), S)
           = IF x \in S THEN Append(Filter(s, S), x) ELSE Filter(s, S)
<1> DEFINE t == Append(s, x)
           n == Len(s)
<1>1. n \in Nat /\ Len(t) = n + 1 /\ t[n + 1] = x /\ \A i \in 1 .. n : t[i] = s[i]
  BY SMT
<1> HIDE DEF t, n
<1>2. PICK f : /\ Filter(s, S) = f[n] /\ f[0] = << >>
               /\ \A i \in 1 .. n :
                    f[i] = IF s[i] \in S THEN Append(f[i - 1], s[i]) ELSE f[i - 1]
  BY <1>1, FilterDef DEF n
<1>3. PICK g : /\ Filter(t, S) = g[n + 1] /\ g[0] = << >>
               /\ \A i \in 1 .. n + 1 :
                    g[i] = IF t[i] \in S THEN Append(g[i - 1], t[i]) ELSE g[i - 1]
  <2>1. Len(t) \in Nat BY <1>1, SMT
  <2> QED BY <1>1, <2>1, FilterDef
<1> DEFINE P == {i \in Nat : i <= n => g[i] = f[i]}
<1>4. 0 \in P BY <1>2, <1>3
<1>5. ASSUME NEW i \in Nat, i \in P PROVE i + 1 \in P
  <2> SUFFICES ASSUME i + 1 <= n PROVE g[i + 1] = f[i + 1]
    BY SMT
  <2>1. i + 1 \in 1 .. n /\ i + 1 \in 1 .. n + 1 /\ (i + 1) - 1 = i /\ i <= n
    BY <1>1, SMT
  <2> QED BY <1>1, <1>2, <1>3, <1>5, <2>1
<1> HIDE DEF P
<1>6. n \in P BY <1>1, <1>4, <1>5, Induction
<1>7. g[n] = f[n] BY <1>1, <1>6, SMT DEF P
<1>8. n + 1 \in 1 .. n + 1 /\ (n + 1) - 1 = n BY <1>1, SMT
<1>9. Filter(t, S) = IF x \in S THEN Append(Filter(s, S), x) ELSE Filter(s, S)
  BY <1>1, <1>2, <1>3, <1>7, <1>8
<1> QED BY <1>9 DEF t

(* The filtered list holds the elements that are in the set, and no more   *)
(* often than the list does.                                               *)
LEMMA FilterProperties ==
  ASSUME NEW T, NEW S
  PROVE  \A s \in Seq(T) :
           /\ Filter(s, S) \in Seq(T)
           /\ ToSet(Filter(s, S)) = ToSet(s) \cap S
           /\ IsInjective(s) => IsInjective(Filter(s, S))
<1> DEFINE P == {s \in Seq(T) :
                  /\ Filter(s, S) \in Seq(T)
                  /\ ToSet(Filter(s, S)) = ToSet(s) \cap S
                  /\ IsInjective(s) => IsInjective(Filter(s, S))}
<1>1. << >> \in P
  <2>1. ToSet(<< >>) = {} /\ << >> \in Seq(T) BY SMT DEF ToSet
  <2> QED BY <2>1, FilterEmpty
<1>2. ASSUME NEW s \in Seq(T), NEW x \in T, s \in P PROVE Append(s, x) \in P
  <2>1. Append(s, x) \in Seq(T) BY AppendProperties
  <2>2. /\ Filter(s, S) \in Seq(T) /\ ToSet(Filter(s, S)) = ToSet(s) \cap S
        /\ IsInjective(s) => IsInjective(Filter(s, S))
    BY <1>2
  <2>3. CASE x \in S
    <3>1. Filter(Append(s, x), S) = Append(Filter(s, S), x) BY <2>3, FilterAppend
    <3>2. Append(Filter(s, S), x) \in Seq(T) BY <2>2, AppendProperties
    <3>3. /\ ToSet(Append(Filter(s, S), x)) = (ToSet(s) \cap S) \cup {x}
          /\ ToSet(Append(s, x)) = ToSet(s) \cup {x}
          /\ IsInjective(Append(s, x)) <=> IsInjective(s) /\ x \notin ToSet(s)
          /\ IsInjective(Append(Filter(s, S), x))
               <=> IsInjective(Filter(s, S)) /\ x \notin ToSet(s) \cap S
      BY <2>2, ToSetAppend
    <3> QED BY <2>1, <2>2, <2>3, <3>1, <3>2, <3>3
  <2>4. CASE x \notin S
    <3>1. Filter(Append(s, x), S) = Filter(s, S) BY <2>4, FilterAppend
    <3>2. /\ ToSet(Append(s, x)) = ToSet(s) \cup {x}
          /\ IsInjective(Append(s, x)) => IsInjective(s)
      BY ToSetAppend
    <3> QED BY <2>1, <2>2, <2>4, <3>1, <3>2
  <2> QED BY <2>3, <2>4
<1> HIDE DEF P
<1>3. \A s \in Seq(T) : s \in P BY <1>1, <1>2, SequenceInduction
<1> QED BY <1>3 DEF P
-----------------------------------------------------------------------------
(* Taking the head of a queue without duplicates, and adding to its tail.  *)
LEMMA TakeHead ==
  ASSUME NEW S, NEW s \in Seq(S), s # << >>, IsInjective(s)
  PROVE  /\ Head(s) \in ToSet(s) /\ Tail(s) \in Seq(S)
         /\ IsInjective(Tail(s))
         /\ ToSet(Tail(s)) = ToSet(s) \ {Head(s)}
<1>1. /\ Tail(s) \in Seq(S) /\ Len(Tail(s)) = Len(s) - 1
      /\ \A i \in 1 .. Len(Tail(s)) : Tail(s)[i] = s[i + 1]
  BY HeadTailProperties
<1>2. Len(s) \in Nat /\ Len(s) > 0 /\ DOMAIN s = 1 .. Len(s)
  BY LenProperties, EmptySeq, SMT
<1>3. DOMAIN Tail(s) = 1 .. Len(s) - 1
  BY <1>1, LenProperties
<1>4. 1 \in DOMAIN s /\ Head(s) = s[1]
  BY <1>2, SMT
<1>5. \A i \in DOMAIN Tail(s) : i + 1 \in DOMAIN s /\ i + 1 # 1 /\ Tail(s)[i] = s[i + 1]
  BY <1>1, <1>2, <1>3, SMT
<1>6. IsInjective(Tail(s))
  <2> SUFFICES ASSUME NEW i \in DOMAIN Tail(s), NEW j \in DOMAIN Tail(s),
                      Tail(s)[i] = Tail(s)[j]
               PROVE  i = j
    BY DEF IsInjective
  <2>1. i + 1 = j + 1 BY <1>5 DEF IsInjective
  <2> QED BY <1>2, <1>3, <2>1, SMT
<1>7. ToSet(Tail(s)) = ToSet(s) \ {Head(s)}
  <2>1. ASSUME NEW x \in ToSet(Tail(s)) PROVE x \in ToSet(s) \ {Head(s)}
    BY <1>4, <1>5 DEF ToSet, IsInjective
  <2>2. ASSUME NEW x \in ToSet(s), x # Head(s) PROVE x \in ToSet(Tail(s))
    <3>1. PICK i \in DOMAIN s : x = s[i] BY DEF ToSet
    <3>2. i # 1 BY <1>4, <2>2, <3>1
    <3>3. i - 1 \in DOMAIN Tail(s) /\ (i - 1) + 1 = i
      BY <1>2, <1>3, <3>2, SMT
    <3> QED BY <1>5, <3>1, <3>3 DEF ToSet
  <2> QED BY <2>1, <2>2
<1> QED BY <1>1, <1>4, <1>6, <1>7 DEF ToSet

(* A new element keeps a list injective.                                   *)
LEMMA AddLast ==
  ASSUME NEW S, NEW s \in Seq(S), NEW x \in S, IsInjective(s), x \notin ToSet(s)
  PROVE  /\ Append(s, x) \in Seq(S) /\ IsInjective(Append(s, x))
         /\ ToSet(Append(s, x)) = ToSet(s) \cup {x}
BY AppendProperties, ToSetAppend

(* The list without elements.                                              *)
LEMMA ToSetEmpty == ToSet(<< >>) = {} /\ IsInjective(<< >>)
BY SMT DEF ToSet, IsInjective

(* The elements of two lists in a row.                                     *)
LEMMA ToSetConcat ==
  ASSUME NEW T, NEW s \in Seq(T), NEW t \in Seq(T)
  PROVE  /\ s \o t \in Seq(T)
         /\ ToSet(s \o t) = ToSet(s) \cup ToSet(t)
         /\ IsInjective(s) /\ IsInjective(t) /\ ToSet(s) \cap ToSet(t) = {}
              => IsInjective(s \o t)
<1> DEFINE u == s \o t
           n == Len(s)
           m == Len(t)
<1>1. /\ u \in Seq(T) /\ Len(u) = n + m
      /\ \A i \in 1 .. n + m : u[i] = IF i <= n THEN s[i] ELSE t[i - n]
  BY ConcatProperties
<1>2. /\ n \in Nat /\ m \in Nat /\ DOMAIN s = 1 .. n /\ DOMAIN t = 1 .. m
      /\ DOMAIN u = 1 .. n + m
  BY <1>1, LenProperties
<1> HIDE DEF u, n, m
<1>3. \A i \in DOMAIN u : \/ i \in DOMAIN s /\ i <= n /\ u[i] = s[i]
                          \/ i - n \in DOMAIN t /\ i > n /\ u[i] = t[i - n]
  BY <1>1, <1>2, SMT
<1>4. \A i \in DOMAIN s : i \in DOMAIN u /\ u[i] = s[i]
  BY <1>1, <1>2, SMT
<1>5. \A i \in DOMAIN t : i + n \in DOMAIN u /\ u[i + n] = t[i]
  <2> TAKE i \in DOMAIN t
  <2>1. i + n \in 1 .. n + m /\ ~(i + n <= n) /\ (i + n) - n = i BY <1>2, SMT
  <2> QED BY <1>1, <1>2, <2>1
<1>6. ToSet(u) = ToSet(s) \cup ToSet(t)
  <2>1. ToSet(u) \subseteq ToSet(s) \cup ToSet(t) BY <1>3 DEF ToSet
  <2>2. ToSet(s) \subseteq ToSet(u) BY <1>4 DEF ToSet
  <2>3. ToSet(t) \subseteq ToSet(u) BY <1>5 DEF ToSet
  <2> QED BY <2>1, <2>2, <2>3
<1>7. ASSUME IsInjective(s), IsInjective(t), ToSet(s) \cap ToSet(t) = {}
      PROVE  IsInjective(u)
  <2>1. \A i \in DOMAIN s, j \in DOMAIN t : s[i] # t[j] BY <1>7 DEF ToSet
  <2>2. \A i, j \in DOMAIN t : t[i] = t[j] => i = j BY <1>7 DEF IsInjective
  <2>3. \A i, j \in DOMAIN s : s[i] = s[j] => i = j BY <1>7 DEF IsInjective
  <2> SUFFICES ASSUME NEW i \in DOMAIN u, NEW j \in DOMAIN u, u[i] = u[j]
               PROVE  i = j
    BY DEF IsInjective
  <2>4. CASE i \in DOMAIN s /\ u[i] = s[i]
    BY <1>3, <2>1, <2>3, <2>4
  <2>5. CASE i - n \in DOMAIN t /\ i > n /\ u[i] = t[i - n]
    <3>1. j - n \in DOMAIN t /\ u[j] = t[j - n] BY <1>3, <2>1, <2>5
    <3>2. i - n = j - n BY <2>2, <2>5, <3>1
    <3> QED BY <1>2, <3>2, SMT
  <2> QED BY <1>3, <2>4, <2>5
<1> QED BY <1>1, <1>6, <1>7 DEF u

(* A list without duplicates is as long as the set of its elements.        *)
LEMMA InjectiveLength ==
  ASSUME NEW T, NEW s \in Seq(T), IsInjective(s)
  PROVE  IsFiniteSet(ToSet(s)) /\ Cardinality(ToSet(s)) = Len(s)
<1>1. Len(s) \in Nat /\ s \in [1 .. Len(s) -> ToSet(s)] /\ DOMAIN s = 1 .. Len(s)
  BY LenProperties DEF ToSet
<1>2. s \in Bijection(1 .. Len(s), ToSet(s))
  BY <1>1 DEF Bijection, Injection, Surjection, ToSet
<1>3. ExistsBijection(1 .. Len(s), ToSet(s)) BY <1>2 DEF ExistsBijection
<1> QED BY <1>1, <1>3, FS_NatBijection, FS_CountingElements

(* Every list has finitely many elements.                                  *)
LEMMA ToSetFinite ==
  ASSUME NEW T PROVE \A s \in Seq(T) : IsFiniteSet(ToSet(s))
<1> DEFINE P == {s \in Seq(T) : IsFiniteSet(ToSet(s))}
<1>1. << >> \in P BY ToSetEmpty, FS_EmptySet, EmptySeq
<1>2. ASSUME NEW s \in Seq(T), NEW x \in T, s \in P PROVE Append(s, x) \in P
  BY <1>2, ToSetAppend, AppendProperties, FS_AddElement
<1> HIDE DEF P
<1>3. \A s \in Seq(T) : s \in P BY <1>1, <1>2, SequenceInduction
<1> QED BY <1>3 DEF P

(* Taking the last element instead, as from a stack.                       *)
LEMMA TakeLast ==
  ASSUME NEW S, NEW s \in Seq(S), s # << >>
  PROVE  /\ Last(s) \in ToSet(s) /\ Last(s) \in S /\ Front(s) \in Seq(S)
         /\ ToSet(s) = ToSet(Front(s)) \cup {Last(s)}
         /\ IsInjective(s) => IsInjective(Front(s)) /\ Last(s) \notin ToSet(Front(s))
<1>1. PICK t \in Seq(S), x \in S : s = Append(t, x) BY SequenceEmptyOrAppend
<1>2. Len(s) = Len(t) + 1 /\ Len(t) \in Nat /\ Last(s) = x
  BY <1>1, AppendProperties, LenProperties, SMT DEF Last
<1>3. Front(s) = t BY <1>1, <1>2, HeadTailAppend, SMT DEF Front
<1> QED BY <1>1, <1>2, <1>3, ToSetAppend

(* Leaving one element out.                                                *)
LEMMA LeaveOut ==
  ASSUME NEW S, NEW s \in Seq(S), NEW k \in DOMAIN s
  PROVE  /\ RemoveAt(s, k) \in Seq(S) /\ Len(RemoveAt(s, k)) = Len(s) - 1
         /\ \A i \in DOMAIN RemoveAt(s, k) :
              RemoveAt(s, k)[i] = s[IF i < k THEN i ELSE i + 1]
<1> DEFINE n == Len(s)
           u == SubSeq(s, 1, k - 1)
           v == SubSeq(s, k + 1, n)
<1>1. n \in Nat /\ k \in 1 .. n /\ \A i \in 1 .. n : s[i] \in S BY LenProperties
<1>0. n \in Nat /\ k \in Nat /\ 1 <= k /\ k <= n BY <1>1, SMT
<1>2. /\ k - 1 \in Int /\ k + 1 \in Int /\ n \in Int /\ 1 \in Int
      /\ \A i \in 1 .. k - 1 : s[i] \in S
      /\ \A i \in k + 1 .. n : s[i] \in S
  BY <1>1, SMT
<1>3. /\ u \in Seq(S) /\ Len(u) = IF 1 <= k - 1 THEN (k - 1) - 1 + 1 ELSE 0
      /\ \A i \in 1 .. (k - 1) - 1 + 1 : u[i] = s[1 + i - 1]
  BY <1>2, SubSeqProperties
<1>4. /\ v \in Seq(S) /\ Len(v) = IF k + 1 <= n THEN n - (k + 1) + 1 ELSE 0
      /\ \A i \in 1 .. n - (k + 1) + 1 : v[i] = s[(k + 1) + i - 1]
  BY <1>2, SubSeqProperties
<1> HIDE DEF u, v, n
<1>5. Len(u) = k - 1 /\ Len(v) = n - k BY <1>1, <1>3, <1>4, SMT
<1>6. /\ u \o v \in Seq(S) /\ Len(u \o v) = Len(u) + Len(v)
      /\ \A i \in 1 .. Len(u) + Len(v) :
           (u \o v)[i] = IF i <= Len(u) THEN u[i] ELSE v[i - Len(u)]
  BY <1>3, <1>4, ConcatProperties
<1>7. DOMAIN (u \o v) = 1 .. n - 1 /\ Len(u \o v) = n - 1
  BY <1>1, <1>5, <1>6, LenProperties, SMT
<1>8. \A i \in 1 .. n - 1 : (u \o v)[i] = s[IF i < k THEN i ELSE i + 1]
  <2> SUFFICES ASSUME NEW i \in 1 .. n - 1
               PROVE  (u \o v)[i] = s[IF i < k THEN i ELSE i + 1]
    OBVIOUS
  <2>1. CASE i < k
    <3>1. /\ i \in 1 .. Len(u) + Len(v) /\ i <= Len(u) /\ i \in 1 .. (k - 1) - 1 + 1
          /\ 1 + i - 1 = i
      BY <1>0, <1>5, <2>1, SMT
    <3> QED BY <1>3, <1>6, <2>1, <3>1
  <2>2. CASE ~(i < k)
    <3>0. i \in Nat /\ 1 <= i /\ i <= n - 1 /\ k <= i BY <1>0, <2>2, SMT
    <3>1. /\ i \in 1 .. Len(u) + Len(v) /\ ~(i <= Len(u))
          /\ i - Len(u) \in 1 .. n - (k + 1) + 1 /\ (k + 1) + (i - Len(u)) - 1 = i + 1
      <4>1. i \in 1 .. (k - 1) + (n - k) /\ ~(i <= k - 1)
        BY <1>0, <3>0, SMT
      <4>2. i - (k - 1) \in 1 .. n - (k + 1) + 1
        BY <1>0, <3>0, SMT
      <4>3. (k + 1) + (i - (k - 1)) - 1 = i + 1
        BY <1>0, <3>0, SMT
      <4> QED BY <1>5, <4>1, <4>2, <4>3, Zenon
    <3> QED BY <1>4, <1>6, <2>2, <3>1
  <2> QED BY <2>1, <2>2
<1> QED BY <1>6, <1>7, <1>8 DEF RemoveAt, u, v, n

(* Every set of natural numbers with an element has a least one.           *)
LEMMA LeastNumber ==
  ASSUME NEW S, S \subseteq Nat, S # {}
  PROVE  \E n \in S : \A m \in S : n <= m
<1> DEFINE R == {ss \in Nat \X Nat : ss[1] < ss[2]}
<1>1. R = OpToRel(<, Nat) BY DEF OpToRel
<1>2. IsWellFoundedOn(R, Nat) BY <1>1, NatLessThanWellFounded
<1>3. PICK n \in S : \A m \in S : ~(<<m, n>> \in R)
  <2> HIDE DEF R
  <2> QED BY <1>2, WFMin, Zenon
<1>4. ASSUME NEW m \in S PROVE n <= m
  <2>1. <<m, n>> \notin R BY <1>3
  <2> QED BY <2>1, SMT
<1> QED BY <1>4

(* Two lists that are injective in a row are so each, and are disjoint.    *)
LEMMA ConcatParts ==
  ASSUME NEW T, NEW s \in Seq(T), NEW t \in Seq(T), IsInjective(s \o t)
  PROVE  IsInjective(s) /\ IsInjective(t) /\ ToSet(s) \cap ToSet(t) = {}
<1> DEFINE u == s \o t
<1>1. /\ Len(s) \in Nat /\ Len(t) \in Nat /\ Len(u) = Len(s) + Len(t)
      /\ DOMAIN s = 1 .. Len(s) /\ DOMAIN t = 1 .. Len(t) /\ DOMAIN u = 1 .. Len(u)
      /\ \A i \in 1 .. Len(s) + Len(t) :
           u[i] = IF i <= Len(s) THEN s[i] ELSE t[i - Len(s)]
  BY ConcatProperties, LenProperties
<1> HIDE DEF u
<1>2. \A i, j \in 1 .. Len(u) : u[i] = u[j] => i = j
  BY <1>1 DEF IsInjective, u
<1>3. IsInjective(s)
  <2> SUFFICES ASSUME NEW i \in 1 .. Len(s), NEW j \in 1 .. Len(s), s[i] = s[j]
               PROVE  i = j
    BY <1>1 DEF IsInjective
  <2>1. i \in 1 .. Len(u) /\ j \in 1 .. Len(u) /\ u[i] = s[i] /\ u[j] = s[j]
    BY <1>1, SMT
  <2> QED BY <1>2, <2>1
<1>4. \A j \in 1 .. Len(t) : /\ j + Len(s) \in 1 .. Len(u) /\ u[j + Len(s)] = t[j]
  <2> SUFFICES ASSUME NEW j \in 1 .. Len(t)
               PROVE  j + Len(s) \in 1 .. Len(u) /\ u[j + Len(s)] = t[j]
    OBVIOUS
  <2>1. /\ j + Len(s) \in 1 .. Len(s) + Len(t) /\ ~(j + Len(s) <= Len(s))
        /\ j + Len(s) - Len(s) = j
    BY <1>1, SMT
  <2> QED BY <1>1, <2>1
<1>5. IsInjective(t)
  <2> SUFFICES ASSUME NEW i \in 1 .. Len(t), NEW j \in 1 .. Len(t), t[i] = t[j]
               PROVE  i = j
    BY <1>1 DEF IsInjective
  <2>1. i + Len(s) = j + Len(s) BY <1>2, <1>4
  <2> QED BY <1>1, <2>1, SMT
<1>6. ToSet(s) \cap ToSet(t) = {}
  <2> SUFFICES ASSUME NEW i \in 1 .. Len(s), NEW j \in 1 .. Len(t), s[i] = t[j]
               PROVE  FALSE
    BY <1>1 DEF ToSet
  <2>1. i \in 1 .. Len(u) /\ u[i] = s[i] BY <1>1, SMT
  <2>2. i = j + Len(s) BY <1>2, <1>4, <2>1
  <2> QED BY <1>1, <2>2, SMT
<1> QED BY <1>3, <1>5, <1>6

(* The head and the tail of a list are made of its elements.               *)
LEMMA TailSubset ==
  ASSUME NEW S, NEW s \in Seq(S), s # << >>
  PROVE  /\ Head(s) \in ToSet(s) /\ ToSet(Tail(s)) \subseteq ToSet(s)
         /\ ToSet(s) = {Head(s)} \cup ToSet(Tail(s))
<1>1. /\ Len(s) \in Nat /\ Len(s) >= 1 /\ Head(s) = s[1]
      /\ Tail(s) \in Seq(S) /\ Len(Tail(s)) = Len(s) - 1
      /\ \A i \in 1 .. Len(Tail(s)) : Tail(s)[i] = s[i + 1]
  BY EmptySeq, HeadTailProperties, SMT
<1>2. DOMAIN s = 1 .. Len(s) /\ DOMAIN Tail(s) = 1 .. Len(Tail(s))
  BY <1>1, LenProperties
<1>3. Head(s) \in ToSet(s) BY <1>1, <1>2, SMT DEF ToSet
<1>4. ToSet(Tail(s)) \subseteq ToSet(s)
  <2> SUFFICES ASSUME NEW i \in 1 .. Len(Tail(s)) PROVE Tail(s)[i] \in ToSet(s)
    BY <1>2 DEF ToSet
  <2>1. i + 1 \in 1 .. Len(s) BY <1>1, SMT
  <2> QED BY <1>1, <1>2, <2>1 DEF ToSet
<1>5. ToSet(s) \subseteq {Head(s)} \cup ToSet(Tail(s))
  <2> SUFFICES ASSUME NEW i \in 1 .. Len(s) PROVE s[i] \in {Head(s)} \cup ToSet(Tail(s))
    BY <1>2 DEF ToSet
  <2>1. CASE i = 1 BY <1>1, <2>1
  <2>2. CASE i # 1
    <3>1. i - 1 \in 1 .. Len(Tail(s)) /\ i - 1 + 1 = i BY <1>1, <2>2, SMT
    <3>2. Tail(s)[i - 1] = s[i] BY <1>1, <3>1
    <3> QED BY <1>2, <3>1, <3>2 DEF ToSet
  <2> QED BY <2>1, <2>2
<1> QED BY <1>3, <1>4, <1>5

(* A path of three parts, which messages enter at the end of the last and  *)
(* leave at the head of the first; the part in the middle holds at most    *)
(* one.                                                                    *)
Path(s, m, t) == s \o m \o t

(* What is on a path is on one of its parts,                               *)
LEMMA PathElements ==
  ASSUME NEW T, NEW s \in Seq(T), NEW m \in Seq(T), NEW t \in Seq(T)
  PROVE  /\ Path(s, m, t) \in Seq(T)
         /\ ToSet(Path(s, m, t)) = ToSet(s) \cup ToSet(m) \cup ToSet(t)
<1>1. (s \o m) \in Seq(T) /\ (s \o m) \o t \in Seq(T) BY ToSetConcat
<1>2. ToSet((s \o m) \o t) = ToSet(s \o m) \cup ToSet(t) BY <1>1, ToSetConcat
<1>3. ToSet(s \o m) = ToSet(s) \cup ToSet(m) BY ToSetConcat
<1> QED BY <1>1, <1>2, <1>3, Zenon DEF Path

(* and on one only when nothing is on the path twice.                      *)
LEMMA PathParts ==
  ASSUME NEW T, NEW s \in Seq(T), NEW m \in Seq(T), NEW t \in Seq(T),
         IsInjective(Path(s, m, t))
  PROVE  /\ IsInjective(s) /\ IsInjective(t)
         /\ ToSet(s) \cap ToSet(m) = {} /\ ToSet(s) \cap ToSet(t) = {}
         /\ ToSet(m) \cap ToSet(t) = {}
<1>1. s \o m \in Seq(T) BY ToSetConcat
<1>2. IsInjective(s \o m) /\ IsInjective(t) /\ ToSet(s \o m) \cap ToSet(t) = {}
  BY <1>1, ConcatParts DEF Path
<1>3. IsInjective(s) /\ ToSet(s) \cap ToSet(m) = {} BY <1>2, ConcatParts
<1> QED BY <1>2, <1>3, ToSetConcat

(* A message enters a path at its end,                                     *)
LEMMA EnterPath ==
  ASSUME NEW T, NEW s \in Seq(T), NEW m \in Seq(T), NEW t \in Seq(T), NEW x \in T
  PROVE  Path(s, m, Append(t, x)) = Append(Path(s, m, t), x)
<1>1. s \o m \in Seq(T) /\ s \o m \o t \in Seq(T) /\ <<x>> \in Seq(T)
  BY ToSetConcat, SMT
<1>2. /\ Append(t, x) = t \o <<x>> /\ Append(s \o m \o t, x) = (s \o m \o t) \o <<x>>
  BY <1>1, AppendIsConcat
<1>3. ((s \o m) \o t) \o <<x>> = (s \o m) \o (t \o <<x>>)
  BY <1>1, ConcatAssociative
<1> QED BY <1>2, <1>3, Zenon DEF Path

(* leaves it at its head,                                                  *)
LEMMA LeavePath ==
  ASSUME NEW T, NEW s \in Seq(T), NEW m \in Seq(T), NEW t \in Seq(T), s # << >>
  PROVE  /\ Path(s, m, t) # << >>
         /\ Head(Path(s, m, t)) = Head(s)
         /\ Tail(Path(s, m, t)) = Path(Tail(s), m, t)
<1> DEFINE x == Head(s)
           u == Tail(s)
           v == u \o m \o t
<1>1. x \in T /\ u \in Seq(T) /\ s = <<x>> \o u
  BY HeadTailProperties, SMT
<1>2. <<x>> \in Seq(T) BY <1>1, SMT
<1>3. u \o m \in Seq(T) /\ v \in Seq(T) BY <1>1, ToSetConcat
<1>4. s \o m \o t = <<x>> \o v
  BY <1>1, <1>2, <1>3, ConcatAssociative
<1> HIDE DEF x, u, v
<1>5. <<x>> \o v # << >> /\ Head(<<x>> \o v) = x /\ Tail(<<x>> \o v) = v
  BY <1>1, <1>3, SMT
<1> QED BY <1>4, <1>5 DEF x, v, u, Path

(* as it does when there is no part in the middle,                         *)
LEMMA LeaveConcat ==
  ASSUME NEW T, NEW s \in Seq(T), NEW t \in Seq(T), s # << >>
  PROVE  s \o t # << >> /\ Head(s \o t) = Head(s) /\ Tail(s \o t) = Tail(s) \o t
<1> DEFINE x == Head(s)
           u == Tail(s)
           v == u \o t
<1>1. x \in T /\ u \in Seq(T) /\ s = <<x>> \o u
  BY HeadTailProperties, SMT
<1>2. <<x>> \in Seq(T) BY <1>1, SMT
<1>3. v \in Seq(T) BY <1>1, ToSetConcat
<1>4. s \o t = <<x>> \o v
  BY <1>1, <1>2, ConcatAssociative
<1> HIDE DEF x, u, v
<1>5. <<x>> \o v # << >> /\ Head(<<x>> \o v) = x /\ Tail(<<x>> \o v) = v
  BY <1>1, <1>3, SMT
<1> QED BY <1>4, <1>5 DEF x, v, u

(* and passes from one part to the next without a change of the path.      *)
LEMMA PassOn ==
  ASSUME NEW T, NEW s \in Seq(T), NEW t \in Seq(T)
  PROVE  /\ \A x \in T : Path(Append(s, x), << >>, t) = Path(s, <<x>>, t)
         /\ t # << >> => Path(s, <<Head(t)>>, Tail(t)) = Path(s, << >>, t)
<1> USE DEF Path
<1>1. ASSUME NEW x \in T PROVE Append(s, x) \o << >> \o t = s \o <<x>> \o t
  BY AppendProperties, AppendIsConcat, ConcatEmptySeq
<1>2. ASSUME t # << >> PROVE s \o <<Head(t)>> \o Tail(t) = s \o << >> \o t
  <2>1. /\ Head(t) \in T /\ Tail(t) \in Seq(T) /\ t = <<Head(t)>> \o Tail(t)
    BY <1>2, HeadTailProperties, SMT
  <2>2. <<Head(t)>> \in Seq(T) BY <2>1, SMT
  <2> QED BY <2>1, <2>2, ConcatAssociative, ConcatEmptySeq
<1> QED BY <1>1, <1>2

(* The elements of a sequence are what it is a sequence of.                *)
LEMMA SeqElements ==
  ASSUME NEW S, NEW s \in Seq(S)
  PROVE  /\ \A i \in DOMAIN s : s[i] \in S
         /\ ToSet(s) \subseteq S
         /\ DOMAIN s = 1 .. Len(s) /\ Len(s) \in Nat
<1>1. /\ \A i \in 1 .. Len(s) : s[i] \in S
      /\ DOMAIN s = 1 .. Len(s) /\ Len(s) \in Nat
  BY LenProperties
<1> QED BY <1>1 DEF ToSet
-----------------------------------------------------------------------------
(* A list filtered by what all, or none, of its elements are in; in two    *)
(* passes; and in two pieces.                                              *)
LEMMA FilterSame ==
  ASSUME NEW T, NEW A, NEW B
  PROVE  \A s \in Seq(T) : ToSet(s) \cap A = ToSet(s) \cap B => Filter(s, A) = Filter(s, B)
<1> DEFINE P == {s \in Seq(T) :
                   ToSet(s) \cap A = ToSet(s) \cap B => Filter(s, A) = Filter(s, B)}
<1>1. << >> \in P BY FilterEmpty, EmptySeq
<1>2. ASSUME NEW s \in Seq(T), NEW x \in T, s \in P PROVE Append(s, x) \in P
  <2> SUFFICES ASSUME ToSet(Append(s, x)) \cap A = ToSet(Append(s, x)) \cap B
               PROVE  Filter(Append(s, x), A) = Filter(Append(s, x), B)
    BY AppendProperties
  <2>1. ToSet(Append(s, x)) = ToSet(s) \cup {x} BY ToSetAppend
  <2>2. (x \in A <=> x \in B) /\ ToSet(s) \cap A = ToSet(s) \cap B BY <2>1
  <2>3. Filter(s, A) = Filter(s, B) BY <1>2, <2>2
  <2> QED BY <2>2, <2>3, FilterAppend
<1> HIDE DEF P
<1>3. \A s \in Seq(T) : s \in P BY <1>1, <1>2, SequenceInduction
<1> QED BY <1>3 DEF P

(* A filter that keeps all, or nothing;                                    *)
LEMMA FilterAll ==
  ASSUME NEW T, NEW S
  PROVE  \A s \in Seq(T) : /\ ToSet(s) \subseteq S => Filter(s, S) = s
                           /\ ToSet(s) \cap S = {} => Filter(s, S) = << >>
<1> DEFINE P == {s \in Seq(T) : /\ ToSet(s) \subseteq S => Filter(s, S) = s
                                /\ ToSet(s) \cap S = {} => Filter(s, S) = << >>}
<1>1. << >> \in P BY FilterEmpty, EmptySeq
<1>2. ASSUME NEW s \in Seq(T), NEW x \in T, s \in P PROVE Append(s, x) \in P
  <2>1. ToSet(Append(s, x)) = ToSet(s) \cup {x} /\ Append(s, x) \in Seq(T)
    BY ToSetAppend, AppendProperties
  <2>2. /\ ToSet(s) \subseteq S => Filter(s, S) = s
        /\ ToSet(s) \cap S = {} => Filter(s, S) = << >>
    BY <1>2
  <2> QED BY <2>1, <2>2, FilterAppend
<1> HIDE DEF P
<1>3. \A s \in Seq(T) : s \in P BY <1>1, <1>2, SequenceInduction
<1> QED BY <1>3 DEF P

(* two filters one after the other;                                        *)
LEMMA FilterTwice ==
  ASSUME NEW T, NEW A, NEW B
  PROVE  \A s \in Seq(T) : Filter(Filter(s, A), B) = Filter(s, A \cap B)
<1> DEFINE P == {s \in Seq(T) : Filter(Filter(s, A), B) = Filter(s, A \cap B)}
<1>1. << >> \in P BY FilterEmpty, EmptySeq
<1>2. ASSUME NEW s \in Seq(T), NEW x \in T, s \in P PROVE Append(s, x) \in P
  <2>1. Filter(s, A) \in Seq(T) /\ Append(s, x) \in Seq(T)
    BY FilterProperties, AppendProperties
  <2>2. Filter(Append(s, x), A)
          = IF x \in A THEN Append(Filter(s, A), x) ELSE Filter(s, A)
    BY FilterAppend
  <2>3. Filter(Append(Filter(s, A), x), B)
          = IF x \in B THEN Append(Filter(Filter(s, A), B), x) ELSE Filter(Filter(s, A), B)
    BY <2>1, FilterAppend
  <2>4. Filter(Append(s, x), A \cap B)
          = IF x \in A \cap B THEN Append(Filter(s, A \cap B), x) ELSE Filter(s, A \cap B)
    BY FilterAppend
  <2>5. Filter(Filter(s, A), B) = Filter(s, A \cap B) BY <1>2
  <2>6. Filter(Filter(Append(s, x), A), B) = Filter(Append(s, x), A \cap B)
    <3>1. CASE x \in A /\ x \in B
      <4>1. Filter(Append(s, x), A) = Append(Filter(s, A), x) BY <2>2, <3>1
      <4>2. Filter(Append(Filter(s, A), x), B) = Append(Filter(Filter(s, A), B), x)
        BY <2>3, <3>1
      <4>3. Filter(Append(s, x), A \cap B) = Append(Filter(s, A \cap B), x)
        BY <2>4, <3>1
      <4> QED BY <2>5, <4>1, <4>2, <4>3
    <3>3. CASE x \in A /\ x \notin B
      <4>1. Filter(Append(s, x), A) = Append(Filter(s, A), x) BY <2>2, <3>3
      <4>2. Filter(Append(Filter(s, A), x), B) = Filter(Filter(s, A), B)
        BY <2>3, <3>3
      <4>3. Filter(Append(s, x), A \cap B) = Filter(s, A \cap B)
        BY <2>4, <3>3
      <4> QED BY <2>5, <4>1, <4>2, <4>3
    <3>2. CASE x \notin A BY <2>2, <2>4, <2>5, <3>2
    <3> QED BY <3>1, <3>2, <3>3
  <2> QED BY <2>1, <2>6
<1> HIDE DEF P
<1>3. \A s \in Seq(T) : s \in P BY <1>1, <1>2, SequenceInduction
<1> QED BY <1>3 DEF P

(* a filter of two lists in a row.                                         *)
LEMMA FilterConcat ==
  ASSUME NEW T, NEW S, NEW s \in Seq(T)
  PROVE  \A t \in Seq(T) : Filter(s \o t, S) = Filter(s, S) \o Filter(t, S)
<1> DEFINE P == {t \in Seq(T) : Filter(s \o t, S) = Filter(s, S) \o Filter(t, S)}
<1>0. Filter(s, S) \in Seq(T) BY FilterProperties
<1>1. << >> \in P BY <1>0, FilterEmpty, EmptySeq, ConcatEmptySeq
<1>2. ASSUME NEW t \in Seq(T), NEW x \in T, t \in P PROVE Append(t, x) \in P
  <2>1. /\ Append(t, x) \in Seq(T) /\ s \o t \in Seq(T) /\ Filter(t, S) \in Seq(T)
        /\ Append(t, x) = t \o <<x>> /\ <<x>> \in Seq(T)
    BY AppendProperties, AppendIsConcat, ToSetConcat, FilterProperties, SMT
  <2>2. s \o Append(t, x) = Append(s \o t, x)
    <3>1. (s \o t) \o <<x>> = s \o (t \o <<x>>) BY <2>1, ConcatAssociative
    <3>2. Append(s \o t, x) = (s \o t) \o <<x>> BY <2>1, AppendIsConcat
    <3> QED BY <2>1, <3>1, <3>2
  <2>3. Filter(Append(s \o t, x), S)
          = IF x \in S THEN Append(Filter(s \o t, S), x) ELSE Filter(s \o t, S)
    BY <2>1, FilterAppend
  <2>4. Filter(Append(t, x), S) = IF x \in S THEN Append(Filter(t, S), x) ELSE Filter(t, S)
    BY FilterAppend
  <2>5. Filter(s, S) \o Append(Filter(t, S), x) = Append(Filter(s, S) \o Filter(t, S), x)
    <3> DEFINE a == Filter(s, S)
               b == Filter(t, S)
    <3>1. a \in Seq(T) /\ b \in Seq(T) BY <1>0, <2>1
    <3> HIDE DEF a, b
    <3>0. <<x>> \in Seq(T) BY <2>1
    <3>2. (a \o b) \o <<x>> = a \o (b \o <<x>>) BY <3>0, <3>1, ConcatAssociative
    <3>3. a \o b \in Seq(T) BY <3>1, ToSetConcat
    <3>4. Append(a \o b, x) = (a \o b) \o <<x>> /\ Append(b, x) = b \o <<x>>
      BY <3>1, <3>3, AppendIsConcat
    <3>5. a \o Append(b, x) = Append(a \o b, x) BY <3>2, <3>4
    <3> QED BY <3>5 DEF a, b
  <2>6. Filter(s \o t, S) = Filter(s, S) \o Filter(t, S) BY <1>2
  <2> QED BY <2>1, <2>2, <2>3, <2>4, <2>5, <2>6
<1> HIDE DEF P
<1>3. \A t \in Seq(T) : t \in P BY <1>1, <1>2, SequenceInduction
<1> QED BY <1>3 DEF P

(* Filtering the head out of a list without duplicates leaves the tail.    *)
LEMMA FilterHead ==
  ASSUME NEW T, NEW s \in Seq(T), s # << >>, IsInjective(s), NEW S,
         ToSet(s) \cap S = ToSet(s) \ {Head(s)}
  PROVE  Filter(s, S) = Tail(s)
<1>1. /\ Head(s) \in T /\ Tail(s) \in Seq(T) /\ s = <<Head(s)>> \o Tail(s)
      /\ <<Head(s)>> \in Seq(T)
  BY HeadTailProperties, SMT
<1>2. /\ Head(s) \in ToSet(s) /\ ToSet(Tail(s)) = ToSet(s) \ {Head(s)}
  BY TakeHead
<1>3. ToSet(<<Head(s)>>) = {Head(s)} BY SMT DEF ToSet
<1>4. Filter(<<Head(s)>>, S) = << >> /\ Filter(Tail(s), S) = Tail(s)
  BY <1>1, <1>2, <1>3, FilterAll
<1>5. \A a, b \in Seq(T) : Filter(a \o b, S) = Filter(a, S) \o Filter(b, S)
  BY FilterConcat
<1>6. PICK a, b : a = <<Head(s)>> /\ b = Tail(s)
  OBVIOUS
<1>7. Filter(a \o b, S) = Filter(a, S) \o Filter(b, S) /\ a \o b = s
  BY <1>1, <1>5, <1>6
<1>8. << >> \o b = b BY <1>1, <1>6, ConcatEmptySeq
<1> QED BY <1>4, <1>6, <1>7, <1>8

(* A list u in two pieces, the n elements of s and those of t behind them. *)
Split(u, n, s, t) ==
  /\ n \in 0 .. Len(u) /\ SubSeq(u, 1, n) = s
  /\ \A i \in n + 1 .. Len(u) : u[i] \in ToSet(t)
  /\ \A x \in ToSet(t) : \E i \in n + 1 .. Len(u) : u[i] = x

(* Two lists in a row are so split.                                        *)
LEMMA PiecesOfConcat ==
  ASSUME NEW T, NEW s \in Seq(T), NEW t \in Seq(T)
  PROVE  Split(s \o t, Len(s), s, t)
<1>0. SUFFICES ASSUME NEW u, u = s \o t, NEW n, n = Len(s) PROVE Split(u, n, s, t)
  OBVIOUS
<1> DEFINE m == Len(t)
<1>1. /\ u \in Seq(T) /\ Len(u) = n + m
      /\ \A i \in 1 .. n + m : u[i] = IF i <= n THEN s[i] ELSE t[i - n]
  BY <1>0, ConcatProperties
<1>2. n \in Nat /\ m \in Nat /\ DOMAIN t = 1 .. m BY <1>0, LenProperties
<1>3. SubSeq(u, 1, n) = s BY <1>0, SMT
<1> HIDE DEF m
<1>4. n \in 0 .. Len(u) BY <1>1, <1>2, SMT
<1>5. /\ \A i \in n + 1 .. Len(u) : u[i] \in ToSet(t)
      /\ \A x \in ToSet(t) : \E i \in n + 1 .. Len(u) : u[i] = x
  <2>1. ASSUME NEW i \in n + 1 .. Len(u) PROVE u[i] \in ToSet(t)
    <3>1. i \in 1 .. n + m /\ ~(i <= n) /\ i - n \in 1 .. m BY <1>1, <1>2, SMT
    <3> QED BY <1>1, <1>2, <3>1 DEF ToSet
  <2>2. ASSUME NEW j \in DOMAIN t PROVE \E i \in n + 1 .. Len(u) : u[i] = t[j]
    <3>1. j + n \in n + 1 .. Len(u) /\ j + n \in 1 .. n + m /\ ~(j + n <= n) /\ (j + n) - n = j
      BY <1>1, <1>2, SMT
    <3> QED BY <1>1, <3>1
  <2> QED BY <2>1, <2>2 DEF ToSet
<1> QED BY <1>3, <1>4, <1>5 DEF Split
-----------------------------------------------------------------------------
(* The function inside Filled: what the first items leave of the budget.   *)
IsLeft(f, worked, states, budget, n) ==
  f = [i \in 1 .. n |-> IF i = 1 THEN budget
                        ELSE f[i - 1] - Demand(states[worked[i - 1]])]

(* A function as in Filled exists, for every length.                       *)
LEMMA LeftExists ==
  ASSUME NEW worked, NEW states, NEW budget, NEW n \in Nat
  PROVE  \E f : IsLeft(f, worked, states, budget, n)
<1> DEFINE P == {m \in Nat : \E f : IsLeft(f, worked, states, budget, m)}
           D(i) == Demand(states[worked[i]])
<1>1. 0 \in P
  <2>1. IsLeft([i \in 1 .. 0 |-> 0], worked, states, budget, 0) BY SMT DEF IsLeft
  <2> QED BY <2>1
<1>2. ASSUME NEW m \in Nat, m \in P PROVE m + 1 \in P
  <2>1. PICK f : IsLeft(f, worked, states, budget, m) BY <1>2
  <2> DEFINE next == IF m = 0 THEN budget ELSE f[m] - D(m)
             g == [i \in 1 .. m + 1 |-> IF i = m + 1 THEN next ELSE f[i]]
  <2>2. \A i \in 1 .. m : f[i] = IF i = 1 THEN budget ELSE f[i - 1] - D(i - 1)
    BY <2>1, Zenon DEF IsLeft
  <2> HIDE DEF D
  <2>3. \A i \in 1 .. m + 1 : g[i] = IF i = 1 THEN budget ELSE g[i - 1] - D(i - 1)
    <3> SUFFICES ASSUME NEW i \in 1 .. m + 1
                 PROVE  g[i] = IF i = 1 THEN budget ELSE g[i - 1] - D(i - 1)
      OBVIOUS
    <3>1. CASE i = m + 1
      <4>1. (i = 1 <=> m = 0) /\ i - 1 = m /\ (m # 0 => m \in 1 .. m + 1) /\ m # m + 1
        BY <3>1, SMT
      <4>2. g[i] = next /\ (m # 0 => g[i - 1] = f[m]) BY <3>1, <4>1
      <4> QED BY <4>1, <4>2
    <3>2. CASE i # m + 1
      <4>1. i \in 1 .. m /\ g[i] = f[i] BY <3>2, SMT
      <4>2. i # 1 => i - 1 \in 1 .. m + 1 /\ i - 1 # m + 1 BY <3>2, SMT
      <4>3. i # 1 => g[i - 1] = f[i - 1] BY <4>2
      <4> HIDE DEF g
      <4> QED BY <2>2, <4>1, <4>3
    <3> QED BY <3>1, <3>2
  <2>4. IsLeft(g, worked, states, budget, m + 1)
    <3>1. DOMAIN g = 1 .. m + 1 /\ g = [i \in 1 .. m + 1 |-> g[i]] OBVIOUS
    <3> HIDE DEF g
    <3> QED BY <2>3, <3>1, Zenon DEF IsLeft, D
  <2>5. m + 1 \in Nat BY SMT
  <2> QED BY <2>4, <2>5
<1> HIDE DEF P
<1>3. n \in P BY <1>1, <1>2, Induction
<1> QED BY <1>3 DEF P
(* The item made for a request with work is as large as what is left of    *)
(* its work, or as the chunk it may have.                                  *)
Countable(q) == {q.prompt_length, q.prefill_position, q.decoded_count} \subseteq Nat

LEMMA WorkCost ==
  ASSUME NEW r, NEW q, HasWork(q), Countable(q), NEW c \in Nat, c > 0
  PROVE  LET w == WorkFor(r, q, c)
         IN  /\ w.id = r /\ w.begin \in Nat /\ w.end \in Nat
             /\ w.end - w.begin = Least(Demand(q), c)
             /\ Demand(q) \in Nat /\ Demand(q) > 0
<1>1. /\ q.prompt_length \in Nat /\ q.prefill_position \in Nat /\ q.decoded_count \in Nat
  BY DEF Countable
<1>2. CASE q.stage = "Prefill"
  <2>1. q.prefill_position < q.prompt_length BY <1>2, Zenon DEF HasWork
  <2> QED BY <1>1, <1>2, <2>1, SMT DEF WorkFor, Demand, Least
<1>3. CASE q.stage # "Prefill"
  <2>1. q.decoded_count > 0 BY <1>3, Zenon DEF HasWork
  <2> QED BY <1>1, <1>3, <2>1, SMT DEF WorkFor, Demand, Least
<1> QED BY <1>2, <1>3

(* Filled serves, in their order, the first of those that have work, each  *)
(* with a chunk of at least a token, and stays within the budget.          *)
Working(order, states) == Filter(order, {r \in ToSet(order) : HasWork(states[r])})

LEMMA FilledPrefix ==
  ASSUME NEW T, NEW order \in Seq(T), NEW states, NEW budget \in Nat, budget > 0,
         \A r \in ToSet(order) : HasWork(states[r]) => Countable(states[r]),
         NEW w, w = Working(order, states), NEW p, p = Filled(order, states, budget)
  PROVE  \E m \in 0 .. Len(w) :
           /\ w # << >> => m > 0
           /\ Cost(p) <= budget
           /\ \E left \in [1 .. m -> 1 .. budget] :
                p = [i \in 1 .. m |-> WorkFor(w[i], states[w[i]], left[i])]
<1> DEFINE n == Len(w)
           q(i) == states[w[i]]
           f == CHOOSE g : IsLeft(g, w, states, budget, n)
<1>1. /\ w \in Seq(T) /\ n \in Nat /\ DOMAIN w = 1 .. n
      /\ \A i \in 1 .. n : HasWork(q(i)) /\ Countable(q(i))
  <2>1. w \in Seq(T) /\ ToSet(w) \subseteq {r \in ToSet(order) : HasWork(states[r])}
    <3>1. PICK S : S = {r \in ToSet(order) : HasWork(states[r])} OBVIOUS
    <3>2. Filter(order, S) \in Seq(T) /\ ToSet(Filter(order, S)) = ToSet(order) \cap S
      BY FilterProperties
    <3>3. w = Filter(order, S) BY <3>1 DEF Working
    <3> QED BY <3>1, <3>2, <3>3
  <2>2. n \in Nat /\ DOMAIN w = 1 .. n BY <2>1, LenProperties
  <2>3. \A i \in 1 .. n : w[i] \in ToSet(w) BY <2>2 DEF ToSet
  <2> QED BY <2>1, <2>2, <2>3
<1>2. IsLeft(f, w, states, budget, n) BY <1>1, LeftExists
<1>3. p = [i \in {j \in 1 .. n : f[j] > 0} |-> WorkFor(w[i], states[w[i]], f[i])]
  <2>1. p = [i \in {j \in DOMAIN w : f[j] > 0} |-> WorkFor(w[i], states[w[i]], f[i])]
    BY DEF Filled, Working, IsLeft
  <2>2. DOMAIN w = 1 .. n BY <1>1
  <2> QED BY <2>1, <2>2
<1> HIDE DEF f, q
<1>4. /\ n > 0 => f[1] = budget
      /\ \A i \in 1 .. n : i # 1 => f[i] = f[i - 1] - Demand(q(i - 1))
  <2>1. n > 0 => 1 \in 1 .. n BY <1>1, SMT
  <2> QED BY <1>2, <2>1, Zenon DEF IsLeft, q
<1>5. \A i \in 1 .. n : Demand(q(i)) \in Nat /\ Demand(q(i)) > 0
  <2>1. 1 \in Nat /\ 1 > 0 BY SMT
  <2> QED BY <1>1, <2>1, WorkCost
<1>6. \A i \in 1 .. n : f[i] \in Int /\ f[i] <= budget
  <2> DEFINE P == {k \in Nat : k \in 1 .. n => f[k] \in Int /\ f[k] <= budget}
  <2>1. 0 \in P BY SMT
  <2>2. ASSUME NEW k \in Nat, k \in P PROVE k + 1 \in P
    <3> SUFFICES ASSUME k + 1 \in 1 .. n PROVE f[k + 1] \in Int /\ f[k + 1] <= budget
      BY SMT
    <3>1. CASE k = 0
      <4>1. n > 0 /\ k + 1 = 1 BY <1>1, <3>1, SMT
      <4> QED BY <1>4, <4>1, SMT
    <3>2. CASE k # 0
      <4>1. k \in 1 .. n /\ k + 1 # 1 /\ (k + 1) - 1 = k BY <1>1, <3>2, SMT
      <4>2. f[k] \in Int /\ f[k] <= budget BY <2>2, <4>1
      <4>3. f[k + 1] = f[k] - Demand(q(k)) BY <1>4, <4>1
      <4>4. Demand(q(k)) \in Nat BY <1>5, <4>1
      <4> QED BY <4>2, <4>3, <4>4, SMT
    <3> QED BY <3>1, <3>2
  <2> HIDE DEF P
  <2>3. \A k \in Nat : k \in P BY <2>1, <2>2, Induction
  <2>4. \A k \in 1 .. n : k \in Nat BY SMT
  <2> QED BY <2>3, <2>4 DEF P
<1>7. PICK m \in 0 .. n : {j \in 1 .. n : f[j] > 0} = 1 .. m /\ (n > 0 => m > 0)
  <2> DEFINE P == {k \in Nat : k <= n => \E m \in 0 .. k :
                     /\ {j \in 1 .. k : f[j] > 0} = 1 .. m
                     /\ k > 0 => m > 0
                     /\ m < k => f[k] <= 0}
  <2>1. 0 \in P
    <3>1. {j \in 1 .. 0 : f[j] > 0} = 1 .. 0 /\ 0 \in 0 .. 0 /\ ~(0 > 0) /\ ~(0 < 0) BY SMT
    <3> QED BY <3>1
  <2>2. ASSUME NEW k \in Nat, k \in P PROVE k + 1 \in P
    <3> SUFFICES ASSUME k + 1 <= n
                 PROVE  \E m \in 0 .. k + 1 :
                          /\ {j \in 1 .. k + 1 : f[j] > 0} = 1 .. m
                          /\ k + 1 > 0 => m > 0
                          /\ m < k + 1 => f[k + 1] <= 0
      BY SMT
    <3>1. PICK m \in 0 .. k : /\ {j \in 1 .. k : f[j] > 0} = 1 .. m
                              /\ k > 0 => m > 0
                              /\ m < k => f[k] <= 0
      <4>1. k <= n BY <1>1, SMT
      <4> QED BY <2>2, <4>1
    <3>2. f[k + 1] \in Int /\ k + 1 \in 1 .. n /\ k + 1 > 0
      <4>1. k + 1 \in 1 .. n /\ k + 1 > 0 BY <1>1, SMT
      <4> QED BY <1>6, <4>1
    <3>3. 1 .. k + 1 = (1 .. k) \cup {k + 1} BY SMT
    <3>4. CASE f[k + 1] > 0
      <4>1. m = k
        <5>1. SUFFICES ASSUME m < k PROVE FALSE BY SMT
        <5>2. k \in 1 .. n /\ k + 1 # 1 /\ (k + 1) - 1 = k BY <1>1, <5>1, SMT
        <5>3. f[k] \in Int /\ f[k] <= 0 BY <1>6, <3>1, <5>1, <5>2
        <5>4. f[k + 1] = f[k] - Demand(q(k)) BY <1>4, <3>2, <5>2
        <5>5. Demand(q(k)) \in Nat BY <1>5, <5>2
        <5> QED BY <3>4, <5>3, <5>4, <5>5, SMT
      <4>2. {j \in 1 .. k + 1 : f[j] > 0} = 1 .. k + 1
        BY <3>1, <3>3, <3>4, <4>1
      <4>3. k + 1 \in 0 .. k + 1 /\ ~(k + 1 < k + 1) BY SMT
      <4> QED BY <3>2, <4>2, <4>3
    <3>5. CASE ~(f[k + 1] > 0)
      <4>1. {j \in 1 .. k + 1 : f[j] > 0} = 1 .. m BY <3>1, <3>3, <3>5
      <4>2. m \in 0 .. k + 1 /\ f[k + 1] <= 0 BY <3>2, <3>5, SMT
      <4>3. m > 0
        <5>1. CASE k = 0
          <6>1. k + 1 = 1 /\ n > 0 BY <1>1, <5>1, SMT
          <6>2. f[k + 1] = budget BY <1>4, <6>1
          <6> QED BY <3>5, <6>2
        <5>2. CASE k # 0
          <6>1. k > 0 BY <5>2, SMT
          <6> QED BY <3>1, <6>1
        <5> QED BY <5>1, <5>2
      <4> QED BY <4>1, <4>2, <4>3
    <3> QED BY <3>4, <3>5
  <2> HIDE DEF P
  <2>3. n \in P BY <1>1, <2>1, <2>2, Induction
  <2>4. n <= n BY <1>1, SMT
  <2> QED BY <2>3, <2>4 DEF P
<1> DEFINE left == [i \in 1 .. m |-> f[i]]
<1>8. m \in Nat /\ \A i \in 1 .. m : i \in 1 .. n /\ f[i] > 0 BY <1>1, <1>7, SMT
<1>9. \A i \in 1 .. m : f[i] \in 1 .. budget
  <2>1. \A i \in 1 .. m : f[i] \in Int /\ f[i] <= budget /\ f[i] > 0 BY <1>6, <1>8
  <2> QED BY <2>1, SMT
<1>10. left \in [1 .. m -> 1 .. budget] BY <1>9
<1>11. p = [i \in 1 .. m |-> WorkFor(w[i], states[w[i]], left[i])]
  BY <1>3, <1>7
<1>12. w # << >> => m > 0
  <2>1. w # << >> => n > 0 BY <1>1, SMT
  <2> QED BY <1>7, <2>1
<1>13. Cost(p) <= budget
  <2>1. \A i \in 1 .. m : /\ p[i].begin \in Nat /\ p[i].end \in Nat
                          /\ p[i].end - p[i].begin = Least(Demand(q(i)), f[i])
    <3> SUFFICES ASSUME NEW i \in 1 .. m
                 PROVE  /\ p[i].begin \in Nat /\ p[i].end \in Nat
                        /\ p[i].end - p[i].begin = Least(Demand(q(i)), f[i])
      OBVIOUS
    <3>1. p[i] = WorkFor(w[i], q(i), f[i]) BY <1>11 DEF q
    <3>2. f[i] \in Nat /\ f[i] > 0 BY <1>9, SMT
    <3>3. HasWork(q(i)) /\ Countable(q(i)) BY <1>1, <1>8
    <3> QED BY <3>1, <3>2, <3>3, WorkCost
  <2>2. Len(p) = m
    <3>1. DOMAIN p = 1 .. m BY <1>11
    <3>2. p \in Seq({p[i] : i \in 1 .. m})
      <4>1. p \in [1 .. m -> {p[i] : i \in 1 .. m}] BY <1>11
      <4> QED BY <1>8, <4>1, SMT
    <3> QED BY <1>8, <3>1, <3>2, SMT
  <2> DEFINE t == CHOOSE g : IsTally(g, p, m)
  <2>3. IsTally(t, p, m) BY <1>8, TallyExists
  <2>4. Cost(p) = t[m] BY <2>2 DEF Cost, Tally, IsTally
  <2> HIDE DEF t
  <2>5. t[0] = 0 /\ \A i \in 1 .. m : t[i] = t[i - 1] + (p[i].end - p[i].begin)
    <3>1. 0 \in 0 .. m /\ \A i \in 1 .. m : i \in 0 .. m /\ i # 0 BY <1>8, SMT
    <3> QED BY <2>3, <3>1, Zenon DEF IsTally
  <2>6. \A k \in 1 .. m : t[k - 1] = budget - f[k]
    <3> DEFINE P == {k \in Nat : k \in 1 .. m => t[k - 1] = budget - f[k]}
    <3>1. 0 \in P BY SMT
    <3>2. ASSUME NEW k \in Nat, k \in P PROVE k + 1 \in P
      <4> SUFFICES ASSUME k + 1 \in 1 .. m PROVE t[k] = budget - f[k + 1]
        BY SMT
      <4>0. k + 1 \in 1 .. n /\ f[k + 1] \in Int /\ f[k + 1] > 0 BY <1>6, <1>8
      <4>1. CASE k = 0
        <5>1. k + 1 = 1 /\ n > 0 BY <1>1, <4>0, <4>1, SMT
        <5> QED BY <1>4, <2>5, <4>1, <5>1, SMT
      <4>2. CASE k # 0
        <5>1. k \in 1 .. m /\ k + 1 # 1 /\ (k + 1) - 1 = k BY <1>8, <4>2, SMT
        <5>2. t[k - 1] = budget - f[k] BY <4>2, <3>2, <5>1
        <5>3. t[k] = t[k - 1] + (p[k].end - p[k].begin) BY <2>5, <5>1
        <5>4. f[k + 1] = f[k] - Demand(q(k)) BY <1>4, <4>0, <5>1
        <5>5. f[k] \in Int /\ Demand(q(k)) \in Nat BY <1>5, <1>6, <1>8, <5>1
        <5>6. p[k].end - p[k].begin = Demand(q(k))
          <6>1. p[k].end - p[k].begin = Least(Demand(q(k)), f[k]) BY <2>1, <5>1
          <6>2. Demand(q(k)) < f[k] BY <4>0, <5>4, <5>5, SMT
          <6> QED BY <6>1, <6>2 DEF Least
        <5> QED BY <5>2, <5>3, <5>4, <5>5, <5>6, SMT
      <4> QED BY <4>1, <4>2
    <3> HIDE DEF P
    <3>3. \A k \in Nat : k \in P BY <3>1, <3>2, Induction
    <3>4. \A k \in 1 .. m : k \in Nat BY SMT
    <3> QED BY <3>3, <3>4 DEF P
  <2>7. CASE m = 0
    BY <2>4, <2>5, <2>7, SMT
  <2>8. CASE m # 0
    <3>1. m \in 1 .. m BY <1>8, <2>8, SMT
    <3>2. t[m] = (budget - f[m]) + Least(Demand(q(m)), f[m])
      <4>1. t[m] = t[m - 1] + (p[m].end - p[m].begin) BY <2>5, <3>1
      <4>2. t[m - 1] = budget - f[m] BY <2>6, <3>1
      <4>3. p[m].end - p[m].begin = Least(Demand(q(m)), f[m]) BY <2>1, <3>1
      <4> QED BY <4>1, <4>2, <4>3
    <3>3. f[m] \in Int /\ Demand(q(m)) \in Nat BY <1>5, <1>6, <1>8, <3>1
    <3> QED BY <2>4, <3>2, <3>3, SMT DEF Least
  <2> QED BY <2>7, <2>8
<1> HIDE DEF left
<1> QED BY <1>7, <1>10, <1>11, <1>12, <1>13
(* Sorted gives the elements other places, so that the order of the places *)
(* they had is F: if F is an order.                                        *)
Ordering(F, D) ==
  /\ \A i \in D : <<i, i>> \notin F
  /\ \A i, j, k \in D : <<i, j>> \in F /\ <<j, k>> \in F => <<i, k>> \in F
  /\ \A i, j \in D : i # j => <<i, j>> \in F \/ <<j, i>> \in F

LEMMA SortedPlaces ==
  ASSUME NEW T, NEW s \in Seq(T), NEW F, Ordering(F, DOMAIN s)
  PROVE  \E place \in [DOMAIN s -> DOMAIN s] :
           /\ \A i, j \in DOMAIN s : place[i] = place[j] => i = j
           /\ Sorted(s, F) = [k \in DOMAIN s |-> s[place[k]]]
           /\ \A i, j \in DOMAIN s : i < j => <<place[i], place[j]>> \in F
<1> DEFINE D == DOMAIN s
           n == Len(s)
           B(i) == {j \in D : <<j, i>> \in F}
           rank == [i \in D |-> 1 + Cardinality(B(i))]
           place == [k \in D |-> CHOOSE i \in D : rank[i] = k]
<1>0. /\ \A i \in D : <<i, i>> \notin F
      /\ \A i, j, k \in D : <<i, j>> \in F /\ <<j, k>> \in F => <<i, k>> \in F
      /\ \A i, j \in D : i # j => <<i, j>> \in F \/ <<j, i>> \in F
  BY Zenon DEF Ordering
<1>1. n \in Nat /\ D = 1 .. n BY LenProperties
<1>2. IsFiniteSet(D) /\ Cardinality(D) = n
  <2>1. 1 \in Int /\ n \in Int BY <1>1, SMT
  <2>2. IsFiniteSet(1 .. n) /\ Cardinality(1 .. n) = IF 1 > n THEN 0 ELSE n - 1 + 1
    BY <2>1, FS_Interval
  <2> QED BY <1>1, <2>2, SMT
<1> HIDE DEF D, n
<1>3. \A i \in D : /\ IsFiniteSet(B(i)) /\ Cardinality(B(i)) \in Nat
                   /\ Cardinality(B(i)) < n
  <2> SUFFICES ASSUME NEW i \in D
               PROVE  /\ IsFiniteSet(B(i)) /\ Cardinality(B(i)) \in Nat
                      /\ Cardinality(B(i)) < n
    OBVIOUS
  <2>1. B(i) \in SUBSET D /\ i \notin B(i) BY <1>0
  <2>2. /\ IsFiniteSet(B(i)) /\ Cardinality(B(i)) <= Cardinality(D)
        /\ Cardinality(D) = Cardinality(B(i)) => D = B(i)
    BY <1>2, <2>1, FS_Subset
  <2>3. Cardinality(B(i)) \in Nat BY <2>2, FS_CardinalityType
  <2>4. Cardinality(B(i)) # n BY <1>2, <2>1, <2>2
  <2> QED BY <1>1, <1>2, <2>2, <2>3, <2>4, SMT
<1>4. \A i, j \in D : <<i, j>> \in F => rank[i] < rank[j]
  <2> SUFFICES ASSUME NEW i \in D, NEW j \in D, <<i, j>> \in F PROVE rank[i] < rank[j]
    OBVIOUS
  <2>1. B(i) \in SUBSET B(j) /\ i \in B(j) /\ i \notin B(i) BY <1>0
  <2>2. /\ Cardinality(B(i)) <= Cardinality(B(j))
        /\ Cardinality(B(j)) = Cardinality(B(i)) => B(j) = B(i)
    BY <1>3, <2>1, FS_Subset
  <2>3. Cardinality(B(i)) # Cardinality(B(j)) BY <2>1, <2>2
  <2>4. Cardinality(B(i)) \in Nat /\ Cardinality(B(j)) \in Nat BY <1>3
  <2>5. rank[i] = 1 + Cardinality(B(i)) /\ rank[j] = 1 + Cardinality(B(j)) OBVIOUS
  <2> HIDE DEF B, rank
  <2> QED BY <2>2, <2>3, <2>4, <2>5, SMT
<1>5. rank \in [D -> D]
  <2>1. \A i \in D : 1 + Cardinality(B(i)) \in D
    <3> HIDE DEF B
    <3> QED BY <1>1, <1>3, SMT
  <2> QED BY <2>1
<1>6. \A i, j \in D : rank[i] = rank[j] => i = j
  <2>1. \A i \in D : rank[i] \in Nat BY <1>1, <1>5, SMT
  <2> HIDE DEF rank
  <2>3. \A i, j \in D : i # j => rank[i] < rank[j] \/ rank[j] < rank[i]
    BY <1>0, <1>4
  <2> QED BY <2>1, <2>3, SMT
<1>7. \A k \in D : \E i \in D : rank[i] = k
  <2> HIDE DEF rank
  <2>1. rank \in Injection(D, D) BY <1>5, <1>6 DEF Injection, IsInjective
  <2>2. rank \in Surjection(D, D) BY <1>2, <2>1, FS_Injection
  <2> QED BY <2>2 DEF Surjection
<1>8. \A k \in D : place[k] \in D /\ rank[place[k]] = k
  <2> HIDE DEF rank
  <2> QED BY <1>7
<1>9. Sorted(s, F) = [k \in D |-> s[place[k]]]
  <2> DEFINE C(k) == CHOOSE i \in D : 1 + Cardinality(B(i)) = k
  <2>1. \A k \in D : place[k] = C(k)
    <3>1. \A k, i \in D : rank[i] = k <=> 1 + Cardinality(B(i)) = k OBVIOUS
    <3>2. \A k \in D : (CHOOSE i \in D : rank[i] = k)
                         = CHOOSE i \in D : 1 + Cardinality(B(i)) = k
      <4> HIDE DEF rank, B
      <4> QED BY <3>1
    <3> QED BY <3>2
  <2>2. Sorted(s, F) = [k \in D |-> s[C(k)]] BY DEF Sorted, D, B
  <2> HIDE DEF place, C
  <2> QED BY <2>1, <2>2
<1> HIDE DEF place, rank
<1>10. \A i, j \in D : i < j => <<place[i], place[j]>> \in F
  <2> SUFFICES ASSUME NEW i \in D, NEW j \in D, i < j PROVE <<place[i], place[j]>> \in F
    OBVIOUS
  <2>1. place[i] \in D /\ place[j] \in D /\ rank[place[i]] = i /\ rank[place[j]] = j
    BY <1>8
  <2>2. i # j /\ ~(j < i) BY <1>1, SMT
  <2>3. place[i] # place[j] BY <2>1, <2>2
  <2>4. <<place[j], place[i]>> \notin F BY <1>4, <2>1, <2>2
  <2> QED BY <1>0, <2>1, <2>3, <2>4
<1>11. place \in [D -> D] BY <1>8 DEF place
<1>12. \A i, j \in D : place[i] = place[j] => i = j BY <1>8
<1> QED BY <1>9, <1>10, <1>11, <1>12 DEF D
(* The first elements of a list.                                           *)
LEMMA FirstOnes ==
  ASSUME NEW T, NEW s \in Seq(T), NEW k \in 0 .. Len(s)
  PROVE  /\ SubSeq(s, 1, k) \in Seq(T) /\ Len(SubSeq(s, 1, k)) = k
         /\ DOMAIN SubSeq(s, 1, k) = 1 .. k
         /\ \A i \in 1 .. k : i \in DOMAIN s /\ SubSeq(s, 1, k)[i] = s[i]
         /\ ToSet(SubSeq(s, 1, k)) = {s[i] : i \in 1 .. k}
         /\ ToSet(SubSeq(s, 1, k)) \subseteq ToSet(s)
         /\ IsInjective(s) => IsInjective(SubSeq(s, 1, k))
<1> DEFINE u == SubSeq(s, 1, k)
<1>1. Len(s) \in Nat /\ DOMAIN s = 1 .. Len(s) /\ \A i \in 1 .. Len(s) : s[i] \in T
  BY LenProperties
<1>2. 1 \in Int /\ k \in Int /\ \A i \in 1 .. k : s[i] \in T /\ i \in 1 .. Len(s)
  BY <1>1, SMT
<1>3. /\ u \in Seq(T) /\ Len(u) = IF 1 <= k THEN k - 1 + 1 ELSE 0
      /\ \A i \in 1 .. k - 1 + 1 : u[i] = s[1 + i - 1]
  BY <1>2, SubSeqProperties
<1> HIDE DEF u
<1>4. Len(u) = k /\ DOMAIN u = 1 .. k
  <2>1. Len(u) = k BY <1>1, <1>3, SMT
  <2> QED BY <1>3, <2>1, LenProperties
<1>5. \A i \in 1 .. k : u[i] = s[i]
  <2>1. \A i \in 1 .. k : i \in 1 .. k - 1 + 1 /\ 1 + i - 1 = i BY <1>2, SMT
  <2> QED BY <1>3, <2>1
<1>6. ToSet(u) = {s[i] : i \in 1 .. k} BY <1>4, <1>5 DEF ToSet
<1>7. ToSet(u) \subseteq ToSet(s) BY <1>1, <1>2, <1>6 DEF ToSet
<1>8. IsInjective(s) => IsInjective(u) BY <1>1, <1>2, <1>4, <1>5 DEF IsInjective
<1> QED BY <1>1, <1>2, <1>3, <1>4, <1>5, <1>6, <1>7, <1>8 DEF u

(* BeforeRelease is the part of the list where no request waits for its    *)
(* release, up to the first that does.                                     *)
LEMMA BeforeReleaseIsFirst ==
  ASSUME NEW T, NEW list \in Seq(T), NEW states
  PROVE  \E k \in 0 .. Len(list) :
           /\ BeforeRelease(list, states) = SubSeq(list, 1, k)
           /\ \A i \in 1 .. k : states[list[i]].stage # "PendingRelease"
           /\ k < Len(list) => states[list[k + 1]].stage = "PendingRelease"
           /\ k = Len(list) => BeforeRelease(list, states) = list
<1> DEFINE n == Len(list)
           I == {i \in 1 .. n : states[list[i]].stage = "PendingRelease"}
           barrier == IF I # {} THEN Min(I) ELSE 0
<1>1. n \in Nat /\ DOMAIN list = 1 .. n BY LenProperties
<1>2. BeforeRelease(list, states)
        = IF barrier = 0 THEN list ELSE SubSeq(list, 1, barrier - 1)
  BY DEF BeforeRelease, SelectInSeq
<1>3. list = SubSeq(list, 1, n)
  <2>1. n \in 0 .. n BY <1>1, SMT
  <2>2. /\ SubSeq(list, 1, n) \in Seq(T) /\ Len(SubSeq(list, 1, n)) = n
        /\ \A i \in 1 .. n : SubSeq(list, 1, n)[i] = list[i]
    BY <2>1, FirstOnes
  <2> QED BY <2>2, SeqEqual
<1>4. CASE I = {}
  <2>1. BeforeRelease(list, states) = list BY <1>2, <1>4
  <2>2. n \in 0 .. n /\ ~(n < n) BY <1>1, SMT
  <2>3. \A i \in 1 .. n : states[list[i]].stage # "PendingRelease" BY <1>4
  <2>4. /\ BeforeRelease(list, states) = SubSeq(list, 1, n)
        /\ n < n => states[list[n + 1]].stage = "PendingRelease"
    BY <1>3, <2>1, <2>2
  <2> QED BY <2>1, <2>2, <2>3, <2>4, Zenon
<1>5. CASE I # {}
  <2>1. I \subseteq Nat /\ \A i \in I : i \in 1 .. n BY <1>1, SMT
  <2>2. Min(I) \in I /\ \A i \in I : Min(I) <= i
    <3>1. \E i \in I : \A j \in I : i <= j BY <1>5, <2>1, LeastNumber
    <3> HIDE DEF I
    <3> QED BY <3>1 DEF Min
  <2>3. barrier = Min(I) BY <1>5
  <2>4. barrier \in I /\ \A i \in I : barrier <= i BY <2>2, <2>3
  <2> HIDE DEF barrier
  <2>5. /\ barrier \in 1 .. n /\ barrier # 0 /\ barrier - 1 \in 0 .. n
        /\ (barrier - 1) + 1 = barrier /\ barrier - 1 # n
        /\ \A i \in 1 .. barrier - 1 : i \in 1 .. n /\ ~(barrier <= i)
    BY <1>1, <2>1, <2>4, SMT
  <2>6. \A i \in 1 .. barrier - 1 : states[list[i]].stage # "PendingRelease"
    BY <2>4, <2>5
  <2>7. states[list[barrier]].stage = "PendingRelease" BY <2>4
  <2>8. BeforeRelease(list, states) = SubSeq(list, 1, barrier - 1) BY <1>2, <2>5
  <2> QED BY <2>5, <2>6, <2>7, <2>8
<1> QED BY <1>4, <1>5

(* Sorting by a number, the largest first, keeps the order of equals.      *)
LEMMA KeyOrdering ==
  ASSUME NEW T, NEW s \in Seq(T), NEW key \in [DOMAIN s -> Nat], NEW F,
         \A i, j \in DOMAIN s :
           <<i, j>> \in F <=> key[i] > key[j] \/ (i < j /\ ~(key[j] > key[i]))
  PROVE  Ordering(F, DOMAIN s)
<1> DEFINE D == DOMAIN s
<1>1. \A i \in D : key[i] \in Nat /\ i \in Nat
  <2>1. D = 1 .. Len(s) /\ Len(s) \in Nat BY LenProperties
  <2> QED BY <2>1, SMT
<1>2. \A i, j \in D : <<i, j>> \in F <=> key[i] > key[j] \/ (i < j /\ ~(key[j] > key[i]))
  OBVIOUS
<1> HIDE DEF D
<1>3. \A i \in D : <<i, i>> \notin F BY <1>1, <1>2, SMT
<1>4. \A i, j, k \in D : <<i, j>> \in F /\ <<j, k>> \in F => <<i, k>> \in F
  <2> SUFFICES ASSUME NEW i \in D, NEW j \in D, NEW k \in D, <<i, j>> \in F, <<j, k>> \in F
               PROVE  <<i, k>> \in F
    OBVIOUS
  <2>1. /\ key[i] \in Nat /\ key[j] \in Nat /\ key[k] \in Nat
        /\ i \in Nat /\ j \in Nat /\ k \in Nat
    BY <1>1
  <2>2. /\ key[i] > key[j] \/ (i < j /\ ~(key[j] > key[i]))
        /\ key[j] > key[k] \/ (j < k /\ ~(key[k] > key[j]))
    BY <1>2
  <2>3. key[i] > key[k] \/ (i < k /\ ~(key[k] > key[i])) BY <2>1, <2>2, SMT
  <2> QED BY <1>2, <2>3
<1>5. \A i, j \in D : i # j => <<i, j>> \in F \/ <<j, i>> \in F
  <2> SUFFICES ASSUME NEW i \in D, NEW j \in D, i # j
               PROVE  <<i, j>> \in F \/ <<j, i>> \in F
    OBVIOUS
  <2>1. key[i] \in Nat /\ key[j] \in Nat /\ i \in Nat /\ j \in Nat BY <1>1
  <2>2. \/ key[i] > key[j] \/ (i < j /\ ~(key[j] > key[i]))
        \/ key[j] > key[i] \/ (j < i /\ ~(key[i] > key[j]))
    BY <2>1, SMT
  <2> QED BY <1>2, <2>2
<1> QED BY <1>3, <1>4, <1>5, Zenon DEF Ordering, D

(* The requests that exchange their places do so among themselves.         *)
LEMMA ReorderedPlaces ==
  ASSUME NEW T, NEW order \in Seq(T), IsInjective(order), NEW states,
         NEW some \in Seq(T), IsInjective(some), ToSet(some) \subseteq ToSet(order),
         \A r \in ToSet(some) : states[r].cached_prefix_tokens \in Nat,
         NEW new, new = Reordered(order, states, some)
  PROVE  /\ new \in Seq(T) /\ Len(new) = Len(order) /\ IsInjective(new)
         /\ \A i \in DOMAIN order : new[i] = order[i] \/ {new[i], order[i]} \subseteq ToSet(some)
<1> DEFINE F == {p \in (DOMAIN some) \X (DOMAIN some) :
                   \/ states[some[p[1]]].cached_prefix_tokens
                        > states[some[p[2]]].cached_prefix_tokens
                   \/ (p[1] < p[2] /\ ~(states[some[p[2]]].cached_prefix_tokens
                                         > states[some[p[1]]].cached_prefix_tokens))}
           ranked == Sorted(some, F)
           place(r) == CHOOSE i \in DOMAIN some : some[i] = r
           n == Len(order)
<1>1. new = [i \in DOMAIN order |-> IF order[i] \in ToSet(some)
                                    THEN ranked[place(order[i])] ELSE order[i]]
  BY DEF Reordered, StableSort
<1>2. Ordering(F, DOMAIN some)
  <2> DEFINE key == [i \in DOMAIN some |-> states[some[i]].cached_prefix_tokens]
             Q(p) == key[p[1]] > key[p[2]] \/ (p[1] < p[2] /\ ~(key[p[2]] > key[p[1]]))
             D == DOMAIN some
  <2>1. key \in [D -> Nat]
    <3>1. \A i \in D : some[i] \in ToSet(some) BY DEF ToSet
    <3> QED BY <3>1
  <2>2. F = {p \in D \X D : Q(p)} OBVIOUS
  <2>3. \A i, j \in D : <<i, j>> \in F <=> Q(<<i, j>>)
    <3> HIDE DEF F, Q, D
    <3> QED BY <2>2
  <2>4. \A i, j : Q(<<i, j>>) <=> key[i] > key[j] \/ (i < j /\ ~(key[j] > key[i]))
    <3>1. \A i, j : <<i, j>>[1] = i /\ <<i, j>>[2] = j OBVIOUS
    <3> HIDE DEF key
    <3> QED BY <3>1, Zenon
  <2> HIDE DEF F, key, Q
  <2>5. \A i, j \in D : <<i, j>> \in F <=> key[i] > key[j] \/ (i < j /\ ~(key[j] > key[i]))
    BY <2>3, <2>4
  <2> QED BY <2>1, <2>5, KeyOrdering
<1> HIDE DEF F
<1>3. PICK to \in [DOMAIN some -> DOMAIN some] :
        /\ \A i, j \in DOMAIN some : to[i] = to[j] => i = j
        /\ ranked = [k \in DOMAIN some |-> some[to[k]]]
  <2>1. PICK D : D = DOMAIN some OBVIOUS
  <2>2. \E to \in [DOMAIN some -> DOMAIN some] :
          /\ \A i, j \in DOMAIN some : to[i] = to[j] => i = j
          /\ Sorted(some, F) = [k \in DOMAIN some |-> some[to[k]]]
          /\ \A i, j \in DOMAIN some : i < j => <<to[i], to[j]>> \in F
    BY <1>2, SortedPlaces
  <2> QED BY <2>2
<1> HIDE DEF ranked
<1>4. \A r \in ToSet(some) : place(r) \in DOMAIN some /\ some[place(r)] = r
  BY DEF ToSet
<1> HIDE DEF place
<1>5. \A r \in ToSet(some) : ranked[place(r)] \in ToSet(some)
  BY <1>3, <1>4 DEF ToSet
<1>6. \A q, r \in ToSet(some) : ranked[place(q)] = ranked[place(r)] => q = r
  <2> SUFFICES ASSUME NEW q \in ToSet(some), NEW r \in ToSet(some),
                      ranked[place(q)] = ranked[place(r)]
               PROVE  q = r
    OBVIOUS
  <2>1. some[to[place(q)]] = some[to[place(r)]] BY <1>3, <1>4
  <2>2. to[place(q)] = to[place(r)] BY <1>3, <1>4, <2>1 DEF IsInjective
  <2>3. place(q) = place(r) BY <1>3, <1>4, <2>2
  <2> QED BY <1>4, <2>3
<1>7. n \in Nat /\ DOMAIN order = 1 .. n /\ \A i \in 1 .. n : order[i] \in T
  BY LenProperties
<1>8. \A i \in DOMAIN order : \/ new[i] = order[i] /\ order[i] \notin ToSet(some)
                              \/ /\ order[i] \in ToSet(some) /\ new[i] \in ToSet(some)
                                 /\ new[i] = ranked[place(order[i])]
  BY <1>1, <1>5
<1>9. new \in Seq(T) /\ Len(new) = n /\ DOMAIN new = 1 .. n
  <2>1. \A r \in ToSet(some) : r \in T BY SeqElements
  <2>2. \A i \in 1 .. n : new[i] \in T BY <1>7, <1>8, <2>1
  <2>3. new \in [1 .. n -> T] BY <1>1, <1>7, <2>2
  <2> QED BY <1>7, <2>3, SMT
<1>10. IsInjective(new)
  <2> SUFFICES ASSUME NEW i \in DOMAIN order, NEW j \in DOMAIN order, new[i] = new[j]
               PROVE  i = j
    BY <1>7, <1>9 DEF IsInjective
  <2>1. order[i] = order[j]
    <3>1. CASE order[i] \in ToSet(some) /\ order[j] \in ToSet(some)
      BY <1>6, <1>8, <3>1
    <3>2. CASE ~(order[i] \in ToSet(some) /\ order[j] \in ToSet(some))
      BY <1>8, <3>2
    <3> QED BY <3>1, <3>2
  <2> QED BY <2>1 DEF IsInjective
<1> QED BY <1>8, <1>9, <1>10
(* The cache-aware order: the first few prefills exchange their places.    *)
LEMMA LocalityPlaces ==
  ASSUME NEW T, NEW order \in Seq(T), IsInjective(order), NEW states, NEW window \in Nat,
         \A r \in ToSet(order) : states[r].cached_prefix_tokens \in Nat,
         NEW prefills, prefills = Prefills(order, states),
         NEW new, new = LocalityOrder(order, states, window)
  PROVE  /\ new \in Seq(T) /\ Len(new) = Len(order) /\ IsInjective(new)
         /\ ToSet(new) = ToSet(order)
         /\ \E k \in 0 .. Len(prefills) :
              /\ k <= window
              /\ \A i \in DOMAIN order :
                   \/ new[i] = order[i]
                   \/ {new[i], order[i]} \subseteq ToSet(SubSeq(prefills, 1, k))
<1>1. /\ prefills \in Seq(T) /\ IsInjective(prefills)
      /\ ToSet(prefills) \subseteq ToSet(order)
  <2>1. PICK S : S = {r \in ToSet(order) : states[r].stage = "Prefill"} OBVIOUS
  <2>2. prefills = Filter(order, S) BY <2>1 DEF Prefills
  <2> QED BY <2>2, FilterProperties
<1>2. PICK k \in 0 .. Len(prefills) : k = Least(window, Len(prefills)) /\ k <= window
  <2>1. PICK n \in Nat : n = Len(prefills) BY <1>1, LenProperties
  <2>2. Least(window, n) \in 0 .. n /\ Least(window, n) <= window BY <2>1, SMT DEF Least
  <2> QED BY <2>1, <2>2
<1>3. PICK some : some = SubSeq(prefills, 1, k) OBVIOUS
<1>4. some \in Seq(T) /\ IsInjective(some) /\ ToSet(some) \subseteq ToSet(order)
  BY <1>1, <1>2, <1>3, FirstOnes
<1>5. \A r \in ToSet(some) : states[r].cached_prefix_tokens \in Nat BY <1>4
<1>6. new = Reordered(order, states, some) BY <1>2, <1>3 DEF LocalityOrder
<1>7. /\ new \in Seq(T) /\ Len(new) = Len(order) /\ IsInjective(new)
      /\ \A i \in DOMAIN order : new[i] = order[i] \/ {new[i], order[i]} \subseteq ToSet(some)
  BY <1>4, <1>5, <1>6, ReorderedPlaces
<1>8. ToSet(new) \subseteq ToSet(order)
  <2>1. DOMAIN new = DOMAIN order BY <1>7, LenProperties
  <2>2. \A i \in DOMAIN order : new[i] \in ToSet(order) BY <1>4, <1>7 DEF ToSet
  <2> QED BY <2>1, <2>2 DEF ToSet
<1>9. ToSet(new) = ToSet(order)
  <2>1. /\ IsFiniteSet(ToSet(order)) /\ Cardinality(ToSet(order)) = Len(order)
        /\ Cardinality(ToSet(new)) = Len(new)
    BY <1>7, InjectiveLength
  <2> QED BY <1>7, <1>8, <2>1, FS_Subset
<1> QED BY <1>2, <1>3, <1>7, <1>9

(* A list without duplicates is one way to choose from a set, in an order. *)
LEMMA ChosenInOrder ==
  ASSUME NEW T, NEW s \in Seq(T), IsInjective(s), NEW W, ToSet(s) \subseteq W
  PROVE  s \in SetToAllKPermutations(W)
<1> DEFINE S == ToSet(s)
<1>1. Cardinality(S) = Len(s) BY InjectiveLength
<1>2. DOMAIN s = 1 .. Len(s) /\ s \in [1 .. Len(s) -> S] BY LenProperties DEF ToSet
<1>3. \A i, j \in 1 .. Len(s) : i # j => s[i] # s[j] BY <1>2 DEF IsInjective
<1> HIDE DEF S
<1>4. s \in SetToSeqs(S) BY <1>1, <1>2, <1>3, Zenon DEF SetToSeqs
<1>5. S \in SUBSET W BY DEF S
<1> QED BY <1>4, <1>5 DEF SetToAllKPermutations

(* A batch of a single item.                                               *)
LEMMA SingleCost ==
  ASSUME NEW w, w.begin \in Nat, w.end \in Nat
  PROVE  Cost(<<w>>) = w.end - w.begin
<1> DEFINE p == <<w>>
           t == CHOOSE g : IsTally(g, p, 1)
<1>1. Len(p) = 1 /\ p[1] = w OBVIOUS
<1>2. 1 \in Nat /\ 0 \in 0 .. 1 /\ 1 \in 0 .. 1 /\ 1 # 0 /\ 1 - 1 = 0 BY SMT
<1>3. IsTally(t, p, 1) BY <1>2, TallyExists
<1>4. Cost(p) = t[1] BY <1>1 DEF Cost, Tally, IsTally
<1> HIDE DEF t, p
<1>5. t[0] = 0 /\ t[1] = t[1 - 1] + (p[1].end - p[1].begin)
  BY <1>2, <1>3, Zenon DEF IsTally
<1>6. t[1] = w.end - w.begin
  <2>1. t[1] = 0 + (w.end - w.begin) BY <1>1, <1>2, <1>5
  <2> QED BY <2>1, SMT
<1> QED BY <1>4, <1>6 DEF p
-----------------------------------------------------------------------------
(* A list of numbers in ascending order stays in order when it is filtered.*)
Ascending(s) == \A i, j \in DOMAIN s : i < j => s[i] < s[j]

LEMMA AscendingAppend ==
  ASSUME NEW s \in Seq(Nat), NEW x \in Nat
  PROVE  Ascending(Append(s, x)) <=> Ascending(s) /\ \A y \in ToSet(s) : y < x
<1> DEFINE t == Append(s, x)
           n == Len(s)
<1>1. /\ t[n + 1] = x /\ \A i \in 1 .. n : t[i] = s[i]
      /\ n \in Nat /\ DOMAIN s = 1 .. n /\ DOMAIN t = 1 .. n + 1
  BY SMT
<1> HIDE DEF t, n
<1>2. /\ \A i \in DOMAIN t : i \in DOMAIN s \/ i = n + 1
      /\ \A i \in DOMAIN s : i \in DOMAIN t /\ t[i] = s[i] /\ i < n + 1 /\ ~(n + 1 < i)
      /\ n + 1 \in DOMAIN t /\ ~(n + 1 < n + 1)
  BY <1>1, SMT
<1>3. ASSUME Ascending(t) PROVE Ascending(s) /\ \A y \in ToSet(s) : y < x
  <2>1. Ascending(s) BY <1>2, <1>3 DEF Ascending
  <2>2. \A i \in DOMAIN s : s[i] < x BY <1>1, <1>2, <1>3 DEF Ascending
  <2> QED BY <2>1, <2>2 DEF ToSet
<1>4. ASSUME Ascending(s), \A y \in ToSet(s) : y < x PROVE Ascending(t)
  <2>1. \A i \in DOMAIN s : s[i] < x BY <1>4 DEF ToSet
  <2> SUFFICES ASSUME NEW i \in DOMAIN t, NEW j \in DOMAIN t, i < j PROVE t[i] < t[j]
    BY DEF Ascending
  <2>2. i \in DOMAIN s
    <3>1. i # n + 1
      <4>1. SUFFICES ASSUME i = n + 1 PROVE FALSE OBVIOUS
      <4> QED BY <1>2, <4>1
    <3> QED BY <1>2, <3>1
  <2>3. CASE j \in DOMAIN s BY <1>2, <1>4, <2>2, <2>3 DEF Ascending
  <2>4. CASE j = n + 1 BY <1>1, <1>2, <2>1, <2>2, <2>4
  <2> QED BY <1>2, <2>3, <2>4
<1> QED BY <1>3, <1>4 DEF t

LEMMA FilterAscending ==
  ASSUME NEW S
  PROVE  \A s \in Seq(Nat) : Ascending(s) => Ascending(Filter(s, S))
<1> DEFINE P == {s \in Seq(Nat) : Ascending(s) => Ascending(Filter(s, S))}
<1>1. << >> \in P BY FilterEmpty, EmptySeq
<1>2. ASSUME NEW s \in Seq(Nat), NEW x \in Nat, s \in P PROVE Append(s, x) \in P
  <2> SUFFICES ASSUME Ascending(Append(s, x)) PROVE Ascending(Filter(Append(s, x), S))
    BY AppendProperties
  <2>1. Ascending(s) /\ \A y \in ToSet(s) : y < x BY AscendingAppend
  <2>2. Filter(s, S) \in Seq(Nat) /\ ToSet(Filter(s, S)) \subseteq ToSet(s)
    BY FilterProperties
  <2>3. Ascending(Filter(s, S)) BY <1>2, <2>1
  <2>4. Ascending(Append(Filter(s, S), x)) BY <2>1, <2>2, <2>3, AscendingAppend
  <2> QED BY <2>3, <2>4, FilterAppend
<1> HIDE DEF P
<1>3. \A s \in Seq(Nat) : s \in P BY <1>1, <1>2, SequenceInduction
<1> QED BY <1>3 DEF P
=============================================================================
