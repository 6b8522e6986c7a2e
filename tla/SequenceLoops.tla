---------------------------- MODULE SequenceLoops ----------------------------
(***************************************************************************)
(* What a loop over a vector computes.  Both are recursive functions and   *)
(* not folds, so that one can reason about them (SequenceLemmas).          *)
(***************************************************************************)
EXTENDS Integers, Sequences

(* The elements that are in a set, in their order: a loop that acts on, or *)
(* keeps, some of the elements.  SelectSeq, for a test given as a set.     *)
Filter(seq, S) ==
  LET kept[i \in 0 .. Len(seq)] ==
        IF i = 0 THEN << >>
        ELSE IF seq[i] \in S THEN Append(kept[i - 1], seq[i])
        ELSE kept[i - 1]
  IN  kept[Len(seq)]

(* The tokens of a batch, item by item.                                    *)
Tally(work) ==
  LET sum[i \in 0 .. Len(work)] ==
        IF i = 0 THEN 0 ELSE sum[i - 1] + (work[i].end - work[i].begin)
  IN  sum[Len(work)]
=============================================================================
