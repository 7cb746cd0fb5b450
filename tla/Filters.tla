------------------------------- MODULE Filters -------------------------------
(***************************************************************************)
(* What erase-remove loops, std::stable_partition and vector::erase leave   *)
(* of a list: the elements that are kept, in their old order.  It is what   *)
(* SelectSeq computes, written as a recursive function over a set so that   *)
(* it can be proved about (QueueLemmas).                                    *)
(***************************************************************************)
EXTENDS Integers, Sequences

(* The set of the elements of a list. *)
Elements(q) == {q[i] : i \in 1 .. Len(q)}

(* The elements of q that are in K. *)
Kept(q, K) ==
    LET kept[i \in 0 .. Len(q)] ==
            IF i = 0 THEN << >>
            ELSE IF q[i] \in K THEN Append(kept[i - 1], q[i]) ELSE kept[i - 1]
    IN  kept[Len(q)]
=============================================================================
