------------------------------ MODULE Filters ------------------------------
(***************************************************************************)
(* Dropping entries of a list, as a loop over it or a DELETE ... WHERE     *)
(* does; SequencesExt and Sequences have it only with an operator for a    *)
(* parameter, of which nothing can be proved.                              *)
(***************************************************************************)
EXTENDS Naturals, Sequences

(* The elements of q that are in S, in their order. *)
Keep(q, S) ==
    LET kept[i \in 0 .. Len(q)] ==
          IF i = 0 THEN <<>>
          ELSE IF q[i] \in S THEN Append(kept[i - 1], q[i]) ELSE kept[i - 1]
    IN  kept[Len(q)]
=============================================================================
