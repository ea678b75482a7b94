----------------------------- MODULE PlayQueue -----------------------------
(***************************************************************************)
(* What the manual queue promises: a sequence of tracks and its durable    *)
(* copy.  Entries are appended, removed and moved one at a time, taken     *)
(* from the head at most once, and forgotten when their track leaves the   *)
(* library.  Every change is in the copy before it is visible; only the    *)
(* taking of an entry may fail to reach it, until the copy is next         *)
(* written.  A restart brings back the copy.                               *)
(***************************************************************************)
EXTENDS Naturals, Sequences, SequencesExt, Filters

CONSTANT Ids

VARIABLES q, saved

vars == <<q, saved>>

Init == q = <<>> /\ saved = <<>>

Add       == (\E id \in Ids : q' = Append(q, id)) /\ saved' = q'
Cancel    == (\E i \in 1 .. Len(q) : q' = RemoveAt(q, i)) /\ saved' = q'
Rearrange == (\E i, j \in 1 .. Len(q) : q' = InsertAt(RemoveAt(q, i), j, q[i])) /\ saved' = q'
Take      == q # <<>> /\ q' = Tail(q) /\ saved' \in {q', saved}
Resave    == saved' = q /\ UNCHANGED q
Forget    == \E id \in Ids : /\ q' = Keep(q, Ids \ {id})
                            /\ saved' = Keep(saved, Ids \ {id})
Restart   == q' = saved /\ UNCHANGED saved

Next == Add \/ Cancel \/ Take \/ Resave \/ Forget \/ Rearrange \/ Restart

Spec == Init /\ [][Next]_vars
=============================================================================
