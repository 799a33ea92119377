---------------------------- MODULE LeafDispenser ----------------------------
(***************************************************************************)
(* What LeafAllocator::fetch_new_leaf promises: leaf numbers are drawn one *)
(* at a time, in order, each by one actor.                                 *)
(***************************************************************************)
EXTENDS Naturals

CONSTANT Actors       \* whoever draws leaf numbers

VARIABLES next,       \* the first leaf number not drawn yet
          drawn       \* the leaf numbers each actor has drawn

Init ==
  /\ next = 0
  /\ drawn = [a \in Actors |-> {}]

Draw(a) ==
  /\ drawn' = [drawn EXCEPT ![a] = @ \cup {next}]
  /\ next' = next + 1

Next == \E a \in Actors : Draw(a)

Spec == Init /\ [][Next]_<<next, drawn>>
=============================================================================
