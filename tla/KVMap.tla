------------------------------- MODULE KVMap -------------------------------
(***************************************************************************)
(* What the index promises the clients of a memory node: a dictionary.     *)
(* Reads are not actions: they answer with `map` (see Rolex).              *)
(***************************************************************************)
CONSTANTS Keys, Vals, NoVal

VARIABLES map,       \* the value of every key, NoVal where there is none
          reply      \* the last write answered: [op, key, ok]

Answer(op, k, ok) == reply' = [op |-> op, key |-> k, ok |-> ok]

Init ==
  /\ map \in [Keys -> Vals \cup {NoVal}]
  /\ reply = [op |-> "none"]

Insert(k, v) ==
  /\ Answer("insert", k, TRUE)
  /\ map[k] = NoVal
  /\ map' = [map EXCEPT ![k] = v]

\* The key is there, or there is no room for it.
InsertRefused(k) == Answer("insert", k, FALSE) /\ UNCHANGED map

Update(k, v) ==
  /\ Answer("update", k, TRUE)
  /\ map[k] # NoVal
  /\ map' = [map EXCEPT ![k] = v]

UpdateMissing(k) ==
  Answer("update", k, FALSE) /\ map[k] = NoVal /\ UNCHANGED map

Remove(k) ==
  /\ Answer("remove", k, TRUE)
  /\ map[k] # NoVal
  /\ map' = [map EXCEPT ![k] = NoVal]

RemoveMissing(k) ==
  Answer("remove", k, FALSE) /\ map[k] = NoVal /\ UNCHANGED map

Next ==
  \E k \in Keys :
    \/ \E v \in Vals : Insert(k, v) \/ Update(k, v)
    \/ InsertRefused(k) \/ UpdateMissing(k)
    \/ Remove(k) \/ RemoveMissing(k)

Spec == Init /\ [][Next]_<<map, reply>>
=============================================================================
