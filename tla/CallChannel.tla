---------------------------- MODULE CallChannel ----------------------------
(***************************************************************************)
(* What the RPC layer promises a coroutine: each call is run by the server *)
(* at most once, and returns after it was run. It does not promise that a  *)
(* call is run, or that it returns.                                        *)
(***************************************************************************)
EXTENDS Naturals

CONSTANT Callers

VARIABLES status,    \* of every caller: "idle", "called" or "run"
          ran        \* how many of its calls the server has run

Init == status = [p \in Callers |-> "idle"] /\ ran = [p \in Callers |-> 0]

Call(p) ==
  /\ status[p] = "idle"
  /\ status' = [status EXCEPT ![p] = "called"]
  /\ UNCHANGED ran

Run(p) ==
  /\ status[p] = "called"
  /\ status' = [status EXCEPT ![p] = "run"]
  /\ ran' = [ran EXCEPT ![p] = @ + 1]

Return(p) ==
  /\ status[p] = "run"
  /\ status' = [status EXCEPT ![p] = "idle"]
  /\ UNCHANGED ran

Next == \E p \in Callers : Call(p) \/ Run(p) \/ Return(p)

Spec == Init /\ [][Next]_<<status, ran>>
=============================================================================
