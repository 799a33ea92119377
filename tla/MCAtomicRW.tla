------------------------------ MODULE MCAtomicRW ------------------------------
(***************************************************************************)
(* AtomicRW with a payload of two words and sequence numbers of three      *)
(* values, so that they wrap around while a reader copies.                 *)
(***************************************************************************)
EXTENDS AtomicRW

\* upwards (OrderedRWOp), downwards, and as a memcpy that loads both ends of the
\* object before what is between them
MCOrders == {<<0, 1, 2, 3>>, <<3, 2, 1, 0>>, <<3, 0, 1, 2>>}
=============================================================================
