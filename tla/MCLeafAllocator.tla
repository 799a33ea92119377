--------------------------- MODULE MCLeafAllocator ---------------------------
(***************************************************************************)
(* LeafAllocator on small instances: two or three server threads and a     *)
(* pool small enough to run out, with and without a compute node.          *)
(***************************************************************************)
EXTENDS LeafAllocator, TLC

Symmetry == Permutations(Threads)

=============================================================================
