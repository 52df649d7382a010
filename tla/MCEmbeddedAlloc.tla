--------------------------- MODULE MCEmbeddedAlloc --------------------------
(* EmbeddedAlloc on buffers of 20 bytes.                                     *)
EXTENDS EmbeddedAlloc

\* A layout that fits into a block of the pool and one that does not.
SmallAndLarge == {[size |-> 3, align |-> 1], [size |-> 12, align |-> 8]}
Buffers == [bump |-> 20, stack |-> 20]
=============================================================================
