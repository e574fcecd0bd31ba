----------------------------- MODULE MCSplitter -----------------------------
(* Model-checking instances of Splitter. *)
EXTENDS Splitter

\* Chunks of one unit, and one that no part has room for.
Sizes == [c \in Chunk |-> IF c = 3 THEN 3 ELSE 1]
=============================================================================
