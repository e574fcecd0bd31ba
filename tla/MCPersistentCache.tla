------------------------- MODULE MCPersistentCache -------------------------
(* Model-checking instances of PersistentCache. *)
EXTENDS PersistentCache
=============================================================================
