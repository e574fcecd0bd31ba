---------------------------- MODULE MCMuxEngine ----------------------------
(* Model-checking instances of MuxEngine. *)
EXTENDS MuxEngine

\* The publishing threads are interchangeable; the muxers are not (the order
\* of subscription matters), neither is the main thread.
PublisherSymmetry == Permutations(Publisher)
=============================================================================
