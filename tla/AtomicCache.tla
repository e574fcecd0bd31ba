---------------------------- MODULE AtomicCache ----------------------------
(***************************************************************************)
(* What a persistent cache promises: its content is replaced as a whole,   *)
(* by all that was staged, or not at all, whenever the process stops.      *)
(***************************************************************************)
EXTENDS Naturals, Sequences

CONSTANT Event

VARIABLES content,   \* what the next reader of the cache finds
          staged     \* what a commit would make of it

Init == content = <<>> /\ staged = <<>>

Stage(e) == staged' = Append(staged, e) /\ UNCHANGED content

Commit == content' = staged /\ staged' = <<>>

\* A crash loses the end of what was staged.
Truncate ==
  /\ \E k \in 0 .. Len(staged) : staged' = SubSeq(staged, 1, k)
  /\ UNCHANGED content

Next == (\E e \in Event : Stage(e)) \/ Commit \/ Truncate

Spec == Init /\ [][Next]_<<content, staged>>
=============================================================================
