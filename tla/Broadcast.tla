----------------------------- MODULE Broadcast -----------------------------
(***************************************************************************)
(* What the multiplexing engine promises to its subscribers: there is one  *)
(* order of publication, and every subscriber is handed the events of that *)
(* order, without gap, repetition or swap, from where it joined.           *)
(*                                                                         *)
(* The order is settled when an event is sent; an event that waits may     *)
(* still be preceded by the ones recovered from the previous run.          *)
(***************************************************************************)
EXTENDS Naturals, Sequences

CONSTANT Subscriber

VARIABLES log,      \* the events sent so far, in the order of publication
          from,     \* how many events of the log preceded each subscriber
          got       \* the events each subscriber was handed

Init ==
  /\ log = <<>>
  /\ from = [s \in Subscriber |-> 0]
  /\ got = [s \in Subscriber |-> <<>>]

\* The log grows.
Send == \E n \in 1 .. Len(log') : log = SubSeq(log', 1, Len(log') - n)
        /\ UNCHANGED <<from, got>>

\* A subscriber joins (or joins again, as another object) at the end of the log.
Join(s) ==
  /\ from' = [from EXCEPT ![s] = Len(log)]
  /\ got' = [got EXCEPT ![s] = <<>>]
  /\ UNCHANGED log

\* A subscriber is handed the next events of the log, some or all of them.
Hand(s) ==
  /\ \E k \in 1 .. Len(log) :
       /\ from[s] + Len(got[s]) < k
       /\ got' = [got EXCEPT ![s] = SubSeq(log, from[s] + 1, k)]
  /\ UNCHANGED <<log, from>>

Next == Send \/ \E s \in Subscriber : Join(s) \/ Hand(s)

Spec == Init /\ [][Next]_<<log, from, got>>
=============================================================================
