----------------------------- MODULE MCDowntime -----------------------------
EXTENDS Downtime

Fixed(o, start, end, triggered) ==
  [obj |-> o, start |-> start, end |-> end, fixed |-> TRUE,
   duration |-> end - start, triggered |-> triggered]

Flexible(o, start, end) ==
  [obj |-> o, start |-> start, end |-> end, fixed |-> FALSE,
   duration |-> 2, triggered |-> FALSE]

(* The service "cpu" has an anomaly detection, "trend".                    *)
OneDetector == [o \in Object |-> IF o = "cpu" THEN {"trend"} \cap Object ELSE {}]

(* Overlapping fixed downtimes, one of them triggered, and flexible ones.  *)
Mixed == {Fixed("cpu", 2, 4, FALSE), Fixed("srv", 3, 5, TRUE),
          Flexible("trend", 2, 4), Flexible("srv", 3, 4)}

OneFlexible == {Flexible("cpu", 1, 3)}
=============================================================================
