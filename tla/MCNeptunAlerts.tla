--------------------------- MODULE MCNeptunAlerts ---------------------------
(* Instances of NeptunAlerts: an oblast of the dictionary with one raion of   *)
(* its own, another oblast, and an area NEPTUN knows and the dictionary does not. *)
EXTENDS NeptunAlerts

CONSTANTS oblast, raion, other, foreign

MCArea == {oblast, raion, other, foreign}
MCTracked == {oblast, raion, other}
MCParentOf == [a \in MCArea |-> IF a = raion THEN oblast ELSE Nothing]

Alert(level, since) == [level |-> level, since |-> since]
Alerted(r, o, f) ==
  [a \in MCArea |-> CASE a = oblast -> Quiet [] a = raion -> r [] a = other -> o [] a = foreign -> f]

\* From the first set to the second the raion's alert is restarted at its level, that of the
\* foreign area, without a start, ends, and one of the other oblast begins late.
First == Alerted(Alert(2, 1), Quiet, Alert(1, 0))
Second == Alerted(Alert(2, 2), Alert(1, 1), Quiet)

MCAlertSets == {First, Second}
MCFirstSets == {First}
=============================================================================
