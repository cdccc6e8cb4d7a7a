--------------------------- MODULE MCAggregation ---------------------------
(* Instances of Aggregation: an oblast with two cities and two channels; each *)
(* scenario is what three claims say.                                         *)
EXTENDS Aggregation, TLC

CONSTANTS oblast, city, town, c1, c2, c3

MCAncestors == (oblast :> {}) @@ (city :> {oblast}) @@ (town :> {oblast})

Says(source, message, place, at) ==
  [kind |-> "threat_report", mode |-> "live", source |-> source, message |-> message, place |-> place,
   assumed |-> FALSE, type |-> "uav", scope |-> "current", quantity |-> None, at |-> at,
   date |-> None, text |-> None]

Claims(f, g, h) == (c1 :> f) @@ (c2 :> g) @@ (c3 :> h)

\* Two channels on one city, and the first one's clear claim for the oblast.
Closing == Claims(Says("A", 1, city, 0), [Says("B", 2, city, 1) EXCEPT !.quantity = 2],
                  [Says("A", 3, oblast, 1) EXCEPT !.kind = "clear_claim"])

\* One channel reports, clears and reports again; what it clears is nested in the oblast.
Reopening == Claims(Says("A", 1, city, 0), [Says("A", 2, city, 1) EXCEPT !.kind = "clear_claim"],
                    Says("A", 3, city, 2))

\* Only the oblast is common.
Vague == Claims(Says("A", 1, city, 0), Says("B", 2, oblast, 0), Says("B", 3, town, 1))

\* Three posts with one text, too far apart for the first and the last; the place of one is assumed.
Copies == Claims([Says("A", 1, city, 0) EXCEPT !.text = 1],
                 [Says("B", 2, city, 1) EXCEPT !.text = 1, !.assumed = TRUE],
                 [Says("A", 3, oblast, 2) EXCEPT !.text = 1])

\* The aftermath of two days, told in one post and by another channel without a date.
Past(f, d) == [f EXCEPT !.kind = "aftermath", !.scope = "past", !.date = d]
Aftermath == Claims(Past(Says("A", 1, city, 0), 1), Past(Says("A", 1, city, 0), 2), Past(Says("B", 2, city, 1), None))

\* The same report, live and imported.
Imported == Claims(Says("A", 1, city, 0), [Says("A", 1, city, 0) EXCEPT !.mode = "archive"],
                   [Says("A", 2, city, 1) EXCEPT !.type = "unknown"])

MCScenarios == {Closing, Reopening, Vague, Copies, Aftermath, Imported}

\* The grouping errors are zero exactly when the incidents are the labelled groups; a merge
\* of everything makes no false split, separate incidents make no false merge; and a claim
\* that was dropped counts as one in an incident of its own.
Groupings == [Claim -> 1..3]
ASSUME ErrorsCountPairs ==
  \A p, e \in Groupings :
    LET errors == GroupingErrors(p, e)
        dropped == [c \in Claim \ {c1} |-> p[c]]
        alone == [p EXCEPT ![c1] = 4]
    IN  /\ (errors.falseMerge.numerator = 0 /\ errors.falseSplit.numerator = 0)
             = \A c, d \in Claim : (p[c] = p[d]) = (e[c] = e[d])
        /\ (\A c, d \in Claim : p[c] = p[d]) => errors.falseSplit.numerator = 0
        /\ Cardinality({p[c] : c \in Claim}) = 3 => errors.falseMerge.denominator = 0
        /\ GroupingErrors(dropped, e) = GroupingErrors(alone, e)
        /\ errors.falseMerge = GroupingErrors(e, p).falseSplit
=============================================================================
