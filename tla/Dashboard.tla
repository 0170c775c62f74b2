----------------------------- MODULE Dashboard -----------------------------
(***************************************************************************)
(* The dashboard (internal/dashboard): the page and the two JSON bodies it *)
(* makes, at each request, of the records the ledger holds then.           *)
(***************************************************************************)
EXTENDS Rollups, Integers

(***************************************************************************)
(* A row of Summarize, with its counters; its dates are left out.          *)
(***************************************************************************)
Of(records, c) == {i \in 1..Len(records) : records[i].control = c}
Lapses(records, c) == {i \in Of(records, c) : records[i].result # "satisfied"}
Row(records, c) ==
    [control |-> c,
     records |-> Cardinality(Of(records, c)), lapses |-> Cardinality(Lapses(records, c)),
     status |-> IF ControlSatisfied(records, c) THEN "satisfied" ELSE "not-satisfied"]

PostureJSON(records) ==
    LET rows == {Row(records, c) : c \in Controls(records)}
        gaps == Cardinality(NotSatisfied(records))
    IN  [controls |-> rows, total |-> Cardinality(rows), gaps |-> gaps,
         satisfied |-> Cardinality(rows) - gaps]

----------------------------------------------------------------------------
(* The sparkline                                                           *)

(***************************************************************************)
(* A point is drawn in tenths of a unit of the view box, its height in     *)
(* proportion to the most controls ever known; a lone one is drawn twice.  *)
(* Nearest is n / d as %.1f prints it, to the nearest tenth; which way     *)
(* halves go depends on the binary fraction and is left open.              *)
(***************************************************************************)
Nearest(n, d) ==
    CHOOSE q \in (n \div d)..(n \div d) + 1 :
        2 * n - d <= 2 * (q * d) /\ 2 * (q * d) <= 2 * n + d
w == 2400
h == 480
pad == 40
MaxTotal(points) == Max({1} \cup {points[i].total : i \in DOMAIN points})
Vertex(points, i) ==
    [x |-> IF Len(points) = 1 THEN w \div 2
           ELSE pad + Nearest((i - 1) * (w - 2 * pad), Len(points) - 1),
     y |-> h - pad - Nearest(points[i].satisfied * (h - 2 * pad), MaxTotal(points))]
Polyline(points) ==
    LET vertices == [i \in DOMAIN points |-> Vertex(points, i)]
    IN  IF Len(points) = 1 THEN vertices \o vertices ELSE vertices

NoTrend == [polyline |-> <<>>]
buildTrend(points) ==
    IF points = <<>> THEN NoTrend
    ELSE [polyline |-> Polyline(points), satisfied |-> Last(points).satisfied,
          total |-> Last(points).total]

Page(records) ==
    [posture |-> PostureJSON(records), trend |-> buildTrend(TrendOf(records))]
=============================================================================
