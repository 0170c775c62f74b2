------------------------------ MODULE Rollups ------------------------------
(***************************************************************************)
(* The other views of a ledger beside Summarize: the coverage over time    *)
(* (TrendOf, internal/posture/trend.go) and the citations of another       *)
(* framework (Apply, internal/crosswalk/crosswalk.go).                     *)
(***************************************************************************)
EXTENDS Posture, FiniteSets, FiniteSetsExt

Controls(records) == {r.control : r \in ToSet(records)}

----------------------------------------------------------------------------
(* The trend                                                               *)

(***************************************************************************)
(* A stable sort by time: on a tie the ledger's order decides.             *)
(***************************************************************************)
TiesReversed(records, i, j) ==                     \* mutant: the sort is unstable
    records[i].at < records[j].at \/ (records[i].at = records[j].at /\ i > j)
Earlier(records, i, j) ==
    records[i].at < records[j].at \/ (records[i].at = records[j].at /\ i < j)
Position(records, i) ==
    1 + Cardinality({j \in 1..Len(records) : Earlier(records, j, i)})
Chronological(records) ==
    [n \in 1..Len(records) |->
        records[CHOOSE i \in 1..Len(records) : Position(records, i) = n]]

(***************************************************************************)
(* The latest result per control (not per subject), one point per moment.  *)
(***************************************************************************)
NoHistory == [latest |-> [c \in {} |-> "satisfied"], points |-> <<>>]
Replay(trend, r) ==
    LET latest == [c \in DOMAIN trend.latest \cup {r.control} |->
                      IF c = r.control THEN r.result ELSE trend.latest[c]]
        point == [at |-> r.at, total |-> Cardinality(DOMAIN latest),
                  satisfied |-> Cardinality({c \in DOMAIN latest :
                                                latest[c] = "satisfied"})]
        before == IF trend.points # <<>> /\ Last(trend.points).at = r.at
                  THEN Front(trend.points) ELSE trend.points
    IN  [latest |-> latest, points |-> Append(before, point)]

TrendOf(records) ==
    LET ordered == Chronological(records)
        trend[n \in 0..Len(records)] ==
            IF n = 0 THEN NoHistory ELSE Replay(trend[n - 1], ordered[n])
    IN  trend[Len(records)].points

----------------------------------------------------------------------------
(* The crosswalk                                                           *)

LastObserved(records, c) ==
    Max({0} \cup {r.at : r \in {q \in ToSet(records) : q.control = c}})

AnchorsUnseen(records, mapping) ==                 \* mutant: no evidence, no objection
    mapping.satisfiedBy # {}
Evidenced(records, mapping) ==
    mapping.satisfiedBy # {} /\ mapping.satisfiedBy \subseteq Controls(records)

(***************************************************************************)
(* A citation is satisfied if it has anchors and each has evidence and is  *)
(* satisfied; it is as old as the latest observation of an anchor.         *)
(***************************************************************************)
Derived(records, mapping) ==
    [control |-> mapping.control, subject |-> <<"crosswalk", mapping.control>>,
     result |-> IF /\ Evidenced(records, mapping)
                   /\ \A c \in mapping.satisfiedBy : ControlSatisfied(records, c)
                THEN "satisfied" ELSE "not-satisfied",
     at |-> Max({0} \cup {LastObserved(records, c) : c \in mapping.satisfiedBy})]

Apply(records, crosswalk) ==
    [i \in 1..Len(crosswalk) |-> Derived(records, crosswalk[i])]
=============================================================================
