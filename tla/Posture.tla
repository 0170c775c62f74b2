------------------------------ MODULE Posture ------------------------------
(***************************************************************************)
(* The rollup of internal/posture/posture.go: what a list of evidence      *)
(* records, in the order the ledger holds them, says about each control    *)
(* now.  The counters, the ordering and the rendering of the report are    *)
(* left out.                                                               *)
(***************************************************************************)
EXTENDS Naturals, Sequences, SequencesExt

Results == {"satisfied", "not-satisfied"}

(***************************************************************************)
(* Times are naturals; 0 stands for a timestamp that says nothing: the     *)
(* zero time and the Unix epoch.                                           *)
(***************************************************************************)
Unusable == 0
UnusableTime(t) == t = Unusable

Unseen == [status |-> "unseen", at |-> Unusable]

(***************************************************************************)
(* One record of a subject against what is known of it: the later          *)
(* observation wins, on a tie the record appended later, and where one of  *)
(* the two has no usable time the order of the ledger decides.             *)
(***************************************************************************)
TieLost(st, r) == UnusableTime(st.at) \/ UnusableTime(r.at) \/ r.at > st.at   \* mutant: strictly later
Supersedes(st, r) == UnusableTime(st.at) \/ UnusableTime(r.at) \/ r.at >= st.at

Observe(st, r) ==
    IF Supersedes(st, r) THEN [status |-> r.result, at |-> r.at] ELSE st

(***************************************************************************)
(* What is known of a subject under a control after the records one by one.*)
(***************************************************************************)
SubjectStatus(records, c, s) ==
    LET known[n \in 0..Len(records)] ==
            IF n = 0 THEN Unseen
            ELSE IF records[n].control = c /\ records[n].subject = s
                 THEN Observe(known[n - 1], records[n])
                 ELSE known[n - 1]
    IN  known[Len(records)].status

SubjectsOf(records, c) == {r.subject : r \in {q \in ToSet(records) : q.control = c}}

(***************************************************************************)
(* A control is satisfied when every subject under it is, and one of the   *)
(* gaps otherwise.                                                         *)
(***************************************************************************)
ControlSatisfied(records, c) ==
    \A s \in SubjectsOf(records, c) : SubjectStatus(records, c, s) = "satisfied"

NotSatisfied(records) ==
    {c \in {r.control : r \in ToSet(records)} : ~ControlSatisfied(records, c)}
=============================================================================
