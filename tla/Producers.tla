----------------------------- MODULE Producers -----------------------------
(***************************************************************************)
(* The evidence producers a release gate runs (internal/evidence,          *)
(* internal/eval, registered in internal/collect/producer.go): what each   *)
(* makes of one parsed artifact.  Times are naturals, 0 where there is     *)
(* none, as in module Posture.                                             *)
(***************************************************************************)
EXTENDS Naturals, Sequences, SequencesExt, FiniteSets

CONSTANTS
    PersonOf,    \* the person behind a login, whatever its case and spaces
    Nobody,      \* the login of a review or a change that has none
    NoCommit,    \* the merge commit of a change that has none
    AnyVersion   \* the version of a ban that names none

Result(good) == IF good THEN "satisfied" ELSE "not-satisfied"
RecordFor(control, subject, good, at) ==
    [control |-> control, subject |-> subject, result |-> Result(good), at |-> at]

----------------------------------------------------------------------------
(* change-control                                                          *)

(***************************************************************************)
(* Extract: the reviewers whose latest decisive review is an approval; a   *)
(* comment, or a review without a state, decides nothing.                  *)
(***************************************************************************)
Undecided == {"COMMENTED", "none"}
EverApproved(reviews, login) ==                    \* mutant: withdrawals ignored
    \E i \in 1..Len(reviews) : reviews[i] = [login |-> login, state |-> "APPROVED"]
Approves(reviews, login) ==
    LET latest[n \in 0..Len(reviews)] ==
            IF n = 0 THEN "none"
            ELSE IF reviews[n].login = login /\ reviews[n].state \notin Undecided
                 THEN reviews[n].state
                 ELSE latest[n - 1]
    IN  latest[Len(reviews)] = "APPROVED"

Approvers(change) ==
    {login \in {v.login : v \in ToSet(change.reviews)} \ {Nobody} :
        Approves(change.reviews, login)}

(***************************************************************************)
(* Issues is empty: merged, attributed, approved by someone else, bound to *)
(* a commit and a time.                                                    *)
(***************************************************************************)
Authorized(change) ==
    /\ change.merged
    /\ change.author # Nobody
    /\ \E a \in Approvers(change) : PersonOf[a] # PersonOf[change.author]
    /\ change.commit # NoCommit
    /\ change.at # 0

FromChange(change, control) ==
    <<RecordFor(control, <<"commit", change.commit>>, Authorized(change), change.at)>>

----------------------------------------------------------------------------
(* drift, eval-gate, provenance, sbom                                      *)

FromArgoApplications(apps, control) ==
    [i \in 1..Len(apps) |->
        RecordFor(control, <<"app", apps[i].name>>, apps[i].sync = "Synced", apps[i].at)]

(***************************************************************************)
(* Evaluate: every required suite was run, and the failures, counted by    *)
(* the entries of the list, are within the gate's budget.                  *)
(***************************************************************************)
Failures(run) == {i \in DOMAIN run.results : ~run.results[i].passed}
Promote(run, gate) ==
    /\ gate.required \subseteq {r.suite : r \in ToSet(run.results)}
    /\ Cardinality(Failures(run)) <= gate.maxFailures
FromEvalGate(run, gate, control) ==
    <<RecordFor(control, <<"agent", run.agent, run.version>>, Promote(run, gate), run.at)>>

FromProvenance(stmt, builder, control) ==
    LET trusted == stmt.slsa /\ stmt.builder = builder
        at == IF stmt.finished # 0 THEN stmt.finished ELSE stmt.started
    IN  [i \in 1..Len(stmt.subjects) |->
            RecordFor(control, <<"image", stmt.subjects[i]>>, trusted, at)]

IsBanned(banned, component) ==
    \E b \in banned : /\ b.name = component.name
                      /\ b.version \in {AnyVersion, component.version}

InventoryEmpty(bom) == bom.components = <<>>
ComponentOf(bom, n) == <<"component", bom.components[n].name, bom.components[n].version>>

(***************************************************************************)
(* One record for the image, or one for every banned component.            *)
(***************************************************************************)
FromSBOM(bom, banned, control) ==
    LET violations[n \in 0..Len(bom.components)] ==
            IF n = 0 THEN <<>>
            ELSE IF IsBanned(banned, bom.components[n])
                 THEN Append(violations[n - 1],
                             RecordFor(control, ComponentOf(bom, n), FALSE, bom.at))
                 ELSE violations[n - 1]
        found == violations[Len(bom.components)]
    IN  IF InventoryEmpty(bom) THEN <<RecordFor(control, <<"image", bom.image>>, FALSE, bom.at)>>
        ELSE IF found = <<>> THEN <<RecordFor(control, <<"image", bom.image>>, TRUE, bom.at)>>
        ELSE found

----------------------------------------------------------------------------
(***************************************************************************)
(* What the parser of a source's file yields, as far as the producers look *)
(* at it.                                                                  *)
(***************************************************************************)
SourceTypes == {"change-control", "drift", "eval-gate", "provenance", "sbom"}
Logins == DOMAIN PersonOf \cup {Nobody}
Parsed(type, a) ==
    CASE type = "change-control" ->
            /\ a.merged \in BOOLEAN /\ a.author \in Logins
            /\ a.at \in Nat /\ a.reviews \in Seq([login : Logins, state : STRING])
      [] type = "drift" -> Len(a) \in Nat /\ \A i \in 1..Len(a) : a[i].at \in Nat
      [] type = "eval-gate" -> a.at \in Nat
      [] type = "provenance" ->
            Len(a.subjects) \in Nat /\ {a.started, a.finished} \subseteq Nat
      [] type = "sbom" -> Len(a.components) \in Nat /\ a.at \in Nat

----------------------------------------------------------------------------
(***************************************************************************)
(* Run: the producer registered for a source's type, on a parsed artifact. *)
(***************************************************************************)
Produce(source, artifact) ==
    CASE source.type = "change-control" -> FromChange(artifact, source.control)
      [] source.type = "drift" -> FromArgoApplications(artifact, source.control)
      [] source.type = "eval-gate" ->
            FromEvalGate(artifact, source.gate, source.control)
      [] source.type = "provenance" ->
            FromProvenance(artifact, source.builder, source.control)
      [] source.type = "sbom" -> FromSBOM(artifact, source.banned, source.control)
=============================================================================
