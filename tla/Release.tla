------------------------------ MODULE Release ------------------------------
(***************************************************************************)
(* The release gate (internal/release and runReleaseGate): the sources of  *)
(* a manifest are read and judged, the records are appended to a ledger,   *)
(* the chain is verified, and the release is cleared or blocked.  Between  *)
(* releases the ledger may be rolled up under the citations of another     *)
(* framework (runCrosswalk), the derived records going to a ledger of      *)
(* their own.                                                              *)
(*                                                                         *)
(* The ledgers are the append-only logs that EvidenceLog promises.  A      *)
(* release starts with a fresh ledger or goes on with that of the last     *)
(* one; a crosswalk is given the ledger of its derived records apart from  *)
(* that, the last one or a new one.                                        *)
(***************************************************************************)
EXTENDS Producers, Dashboard

CONSTANTS
    Manifests,   \* the manifests that parse, each a sequence of sources
    Artifacts(_, _), \* what the file of a source of a given type may hold in a
                 \* given build
    Unreadable,  \* a file that is missing or does not parse
    Crosswalk,   \* the mappings, in order
    MaxBuilds,   \* bound: releases
    MaxFaults    \* bound: failures of an Append or of Verify

Sources == UNION {ToSet(m) : m \in Manifests}

ASSUME ReleaseAssumption ==
    /\ MaxBuilds \in Nat /\ MaxFaults \in Nat
    /\ Manifests \subseteq Seq(Sources) /\ Crosswalk \in Seq(ToSet(Crosswalk))
    /\ \A source \in Sources : source.type \in SourceTypes
    /\ \A type \in SourceTypes, b \in 1..MaxBuilds :
          \A a \in Artifacts(type, b) \ {Unreadable} : Parsed(type, a)

VARIABLES
    step,        \* what the running command is at
    manifest,    \* the manifest of this release
    withLedger,  \* whether a ledger was named
    read,        \* the artifacts that were read
    records,     \* the records they gave
    appended,    \* how many of the running command's records are in its ledger
    derived,     \* the records of a running crosswalk
    ledger, target, \* the ledger of the release and that of the crosswalk
    exit,        \* the outcome of the last release
    current,     \* history: the crosswalk was run to its end after the last
                 \* release
    paired,      \* history: target holds only what was derived from this ledger
    fresh,       \* history: this release started with an empty ledger
    builds, faults

vars == <<step, manifest, withLedger, read, records, appended, derived,
          ledger, target, exit, current, paired, fresh, builds, faults>>
release == <<manifest, withLedger, read, records, exit, fresh, builds>>

Init ==
    /\ step = "idle" /\ manifest = <<>> /\ withLedger = FALSE
    /\ read = <<>> /\ records = <<>> /\ appended = 0 /\ derived = <<>>
    /\ ledger = <<>> /\ target = <<>> /\ exit = "none"
    /\ current = FALSE /\ paired = TRUE /\ fresh = TRUE /\ builds = 0 /\ faults = 0

Fault == faults < MaxFaults /\ faults' = faults + 1

----------------------------------------------------------------------------
(* The gate                                                                *)

(***************************************************************************)
(* LoadManifest refuses a manifest without sources.                        *)
(***************************************************************************)
Begin ==
    /\ step = "idle" /\ builds < MaxBuilds
    /\ \E m \in Manifests, l, new \in BOOLEAN :
          /\ manifest' = m /\ withLedger' = l
          /\ new => l
          /\ fresh' = (new \/ ledger = <<>>)
          /\ ledger' = IF new THEN <<>> ELSE ledger
          /\ paired' = IF new THEN target = <<>> ELSE paired
          /\ step' = IF m = <<>> THEN "idle" ELSE "read"
          /\ exit' = IF m = <<>> THEN "error" ELSE "none"
    /\ read' = <<>> /\ records' = <<>> /\ appended' = 0
    /\ current' = FALSE /\ builds' = builds + 1
    /\ UNCHANGED <<derived, target, faults>>

(***************************************************************************)
(* Evidence: a file that cannot be used, or that gives no record, fails    *)
(* the release.                                                            *)
(***************************************************************************)
Vacuous(recs) == FALSE                             \* mutant: no evidence accepted
NoEvidence(recs) == recs = <<>>

ReadSource ==
    /\ step = "read"
    /\ LET source == manifest[Len(read) + 1]
           last == Len(read) + 1 = Len(manifest)
       IN  \E a \in Artifacts(source.type, builds) :
              /\ read' = Append(read, a)
              /\ IF a = Unreadable \/ NoEvidence(Produce(source, a))
                 THEN /\ exit' = "error" /\ step' = "idle"
                      /\ records' = <<>>
                 ELSE /\ records' = records \o Produce(source, a)
                      /\ step' = IF ~last THEN "read"
                                 ELSE IF withLedger THEN "append" ELSE "judge"
                      /\ UNCHANGED exit
    /\ UNCHANGED <<manifest, withLedger, appended, derived, ledger, target,
                   current, paired, fresh, builds, faults>>

AppendRecord ==
    /\ step = "append"
    /\ ledger' = Append(ledger, records[appended + 1])
    /\ appended' = appended + 1
    /\ step' = IF appended' = Len(records) THEN "verify" ELSE "append"
    /\ UNCHANGED <<release, derived, target, current, paired, faults>>

AppendError ==
    /\ step = "append" /\ Fault
    /\ exit' = "error" /\ step' = "idle"
    /\ UNCHANGED <<manifest, withLedger, read, records, appended, derived, ledger,
                   target, current, paired, fresh, builds>>

VerifyPasses ==
    /\ step = "verify"
    /\ step' = "judge"
    /\ UNCHANGED <<release, appended, derived, ledger, target, current, paired,
                   faults>>

VerifyFails ==
    /\ step = "verify" /\ Fault
    /\ exit' = "blocked" /\ step' = "idle"
    /\ UNCHANGED <<manifest, withLedger, read, records, appended, derived, ledger,
                   target, current, paired, fresh, builds>>

LastOnly(recs) == {Last(recs)} \ {r \in ToSet(recs) : r.result = "satisfied"}
                                                   \* mutant: the last record decides
Blocking(recs) == {r \in ToSet(recs) : r.result # "satisfied"}

Judge ==
    /\ step = "judge"
    /\ exit' = IF Blocking(records) = {} THEN "cleared" ELSE "blocked"
    /\ step' = "idle"
    /\ UNCHANGED <<manifest, withLedger, read, records, appended, derived, ledger,
                   target, current, paired, fresh, builds, faults>>

----------------------------------------------------------------------------
(* The crosswalk                                                           *)

StartCrosswalk ==
    /\ step = "idle" /\ ~current
    /\ derived' = Apply(ledger, Crosswalk)
    /\ appended' = 0
    /\ step' = IF derived' = <<>> THEN "idle" ELSE "derive"
    /\ current' = (derived' = <<>>)
    /\ \/ UNCHANGED <<target, paired>>
       \/ target' = <<>> /\ paired' = TRUE
    /\ UNCHANGED <<release, ledger, faults>>

AppendDerived ==
    /\ step = "derive"
    /\ target' = Append(target, derived[appended + 1])
    /\ appended' = appended + 1
    /\ step' = IF appended' = Len(derived) THEN "idle" ELSE "derive"
    /\ current' = (appended' = Len(derived))
    /\ UNCHANGED <<release, derived, ledger, paired, faults>>

DeriveError ==
    /\ step = "derive" /\ Fault
    /\ step' = "idle"
    /\ UNCHANGED <<release, appended, derived, ledger, target, current, paired>>

Next ==
    \/ Begin \/ ReadSource \/ AppendRecord \/ AppendError
    \/ VerifyPasses \/ VerifyFails \/ Judge
    \/ StartCrosswalk \/ AppendDerived \/ DeriveError

Spec == Init /\ [][Next]_vars

----------------------------------------------------------------------------
(* Properties                                                              *)

(***************************************************************************)
(* What a release artifact has to be, by the documentation of each         *)
(* producer.                                                               *)
(***************************************************************************)
SaysLast(reviews, login, state) ==
    \E i \in 1..Len(reviews) :
        /\ reviews[i] = [login |-> login, state |-> state]
        /\ \A j \in i + 1..Len(reviews) :
              reviews[j].login = login => reviews[j].state \in Undecided
Shippable(source, a) ==
    /\ a # Unreadable
    /\ CASE source.type = "change-control" ->
              /\ a.merged /\ a.commit # NoCommit /\ a.at # 0 /\ a.author # Nobody
              /\ \E login \in DOMAIN PersonOf :
                    /\ PersonOf[login] # PersonOf[a.author]
                    /\ SaysLast(a.reviews, login, "APPROVED")
         [] source.type = "drift" ->
              a # <<>> /\ \A i \in 1..Len(a) : a[i].sync = "Synced"
         [] source.type = "eval-gate" ->
              /\ \A s \in source.gate.required :
                    \E i \in DOMAIN a.results : a.results[i].suite = s
              /\ Cardinality({i \in DOMAIN a.results : ~a.results[i].passed})
                    <= source.gate.maxFailures
         [] source.type = "provenance" ->
              a.subjects # <<>> /\ a.slsa /\ a.builder = source.builder
         [] source.type = "sbom" ->
              /\ a.components # <<>>
              /\ \A i \in 1..Len(a.components), b \in source.banned :
                    b.name = a.components[i].name =>
                        b.version \notin {AnyVersion, a.components[i].version}

(***************************************************************************)
(* A release is cleared only if there is evidence, good evidence, from     *)
(* every source of its manifest: never by vacuity, never because a later   *)
(* record hides an earlier one (release.go:53-57, 81-85, 157-159).         *)
(***************************************************************************)
ClearedSound ==
    exit = "cleared" =>
        /\ manifest # <<>> /\ Len(read) = Len(manifest)
        /\ \A i \in 1..Len(read) : Shippable(manifest[i], read[i])

(***************************************************************************)
(* What a cleared release leaves behind says so: its ledger ends with its  *)
(* records, and a fresh one has evidence for every control of the manifest *)
(* and no gap.                                                             *)
(***************************************************************************)
ClearedRecorded ==
    exit = "cleared" /\ withLedger =>
        /\ IsSuffix(records, ledger)
        /\ \A i \in 1..Len(manifest) : manifest[i].control \in Controls(ledger)
        /\ fresh => NotSatisfied(ledger) = {}

(***************************************************************************)
(* The dashboard's page says one thing, whatever the order of the          *)
(* observations.  A gap has a lapse, and a control without a lapse, or     *)
(* with nothing else, is shown as what it is; the trend, which is drawn    *)
(* from another rollup ("how did we get here", trend.go:20-23), stays in   *)
(* its frame and ends with the number of controls of the headline.  As     *)
(* long as no control has several subjects and no time is missing, it also *)
(* ends with the number of satisfied ones, at the top if that is all, and  *)
(* below it unless the gaps are too few to show (1 of 800).                *)
(***************************************************************************)
Comparable(recs) ==
    /\ \A i \in 1..Len(recs) : recs[i].at # Unusable
    /\ \A c \in Controls(recs) : Cardinality(SubjectsOf(recs, c)) = 1
PageAgrees ==
    LET page == Page(ledger)
        top == page.posture
        line == page.trend.polyline
    IN  /\ \A row \in top.controls :
              /\ row.status = "not-satisfied" => row.lapses > 0
              /\ row.lapses = row.records => row.status = "not-satisfied"
        /\ page.trend = NoTrend <=> ledger = <<>>
        /\ \A i \in DOMAIN line : line[i].x \in pad..(w - pad) /\ line[i].y \in pad..(h - pad)
        /\ ledger # <<>> => page.trend.total = top.total
        /\ ledger # <<>> /\ Comparable(ledger) =>
              /\ page.trend.satisfied = top.satisfied
              /\ top.gaps = 0 => Last(line).y = pad
              /\ Last(line).y = pad => 2 * (h - 2 * pad) * top.gaps <= top.total

(***************************************************************************)
(* After a crosswalk the posture of the derived ledger is that of the      *)
(* anchors: no earlier or half-appended rollup of the same source outlives *)
(* it, and a citation without evidence is a gap ("can never disagree",     *)
(* crosswalk.go:41-42).  That is, for a citation with one mapping: two     *)
(* mappings of one citation share a subject, and the one observed later    *)
(* speaks for both.  And for a derived ledger that no other source was     *)
(* rolled up into: the records of a younger source outlive those of an     *)
(* older one, whichever was rolled up last (posture.go:86-90).             *)
(***************************************************************************)
MappedOnce(i) ==
    \A j \in 1..Len(Crosswalk) : Crosswalk[j].control = Crosswalk[i].control => j = i
CitationCurrent ==
    current /\ paired =>
        \A i \in 1..Len(Crosswalk) :
            LET m == Crosswalk[i]
            IN  MappedOnce(i) =>
                    (ControlSatisfied(target, m.control) <=>
                        /\ m.satisfiedBy # {}
                        /\ \A c \in m.satisfiedBy :
                              c \in Controls(ledger) \ NotSatisfied(ledger))

(***************************************************************************)
(* Types.                                                                  *)
(***************************************************************************)
IsRecord(r) == r.result \in Results /\ r.at \in Nat
ReleaseTypeOK ==
    /\ step \in {"idle", "read", "append", "verify", "judge", "derive"}
    /\ manifest \in Manifests \cup {<<>>}
    /\ {withLedger, current, paired, fresh} \subseteq BOOLEAN
    /\ Len(read) <= Len(manifest)
    /\ step \in {"append", "verify", "judge"} => records # <<>>
    /\ \A r \in ToSet(records) \cup ToSet(derived) \cup ToSet(ledger) \cup ToSet(target) :
          IsRecord(r)
    /\ appended \in 0..Len(IF step = "derive" THEN derived ELSE records \o derived)
    /\ exit \in {"none", "cleared", "blocked", "error"}
    /\ builds \in 0..MaxBuilds /\ faults \in 0..MaxFaults
=============================================================================
