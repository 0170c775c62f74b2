----------------------------- MODULE Authoring -----------------------------
(***************************************************************************)
(* Control authoring: the pipeline of commands that checks the control     *)
(* tree and the policy library and composes the deployable policies        *)
(* (validate, assess --strict, policies, generate, in the order of         *)
(* .github/workflows/ci.yml), while the tree is edited, into a directory   *)
(* that is fresh or holds the result of an earlier run; and the collector, *)
(* which reads from the library which controls a policy is evidence for.   *)
(*                                                                         *)
(* Each command is a process that loads the documents anew; within one     *)
(* command they do not change.  The files are written one at a time, in an *)
(* order that is left open, and a write may fail or be killed half-way.    *)
(***************************************************************************)
EXTENDS Bundle

CONSTANTS
    Bundles,     \* the states the control tree may be in
    Checks,      \* the policies there may be files of
    Libraries,   \* the states the policy library may be in
    Torn,        \* the content of a file whose write was cut
    MaxEdits,    \* bound: edits
    MaxFaults    \* bound: writes that fail

ASSUME AuthoringAssumption ==
    /\ NoCheck \notin Checks /\ NoFile # Torn
    /\ \A l \in Libraries : l = [k \in Checks |-> l[k]]
    /\ \A l \in Libraries, k \in Checks : l[k] # Torn
    /\ \A b \in Bundles : AllChecks(b) \subseteq Checks
    /\ \A b \in Bundles : \A comp \in b.components :
          /\ DOMAIN comp.rules \subseteq Nat
          /\ \A g \in DOMAIN comp.rules :
                comp.rules[g].ids \in Seq(ToSet(comp.rules[g].ids))
          /\ \A req \in comp.requirements : NoRule \notin req.rules
    /\ MaxEdits \in Nat /\ MaxFaults \in Nat

VARIABLES
    bundle, library, \* the documents on disk
    out,             \* the files under the output directory
    job,             \* the running pipeline
    mapping,         \* what the collector knows of the library
    deployed,        \* history: the documents of the run that completed out
    edits, faults

vars == <<bundle, library, out, job, mapping, deployed, edits, faults>>

----------------------------------------------------------------------------
Empty == [k \in Checks |-> NoFile]

(***************************************************************************)
(* gated: the checks come first; fresh: the directory was new; clean: no   *)
(* edit since the start.                                                   *)
(***************************************************************************)
NoJob == [step |-> "idle", gated |-> FALSE, fresh |-> FALSE, clean |-> TRUE,
          source |-> <<>>, composed |-> [k \in {} |-> NoFile], todo |-> {}]
NotDeployed == [complete |-> FALSE]

Documents == {l[k] : l \in Libraries, k \in Checks} \ {NoFile}
Job == [step : {"idle", "validate", "assess", "policies", "compose", "write", "done",
                "failed"},
        gated : BOOLEAN, fresh : BOOLEAN, clean : BOOLEAN,
        source : {<<>>} \cup (Bundles \X Libraries),
        composed : UNION {[K -> Documents] : K \in SUBSET Checks}, todo : SUBSET Checks]
Deployment == {NotDeployed} \cup
    [complete : {TRUE}, bundle : Bundles, library : Libraries,
     gated : BOOLEAN, fresh : BOOLEAN, clean : BOOLEAN]

Init ==
    /\ bundle \in Bundles /\ library \in Libraries
    /\ out = Empty /\ job = NoJob
    /\ mapping = ControlsByPolicy(library)
    /\ deployed = NotDeployed
    /\ edits = 0 /\ faults = 0

Running == job.step \notin {"idle", "done", "failed"}

Edit ==
    /\ edits < MaxEdits /\ edits' = edits + 1
    /\ \/ bundle' \in Bundles /\ UNCHANGED library
       \/ library' \in Libraries /\ UNCHANGED bundle
    /\ job' = [job EXCEPT !.clean = FALSE]
    /\ UNCHANGED <<out, mapping, deployed, faults>>

(***************************************************************************)
(* LoadConfig of a collector that is started now.                          *)
(***************************************************************************)
StartCollector ==
    /\ mapping' = ControlsByPolicy(library)
    /\ UNCHANGED <<bundle, library, out, job, deployed, edits, faults>>

----------------------------------------------------------------------------
(* The pipeline                                                            *)

Begin ==
    /\ ~Running
    /\ \E gated, fresh \in BOOLEAN :
          /\ job' = [NoJob EXCEPT !.step = IF gated THEN "validate" ELSE "compose",
                                  !.gated = gated, !.fresh = fresh \/ out = Empty]
          /\ out' = IF fresh THEN Empty ELSE out
    /\ deployed' = NotDeployed
    /\ UNCHANGED <<bundle, library, mapping, edits, faults>>

Check(step, findings, next) ==
    /\ job.step = step
    /\ job' = [job EXCEPT !.step = IF Loads(bundle) /\ findings = {}
                                        THEN next ELSE "failed"]
    /\ UNCHANGED <<bundle, library, out, mapping, deployed, edits, faults>>

RunValidate == Check("validate", Findings(bundle), "assess")
LenientAssess == Check("assess", {}, "policies")   \* mutant: without --strict
RunAssess == Check("assess", Unsatisfied(bundle), "policies")
RunPolicies == Check("policies", Verify(bundle, library), "compose")

(***************************************************************************)
(* Compose: a check that is not a plain file name or has no file fails the *)
(* command before anything is written.                                     *)
(***************************************************************************)
MissingSkipped(b, l) == {k \in ChecksToCompose(b) : k \notin Plain}
                                                   \* mutant: missing files skipped
Refused(b, l) == {k \in ChecksToCompose(b) : k \notin Plain \/ l[k] = NoFile}

Completed(j) ==
    IF j.todo # {} THEN NotDeployed
    ELSE [complete |-> TRUE, bundle |-> j.source[1], library |-> j.source[2],
          gated |-> j.gated, fresh |-> j.fresh, clean |-> j.clean]

Compose ==
    /\ job.step = "compose"
    /\ LET K == ChecksToCompose(bundle)
       IN  IF ~Loads(bundle) \/ Refused(bundle, library) # {}
           THEN job' = [job EXCEPT !.step = "failed"]
           ELSE job' = [job EXCEPT !.source = <<bundle, library>>,
                                   !.composed = [k \in K |-> library[k]], !.todo = K,
                                   !.step = IF K = {} THEN "done" ELSE "write"]
    /\ deployed' = IF job'.step = "done" THEN Completed(job') ELSE NotDeployed
    /\ UNCHANGED <<bundle, library, out, mapping, edits, faults>>

KeepOld(k) == IF out[k] = NoFile THEN job.composed[k] ELSE out[k]  \* mutant: not overwritten
Written(k) == job.composed[k]

WriteFile ==
    /\ job.step = "write"
    /\ \E k \in job.todo :
          /\ out' = [out EXCEPT ![k] = Written(k)]
          /\ job' = [job EXCEPT !.todo = @ \ {k},
                                !.step = IF job.todo = {k} THEN "done" ELSE "write"]
    /\ deployed' = Completed(job')
    /\ UNCHANGED <<bundle, library, mapping, edits, faults>>

WriteFails ==
    /\ job.step = "write"
    /\ faults < MaxFaults /\ faults' = faults + 1
    /\ \E k \in job.todo : out' \in {out, [out EXCEPT ![k] = Torn]}
    /\ job' = [job EXCEPT !.step = "failed"]
    /\ UNCHANGED <<bundle, library, mapping, deployed, edits>>

Next ==
    \/ Edit \/ StartCollector \/ Begin
    \/ RunValidate \/ RunAssess \/ RunPolicies
    \/ Compose \/ WriteFile \/ WriteFails

Spec == Init /\ [][Next]_vars

----------------------------------------------------------------------------
(* Properties                                                              *)
(***************************************************************************)
(* Read off the rule sets, without the resolution of one rule in two: the  *)
(* policies that the bundle asks of Kyverno for a control, and whether     *)
(* another component answers for it.                                       *)
(***************************************************************************)
Asked(comp, c) ==
    {CheckOf(comp, g) : g \in {h \in DOMAIN comp.rules :
        \E req \in comp.requirements : req.control = c /\ RuleOf(comp, h) \in req.rules}}
    \ {NoCheck}
Enforcing(b, c) ==
    UNION {Asked(comp, c) : comp \in {d \in b.components : d.title = "kyverno"}}
ElsewhereEnforced(b, c) ==
    \E comp \in b.components : comp.title # "kyverno" /\ Asked(comp, c) # {}
Unambiguous(b) == \A comp \in b.components : DuplicateRuleIDs(comp) = {}
Present == {k \in Checks : out[k] # NoFile}

(***************************************************************************)
(* The two judges of a bundle agree: of a bundle without findings Assess   *)
(* leaves no selected control out, and the controls it finds unsatisfied   *)
(* are those whose requirements name no rule; a control that validate      *)
(* reports as uncovered is never satisfied (validate.go:147, assess.go:1). *)
(***************************************************************************)
JudgesAgree ==
    /\ Findings(bundle) = {} =>
          /\ Assessed(bundle) = Selected(bundle)
          /\ \A c \in Unsatisfied(bundle), ref \in References(bundle) :
                ref[2].control = c => ref[2].rules = {}
    /\ \A c \in Assessed(bundle) :
          [rule |-> "uncovered-control", control |-> c] \in Findings(bundle)
              => c \in Unsatisfied(bundle)

(***************************************************************************)
(* After the checks, composition can fail only of a check that is not a    *)
(* plain file name, which no command before it rejects (generate.go:57).   *)
(***************************************************************************)
ComposeReady ==
    job.step = "compose" /\ job.gated /\ job.clean =>
        Refused(bundle, library) \cap Plain = {}

(***************************************************************************)
(* A completed run leaves exactly the policies the selected controls ask   *)
(* for, each as the library has it, whatever an earlier run, complete,     *)
(* failed or killed, left there; other policies remain only in a directory *)
(* that was used before (generate.go:57-99).                               *)
(***************************************************************************)
DirectoryExact ==
    deployed.complete =>
        LET b == deployed.bundle
            needed == UNION {Enforcing(b, c) : c \in Selected(b)}
        IN  /\ deployed.fresh => Present \subseteq needed
            /\ Unambiguous(b) => needed \subseteq Present
            /\ \A k \in needed \cap Present :
                  deployed.fresh \/ Unambiguous(b) => out[k] = deployed.library[k]

(***************************************************************************)
(* Traceability, end to end: after a run of the whole pipeline on one tree *)
(* every selected control is answered for by another component, or by a    *)
(* deployed policy whose results a collector started on that library turns *)
(* into evidence for this control (policies.go:84-87).                     *)
(***************************************************************************)
SelectedTraced ==
    deployed.complete /\ deployed.gated /\ deployed.clean =>
        \A c \in Selected(deployed.bundle) :
            \/ ElsewhereEnforced(deployed.bundle, c)
            \/ \E k \in Enforcing(deployed.bundle, c) :
                  /\ out[k] \notin {NoFile, Torn}
                  /\ mapping = ControlsByPolicy(deployed.library) => c \in mapping[k]

(***************************************************************************)
(* Types; a file is torn only by a write that failed.                      *)
(***************************************************************************)
AuthoringTypeOK ==
    /\ bundle \in Bundles /\ library \in Libraries
    /\ out \in [Checks -> Documents \cup {NoFile, Torn}]
    /\ job \in Job /\ job.todo \subseteq DOMAIN job.composed
    /\ deployed \in Deployment
    /\ faults = 0 => \A k \in Checks : out[k] # Torn
    /\ DOMAIN mapping = Plain \cap Checks
    /\ edits \in 0..MaxEdits /\ faults \in 0..MaxFaults
=============================================================================
