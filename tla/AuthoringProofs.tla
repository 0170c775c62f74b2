-------------------------- MODULE AuthoringProofs --------------------------
(***************************************************************************)
(* Control authoring for any control trees, libraries and faults.  First   *)
(* the operators of Bundle, each restated by its members, and what two of  *)
(* them say together of one tree; then an inductive invariant of the       *)
(* pipeline; last the properties of Authoring as its consequences.         *)
(***************************************************************************)
EXTENDS Authoring, WellFoundedInduction, TLAPS

(***************************************************************************)
(* The policies of a tree: one for each requirement and each group of its  *)
(* component that decides a rule the requirement names.                    *)
(***************************************************************************)
Resolves(b, comp, req, g) ==
    /\ comp \in b.components /\ req \in comp.requirements /\ g \in DOMAIN comp.rules
    /\ Decides(comp, g) /\ RuleOf(comp, g) \in req.rules /\ RuleOf(comp, g) # NoRule
PolicyOf(comp, req, g) ==
    [control |-> req.control, component |-> comp.title, policy |-> CheckOf(comp, g)]

LEMMA PolicyFrom ==
    ASSUME NEW b, NEW cp \in ControlPolicies(b)
    PROVE  \E comp, req, g : Resolves(b, comp, req, g) /\ cp = PolicyOf(comp, req, g)
  <1>1. PICK ref \in References(b) : \E rule \in RuleChecks(ref[1]) :
            /\ rule.rule \in ref[2].rules \cap Rules(ref[1])
            /\ cp = [control |-> ref[2].control, component |-> ref[1].title,
                     policy |-> rule.check]
    BY DEF ControlPolicies
  <1>2. PICK comp \in b.components : \E req \in comp.requirements : ref = <<comp, req>>
    BY <1>1 DEF References
  <1>2a. PICK req \in comp.requirements : ref = <<comp, req>>
    BY <1>2
  <1>3. PICK g \in DOMAIN comp.rules :
            /\ Decides(comp, g) /\ RuleOf(comp, g) \in req.rules \cap Rules(comp)
            /\ cp = PolicyOf(comp, req, g)
    BY <1>1, <1>2a DEF RuleChecks, PolicyOf
  <1>4. RuleOf(comp, g) # NoRule
    BY <1>3 DEF Rules
  <1>5. QED
    BY <1>2a, <1>3, <1>4 DEF Resolves

LEMMA PolicyTo ==
    ASSUME NEW b, NEW comp, NEW req, NEW g, Resolves(b, comp, req, g)
    PROVE  PolicyOf(comp, req, g) \in ControlPolicies(b)
  <1> DEFINE ref == <<comp, req>>
             rule == [rule |-> RuleOf(comp, g), check |-> CheckOf(comp, g)]
  <1>1. ref \in References(b)
    BY DEF Resolves, References
  <1>2. rule \in RuleChecks(comp) /\ rule.rule \in req.rules \cap Rules(comp)
    BY DEF Resolves, RuleChecks, Rules
  <1>3. PolicyOf(comp, req, g) = [control |-> ref[2].control, component |-> ref[1].title,
                                  policy |-> rule.check]
    BY DEF PolicyOf
  <1>4. rule \in {q \in RuleChecks(ref[1]) : q.rule \in ref[2].rules \cap Rules(ref[1])}
    BY <1>2
  <1>5. QED
    BY <1>1, <1>3, <1>4 DEF ControlPolicies

(***************************************************************************)
(* Every rule a component declares is decided by one of its groups: the    *)
(* least of those that declare it.                                         *)
(***************************************************************************)
Less == {ss \in Nat \X Nat : ss[1] < ss[2]}

LEMMA LeastNumber ==
    ASSUME NEW G, G \subseteq Nat, G # {}
    PROVE  \E g \in G : \A h \in G : g <= h
  <1>1. IsWellFoundedOn(Less, Nat)
    BY NatLessThanWellFounded DEF OpToRel, Less
  <1>2. PICK g \in G : \A h \in G : <<h, g>> \notin Less
    BY <1>1, WFMin, Zenon
  <1>3. ASSUME NEW h \in G PROVE g <= h
    <2>1. g \in Nat /\ h \in Nat
      OBVIOUS
    <2>2. ~(h < g)
      BY <1>2, <2>1 DEF Less
    <2>3. QED
      BY <2>1, <2>2
  <1>4. QED
    BY <1>3

LEMMA RuleDecided ==
    ASSUME NEW comp, DOMAIN comp.rules \subseteq Nat, NEW r \in Rules(comp)
    PROVE  \E g \in DOMAIN comp.rules : RuleOf(comp, g) = r /\ Decides(comp, g)
  <1> DEFINE G == {g \in DOMAIN comp.rules : RuleOf(comp, g) = r}
  <1>1. G \subseteq Nat /\ G # {}
    BY DEF Rules
  <1>2. PICK g \in G : \A h \in G : g <= h
    <2> HIDE DEF G
    <2>1. QED
      BY <1>1, LeastNumber
  <1>3. QED
    BY <1>2 DEF Decides

(***************************************************************************)
(* The rule of a rule set is one of those it declares.                     *)
(***************************************************************************)
LEMMA DeclaredLast ==
    ASSUME NEW comp, NEW g \in DOMAIN comp.rules, RuleOf(comp, g) # NoRule,
           comp.rules[g].ids \in Seq(ToSet(comp.rules[g].ids))
    PROVE  /\ RuleOf(comp, g) \in ToSet(comp.rules[g].ids)
           /\ \E k : <<g, k>> \in Declared(comp, RuleOf(comp, g))
  <1> DEFINE ids == comp.rules[g].ids
             k == Len(ids)
  <1>1. ids # <<>> /\ RuleOf(comp, g) = ids[k]
    BY DEF RuleOf, Last
  <1>2. k \in DOMAIN ids
    <2>1. PICK S : ids \in Seq(S)
      OBVIOUS
    <2>2. QED
      BY <1>1, <2>1
  <1>3. ids[k] \in ToSet(ids)
    BY <1>2 DEF ToSet
  <1>4. <<g, k>> \in Declared(comp, ids[k])
    BY <1>2 DEF Declared
  <1>5. QED
    BY <1>1, <1>3, <1>4

----------------------------------------------------------------------------
(* What the commands say together of one tree                              *)

(***************************************************************************)
(* A tree without findings selects controls of its catalogs only.          *)
(***************************************************************************)
LEMMA SelectedKnown ==
    ASSUME NEW b, Findings(b) = {}
    PROVE  Selected(b) \subseteq AllControls(b)
  <1> SUFFICES ASSUME NEW c \in Selected(b) PROVE c \in AllControls(b)
    OBVIOUS
  <1>1. PICK imp \in b.imports : c \in imp.include
    BY DEF Selected
  <1>2. ProfileFindings(b) = {}
    BY DEF Findings
  <1>3. imp.href \in CatalogIds(b)
    BY <1>2 DEF ProfileFindings
  <1> DEFINE F == {[rule |-> "unresolved-control", control |-> d] :
                      d \in {e \in imp.include : ~InCatalog(b, imp.href, e)}}
  <1>4. InCatalog(b, imp.href, c)
    <2>1. F \subseteq ProfileFindings(b)
      BY <1>3 DEF ProfileFindings
    <2>2. ~InCatalog(b, imp.href, c) =>
              [rule |-> "unresolved-control", control |-> c] \in F
      BY <1>1
    <2>3. QED
      BY <1>2, <2>1, <2>2
  <1>5. QED
    BY <1>4 DEF InCatalog, AllControls, ToSet

(***************************************************************************)
(* In a tree without findings a requirement that names a rule has a policy *)
(* with a check behind it.                                                 *)
(***************************************************************************)
LEMMA NamedMeansCovered ==
    ASSUME NEW b, Findings(b) = {},
           \A comp \in b.components : DOMAIN comp.rules \subseteq Nat,
           NEW ref \in References(b), ref[2].rules # {}
    PROVE  Coverage(b, ref[2].control) # {}
  <1>1. PICK r \in ref[2].rules : TRUE
    OBVIOUS
  <1>2. PICK comp \in b.components : \E req \in comp.requirements : ref = <<comp, req>>
    BY DEF References
  <1>3. PICK req \in comp.requirements : ref = <<comp, req>>
    BY <1>2
  <1>4. RuleFindings(b) = {}
    BY DEF Findings
  <1>5. r \in Rules(comp)
    <2>1. UnresolvedRules(b) = {}
      BY <1>4 DEF RuleFindings
    <2>2. ref[2].rules \subseteq Rules(ref[1])
      BY <2>1 DEF UnresolvedRules
    <2>3. QED
      BY <1>1, <1>3, <2>2
  <1>6. PICK g \in DOMAIN comp.rules : RuleOf(comp, g) = r /\ Decides(comp, g)
    BY <1>5, RuleDecided
  <1>7. Resolves(b, comp, req, g)
    BY <1>1, <1>3, <1>5, <1>6 DEF Resolves, Rules
  <1> DEFINE cp == PolicyOf(comp, req, g)
  <1>8. cp \in ControlPolicies(b)
    BY <1>7, PolicyTo
  <1>9. cp.policy # NoCheck
    BY <1>4, <1>8 DEF RuleFindings
  <1>10. cp.control = ref[2].control
    BY <1>3 DEF PolicyOf
  <1>11. QED
    BY <1>8, <1>9, <1>10 DEF Coverage

(***************************************************************************)
(* A control that validate reports as uncovered has no policy.             *)
(***************************************************************************)
LEMMA UncoveredMeansNone ==
    ASSUME NEW b, NEW c, [rule |-> "uncovered-control", control |-> c] \in Findings(b)
    PROVE  Coverage(b, c) = {}
  <1> DEFINE f == [rule |-> "uncovered-control", control |-> c]
  <1>1. f \notin ProfileFindings(b)
    <2>1. \A e \in ProfileFindings(b) : e.rule \in {"unresolved-catalog", "unresolved-control"}
      BY DEF ProfileFindings
    <2>2. QED
      BY <2>1
  <1>2. f \notin MappingFindings(b) /\ f \notin DuplicateFindings(b)
    <2>1. \A e \in MappingFindings(b) : e.rule = "unmapped-control"
      BY DEF MappingFindings
    <2>2. \A e \in DuplicateFindings(b) : e.rule = "duplicate-control-id"
      BY DEF DuplicateFindings
    <2>3. QED
      BY <2>1, <2>2
  <1>3. f \notin RuleFindings(b)
    BY DEF RuleFindings
  <1>4. f \notin CrosswalkFindings(b)
    BY DEF CrosswalkFindings
  <1>5. f \in CoverageFindings(b)
    BY <1>1, <1>2, <1>3, <1>4 DEF Findings
  <1>6. c \notin Mapped(b)
    BY <1>5 DEF CoverageFindings
  <1>7. ASSUME NEW cp \in ControlPolicies(b) PROVE cp.control # c
    <2>1. PICK comp, req, g : Resolves(b, comp, req, g) /\ cp = PolicyOf(comp, req, g)
      BY PolicyFrom
    <2>2. <<comp, req>> \in References(b)
      BY <2>1 DEF Resolves, References
    <2>3. req.control \in Mapped(b)
      BY <2>2 DEF Mapped
    <2>4. cp.control = req.control
      BY <2>1 DEF PolicyOf
    <2>5. QED
      BY <1>6, <2>3, <2>4
  <1>8. QED
    BY <1>7 DEF Coverage

(***************************************************************************)
(* A policy with a check is asked for by the component it names.           *)
(***************************************************************************)
LEMMA PolicyAsked ==
    ASSUME NEW b, NEW cp \in ControlPolicies(b), cp.policy # NoCheck
    PROVE  \E comp \in b.components :
              comp.title = cp.component /\ cp.policy \in Asked(comp, cp.control)
  <1>1. PICK comp, req, g : Resolves(b, comp, req, g) /\ cp = PolicyOf(comp, req, g)
    BY PolicyFrom
  <1>2. CheckOf(comp, g) = cp.policy /\ req.control = cp.control
        /\ comp.title = cp.component
    BY <1>1 DEF PolicyOf
  <1>3. cp.policy \in Asked(comp, cp.control)
    BY <1>1, <1>2 DEF Asked, Resolves
  <1>4. QED
    BY <1>1, <1>2, <1>3 DEF Resolves

Needed(b) == UNION {Enforcing(b, c) : c \in Selected(b)}

(***************************************************************************)
(* What is composed is needed; and what is needed is composed, in a tree   *)
(* whose rules are declared once.                                          *)
(***************************************************************************)
LEMMA KyvernoEnforcing ==
    ASSUME NEW b, NEW cp \in KyvernoPolicies(b)
    PROVE  cp.policy \in Enforcing(b, cp.control)
  <1>1. PICK comp \in b.components :
            comp.title = cp.component /\ cp.policy \in Asked(comp, cp.control)
    BY PolicyAsked DEF KyvernoPolicies
  <1>2. comp \in {d \in b.components : d.title = "kyverno"}
    BY <1>1 DEF KyvernoPolicies
  <1>3. QED
    BY <1>1, <1>2 DEF Enforcing

LEMMA ComposedNeeded ==
    ASSUME NEW b PROVE ChecksToCompose(b) \subseteq Needed(b)
  BY KyvernoEnforcing DEF ChecksToCompose, Needed

LEMMA NeededComposed ==
    ASSUME NEW b, Unambiguous(b),
           \A comp \in b.components : \A req \in comp.requirements : NoRule \notin req.rules,
           \A comp \in b.components :
              /\ DOMAIN comp.rules \subseteq Nat
              /\ \A g \in DOMAIN comp.rules :
                    comp.rules[g].ids \in Seq(ToSet(comp.rules[g].ids))
    PROVE  Needed(b) \subseteq ChecksToCompose(b)
  <1> SUFFICES ASSUME NEW k \in Needed(b) PROVE k \in ChecksToCompose(b)
    OBVIOUS
  <1>1. PICK c \in Selected(b) : k \in Enforcing(b, c)
    BY DEF Needed
  <1>2. PICK comp \in b.components : comp.title = "kyverno" /\ k \in Asked(comp, c)
    BY <1>1 DEF Enforcing
  <1>3. PICK g \in DOMAIN comp.rules :
            /\ CheckOf(comp, g) = k
            /\ \E req \in comp.requirements :
                  req.control = c /\ RuleOf(comp, g) \in req.rules
    BY <1>2 DEF Asked
  <1>4. PICK req \in comp.requirements : req.control = c /\ RuleOf(comp, g) \in req.rules
    BY <1>3
  <1>5. k # NoCheck
    BY <1>2 DEF Asked
  <1>6. RuleOf(comp, g) \in Rules(comp)
    BY <1>4 DEF Rules
  <1>7. DuplicateRuleIDs(comp) = {}
    BY DEF Unambiguous
  <1>8. \A h \in DOMAIN comp.rules : RuleOf(comp, h) = RuleOf(comp, g) => h = g
    <2>1. ASSUME NEW h \in DOMAIN comp.rules, RuleOf(comp, h) = RuleOf(comp, g)
          PROVE  \E n : <<h, n>> \in Declared(comp, RuleOf(comp, g))
      BY <1>6, <2>1, DeclaredLast DEF Rules
    <2>2. \A p, q \in Declared(comp, RuleOf(comp, g)) : p = q
      <3>1. RuleOf(comp, g) \in UNION {ToSet(comp.rules[j].ids) : j \in DOMAIN comp.rules}
        BY <1>6, DeclaredLast DEF Rules
      <3>2. QED
        BY <1>7, <3>1 DEF DuplicateRuleIDs
    <2>3. QED
      BY <2>1, <2>2
  <1>9. Decides(comp, g)
    <2>1. \A h \in DOMAIN comp.rules : h \in Nat
      OBVIOUS
    <2>2. QED
      BY <1>8, <2>1 DEF Decides
  <1>10. Resolves(b, comp, req, g)
    BY <1>4, <1>6, <1>9 DEF Resolves, Rules
  <1> DEFINE cp == PolicyOf(comp, req, g)
  <1>11. cp \in ControlPolicies(b)
    BY <1>10, PolicyTo
  <1>12. cp.component = "kyverno" /\ cp.policy = k /\ cp.control = c
    BY <1>2, <1>3, <1>4 DEF PolicyOf
  <1>13. cp \in KyvernoPolicies(b)
    BY <1>5, <1>11, <1>12 DEF KyvernoPolicies
  <1>14. QED
    BY <1>12, <1>13 DEF ChecksToCompose

(***************************************************************************)
(* Where both checks pass, every selected control is answered for.         *)
(***************************************************************************)
LEMMA AnsweredFor ==
    ASSUME NEW b, Findings(b) = {}, Unsatisfied(b) = {}, NEW c \in Selected(b)
    PROVE  \/ ElsewhereEnforced(b, c)
           \/ \E cp \in KyvernoPolicies(b) : cp.control = c
  <1>1. c \in Assessed(b)
    BY SelectedKnown DEF Assessed
  <1>2. Coverage(b, c) # {}
    BY <1>1 DEF Unsatisfied
  <1>3. PICK cp \in ControlPolicies(b) : cp.control = c /\ cp.policy # NoCheck
    BY <1>2 DEF Coverage
  <1>4. CASE cp.component = "kyverno"
    BY <1>3, <1>4 DEF KyvernoPolicies
  <1>5. CASE cp.component # "kyverno"
    <2>1. PICK comp \in b.components :
              comp.title = cp.component /\ cp.policy \in Asked(comp, c)
      BY <1>3, PolicyAsked
    <2>2. QED
      BY <1>5, <2>1 DEF ElsewhereEnforced
  <1>6. QED
    BY <1>4, <1>5

----------------------------------------------------------------------------
(* Types                                                                   *)

(***************************************************************************)
(* A library holds a document or nothing for each check.                   *)
(***************************************************************************)
LEMMA LibraryType ==
    ASSUME NEW l \in Libraries
    PROVE  /\ DOMAIN l = Checks
           /\ \A k \in Checks : l[k] \in Documents \cup {NoFile}
           /\ \A k \in Checks : l[k] # Torn
  <1>1. l = [k \in Checks |-> l[k]]
    BY AuthoringAssumption
  <1>2. QED
    BY <1>1, AuthoringAssumption DEF Documents

LEMMA DocumentsWhole == Torn \notin Documents /\ NoFile \notin Documents
  BY AuthoringAssumption DEF Documents

LEMMA MappingType ==
    ASSUME NEW l \in Libraries
    PROVE  DOMAIN ControlsByPolicy(l) = Plain \cap Checks
  BY LibraryType DEF ControlsByPolicy

(***************************************************************************)
(* What Compose reads are documents.                                       *)
(***************************************************************************)
LEMMA ChecksType ==
    ASSUME NEW b \in Bundles PROVE ChecksToCompose(b) \in SUBSET Checks
  <1>1. AllChecks(b) \subseteq Checks
    BY AuthoringAssumption
  <1>2. QED
    BY <1>1 DEF AllChecks, ChecksToCompose

LEMMA ComposedType ==
    ASSUME NEW b \in Bundles, NEW l \in Libraries, Refused(b, l) = {}
    PROVE  /\ [k \in ChecksToCompose(b) |-> l[k]] \in [ChecksToCompose(b) -> Documents]
           /\ \A k \in ChecksToCompose(b) : k \in Plain /\ l[k] # NoFile
  <1>1. \A k \in ChecksToCompose(b) : k \in Plain /\ l[k] # NoFile
    BY DEF Refused
  <1>2. \A k \in ChecksToCompose(b) : l[k] \in Documents
    BY <1>1, ChecksType, LibraryType
  <1>3. QED
    BY <1>1, <1>2

(***************************************************************************)
(* A completed run is described by its job.                                *)
(***************************************************************************)
LEMMA CompletedType ==
    ASSUME NEW j \in Job, j.todo = {} => j.source \in Bundles \X Libraries
    PROVE  Completed(j) \in Deployment
  <1>1. CASE j.todo = {}
    <2>1. j.source[1] \in Bundles /\ j.source[2] \in Libraries
      BY <1>1
    <2>2. j.gated \in BOOLEAN /\ j.fresh \in BOOLEAN /\ j.clean \in BOOLEAN
      BY DEF Job
    <2>3. QED
      BY <1>1, <2>1, <2>2 DEF Completed, Deployment
  <1>2. CASE j.todo # {}
    BY <1>2 DEF Completed, Deployment
  <1>3. QED
    BY <1>1, <1>2

(***************************************************************************)
(* The inductive invariant.  A job that was gated and saw no edit has      *)
(* passed the checks before its step, on the documents that are there      *)
(* still; a job that writes has written the rest of what it composed from  *)
(* its documents, and a fresh directory holds nothing else; and what a     *)
(* completed run deployed stays until the next one begins.                 *)
(***************************************************************************)
Vetted(b, l) == Findings(b) = {} /\ Unsatisfied(b) = {} /\ Verify(b, l) = {}
Composable(b, l) == \A k \in ChecksToCompose(b) : k \in Plain /\ l[k] # NoFile
Holds(K, l, fresh) ==
    /\ \A k \in K : out[k] = l[k]
    /\ fresh => \A k \in Checks \ K : out[k] = NoFile

GateInv ==
    job.gated /\ job.clean =>
        /\ job.step \in {"assess", "policies", "compose"} => Findings(bundle) = {}
        /\ job.step \in {"policies", "compose"} => Unsatisfied(bundle) = {}
        /\ job.step = "compose" => Verify(bundle, library) = {}
FreshInv ==
    job.fresh /\ job.step \in {"validate", "assess", "policies", "compose"} => out = Empty
WriteInv ==
    job.step = "write" =>
        LET b == job.source[1]
            l == job.source[2]
            K == ChecksToCompose(b)
        IN  /\ job.source \in Bundles \X Libraries
            /\ job.composed = [k \in K |-> l[k]]
            /\ Composable(b, l)
            /\ Holds(K \ job.todo, l, job.fresh)
            /\ job.gated /\ job.clean => Vetted(b, l)
DeployedInv ==
    deployed.complete =>
        /\ job.step = "done"
        /\ Composable(deployed.bundle, deployed.library)
        /\ Holds(ChecksToCompose(deployed.bundle), deployed.library, deployed.fresh)
        /\ deployed.gated /\ deployed.clean => Vetted(deployed.bundle, deployed.library)
AInv == AuthoringTypeOK /\ GateInv /\ FreshInv /\ WriteInv /\ DeployedInv

----------------------------------------------------------------------------
(* The invariant is inductive                                              *)

(***************************************************************************)
(* It holds at the start.                                                  *)
(***************************************************************************)
LEMMA NoJobType == NoJob \in Job
  <1>1. [k \in {} |-> NoFile] \in [{} -> Documents]
    OBVIOUS
  <1>2. {} \in SUBSET Checks
    OBVIOUS
  <1>3. [k \in {} |-> NoFile] \in UNION {[K -> Documents] : K \in SUBSET Checks}
    BY <1>1, <1>2
  <1>4. QED
    BY <1>3 DEF NoJob, Job

LEMMA AInvInit == Init => AInv
  <1> SUFFICES ASSUME Init PROVE AInv
    OBVIOUS
  <1> USE DEF Init
  <1>1. job \in Job /\ job.todo = {} /\ job.step = "idle"
    BY NoJobType DEF NoJob
  <1>2. out \in [Checks -> Documents \cup {NoFile, Torn}]
        /\ \A k \in Checks : out[k] # Torn
    BY AuthoringAssumption DEF Empty
  <1>3. ~deployed.complete /\ deployed \in Deployment
    BY DEF NotDeployed, Deployment
  <1>4. AuthoringTypeOK
    <2>1. DOMAIN mapping = Plain \cap Checks
      BY MappingType
    <2>2. edits \in 0..MaxEdits /\ faults \in 0..MaxFaults
      BY AuthoringAssumption
    <2>3. QED
      BY <1>1, <1>2, <1>3, <2>1, <2>2 DEF AuthoringTypeOK
  <1>5. GateInv /\ FreshInv /\ WriteInv
    BY <1>1 DEF GateInv, FreshInv, WriteInv
  <1>6. DeployedInv
    BY <1>3 DEF DeployedInv
  <1>7. QED
    BY <1>4, <1>5, <1>6 DEF AInv

(***************************************************************************)
(* An edit marks a running job, which then promises nothing of the tree.   *)
(***************************************************************************)
LEMMA EditSafe == AInv /\ Edit => AInv'
  <1> SUFFICES ASSUME AInv, Edit PROVE AInv'
    OBVIOUS
  <1> USE DEF AInv, Edit
  <1>1. /\ job' = [job EXCEPT !.clean = FALSE]
        /\ job' \in Job /\ ~job'.clean
        /\ job'.step = job.step /\ job'.gated = job.gated
        /\ job'.fresh = job.fresh /\ job'.source = job.source
        /\ job'.composed = job.composed /\ job'.todo = job.todo
    BY DEF AuthoringTypeOK, Job
  <1>2. AuthoringTypeOK'
    BY <1>1, AuthoringAssumption DEF AuthoringTypeOK
  <1>3. GateInv' /\ FreshInv'
    BY <1>1 DEF GateInv, FreshInv, Empty
  <1>4. WriteInv'
    BY <1>1 DEF WriteInv, Holds, Composable
  <1>5. DeployedInv'
    BY <1>1 DEF DeployedInv, Holds, Composable
  <1>6. QED
    BY <1>2, <1>3, <1>4, <1>5

LEMMA CollectorSafe == AInv /\ StartCollector => AInv'
  <1> SUFFICES ASSUME AInv, StartCollector PROVE AInv'
    OBVIOUS
  <1> USE DEF AInv, StartCollector
  <1>1. AuthoringTypeOK'
    <2>1. DOMAIN mapping' = Plain \cap Checks
      BY MappingType DEF AuthoringTypeOK
    <2>2. QED
      BY <2>1 DEF AuthoringTypeOK
  <1>2. GateInv' /\ FreshInv'
    BY DEF GateInv, FreshInv, Empty
  <1>3. WriteInv' /\ DeployedInv'
    BY DEF WriteInv, DeployedInv, Holds, Composable
  <1>4. QED
    BY <1>1, <1>2, <1>3

LEMMA BeginSafe == AInv /\ Begin => AInv'
  <1> SUFFICES ASSUME AInv, Begin PROVE AInv'
    OBVIOUS
  <1> USE DEF AInv
  <1>1. PICK gated \in BOOLEAN, fresh \in BOOLEAN :
            /\ job' = [NoJob EXCEPT !.step = IF gated THEN "validate" ELSE "compose",
                                    !.gated = gated, !.fresh = fresh \/ out = Empty]
            /\ out' = IF fresh THEN Empty ELSE out
    BY DEF Begin
  <1>2. /\ job'.step = IF gated THEN "validate" ELSE "compose"
        /\ job'.gated = gated /\ job'.fresh = (fresh \/ out = Empty)
        /\ job'.todo = {}
    BY <1>1 DEF NoJob
  <1>3. job' \in Job
    <2>1. (fresh \/ out = Empty) \in BOOLEAN
      OBVIOUS
    <2>2. QED
      BY <1>1, <2>1, NoJobType DEF NoJob, Job
  <1>4. ~deployed'.complete /\ deployed' \in Deployment
    BY DEF Begin, NotDeployed, Deployment
  <1>5. /\ out' \in [Checks -> Documents \cup {NoFile, Torn}]
        /\ faults' = 0 => \A k \in Checks : out'[k] # Torn
    <2>1. CASE fresh
      BY <1>1, <2>1, AuthoringAssumption DEF Empty
    <2>2. CASE ~fresh
      BY <1>1, <2>2 DEF AuthoringTypeOK, Begin
    <2>3. QED
      BY <2>1, <2>2
  <1>6. AuthoringTypeOK'
    BY <1>2, <1>3, <1>4, <1>5 DEF AuthoringTypeOK, Begin
  <1>7. GateInv'
    BY <1>2 DEF GateInv
  <1>8. FreshInv'
    BY <1>1, <1>2 DEF FreshInv, Empty
  <1>9. WriteInv' /\ DeployedInv'
    BY <1>2, <1>4 DEF WriteInv, DeployedInv
  <1>10. QED
    BY <1>6, <1>7, <1>8, <1>9

(***************************************************************************)
(* The three checks: a job goes on only if there is no finding.            *)
(***************************************************************************)
LEMMA CheckSafe ==
    ASSUME AInv, NEW step \in {"validate", "assess", "policies"}, NEW findings,
           NEW next \in {"assess", "policies", "compose"},
           Check(step, findings, next)
    PROVE  /\ AuthoringTypeOK' /\ FreshInv' /\ WriteInv' /\ DeployedInv'
           /\ job'.gated = job.gated /\ job'.clean = job.clean
           /\ job'.step = IF Loads(bundle) /\ findings = {} THEN next ELSE "failed"
  <1> USE DEF AInv, Check
  <1>1. /\ job' \in Job
        /\ job'.step = IF Loads(bundle) /\ findings = {} THEN next ELSE "failed"
        /\ job'.gated = job.gated /\ job'.fresh = job.fresh /\ job'.clean = job.clean
        /\ job'.composed = job.composed /\ job'.todo = job.todo
    BY DEF AuthoringTypeOK, Job
  <1>2. AuthoringTypeOK'
    BY <1>1 DEF AuthoringTypeOK
  <1>3. FreshInv' /\ WriteInv'
    BY <1>1 DEF FreshInv, WriteInv, Empty
  <1>4. DeployedInv'
    BY DEF DeployedInv
  <1>5. QED
    BY <1>1, <1>2, <1>3, <1>4

LEMMA ChecksSafe == AInv /\ (RunValidate \/ RunAssess \/ RunPolicies) => AInv'
  <1> SUFFICES ASSUME AInv, RunValidate \/ RunAssess \/ RunPolicies PROVE AInv'
    OBVIOUS
  <1>1. UNCHANGED <<bundle, library>>
    BY DEF RunValidate, RunAssess, RunPolicies, Check
  <1>2. CASE RunValidate
    <2>1. Check("validate", Findings(bundle), "assess")
      BY <1>2 DEF RunValidate
    <2>2. /\ AuthoringTypeOK' /\ FreshInv' /\ WriteInv' /\ DeployedInv'
          /\ job'.step = IF Loads(bundle) /\ Findings(bundle) = {}
                        THEN "assess" ELSE "failed"
      BY <2>1, CheckSafe
    <2>3. GateInv'
      BY <1>1, <2>2 DEF GateInv
    <2>4. QED
      BY <2>2, <2>3 DEF AInv
  <1>3. CASE RunAssess
    <2>1. Check("assess", Unsatisfied(bundle), "policies")
      BY <1>3 DEF RunAssess
    <2>2. /\ AuthoringTypeOK' /\ FreshInv' /\ WriteInv' /\ DeployedInv'
          /\ job'.gated = job.gated /\ job'.clean = job.clean
          /\ job'.step = IF Loads(bundle) /\ Unsatisfied(bundle) = {}
                        THEN "policies" ELSE "failed"
      BY <2>1, CheckSafe
    <2>3. job.step = "assess"
      BY <2>1 DEF Check
    <2>4. GateInv'
      BY <1>1, <2>2, <2>3 DEF AInv, GateInv
    <2>5. QED
      BY <2>2, <2>4 DEF AInv
  <1>4. CASE RunPolicies
    <2>1. Check("policies", Verify(bundle, library), "compose")
      BY <1>4 DEF RunPolicies
    <2>2. /\ AuthoringTypeOK' /\ FreshInv' /\ WriteInv' /\ DeployedInv'
          /\ job'.gated = job.gated /\ job'.clean = job.clean
          /\ job'.step = IF Loads(bundle) /\ Verify(bundle, library) = {}
                        THEN "compose" ELSE "failed"
      BY <2>1, CheckSafe
    <2>3. job.step = "policies"
      BY <2>1 DEF Check
    <2>4. GateInv'
      BY <1>1, <2>2, <2>3 DEF AInv, GateInv
    <2>5. QED
      BY <2>2, <2>4 DEF AInv
  <1>5. QED
    BY <1>2, <1>3, <1>4

(***************************************************************************)
(* Compose takes the documents that passed, and has nothing written yet.   *)
(***************************************************************************)
LEMMA ComposeSafe == AInv /\ Compose => AInv'
  <1> SUFFICES ASSUME AInv, Compose PROVE AInv'
    OBVIOUS
  <1> USE DEF AInv
  <1> DEFINE K == ChecksToCompose(bundle)
             source == <<bundle, library>>
  <1>1. /\ job \in Job /\ bundle \in Bundles /\ library \in Libraries
        /\ job.step = "compose"
        /\ UNCHANGED <<bundle, library, out, mapping, edits, faults>>
    BY DEF Compose, AuthoringTypeOK
  <1>2. CASE ~Loads(bundle) \/ Refused(bundle, library) # {}
    <2>1. job' = [job EXCEPT !.step = "failed"] /\ deployed' = NotDeployed
      BY <1>1, <1>2 DEF Compose, Job
    <2>2. /\ job' \in Job /\ job'.step = "failed" /\ job'.todo = job.todo
          /\ job'.composed = job.composed
      BY <1>1, <2>1 DEF Job
    <2>3. ~deployed'.complete /\ deployed' \in Deployment
      BY <2>1 DEF NotDeployed, Deployment
    <2>4. AuthoringTypeOK'
      BY <1>1, <2>2, <2>3 DEF AuthoringTypeOK
    <2>5. QED
      BY <2>2, <2>3, <2>4 DEF GateInv, FreshInv, WriteInv, DeployedInv
  <1>3. CASE Loads(bundle) /\ Refused(bundle, library) = {}
    <2>1. job' = [job EXCEPT !.source = source, !.composed = [k \in K |-> library[k]],
                             !.todo = K, !.step = IF K = {} THEN "done" ELSE "write"]
      BY <1>3 DEF Compose
    <2>2. /\ K \in SUBSET Checks /\ Composable(bundle, library)
          /\ [k \in K |-> library[k]] \in [K -> Documents]
      BY <1>1, <1>3, ChecksType, ComposedType DEF Composable
    <2>3. [k \in K |-> library[k]] \in UNION {[L -> Documents] : L \in SUBSET Checks}
      BY <2>2
    <2>4. source \in Bundles \X Libraries
      BY <1>1
    <2>5. job' \in Job
      <3> HIDE DEF K, source
      <3>1. QED
        BY <1>1, <2>1, <2>2, <2>3, <2>4 DEF Job
    <2>6. /\ job'.source = source /\ job'.composed = [k \in K |-> library[k]]
          /\ job'.todo = K /\ job'.step = (IF K = {} THEN "done" ELSE "write")
          /\ job'.gated = job.gated /\ job'.fresh = job.fresh /\ job'.clean = job.clean
      BY <1>1, <2>1 DEF Job
    <2>7. deployed' \in Deployment
      <3>1. Completed(job') \in Deployment
        BY <2>4, <2>5, <2>6, CompletedType
      <3>2. QED
        BY <3>1 DEF Compose, Deployment
    <2>8. AuthoringTypeOK'
      BY <1>1, <2>5, <2>6, <2>7 DEF AuthoringTypeOK
    <2>9. job.gated /\ job.clean => Vetted(bundle, library)
      BY <1>1 DEF GateInv, Vetted
    <2>10. job.fresh => \A k \in Checks : out[k] = NoFile
      BY <1>1 DEF FreshInv, Empty
    <2>11. GateInv' /\ FreshInv'
      BY <2>6 DEF GateInv, FreshInv
    <2>12. WriteInv'
      <3>1. job'.source[1] = bundle /\ job'.source[2] = library
        BY <2>6
      <3>2. Holds(K \ K, library, job.fresh)'
        BY <1>1, <2>6, <2>10 DEF Holds
      <3>3. QED
        BY <1>1, <2>2, <2>4, <2>6, <2>9, <3>1, <3>2 DEF WriteInv, Composable, Holds
    <2>13. DeployedInv'
      <3>1. CASE K # {}
        BY <2>6, <3>1 DEF Compose, DeployedInv, NotDeployed
      <3>2. CASE K = {}
        <4>1. deployed' = Completed(job') /\ job'.step = "done" /\ job'.todo = {}
          BY <2>6, <3>2 DEF Compose
        <4>2. /\ deployed'.bundle = bundle /\ deployed'.library = library
              /\ deployed'.gated = job.gated /\ deployed'.fresh = job.fresh
              /\ deployed'.clean = job.clean
          BY <2>6, <4>1 DEF Completed
        <4>3. QED
          BY <1>1, <2>2, <2>9, <2>10, <3>2, <4>1, <4>2 DEF DeployedInv, Holds, Composable
      <3>3. QED
        BY <3>1, <3>2
    <2>14. QED
      BY <2>8, <2>11, <2>12, <2>13
  <1>4. QED
    BY <1>2, <1>3

(***************************************************************************)
(* A file more is as composed; with the last of them the directory holds   *)
(* the composition.                                                        *)
(***************************************************************************)
LEMMA WriteSafe == AInv /\ WriteFile => AInv'
  <1> SUFFICES ASSUME AInv, WriteFile PROVE AInv'
    OBVIOUS
  <1> USE DEF AInv
  <1> DEFINE b == job.source[1]
             l == job.source[2]
             K == ChecksToCompose(b)
  <1>1. PICK k \in job.todo :
            /\ out' = [out EXCEPT ![k] = Written(k)]
            /\ job' = [job EXCEPT !.todo = @ \ {k},
                                  !.step = IF job.todo = {k} THEN "done" ELSE "write"]
    BY DEF WriteFile
  <1>2. /\ job.step = "write" /\ deployed' = Completed(job')
        /\ UNCHANGED <<bundle, library, mapping, edits, faults>>
    BY DEF WriteFile
  <1>3. /\ job.source \in Bundles \X Libraries /\ b \in Bundles /\ l \in Libraries
        /\ job.composed = [i \in K |-> l[i]]
        /\ Composable(b, l) /\ Holds(K \ job.todo, l, job.fresh)
        /\ job.gated /\ job.clean => Vetted(b, l)
    BY <1>2 DEF WriteInv
  <1>4. /\ job.todo \subseteq K /\ K \subseteq Checks
        /\ out \in [Checks -> Documents \cup {NoFile, Torn}] /\ job \in Job
    BY <1>3, ChecksType DEF AuthoringTypeOK
  <1>5. /\ job' \in Job /\ job'.source = job.source /\ job'.composed = job.composed
        /\ job'.gated = job.gated /\ job'.fresh = job.fresh /\ job'.clean = job.clean
        /\ job'.todo = job.todo \ {k}
        /\ job'.step = IF job.todo = {k} THEN "done" ELSE "write"
    BY <1>1, <1>4 DEF Job
  <1>6. k \in K /\ Written(k) = l[k] /\ l[k] \in Documents
    <2>1. k \in K /\ Written(k) = l[k]
      BY <1>1, <1>3, <1>4 DEF Written
    <2>2. QED
      BY <1>3, <1>4, <2>1, LibraryType DEF Composable
  <1>7. Holds(K \ job.todo, l, job.fresh)'
    <2>1. \A i \in K \ job'.todo : out'[i] = l[i]
      BY <1>1, <1>3, <1>4, <1>5, <1>6 DEF Holds
    <2>2. ASSUME job.fresh PROVE \A i \in Checks \ (K \ job'.todo) : out'[i] = NoFile
      BY <1>1, <1>3, <1>4, <1>5, <1>6, <2>2 DEF Holds
    <2>3. (K \ job.todo)' = K \ job'.todo /\ l' = l /\ job'.fresh = job.fresh
      BY <1>5
    <2>4. QED
      BY <1>5, <2>1, <2>2, <2>3 DEF Holds
  <1>8. AuthoringTypeOK'
    <2>1. deployed' \in Deployment
      BY <1>2, <1>3, <1>5, CompletedType
    <2>2. out' \in [Checks -> Documents \cup {NoFile, Torn}]
      BY <1>1, <1>4, <1>6
    <2>3. faults' = 0 => \A i \in Checks : out'[i] # Torn
      BY <1>1, <1>2, <1>4, <1>6, DocumentsWhole DEF AuthoringTypeOK
    <2>4. job'.todo \subseteq DOMAIN job'.composed
      BY <1>5 DEF AuthoringTypeOK
    <2>5. QED
      BY <1>2, <1>5, <2>1, <2>2, <2>3, <2>4 DEF AuthoringTypeOK
  <1>9. GateInv' /\ FreshInv'
    BY <1>5 DEF GateInv, FreshInv
  <1>10. WriteInv'
    BY <1>3, <1>5, <1>7 DEF WriteInv, Composable, Holds
  <1>11. DeployedInv'
    <2>1. CASE job'.todo # {}
      BY <1>2, <2>1 DEF DeployedInv, Completed, NotDeployed
    <2>2. CASE job'.todo = {}
      <3>1. job'.step = "done" /\ K \ job'.todo = K
        BY <1>1, <1>5, <2>2
      <3>2. /\ deployed'.bundle = b /\ deployed'.library = l
            /\ deployed'.gated = job.gated /\ deployed'.fresh = job.fresh
            /\ deployed'.clean = job.clean
        BY <1>2, <1>5, <2>2 DEF Completed
      <3>3. \A i \in K : out'[i] = l[i]
        BY <1>5, <1>7, <3>1 DEF Holds
      <3>4. job.fresh => \A i \in Checks \ K : out'[i] = NoFile
        BY <1>5, <1>7, <3>1 DEF Holds
      <3>5. QED
        BY <1>3, <3>1, <3>2, <3>3, <3>4 DEF DeployedInv, Holds, Composable
    <2>3. QED
      BY <2>1, <2>2
  <1>12. QED
    BY <1>8, <1>9, <1>10, <1>11

LEMMA FailSafe == AInv /\ WriteFails => AInv'
  <1> SUFFICES ASSUME AInv, WriteFails PROVE AInv'
    OBVIOUS
  <1> USE DEF AInv, WriteFails
  <1>1. /\ job' \in Job /\ job'.step = "failed" /\ job'.todo = job.todo
        /\ job'.composed = job.composed
    BY DEF AuthoringTypeOK, Job
  <1>2. ~deployed'.complete
    BY DEF DeployedInv
  <1>3. AuthoringTypeOK'
    <2>1. out' \in [Checks -> Documents \cup {NoFile, Torn}]
      BY DEF AuthoringTypeOK
    <2>2. faults' \in 0..MaxFaults /\ faults' # 0
      BY AuthoringAssumption DEF AuthoringTypeOK
    <2>3. QED
      BY <1>1, <2>1, <2>2 DEF AuthoringTypeOK
  <1>4. GateInv' /\ FreshInv' /\ WriteInv' /\ DeployedInv'
    BY <1>1, <1>2 DEF GateInv, FreshInv, WriteInv, DeployedInv
  <1>5. QED
    BY <1>3, <1>4

LEMMA StutterSafe == AInv /\ UNCHANGED vars => AInv'
  BY DEF AInv, AuthoringTypeOK, GateInv, FreshInv, WriteInv, DeployedInv, vars, Holds,
         Composable, Empty

LEMMA AInvNext == AInv /\ [Next]_vars => AInv'
  BY EditSafe, CollectorSafe, BeginSafe, ChecksSafe, ComposeSafe, WriteSafe, FailSafe,
     StutterSafe DEF Next

(***************************************************************************)
(* The invariant holds of every state of every behaviour, for any trees,   *)
(* libraries, edits and failed writes.                                     *)
(***************************************************************************)
THEOREM Inductive == Spec => []AInv
  BY AInvInit, AInvNext, PTL DEF Spec

----------------------------------------------------------------------------
(* The properties of Authoring                                             *)

(***************************************************************************)
(* Types are kept; a file is torn only by a write that failed.             *)
(***************************************************************************)
THEOREM TypeCorrect == Spec => []AuthoringTypeOK
  <1>1. AInv => AuthoringTypeOK
    BY DEF AInv
  <1>2. QED
    BY <1>1, Inductive, PTL

(***************************************************************************)
(* The two judges of a control tree never contradict each other: validate  *)
(* (validate.go:147-198) and assess (assess.go:13-60).                     *)
(***************************************************************************)
THEOREM Agreement == Spec => []JudgesAgree
  <1>1. ASSUME AInv PROVE JudgesAgree
    <2>1. \A comp \in bundle.components : DOMAIN comp.rules \subseteq Nat
      BY <1>1, AuthoringAssumption DEF AInv, AuthoringTypeOK
    <2>2. ASSUME Findings(bundle) = {} PROVE Assessed(bundle) = Selected(bundle)
      BY <2>2, SelectedKnown DEF Assessed
    <2>3. ASSUME Findings(bundle) = {}, NEW c \in Unsatisfied(bundle),
                 NEW ref \in References(bundle), ref[2].control = c
          PROVE  ref[2].rules = {}
      BY <2>1, <2>3, NamedMeansCovered DEF Unsatisfied
    <2>4. ASSUME NEW c \in Assessed(bundle),
                 [rule |-> "uncovered-control", control |-> c] \in Findings(bundle)
          PROVE  c \in Unsatisfied(bundle)
      BY <2>4, UncoveredMeansNone DEF Unsatisfied
    <2>5. QED
      BY <2>2, <2>3, <2>4 DEF JudgesAgree
  <1>2. QED
    BY <1>1, Inductive, PTL

(***************************************************************************)
(* After the checks composition is refused only for a check that is not a  *)
(* plain file name (generate.go:22-42).                                    *)
(***************************************************************************)
THEOREM Readiness == Spec => []ComposeReady
  <1>1. ASSUME AInv, job.step = "compose", job.gated, job.clean
        PROVE  Refused(bundle, library) \cap Plain = {}
    <2>1. Verify(bundle, library) = {}
      BY <1>1 DEF AInv, GateInv
    <2>2. \A cp \in KyvernoPolicies(bundle) : library[cp.policy] # NoFile
      BY <2>1 DEF Verify
    <2>3. QED
      BY <2>2 DEF Refused, ChecksToCompose
  <1>2. AInv => ComposeReady
    BY <1>1 DEF ComposeReady
  <1>3. QED
    BY <1>2, Inductive, PTL

(***************************************************************************)
(* A completed run leaves what the selected controls ask for, whatever was *)
(* in the directory (generate.go:57-120).                                  *)
(***************************************************************************)
THEOREM Exactness == Spec => []DirectoryExact
  <1>1. ASSUME AInv, deployed.complete PROVE DirectoryExact
    <2> DEFINE b == deployed.bundle
               l == deployed.library
               K == ChecksToCompose(b)
               needed == UNION {Enforcing(b, c) : c \in Selected(b)}
    <2>1. b \in Bundles /\ l \in Libraries
      <3>1. deployed \in Deployment /\ deployed # NotDeployed
        BY <1>1 DEF AInv, AuthoringTypeOK, NotDeployed
      <3>2. QED
        BY <3>1 DEF Deployment
    <2>2. Composable(b, l) /\ Holds(K, l, deployed.fresh)
      BY <1>1 DEF AInv, DeployedInv
    <2>3. K \subseteq needed
      BY ComposedNeeded DEF Needed
    <2>4. ASSUME Unambiguous(b) PROVE needed \subseteq K
      BY <2>1, <2>4, NeededComposed, AuthoringAssumption DEF Needed
    <2>5. K \subseteq Checks /\ K \subseteq Present
      BY <2>1, <2>2, ChecksType DEF Composable, Holds, Present
    <2>6. ASSUME deployed.fresh PROVE Present \subseteq K
      BY <2>2, <2>6 DEF Holds, Present
    <2>7. \A k \in K : out[k] = l[k]
      BY <2>2 DEF Holds
    <2>8. deployed.fresh => Present \subseteq needed
      BY <2>3, <2>6
    <2>9. Unambiguous(b) => needed \subseteq Present
      BY <2>4, <2>5
    <2>10. \A k \in needed \cap Present :
               deployed.fresh \/ Unambiguous(b) => out[k] = l[k]
      BY <2>4, <2>6, <2>7
    <2>11. QED
      BY <2>8, <2>9, <2>10 DEF DirectoryExact
  <1>2. AInv => DirectoryExact
    BY <1>1 DEF DirectoryExact
  <1>3. QED
    BY <1>2, Inductive, PTL

(***************************************************************************)
(* Traceability end to end: behind every selected control of a tree that   *)
(* went through the whole pipeline there is a deployed policy whose        *)
(* results become evidence for it, or another component.                   *)
(***************************************************************************)
THEOREM Traceability == Spec => []SelectedTraced
  <1>1. ASSUME AInv, deployed.complete, deployed.gated, deployed.clean,
               NEW c \in Selected(deployed.bundle)
        PROVE  \/ ElsewhereEnforced(deployed.bundle, c)
               \/ \E k \in Enforcing(deployed.bundle, c) :
                     /\ out[k] \notin {NoFile, Torn}
                     /\ mapping = ControlsByPolicy(deployed.library) => c \in mapping[k]
    <2> DEFINE b == deployed.bundle
               l == deployed.library
    <2>1. b \in Bundles /\ l \in Libraries
      <3>1. deployed \in Deployment /\ deployed # NotDeployed
        BY <1>1 DEF AInv, AuthoringTypeOK, NotDeployed
      <3>2. QED
        BY <3>1 DEF Deployment
    <2>2. /\ Vetted(b, l) /\ Composable(b, l)
          /\ Holds(ChecksToCompose(b), l, deployed.fresh)
      BY <1>1 DEF AInv, DeployedInv
    <2>3. CASE ElsewhereEnforced(b, c)
      BY <2>3
    <2>4. CASE \E cp \in KyvernoPolicies(b) : cp.control = c
      <3>1. PICK cp \in KyvernoPolicies(b) : cp.control = c
        BY <2>4
      <3> DEFINE k == cp.policy
      <3>2. k \in Enforcing(b, c)
        BY <3>1, KyvernoEnforcing
      <3>3. k \in ChecksToCompose(b)
        BY <1>1, <3>1 DEF ChecksToCompose
      <3>4. k \in Checks /\ k \in Plain /\ l[k] # NoFile /\ out[k] = l[k]
        BY <2>1, <2>2, <3>3, ChecksType DEF Composable, Holds
      <3>5. out[k] \notin {NoFile, Torn}
        BY <2>1, <3>4, LibraryType
      <3>6. c \in Annotations(l[k])
        BY <2>2, <3>1, <3>4 DEF Vetted, Verify
      <3>7. ControlsByPolicy(l)[k] = Annotations(l[k])
        BY <2>1, <3>4, LibraryType DEF ControlsByPolicy
      <3>8. QED
        BY <3>2, <3>5, <3>6, <3>7
    <2>5. QED
      BY <2>2, <2>3, <2>4, AnsweredFor DEF Vetted
  <1>2. AInv => SelectedTraced
    BY <1>1 DEF SelectedTraced
  <1>3. QED
    BY <1>2, Inductive, PTL
=============================================================================
