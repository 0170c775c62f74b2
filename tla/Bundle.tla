------------------------------- MODULE Bundle -------------------------------
(***************************************************************************)
(* The control tree and the policy library, and what the commands say of   *)
(* them (internal/oscal, validate, report, assess, policies): a bundle is  *)
(*                                                                         *)
(*   catalogs    a sequence of [id, controls], controls a sequence         *)
(*   imports     the imports of all profiles, a set of [href, include]     *)
(*   components  a set of [title, rules, requirements]: rules is a         *)
(*               sequence of rule sets in the order of their group keys,   *)
(*               each the [ids, checks] declared under it in the order of  *)
(*               the file, requirements a set of [control, rules]          *)
(*   mappings    the mappings of all crosswalks, a sequence of             *)
(*               [control, satisfiedBy]                                    *)
(*   malformed   the directories with a document that does not parse       *)
(*                                                                         *)
(* A library maps the stems of its files to their documents, each the set  *)
(* of controls it is annotated with; the rest of a policy is left out.     *)
(***************************************************************************)
EXTENDS Naturals, Sequences, SequencesExt

CONSTANTS
    NoCheck,    \* the check of a rule set that declares none
    NoControl,  \* the control of a finding that concerns none
    NoRule,     \* the rule of a rule set that declares none
    NoFile,     \* the content of a file that does not exist
    Plain       \* the checks that are plain file names

(***************************************************************************)
(* Load: one malformed document fails a command; a missing directory is    *)
(* empty.                                                                  *)
(***************************************************************************)
Loads(b) == b.malformed = {}

----------------------------------------------------------------------------
(* The resolution of rules                                                 *)

(***************************************************************************)
(* Of what one rule set declares the last counts; of several rule sets     *)
(* that declare one rule the first group key wins.                         *)
(***************************************************************************)
RuleOf(comp, g) ==
    IF comp.rules[g].ids = <<>> THEN NoRule ELSE Last(comp.rules[g].ids)
CheckOf(comp, g) ==
    IF comp.rules[g].checks = <<>> THEN NoCheck ELSE Last(comp.rules[g].checks)
Rules(comp) == {RuleOf(comp, g) : g \in DOMAIN comp.rules} \ {NoRule}
Decides(comp, g) ==
    \A h \in DOMAIN comp.rules : RuleOf(comp, h) = RuleOf(comp, g) => g <= h
RuleChecks(comp) ==
    {[rule |-> RuleOf(comp, g), check |-> CheckOf(comp, g)] :
        g \in {h \in DOMAIN comp.rules : Decides(comp, h)}}

(***************************************************************************)
(* The rules declared more than once, also under one group key.            *)
(***************************************************************************)
Declared(comp, r) ==
    UNION {{<<g, n>> : n \in {k \in DOMAIN comp.rules[g].ids : comp.rules[g].ids[k] = r}} :
               g \in DOMAIN comp.rules}
DuplicateRuleIDs(comp) ==
    {r \in UNION {ToSet(comp.rules[g].ids) : g \in DOMAIN comp.rules} :
        \E p, q \in Declared(comp, r) : p # q}

References(b) ==
    UNION {{<<comp, req>> : req \in comp.requirements} : comp \in b.components}
ControlPolicies(b) ==
    UNION {{[control |-> ref[2].control, component |-> ref[1].title, policy |-> rule.check] :
                rule \in {q \in RuleChecks(ref[1]) : q.rule \in ref[2].rules \cap Rules(ref[1])}} :
           ref \in References(b)}
UnresolvedRules(b) ==
    {ref[2].control : ref \in {q \in References(b) : ~(q[2].rules \subseteq Rules(q[1]))}}

----------------------------------------------------------------------------
(* fabric validate                                                         *)

Selected(b) == UNION {imp.include : imp \in b.imports}
ControlsIn(cat) == ToSet(cat.controls)
AllControls(b) == UNION {ControlsIn(cat) : cat \in ToSet(b.catalogs)}
Mapped(b) == {ref[2].control : ref \in References(b)}

(***************************************************************************)
(* Of several catalogs with one id the last is the one imports see.        *)
(***************************************************************************)
CatalogIds(b) == {cat.id : cat \in ToSet(b.catalogs)}
InCatalog(b, id, c) ==
    \E i \in DOMAIN b.catalogs :
        /\ b.catalogs[i].id = id /\ c \in ControlsIn(b.catalogs[i])
        /\ \A j \in DOMAIN b.catalogs : b.catalogs[j].id = id => j <= i

ProfileFindings(b) ==
    {[rule |-> "unresolved-catalog", control |-> NoControl] :
        imp \in {q \in b.imports : q.href \notin CatalogIds(b)}}
    \cup UNION {{[rule |-> "unresolved-control", control |-> c] :
                    c \in {d \in imp.include : ~InCatalog(b, imp.href, d)}} :
                imp \in {q \in b.imports : q.href \in CatalogIds(b)}}
MappingFindings(b) ==
    {[rule |-> "unmapped-control", control |-> c] : c \in Mapped(b) \ AllControls(b)}
DuplicateFindings(b) ==
    UNION {{[rule |-> "duplicate-control-id", control |-> c] :
               c \in {d \in ControlsIn(cat) : \E i, j \in DOMAIN cat.controls :
                         i # j /\ cat.controls[i] = d /\ cat.controls[j] = d}} :
           cat \in ToSet(b.catalogs)}
CoverageFindings(b) ==
    {[rule |-> "uncovered-control", control |-> c] : c \in Selected(b) \ Mapped(b)}
DanglingAccepted(b) ==                             \* mutant: unknown rules pass
    {[rule |-> "rule-missing-check", control |-> cp.control] :
        cp \in {q \in ControlPolicies(b) : q.policy = NoCheck}}
RuleFindings(b) ==
    {[rule |-> "unresolved-rule", control |-> c] : c \in UnresolvedRules(b)}
    \cup {[rule |-> "rule-missing-check", control |-> cp.control] :
            cp \in {q \in ControlPolicies(b) : q.policy = NoCheck}}
CrosswalkFindings(b) ==
    LET M == ToSet(b.mappings)
    IN  {[rule |-> "crosswalk-empty-mapping", control |-> m.control] :
            m \in {q \in M : q.satisfiedBy = {}}}
        \cup {[rule |-> "crosswalk-unresolved-target", control |-> m.control] :
            m \in {q \in M : q.control \notin AllControls(b)}}
        \cup {[rule |-> "crosswalk-unresolved-anchor", control |-> c] :
            c \in UNION {m.satisfiedBy : m \in M} \ AllControls(b)}
        \cup {[rule |-> "crosswalk-duplicate-target", control |-> b.mappings[i].control] :
            i \in {j \in DOMAIN b.mappings : \E k \in 1..j - 1 :
                      b.mappings[k].control = b.mappings[j].control}}

Findings(b) ==
    ProfileFindings(b) \cup MappingFindings(b) \cup DuplicateFindings(b)
    \cup CoverageFindings(b) \cup RuleFindings(b) \cup CrosswalkFindings(b)

----------------------------------------------------------------------------
(* fabric assess                                                           *)

(***************************************************************************)
(* The policies behind a control; a rule without a check is none.          *)
(***************************************************************************)
Coverage(b, c) ==
    {cp.policy : cp \in {q \in ControlPolicies(b) : q.control = c}} \ {NoCheck}

Assessed(b) == AllControls(b) \cap Selected(b)
Unsatisfied(b) == {c \in Assessed(b) : Coverage(b, c) = {}}

----------------------------------------------------------------------------
(* fabric policies, and the map the collector reads                        *)

Annotations(file) == UNION ToSet(file)

KyvernoPolicies(b) ==
    {cp \in ControlPolicies(b) : cp.component = "kyverno" /\ cp.policy # NoCheck}

AnnotationsOnly(b, library) ==                     \* mutant: no file, no finding
    {[rule |-> "policy-control-id-mismatch", control |-> cp.control] :
        cp \in {q \in KyvernoPolicies(b) :
                   /\ library[q.policy] # NoFile
                   /\ q.control \notin Annotations(library[q.policy])}}
Verify(b, library) ==
    {[rule |-> "missing-policy", control |-> cp.control] :
        cp \in {q \in KyvernoPolicies(b) : library[q.policy] = NoFile}}
    \cup {[rule |-> "policy-control-id-mismatch", control |-> cp.control] :
        cp \in {q \in KyvernoPolicies(b) :
                   /\ library[q.policy] # NoFile
                   /\ q.control \notin Annotations(library[q.policy])}}

(***************************************************************************)
(* Only files of the directory itself are listed, not of those below it.   *)
(***************************************************************************)
ControlsByPolicy(library) ==
    [k \in Plain \cap DOMAIN library |->
        IF library[k] = NoFile THEN {} ELSE Annotations(library[k])]

----------------------------------------------------------------------------
(* fabric generate: what is composed                                       *)

AllChecks(b) == {cp.policy : cp \in KyvernoPolicies(b)}
ChecksToCompose(b) ==
    {cp.policy : cp \in {q \in KyvernoPolicies(b) : q.control \in Selected(b)}}
=============================================================================
