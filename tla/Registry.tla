------------------------------ MODULE Registry ------------------------------
(***************************************************************************)
(* The agent registry (internal/registry): versioned agents, prompts and   *)
(* tools, each kind a sequence in the order its files are read, and the    *)
(* findings of Validate.  A registry is loaded without being validated:    *)
(* Validate is a command of its own.                                       *)
(***************************************************************************)
EXTENDS Naturals, Sequences, SequencesExt

IdsOf(Artifacts) == {a.id : a \in Artifacts}
Ids(artifacts) == IdsOf(ToSet(artifacts))
Finding(rule, ids) == {[rule |-> rule, artifact |-> id] : id \in ids}

(***************************************************************************)
(* "An unversioned artifact cannot be qualified or pinned" (registry.go:   *)
(* 70-71), nor one without an owner be attributed.                         *)
(***************************************************************************)
Unversioned(artifacts) == IdsOf({a \in ToSet(artifacts) : ~a.versioned})
checkVersions(r) ==
    Finding("missing-version",
        Unversioned(r.agents) \cup Unversioned(r.prompts) \cup Unversioned(r.tools))
checkOwners(r) ==
    Finding("missing-owner", IdsOf({a \in ToSet(r.agents) : ~a.owned}))

checkReferences(r) ==
    Finding("unknown-prompt-ref",
        IdsOf({a \in ToSet(r.agents) : ~(a.prompts \subseteq Ids(r.prompts))}))
    \cup Finding("unknown-tool-ref",
        IdsOf({a \in ToSet(r.agents) : ~(a.tools \subseteq Ids(r.tools))}))

Adjacent(artifacts) ==                             \* mutant: compares neighbours
    {artifacts[i].id : i \in {j \in 2..Len(artifacts) :
                                artifacts[j].id = artifacts[j - 1].id}}
Repeated(artifacts) ==
    {id \in Ids(artifacts) :
        \E i, j \in 1..Len(artifacts) :
            i < j /\ artifacts[i].id = id /\ artifacts[j].id = id}
checkDuplicateIDs(r) ==
    Finding("duplicate-id",
        Repeated(r.agents) \cup Repeated(r.prompts) \cup Repeated(r.tools))

Validate(r) ==
    checkVersions(r) \cup checkOwners(r) \cup checkReferences(r) \cup checkDuplicateIDs(r)
=============================================================================
