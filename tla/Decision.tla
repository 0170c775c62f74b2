------------------------------ MODULE Decision ------------------------------
(***************************************************************************)
(* The gateway's verdict on a request, Decide and Screen of                *)
(* internal/gateway, as operators over a registry.                         *)
(***************************************************************************)
EXTENDS Registry, Wire, FiniteSets

CONSTANT
    Guarded      \* whether a guardrail with at least one rule is configured

(***************************************************************************)
(* The entry that decides is the first with the agent's id.  It holds the  *)
(* prompts, the tools and the pinned model.                                *)
(***************************************************************************)
Registered(reg, agent) == agent \in Ids(reg.agents)
EntryOf(reg, agent) ==
    reg.agents[SelectInSeq(reg.agents, LAMBDA a : a.id = agent)]

(***************************************************************************)
(* Decide: the first qualification that fails, or "allowed".  The live     *)
(* proxy requires a pinned agent to name its model; the re-derivation from *)
(* a log does not.                                                         *)
(***************************************************************************)
ModelVerdict(entry, model, live) ==
    CASE entry.model = NoModel -> "allowed"
      [] entry.model # NoModel /\ model = NoModel ->
            IF live THEN "model undeclared" ELSE "allowed"
      [] entry.model # NoModel /\ model # NoModel ->
            IF model = entry.model THEN "allowed" ELSE "model"

Decide(reg, req, live) ==
    IF ~Registered(reg, req.agent) THEN "unregistered"
    ELSE LET entry == EntryOf(reg, req.agent)
             model == ModelVerdict(entry, req.model, live)
         IN  IF req.prompt \notin entry.prompts THEN "prompt"
             ELSE IF model # "allowed" THEN model
             ELSE IF ~(req.tools \subseteq entry.tools) THEN "tool"
             ELSE "allowed"

(***************************************************************************)
(* Screen: content is "dirty" when a rule matches what the gateway sees of *)
(* it.                                                                     *)
(***************************************************************************)
Screen(content) == IF Guarded /\ content = "dirty" THEN "guardrail" ELSE "allowed"
=============================================================================
