----------------------------- MODULE MCGateway -----------------------------
(***************************************************************************)
(* Small instances of Gateway: agent a1 is pinned to a model, needs a tool *)
(* and has a budget, a2 has neither, a3 is not registered.                 *)
(***************************************************************************)
EXTENDS Gateway, TLC

CONSTANTS i1, i2, i3, i4, a1, a2, a3, p, m, other, tool

Artifact(id) == [id |-> id, versioned |-> TRUE]
Agent1 == [id |-> a1, versioned |-> TRUE, owned |-> TRUE,
           prompts |-> {p}, model |-> m, tools |-> {tool}]
Agent2 == [Agent1 EXCEPT !.id = a2, !.model = NoModel, !.tools = {}]
MCRegistry == [agents |-> <<Agent1, Agent2>>, prompts |-> <<Artifact(p)>>,
               tools |-> <<Artifact(tool)>>]
MCRegistries ==
    {MCRegistry,
     [agents |-> <<>>, prompts |-> <<>>, tools |-> <<>>],
     [MCRegistry EXCEPT !.agents = <<Agent1, Agent2, [Agent1 EXCEPT !.tools = {}]>>],
     [MCRegistry EXCEPT !.agents = <<[Agent1 EXCEPT !.owned = FALSE]>>],
     [MCRegistry EXCEPT !.prompts = <<>>],
     [MCRegistry EXCEPT !.tools = <<[id |-> tool, versioned |-> FALSE]>>]}
BudgetRegistries == {MCRegistry}
MCLimitOf == (a1 :> [requests |-> 1, cost |-> 3, window |-> 3])

Tool(function, name) == [function |-> function, name |-> name]
NoBody == [kind |-> "empty", keys |-> <<>>, model |-> NoModel, tools |-> {},
           functions |-> {}, dirty |-> {}]
Body == [NoBody EXCEPT !.kind = "json", !.keys = <<"model", "tools">>, !.model = m, !.tools = {Tool(tool, Unnamed)}]
Live == [via |-> "proxy", agent |-> a1, prompt |-> p, cost |-> 1, authentic |-> TRUE,
         body |-> Body]
MCWires ==
    {Live,
     [Live EXCEPT !.body.model = NoModel],
     [Live EXCEPT !.body.model = other],
     [Live EXCEPT !.prompt = other],
     [Live EXCEPT !.body.tools = {Tool(Unnamed, tool), Tool(Unnamed, other)}],
     [Live EXCEPT !.body.functions = {other}],
     [Live EXCEPT !.agent = a3],
     [Live EXCEPT !.body.dirty = {"tool result"}],
     [Live EXCEPT !.authentic = FALSE],
     [Live EXCEPT !.agent = a2, !.body = NoBody],
     [Live EXCEPT !.agent = Unnamed],
     [Live EXCEPT !.cost = 0 - 1],
     [Live EXCEPT !.body.keys = <<"model", "tools", "model">>],
     [Live EXCEPT !.body.kind = "oversize"]}

Good == [via |-> "server", agent |-> a1, prompt |-> p, model |-> m, tools |-> {tool},
         input |-> "clean", cost |-> 1, id |-> "own"]
MCSubmissions ==
    {[Good EXCEPT !.model = NoModel, !.cost = 2],
     [Good EXCEPT !.cost = 0 - 1],
     [Good EXCEPT !.id = "none"],
     [Good EXCEPT !.id = "shared"],
     [Good EXCEPT !.id = "shared", !.agent = a2, !.tools = {}]}
Generation == [via |-> "output", agent |-> a1, prompt |-> p, id |-> "own", content |-> "clean"]
MCOutputs ==
    {[Generation EXCEPT !.content = "dirty"],
     [Generation EXCEPT !.id = "shared"],
     [Generation EXCEPT !.id = "shared", !.content = "dirty"],
     [Generation EXCEPT !.agent = a3],
     [Generation EXCEPT !.prompt = other],
     [Generation EXCEPT !.id = "none"]}
MCResponses == {[kind |-> "whole", content |-> "clean"],
                [kind |-> "whole", content |-> "dirty"],
                [kind |-> "whole", content |-> "oversize"],
                [kind |-> "stream", content |-> "dirty"],
                [kind |-> "stream", content |-> "broken"]}
Symmetry == Permutations({i1, i2})

(***************************************************************************)
(* The budget alone: anonymous requests to the decision server.  No action *)
(* reads the log and neither property does, so that states that differ in  *)
(* it alone are one.                                                       *)
(***************************************************************************)
BudgetSubmissions == {[Good EXCEPT !.id = "none", !.cost = n] : n \in {1, 4}}
BudgetView == <<clock, window, call, charges, restarts>>
BudgetSymmetry == Permutations({i1, i2, i3, i4})
=============================================================================
