-------------------------------- MODULE Wire --------------------------------
(***************************************************************************)
(* What the enforcing proxy reads of a live request (RequestFromHTTP of    *)
(* internal/gateway): a wire request has an agent, a prompt, a cost, a     *)
(* token that is the agent's or not (authentic), and a body                *)
(*                                                                         *)
(*   kind       empty, json, malformed or oversize                         *)
(*   keys       the keys of its objects, in lower case, in their order     *)
(*   model      the model it names                                         *)
(*   tools      tool entries, each with a name and the name of a function  *)
(*   functions  the names of the legacy field                              *)
(*   dirty      the places with a string that a guardrail rule matches     *)
(*                                                                         *)
(* where an empty body has none of these.  A negative cost also stands for *)
(* one that is no finite number, and the cost 0 for an absent header.      *)
(***************************************************************************)
EXTENDS Integers

CONSTANTS
    NoModel,     \* the model of an agent or a request that names none
    Unnamed      \* an absent header or an empty name

(***************************************************************************)
(* Two keys of one object that differ in case at most: the proxy and the   *)
(* upstream might read different values.                                   *)
(***************************************************************************)
Ambiguous(body) ==
    \E i, j \in DOMAIN body.keys : i # j /\ body.keys[i] = body.keys[j]

(***************************************************************************)
(* The proxy fails closed: what it cannot screen is refused.               *)
(***************************************************************************)
Acceptable(wire) ==
    /\ wire.agent # Unnamed
    /\ wire.cost >= 0
    /\ wire.body.kind \in {"empty", "json"} /\ ~Ambiguous(wire.body)

(***************************************************************************)
(* The name of the function comes first.                                   *)
(***************************************************************************)
ToolName(entry) == IF entry.function # Unnamed THEN entry.function ELSE entry.name
ToolNames(body) == ({ToolName(entry) : entry \in body.tools} \cup body.functions) \ {Unnamed}

MessagesOnly(body) ==                    \* mutant: the fields that are known
    IF "message" \in body.dirty THEN "dirty" ELSE "clean"
screenable(body) == IF body.dirty = {} THEN "clean" ELSE "dirty"

RequestFromHTTP(wire) ==
    [via |-> "proxy", id |-> "own", agent |-> wire.agent, prompt |-> wire.prompt,
     authentic |-> wire.authentic, cost |-> wire.cost, model |-> wire.body.model,
     tools |-> ToolNames(wire.body), input |-> screenable(wire.body)]
=============================================================================
