--------------------------- MODULE GatewayProofs ---------------------------
(***************************************************************************)
(* The gateway for any registries, requests, budgets and faults.  First    *)
(* what a decision means; then an inductive invariant, one step for every  *)
(* action, and the properties of Gateway as its consequences; last the     *)
(* evidence that is drawn from the log, with the invariant that ties every *)
(* line to a call.                                                         *)
(***************************************************************************)
EXTENDS Gateway, WellFoundedInduction, FiniteSetTheorems, TLAPS

----------------------------------------------------------------------------
(* The decision                                                            *)

(***************************************************************************)
(* A set of numbers has a least one, and Min is it.                        *)
(***************************************************************************)
Less == {ss \in Nat \X Nat : ss[1] < ss[2]}

LEMMA LeastIndex ==
    ASSUME NEW G, G \subseteq Nat, G # {}
    PROVE  Min(G) \in G /\ \A h \in G : Min(G) <= h
  <1>1. IsWellFoundedOn(Less, Nat)
    BY NatLessThanWellFounded DEF OpToRel, Less
  <1>2. PICK g \in G : \A h \in G : <<h, g>> \notin Less
    BY <1>1, WFMin, Zenon
  <1>3. ASSUME NEW h \in G PROVE g <= h
    <2>1. g \in Nat /\ h \in Nat
      OBVIOUS
    <2>2. ~(h < g)
      BY <1>2, <2>1 DEF Less
    <2>3. QED
      BY <2>1, <2>2
  <1>4. QED
    BY <1>3 DEF Min

(***************************************************************************)
(* The entry that decides is the first of the agent.                       *)
(***************************************************************************)
FirstOf(agents, i, agent) ==
    /\ i \in 1..Len(agents) /\ agents[i].id = agent
    /\ \A j \in 1..i - 1 : agents[j].id # agent

LEMMA EntryIsFirst ==
    ASSUME NEW reg, reg.agents \in Seq(ToSet(reg.agents)),
           NEW agent, Registered(reg, agent)
    PROVE  \E i : FirstOf(reg.agents, i, agent) /\ EntryOf(reg, agent) = reg.agents[i]
  <1> DEFINE I == {i \in 1..Len(reg.agents) : reg.agents[i].id = agent}
  <1>1. I \subseteq Nat
    OBVIOUS
  <1>2. I # {}
    <2>1. PICK a \in ToSet(reg.agents) : a.id = agent
      BY DEF Registered, Ids, IdsOf
    <2>2. PICK i \in DOMAIN reg.agents : reg.agents[i] = a
      BY <2>1 DEF ToSet
    <2>3. DOMAIN reg.agents = 1..Len(reg.agents)
      OBVIOUS
    <2>4. QED
      BY <2>1, <2>2, <2>3
  <1>3. EntryOf(reg, agent) = reg.agents[Min(I)]
    BY <1>2 DEF EntryOf, SelectInSeq
  <1>4. Min(I) \in I /\ \A h \in I : Min(I) <= h
    <2> HIDE DEF I
    <2>1. QED
      BY <1>1, <1>2, LeastIndex
  <1>5. FirstOf(reg.agents, Min(I), agent)
    <2>1. Min(I) \in 1..Len(reg.agents) /\ reg.agents[Min(I)].id = agent
      BY <1>4
    <2>2. ASSUME NEW j \in 1..Min(I) - 1 PROVE reg.agents[j].id # agent
      <3>1. j \in 1..Len(reg.agents) /\ ~(Min(I) <= j)
        BY <2>1
      <3>2. j \notin I
        BY <1>4, <3>1
      <3>3. QED
        BY <3>1, <3>2
    <2>3. QED
      BY <2>1, <2>2 DEF FirstOf
  <1>6. QED
    BY <1>3, <1>5

(***************************************************************************)
(* What a request that may pass is of: an agent whose first entry has its  *)
(* prompt and its tools.                                                   *)
(***************************************************************************)
Qualified(reg, req) ==
    \E i \in 1..Len(reg.agents) :
        /\ FirstOf(reg.agents, i, req.agent)
        /\ req.prompt \in reg.agents[i].prompts
        /\ req.tools \subseteq reg.agents[i].tools

LEMMA AllowedMeans ==
    ASSUME NEW reg, reg.agents \in Seq(ToSet(reg.agents)), NEW req, NEW live,
           Decide(reg, req, live) = "allowed"
    PROVE  \E i : /\ FirstOf(reg.agents, i, req.agent)
                  /\ req.prompt \in reg.agents[i].prompts
                  /\ req.tools \subseteq reg.agents[i].tools
                  /\ ModelVerdict(reg.agents[i], req.model, live) = "allowed"
  <1>1. Registered(reg, req.agent)
    BY DEF Decide
  <1>2. PICK i : /\ FirstOf(reg.agents, i, req.agent)
                 /\ EntryOf(reg, req.agent) = reg.agents[i]
    BY <1>1, EntryIsFirst
  <1> DEFINE entry == reg.agents[i]
  <1>3. /\ req.prompt \in entry.prompts /\ req.tools \subseteq entry.tools
        /\ ModelVerdict(entry, req.model, live) = "allowed"
    BY <1>1, <1>2 DEF Decide
  <1>4. QED
    BY <1>2, <1>3

(***************************************************************************)
(* The gates let nothing past that the property forbids: read off what was *)
(* sent, for either door.                                                  *)
(***************************************************************************)
Taken(sent, r) ==
    \/ sent \in Wires /\ Acceptable(sent) /\ r = RequestFromHTTP(sent)
    \/ sent \in Submissions /\ r = sent

Begun(k) ==
    \/ k = BadRequest
    \/ \E sent, r : Taken(sent, r) /\ k = Received(sent, r)
    \/ \E o \in Outputs : k = Posted(o)

Passed(k) == Admissible(k) /\ Qualified(k.reg, k.req)

LEMMA RegistriesListed ==
    ASSUME NEW reg \in Registries
    PROVE  /\ reg.agents \in Seq(ToSet(reg.agents)) /\ reg.prompts \in Seq(ToSet(reg.prompts))
           /\ reg.tools \in Seq(ToSet(reg.tools))
  BY GatewayAssumption DEF GatewayAssumption

LEMMA GatesPassed ==
    ASSUME NEW sent, NEW r, Taken(sent, r), registry \in Registries, Gates(r) = "allowed",
           NEW k, k.sent = sent, k.req = r, k.reg = registry
    PROVE  Passed(k)
  <1>1. /\ ~BadToken(r) /\ Decide(registry, r, r.via = "proxy") = "allowed"
        /\ Screen(r.input) = "allowed"
    BY DEF Gates
  <1>2. PICK i : /\ FirstOf(registry.agents, i, r.agent)
                 /\ r.prompt \in registry.agents[i].prompts
                 /\ r.tools \subseteq registry.agents[i].tools
                 /\ ModelVerdict(registry.agents[i], r.model, r.via = "proxy") = "allowed"
    BY <1>1, AllowedMeans, RegistriesListed
  <1> DEFINE entry == registry.agents[i]
  <1>3. Qualified(k.reg, k.req)
    BY <1>2 DEF Qualified, FirstOf
  <1>4. CASE sent \in Wires /\ Acceptable(sent) /\ r = RequestFromHTTP(sent)
    <2>1. /\ sent.via = "proxy" /\ r.via = "proxy" /\ sent.agent = r.agent /\ sent.prompt = r.prompt
          /\ r.authentic = sent.authentic /\ r.model = sent.body.model
          /\ r.tools = ToolNames(sent.body) /\ r.input = screenable(sent.body)
      BY <1>4, GatewayAssumption DEF GatewayAssumption, RequestFromHTTP
    <2>2. sent.authentic /\ ~Ambiguous(sent.body)
      BY <1>1, <1>4, <2>1 DEF BadToken, Acceptable
    <2>3. Covered(sent, entry.tools)
      <3>1. \A e \in sent.body.tools : ToolName(e) # Unnamed => ToolName(e) \in entry.tools
        BY <1>2, <2>1 DEF ToolNames
      <3>2. \A name \in sent.body.functions : name # Unnamed => name \in entry.tools
        BY <1>2, <2>1 DEF ToolNames
      <3>3. QED
        BY <2>1, <3>1, <3>2 DEF Covered, ToolName
    <2>4. Pins(entry, sent)
      BY <1>2, <2>1 DEF Pins, ModelVerdict
    <2>5. Guarded => Harmless(sent)
      BY <1>1, <2>1 DEF Screen, Harmless, screenable
    <2>6. QED
      BY <1>2, <1>3, <2>1, <2>2, <2>3, <2>4, <2>5 DEF Passed, Admissible, Declares, FirstOf
  <1>5. CASE sent \in Submissions /\ r = sent
    <2>1. r.via = "server"
      BY <1>5, GatewayAssumption DEF GatewayAssumption
    <2>2. Pins(entry, sent) /\ Covered(sent, entry.tools)
      BY <1>2, <1>5, <2>1 DEF Pins, ModelVerdict, Covered
    <2>3. Guarded => Harmless(sent)
      BY <1>1, <1>5, <2>1 DEF Screen, Harmless
    <2>4. QED
      BY <1>2, <1>3, <1>5, <2>1, <2>2, <2>3 DEF Passed, Admissible, Declares, FirstOf
  <1>6. QED
    BY <1>4, <1>5 DEF Taken

----------------------------------------------------------------------------
(* The invariant                                                           *)

(***************************************************************************)
(* What is under way is of a request that was read; an output is screened  *)
(* at once.                                                                *)
(***************************************************************************)
UnderWay(k) == k.step \notin {"idle", "done"}
Read(k) ==
    /\ UnderWay(k) => k.req \in Requests
    /\ UnderWay(k) /\ k.step # "screen" => k.req \in Asked
RequestInv == \A c \in Calls : Read(call[c])

(***************************************************************************)
(* What has come past the gates, or was charged for, passed them, with the *)
(* registry of its time; what has not begun was not charged for.  No gate  *)
(* is asked about an output.                                               *)
(***************************************************************************)
Beyond(k) ==
    /\ k.req.via # "output"
    /\ \/ k.step \in {"time", "charge", "upstream", "screen"}
       \/ k.step = "log" /\ k.verdict = "allowed"
       \/ k.reply \in {"admitted", "response", "blocked", "cut", "broken"}
       \/ k.response # NoResponse
Charged(c) == \E h \in charges : h.call = c
GateInv ==
    \A c \in Calls :
        /\ At(c, "idle") => ~Charged(c)
        /\ Beyond(call[c]) \/ Charged(c) => Passed(call[c])

(***************************************************************************)
(* What was forwarded or admitted has its line, unless the write failed.   *)
(***************************************************************************)
LetGo(k) ==
    \/ k.step = "upstream" \/ k.reply = "admitted"
    \/ k.req.via = "proxy" /\ (k.step = "screen" \/ k.response # NoResponse)
LogInv ==
    \A c \in Calls : LetGo(call[c]) /\ <<c, "input">> \notin unlogged => InputLogged(c)

(***************************************************************************)
(* A response under a guardrail is screened before it is passed on, and    *)
(* has no line before that.                                                *)
(***************************************************************************)
Judged(k) == k.step = "done" /\ k.reply \in {"response", "blocked", "cut"}
OwnLines(c) == {i \in 1..Len(log) : log[i].id = c /\ log[i].phase = "output"}
Tells(c, line) ==
    /\ line.id = IdOf(c) /\ line.agent = Req(c).agent /\ line.phase = "output"
    /\ line.allowed <=> call[c].reply = "response"
HasVerdict(c) ==
    \E i \in 1..Len(log) : Tells(c, log[i]) /\ OwnLines(c) \subseteq {i}
Screenable(r) == r.content \in {"clean", "dirty", "oversize"}
OutputOf(c) ==
    /\ At(c, "screen") => Screenable(call[c].response)
    /\ call[c].reply \in {"response", "blocked", "cut"} => At(c, "done")
    /\ call[c].reply = "response" => call[c].response.content = "clean"
    /\ OwnLines(c) # {} => Judged(call[c])
    /\ Judged(call[c]) /\ <<c, "output">> \notin unlogged => HasVerdict(c)
OutputInv == \A c \in Calls : OutputOf(c)

GInv ==
    /\ GatewayTypeOK /\ RequestInv /\ GateInv /\ LogInv
    /\ Guarded => OutputInv

----------------------------------------------------------------------------
(* Types                                                                   *)

LEMMA InitGInv == Init => GInv
  <1> SUFFICES ASSUME Init PROVE GInv
    OBVIOUS
  <1> USE DEF Init
  <1>1. \A c \in Calls : call[c] = Fresh
    OBVIOUS
  <1>2. Fresh \in Call
    BY DEF Fresh, Call, NoRequest, NoResponse, NoRegistry
  <1>3. GatewayTypeOK
    BY <1>1, <1>2, GatewayAssumption DEF GatewayTypeOK, GatewayAssumption
  <1>4. RequestInv /\ LogInv
    BY <1>1 DEF RequestInv, Read, LogInv, UnderWay, LetGo, Fresh, NoRequest
  <1>5. GateInv
    BY <1>1 DEF GateInv, Beyond, Charged, Fresh, At
  <1>6. OutputInv
    BY <1>1 DEF OutputInv, OutputOf, Judged, Fresh, At, OwnLines
  <1>7. QED
    BY <1>3, <1>4, <1>5, <1>6 DEF GInv

LEMMA DecideType ==
    ASSUME NEW reg, NEW req, NEW live
    PROVE  Decide(reg, req, live) \in {"allowed", "unregistered", "prompt", "model",
                                      "model undeclared", "tool"}
  BY DEF Decide, ModelVerdict

LEMMA GatesType ==
    ASSUME NEW r
    PROVE  Gates(r) \in {"allowed", "unregistered", "prompt", "model", "model undeclared",
                         "tool", "guardrail", "authentication"}
  <1> DEFINE decision == Decide(registry, r, r.via = "proxy")
  <1>1. decision \in {"allowed", "unregistered", "prompt", "model", "model undeclared", "tool"}
    BY DecideType
  <1>2. Screen(r.input) \in {"allowed", "guardrail"}
    BY DEF Screen
  <1>3. Gates(r) \in {"authentication", Screen(r.input), decision}
    BY DEF Gates
  <1>4. QED
    BY <1>1, <1>2, <1>3

LEMMA ReceivedType ==
    ASSUME GatewayTypeOK, NEW sent, NEW r, Taken(sent, r)
    PROVE  Received(sent, r) \in Call
  <1>1. sent \in Wires \cup Submissions /\ r \in Requests
    BY DEF Taken, Requests, Asked
  <1>2. registry \in Registries
    BY DEF GatewayTypeOK
  <1>3. QED
    BY <1>1, <1>2, GatesType DEF Received, Fresh, Call, NoResponse, NoRegistry, NoRequest

(***************************************************************************)
(* Where a call comes from: what is received, or nothing.                  *)
(***************************************************************************)
Receive(c) == ReceiveWire(c) \/ ReceiveSubmission(c) \/ ReceiveOutput(c)

LEMMA PostedType ==
    ASSUME GatewayTypeOK, NEW o \in Outputs
    PROVE  /\ Posted(o) \in Call /\ Posted(o).req = o /\ Posted(o).step = "screen"
           /\ Posted(o).reply = "none" /\ Posted(o).response = Generated(o)
           /\ o.via = "output" /\ Screenable(Generated(o))
  <1>1. registry \in Registries
    BY DEF GatewayTypeOK
  <1>2. o.via = "output" /\ o.content \in {"clean", "dirty"}
    BY GatewayAssumption DEF GatewayAssumption
  <1>3. QED
    BY <1>1, <1>2 DEF Posted, Fresh, Call, NoResponse, NoRegistry, NoRequest, Requests, Generated,
                      Screenable

LEMMA ReceiveStep ==
    ASSUME NEW c \in Calls, Receive(c)
    PROVE  /\ At(c, "idle")
           /\ \E k : /\ call' = [call EXCEPT ![c] = k]
                     /\ Begun(k)
           /\ UNCHANGED <<registry, clock, window, log, charges, rest>>
  <1>1. CASE ReceiveWire(c)
    <2>1. PICK wire \in Wires :
             call' = [call EXCEPT ![c] = IF Acceptable(wire)
                                         THEN Received(wire, RequestFromHTTP(wire))
                                         ELSE BadRequest]
      BY <1>1 DEF ReceiveWire
    <2>2. CASE Acceptable(wire)
      BY <1>1, <2>1, <2>2 DEF ReceiveWire, Taken, Begun
    <2>3. CASE ~Acceptable(wire)
      BY <1>1, <2>1, <2>3 DEF ReceiveWire, Begun
    <2>4. QED
      BY <2>2, <2>3
  <1>2. CASE ReceiveSubmission(c)
    <2>1. PICK k \in {Received(r, r) : r \in Submissions} \cup {BadRequest} :
             call' = [call EXCEPT ![c] = k]
      BY <1>2 DEF ReceiveSubmission
    <2>2. QED
      BY <1>2, <2>1 DEF ReceiveSubmission, Taken, Begun
  <1>3. CASE ReceiveOutput(c)
    <2>1. PICK k \in {Posted(o) : o \in Outputs} \cup {BadRequest} :
             call' = [call EXCEPT ![c] = k]
      BY <1>3 DEF ReceiveOutput
    <2>2. QED
      BY <1>3, <2>1 DEF ReceiveOutput, Begun
  <1>4. QED
    BY <1>1, <1>2, <1>3 DEF Receive

(***************************************************************************)
(* Every step leaves the types as they are.                                *)
(***************************************************************************)
LEMMA LineType ==
    ASSUME GatewayTypeOK, NEW c \in Calls, Req(c) \in Requests, NEW allowed \in BOOLEAN
    PROVE  (Req(c) \in Asked => InputLine(c) \in Line) /\ OutputLine(c, allowed) \in Line
  <1>1. IdOf(c) \in Calls \cup {SharedId, NoId}
    BY DEF IdOf
  <1>2. Req(c) \in Asked => InputLine(c) \in Line
    BY <1>1 DEF InputLine, Line, Requests
  <1>3. Req(c).via = "proxy" => Req(c) \in Asked
    BY GatewayAssumption DEF GatewayAssumption, Requests
  <1>4. OutputLine(c, allowed) \in Line
    BY <1>1, <1>3 DEF OutputLine, Line, Requests
  <1>5. QED
    BY <1>2, <1>4

LEMMA WriteType ==
    ASSUME GatewayTypeOK, NEW c \in Calls, NEW line \in Line, writeLogLine(c, line)
    PROVE  /\ log' \in Seq(Line) /\ unlogged' \subseteq Calls \X {"input", "output"}
           /\ (torn' => faults' > 0)
           /\ restarts' \in 0..MaxRestarts /\ faults' \in 0..MaxFaults
  <1>1. CASE log' = Append(log, line) /\ UNCHANGED rest
    BY <1>1 DEF GatewayTypeOK, rest
  <1>2. CASE /\ faults < MaxFaults /\ faults' = faults + 1
             /\ unlogged' = unlogged \cup {<<c, line.phase>>} /\ UNCHANGED <<log, restarts>>
    <2>1. line.phase \in {"input", "output"}
      BY DEF Line
    <2>2. QED
      BY <1>2, <2>1, GatewayAssumption DEF GatewayTypeOK, GatewayAssumption
  <1>3. QED
    BY <1>1, <1>2 DEF writeLogLine

LEMMA ChargeType ==
    ASSUME GatewayTypeOK, NEW a \in DOMAIN LimitOf, NEW now \in Nat, NEW cost \in Nat
    PROVE  /\ Current(window[a], LimitOf[a], now) \in Window
           /\ Counted(Current(window[a], LimitOf[a], now), cost) \in Window
  <1>1. Current(window[a], LimitOf[a], now) \in Window
    BY GatewayAssumption
    DEF GatewayTypeOK, GatewayAssumption, Current, Opened, Window, NoWindow, Elapsed, Limits
  <1>2. \A w \in Window : w.requests + 1 \in Nat /\ w.cost + cost \in Nat
    BY DEF Window
  <1>3. \A w \in Window : \A x, y \in Nat : [w EXCEPT !.requests = x, !.cost = y] \in Window
    BY DEF Window
  <1>4. QED
    BY <1>1, <1>2, <1>3 DEF Counted

LEMMA CostType == \A r \in Asked : r.cost \in Int
  BY GatewayAssumption DEF GatewayAssumption, Asked, RequestFromHTTP

(***************************************************************************)
(* A step that goes on with a call changes no other call, and leaves what  *)
(* was sent and the registry that decides on it.                           *)
(***************************************************************************)
Same(k, l) == k.sent = l.sent /\ k.req = l.req /\ k.reg = l.reg
GoOn(c) ==
    \/ ReadClock(c) \/ Unlimited(c) \/ InvalidCost(c) \/ Charge(c)
    \/ LogInput(c) \/ Answer(c) \/ ScreenOutput(c)

LEMMA CallSet ==
    ASSUME call \in [Calls -> Call], NEW c \in Calls,
           NEW k \in Call, call' = [call EXCEPT ![c] = k]
    PROVE  /\ call' \in [Calls -> Call] /\ call'[c] = k
           /\ \A d \in Calls : d # c => call'[d] = call[d]
  OBVIOUS

(***************************************************************************)
(* The fields of a call that a step sets.  The sets of words are kept      *)
(* apart, so that an update is typed without looking at their members.     *)
(***************************************************************************)
Steps == {"idle", "time", "charge", "log", "upstream", "screen", "done"}
Verdicts == {"allowed", "unregistered", "prompt", "model", "model undeclared",
             "tool", "guardrail", "budget", "invalid cost", "authentication"}
Replies == {"none", "bad request", "unauthorized", "denied", "admitted",
            "response", "blocked", "cut", "broken", "lost"}
MaybeRequests == Requests \cup {NoRequest}
MaybeSent == Wires \cup Submissions \cup Outputs \cup {NoRequest}
MaybeResponses == Responses \cup {Generated(o) : o \in Outputs} \cup {NoResponse}
MaybeRegistries == Registries \cup {NoRegistry}

LEMMA CallForm ==
    Call = [step : Steps, sent : MaybeSent, req : MaybeRequests, now : Nat,
            verdict : Verdicts, response : MaybeResponses, reg : MaybeRegistries,
            reply : Replies]
  BY DEF Call, Steps, Verdicts, Replies, MaybeSent, MaybeRequests, MaybeResponses,
         MaybeRegistries

LEMMA StepSet ==
    ASSUME NEW k \in Call, NEW s \in Steps
    PROVE  LET l == [k EXCEPT !.step = s] IN l \in Call /\ Same(l, k)
  BY CallForm DEF Same

LEMMA NowSet ==
    ASSUME NEW k \in Call, NEW n \in Nat, NEW s \in Steps
    PROVE  LET l == [k EXCEPT !.now = n, !.step = s] IN l \in Call /\ Same(l, k)
  BY CallForm DEF Same

LEMMA VerdictSet ==
    ASSUME NEW k \in Call, NEW v \in Verdicts, NEW s \in Steps
    PROVE  LET l == [k EXCEPT !.verdict = v, !.step = s] IN l \in Call /\ Same(l, k)
  BY CallForm DEF Same

LEMMA ReplySet ==
    ASSUME NEW k \in Call, NEW s \in Steps, NEW p \in Replies
    PROVE  LET l == [k EXCEPT !.step = s, !.reply = p] IN l \in Call /\ Same(l, k)
  BY CallForm DEF Same

LEMMA ResponseSet ==
    ASSUME NEW k \in Call, NEW r \in Responses, NEW s \in Steps
    PROVE  LET l == [k EXCEPT !.response = r, !.step = s] IN l \in Call /\ Same(l, k)
  BY CallForm DEF Same, MaybeResponses

LEMMA AnswerSet ==
    ASSUME NEW k \in Call, NEW r \in Responses, NEW s \in Steps, NEW p \in Replies
    PROVE  LET l == [k EXCEPT !.response = r, !.step = s, !.reply = p]
           IN  l \in Call /\ Same(l, k)
  BY CallForm DEF Same, MaybeResponses

LEMMA CallGoesOn ==
    ASSUME GatewayTypeOK, NEW c \in Calls, GoOn(c)
    PROVE  /\ call' \in [Calls -> Call] /\ Same(call'[c], call[c])
           /\ \A d \in Calls : d # c => call'[d] = call[d]
  <1>1. call \in [Calls -> Call] /\ clock \in Nat
    BY GatewayAssumption DEF GatewayTypeOK, GatewayAssumption
  <1> SUFFICES \E k \in Call : Same(k, call[c]) /\ call' = [call EXCEPT ![c] = k]
    BY <1>1, CallSet
  <1> DEFINE o == call[c]
  <1>o. o \in Call
    BY <1>1
  <1>s. /\ {"charge", "log", "upstream", "screen", "done"} \subseteq Steps
        /\ {"invalid cost", "budget"} \subseteq Verdicts
        /\ {"unauthorized", "admitted", "denied", "broken", "response", "blocked", "cut"}
              \subseteq Replies
    BY DEF Steps, Verdicts, Replies
  <1> HIDE DEF o
  <1>2. CASE ReadClock(c)
    <2> DEFINE k == [o EXCEPT !.now = clock, !.step = "charge"]
    <2>1. k \in Call /\ Same(k, o)
      BY <1>1, <1>o, <1>s, NowSet
    <2>2. QED
      BY <1>2, <2>1 DEF ReadClock, o
  <1>3. CASE Unlimited(c) \/ InvalidCost(c) \/ Charge(c)
    <2>1. \A v \in {"invalid cost", "budget"} :
             LET k == [o EXCEPT !.verdict = v, !.step = "log"] IN k \in Call /\ Same(k, o)
      BY <1>o, <1>s, VerdictSet
    <2>2. LET k == [o EXCEPT !.step = "log"] IN k \in Call /\ Same(k, o)
      BY <1>o, <1>s, StepSet
    <2>3. QED
      <3>1. \/ call' = [call EXCEPT ![c].step = "log"]
            \/ call' = [call EXCEPT ![c].verdict = "invalid cost", ![c].step = "log"]
            \/ call' = [call EXCEPT ![c].verdict = "budget", ![c].step = "log"]
        BY <1>3 DEF Unlimited, InvalidCost, Charge
      <3>2. \/ \E v \in {"invalid cost", "budget"} :
                 call' = [call EXCEPT ![c] = [o EXCEPT !.verdict = v, !.step = "log"]]
            \/ call' = [call EXCEPT ![c] = [o EXCEPT !.step = "log"]]
        BY <3>1 DEF o
      <3>3. CASE \E v \in {"invalid cost", "budget"} :
                    call' = [call EXCEPT ![c] = [o EXCEPT !.verdict = v, !.step = "log"]]
        <4>1. PICK v \in {"invalid cost", "budget"} :
                 call' = [call EXCEPT ![c] = [o EXCEPT !.verdict = v, !.step = "log"]]
          BY <3>3
        <4> DEFINE k == [o EXCEPT !.verdict = v, !.step = "log"]
        <4>2. k \in Call /\ Same(k, o) /\ call' = [call EXCEPT ![c] = k]
          BY <2>1, <4>1
        <4> HIDE DEF k
        <4>3. QED
          BY <4>2 DEF o
      <3>4. CASE call' = [call EXCEPT ![c] = [o EXCEPT !.step = "log"]]
        <4> DEFINE k == [o EXCEPT !.step = "log"]
        <4>1. k \in Call /\ Same(k, o) /\ call' = [call EXCEPT ![c] = k]
          BY <2>2, <3>4
        <4> HIDE DEF k
        <4>2. QED
          BY <4>1 DEF o
      <3>5. QED
        BY <3>2, <3>3, <3>4
  <1>4. CASE LogInput(c)
    <2>1. \A r \in {"unauthorized", "admitted", "denied"} :
             LET k == [o EXCEPT !.step = "done", !.reply = r] IN k \in Call /\ Same(k, o)
      BY <1>o, <1>s, ReplySet
    <2>2. LET k == [o EXCEPT !.step = "upstream"] IN k \in Call /\ Same(k, o)
      BY <1>o, <1>s, StepSet
    <2>3. Reply(c) \in {"unauthorized", "admitted", "denied"}
      BY DEF Reply
    <2>4. QED
      BY <1>4, <2>1, <2>2, <2>3 DEF LogInput, o
  <1>5. CASE Answer(c)
    <2>1. PICK r \in Responses : call' = [call EXCEPT ![c] =
              IF r.content = "broken"
              THEN [o EXCEPT !.response = r, !.step = "done", !.reply = "broken"]
              ELSE IF Guarded THEN [o EXCEPT !.response = r, !.step = "screen"]
              ELSE [o EXCEPT !.response = r, !.step = "done", !.reply = "response"]]
      BY <1>5 DEF Answer, o
    <2>2. \A v \in {"broken", "response"} :
             LET k == [o EXCEPT !.response = r, !.step = "done", !.reply = v]
             IN  k \in Call /\ Same(k, o)
      BY <1>o, <1>s, AnswerSet
    <2>3. LET k == [o EXCEPT !.response = r, !.step = "screen"] IN k \in Call /\ Same(k, o)
      BY <1>o, <1>s, ResponseSet
    <2>4. QED
      BY <2>1, <2>2, <2>3 DEF o
  <1>6. CASE ScreenOutput(c)
    <2>1. \A v \in {"response", "blocked", "cut"} :
             LET k == [o EXCEPT !.step = "done", !.reply = v] IN k \in Call /\ Same(k, o)
      BY <1>o, <1>s, ReplySet
    <2>2. QED
      BY <1>6, <2>1 DEF ScreenOutput, Withheld, o
  <1>7. QED
    BY <1>2, <1>3, <1>4, <1>5, <1>6 DEF GoOn

LEMMA LostType ==
    ASSUME NEW k \in Call
    PROVE  [k EXCEPT !.step = "done", !.reply = "lost"] \in Call
  BY CallForm DEF Steps, Replies

LEMMA TypeStep ==
    ASSUME GInv, [Next]_vars
    PROVE  GatewayTypeOK' /\ RequestInv'
  <1> USE DEF GInv
  <1>1. CASE UNCHANGED vars
    BY <1>1 DEF vars, rest, GatewayTypeOK, RequestInv
  <1>2. CASE Tick
    BY <1>2, GatewayAssumption DEF Tick, rest, GatewayTypeOK, RequestInv, GatewayAssumption
  <1>3. CASE Restart
    <2>1. call \in [Calls -> Call]
      BY DEF GatewayTypeOK
    <2>2. \A c \in Calls : [call[c] EXCEPT !.step = "done", !.reply = "lost"] \in Call
      BY <2>1, LostType
    <2>3. call' \in [Calls -> Call]
      BY <1>3, <2>1, <2>2 DEF Restart
    <2>4. \A c \in Calls : ~UnderWay(call'[c])
      BY <1>3, <2>1 DEF Restart, UnderWay, Call
    <2>5. window' \in [DOMAIN LimitOf -> Window \cup {NoWindow}] /\ registry' \in Registries
      BY <1>3 DEF Restart
    <2>6. restarts' \in 0..MaxRestarts
      <3>1. MaxRestarts \in Nat /\ restarts \in 0..MaxRestarts
        BY GatewayAssumption DEF GatewayTypeOK, GatewayAssumption
      <3>2. restarts < MaxRestarts /\ restarts' = restarts + 1
        BY <1>3 DEF Restart
      <3>3. QED
        BY <3>1, <3>2
    <2>7. GatewayTypeOK'
      BY <1>3, <2>3, <2>5, <2>6 DEF Restart, GatewayTypeOK
    <2>8. QED
      BY <2>4, <2>7 DEF RequestInv, Read
  <1>4. ASSUME NEW c \in Calls, Receive(c) PROVE GatewayTypeOK' /\ RequestInv'
    <2>1. PICK k : /\ call' = [call EXCEPT ![c] = k]
                   /\ Begun(k)
      BY <1>4, ReceiveStep
    <2>2. k \in Call /\ Read(k)
      <3>1. CASE k = BadRequest
        BY <3>1 DEF BadRequest, Fresh, Call, NoRequest, NoResponse, NoRegistry, UnderWay, Read
      <3>2. ASSUME NEW sent, NEW r, Taken(sent, r), k = Received(sent, r)
            PROVE  k \in Call /\ Read(k)
        <4>1. k.req = r /\ r \in Asked
          BY <3>2 DEF Received, Fresh, Taken, Asked
        <4>2. QED
          BY <3>2, <4>1, ReceivedType DEF Read, Requests
      <3>3. ASSUME NEW o \in Outputs, k = Posted(o) PROVE k \in Call /\ Read(k)
        BY <3>3, PostedType DEF Read, Requests
      <3>4. QED
        BY <2>1, <3>1, <3>2, <3>3 DEF Begun
    <2>3. QED
      BY <1>4, <2>1, <2>2, ReceiveStep DEF GatewayTypeOK, RequestInv, rest
  <1>5. ASSUME NEW c \in Calls, GoOn(c) PROVE GatewayTypeOK' /\ RequestInv'
    <2>1. /\ call' \in [Calls -> Call] /\ Same(call'[c], call[c])
          /\ \A d \in Calls : d # c => call'[d] = call[d]
      BY <1>5, CallGoesOn
    <2>2. Req(c) \in Requests /\ (~ScreenOutput(c) => Req(c) \in Asked)
      <3>1. UnderWay(call[c]) /\ (~ScreenOutput(c) => call[c].step # "screen")
        BY <1>5 DEF GoOn, ReadClock, Unlimited, InvalidCost, Charge, LogInput, Answer,
                    ScreenOutput, At, UnderWay
      <3>2. QED
        BY <3>1 DEF RequestInv, Read, Req
    <2>3. RequestInv'
      <3>1. ~ScreenOutput(c) \/ ~UnderWay(call'[c])
        <4>1. ScreenOutput(c) => call'[c].step = "done"
          <5>1. call \in [Calls -> Call]
            BY DEF GatewayTypeOK
          <5>2. QED
            BY <5>1 DEF ScreenOutput, Call
        <4>2. QED
          BY <4>1 DEF UnderWay
      <3>2. Read(call'[c])
        BY <2>1, <2>2, <3>1 DEF Read, Same, Req, Requests
      <3>3. QED
        BY <2>1, <3>2 DEF RequestInv
    <2>4. GatewayTypeOK'
      <3>1. CASE Charge(c)
        <4> DEFINE a == Req(c).agent
                   w == Current(window[a], LimitOf[a], call[c].now)
        <4>1. a \in DOMAIN LimitOf /\ ~Invalid(Req(c).cost)
          BY <3>1 DEF Charge
        <4>2. Req(c).cost \in Nat
          <5>1. Req(c) \in Asked
            BY <2>2, <3>1 DEF Charge, ScreenOutput, At
          <5>2. QED
            BY <4>1, <5>1, CostType DEF Invalid
        <4>3. call[c].now \in Nat
          <5>1. call[c] \in Call
            BY DEF GatewayTypeOK
          <5>2. QED
            BY <5>1 DEF Call
        <4>4. w \in Window /\ Counted(w, Req(c).cost) \in Window
          BY <4>1, <4>2, <4>3, ChargeType
        <4>5. \/ window' = [window EXCEPT ![a] = Counted(w, Req(c).cost)]
              \/ window' = [window EXCEPT ![a] = w]
          BY <3>1 DEF Charge
        <4>6. window' \in [DOMAIN LimitOf -> Window \cup {NoWindow}]
          BY <4>1, <4>4, <4>5 DEF GatewayTypeOK
        <4>7. UNCHANGED <<registry, clock, log, rest>>
          BY <3>1 DEF Charge
        <4>8. QED
          BY <2>1, <4>6, <4>7 DEF GatewayTypeOK, rest
      <3>2. CASE LogInput(c) \/ ScreenOutput(c)
        <4>1. /\ ~ScreenOutput(c) => InputLine(c) \in Line
              /\ OutputLine(c, OutputAllowed(c)) \in Line
          BY <2>2, LineType DEF OutputAllowed, MayPass
        <4>2. /\ log' \in Seq(Line) /\ unlogged' \subseteq Calls \X {"input", "output"}
              /\ (torn' => faults' > 0)
              /\ restarts' \in 0..MaxRestarts /\ faults' \in 0..MaxFaults
          BY <3>2, <4>1, WriteType DEF LogInput, ScreenOutput
        <4>3. UNCHANGED <<registry, clock, window>>
          BY <3>2 DEF LogInput, ScreenOutput
        <4>4. QED
          BY <2>1, <4>2, <4>3 DEF GatewayTypeOK
      <3>3. CASE UNCHANGED <<registry, clock, window, log, rest>>
        BY <2>1, <3>3 DEF GatewayTypeOK, rest
      <3>4. QED
        BY <1>5, <3>1, <3>2, <3>3
        DEF GoOn, ReadClock, Unlimited, InvalidCost, Answer
    <2>5. QED
      BY <2>3, <2>4
  <1>6. QED
    BY <1>1, <1>2, <1>3, <1>4, <1>5 DEF Next, Receive, GoOn

----------------------------------------------------------------------------
(* The gates                                                               *)

(***************************************************************************)
(* A restart leaves a call as it is, or ends it.                           *)
(***************************************************************************)
LEMMA CallLost ==
    ASSUME GatewayTypeOK, Restart, NEW c \in Calls
    PROVE  \/ call'[c] = call[c]
           \/ /\ Same(call'[c], call[c]) /\ call'[c].response = call[c].response
              /\ call'[c].step = "done" /\ call'[c].reply = "lost" /\ UnderWay(call[c])
  <1>1. call[c] \in Call
    BY DEF GatewayTypeOK
  <1> DEFINE k == [call[c] EXCEPT !.step = "done", !.reply = "lost"]
  <1>2. Same(k, call[c]) /\ k.response = call[c].response /\ k.step = "done" /\ k.reply = "lost"
    BY <1>1 DEF Same, Call
  <1>3. call'[c] = IF UnderWay(call[c]) THEN k ELSE call[c]
    BY DEF Restart, UnderWay
  <1>4. QED
    BY <1>2, <1>3

LEMMA SamePassed ==
    ASSUME NEW k, NEW l, Same(k, l), Passed(l)
    PROVE  Passed(k)
  BY DEF Same, Passed, Admissible

(***************************************************************************)
(* What each step makes of the call it goes on with.                       *)
(***************************************************************************)
Kept(k, o) == k.response = o.response /\ k.reply = o.reply
ToCharge(c, k) == ReadClock(c) /\ k.step = "charge" /\ Kept(k, call[c])
ToLog(c, k) ==
    (Unlimited(c) \/ InvalidCost(c) \/ Charge(c)) /\ k.step = "log" /\ Kept(k, call[c])
FromLog(c, k) ==
    /\ LogInput(c) /\ k.response = call[c].response
    /\ \/ Forwarded(c) /\ k.step = "upstream" /\ k.reply = call[c].reply
       \/ ~Forwarded(c) /\ k.step = "done" /\ k.reply = Reply(c)
Answered(c, k) ==
    /\ Answer(c) /\ k.response \in Responses
    /\ \/ k.response.content = "broken" /\ k.step = "done" /\ k.reply = "broken"
       \/ /\ k.response.content # "broken" /\ Guarded
          /\ k.step = "screen" /\ k.reply = call[c].reply
       \/ k.response.content # "broken" /\ ~Guarded /\ k.step = "done" /\ k.reply = "response"
Closed(c, k) ==
    /\ ScreenOutput(c) /\ k.response = call[c].response /\ k.step = "done"
    /\ k.reply = IF MayPass(k.response) THEN "response" ELSE Withheld(k.response)

LEMMA CallAfter ==
    ASSUME GatewayTypeOK, NEW c \in Calls, GoOn(c), NEW k, k = call'[c]
    PROVE  \/ ToCharge(c, k) \/ ToLog(c, k) \/ FromLog(c, k)
           \/ Answered(c, k) \/ Closed(c, k)
  <1> DEFINE o == call[c]
  <1>1. call \in [Calls -> Call] /\ o \in Call
    BY DEF GatewayTypeOK
  <1>2. CASE ReadClock(c)
    <2>1. k = [o EXCEPT !.now = clock, !.step = "charge"]
      BY <1>1, <1>2 DEF ReadClock
    <2>2. QED
      BY <1>1, <1>2, <2>1 DEF ToCharge, Kept, Call
  <1>3. CASE Unlimited(c) \/ InvalidCost(c) \/ Charge(c)
    <2>1. \/ call' = [call EXCEPT ![c].step = "log"]
          \/ call' = [call EXCEPT ![c].verdict = "invalid cost", ![c].step = "log"]
          \/ call' = [call EXCEPT ![c].verdict = "budget", ![c].step = "log"]
      BY <1>3 DEF Unlimited, InvalidCost, Charge
    <2>2. \/ k = [o EXCEPT !.step = "log"]
          \/ k = [o EXCEPT !.verdict = "invalid cost", !.step = "log"]
          \/ k = [o EXCEPT !.verdict = "budget", !.step = "log"]
      BY <1>1, <2>1
    <2>2a. k.step = "log" /\ Kept(k, o)
      BY <1>1, <2>2 DEF Kept, Call
    <2>3. QED
      BY <1>3, <2>2a DEF ToLog
  <1>4. CASE LogInput(c)
    <2>1. CASE Forwarded(c)
      <3>1. k = [o EXCEPT !.step = "upstream"]
        BY <1>1, <1>4, <2>1 DEF LogInput
      <3>2. QED
        BY <1>1, <1>4, <2>1, <3>1 DEF FromLog, Call
    <2>2. CASE ~Forwarded(c)
      <3>1. k = [o EXCEPT !.step = "done", !.reply = Reply(c)]
        BY <1>1, <1>4, <2>2 DEF LogInput
      <3>2. QED
        BY <1>1, <1>4, <2>2, <3>1 DEF FromLog, Call
    <2>3. QED
      BY <2>1, <2>2
  <1>5. CASE Answer(c)
    <2>1. PICK r \in Responses : call' = [call EXCEPT ![c] =
              IF r.content = "broken"
              THEN [o EXCEPT !.response = r, !.step = "done", !.reply = "broken"]
              ELSE IF Guarded THEN [o EXCEPT !.response = r, !.step = "screen"]
              ELSE [o EXCEPT !.response = r, !.step = "done", !.reply = "response"]]
      BY <1>5 DEF Answer
    <2>2. k = IF r.content = "broken"
              THEN [o EXCEPT !.response = r, !.step = "done", !.reply = "broken"]
              ELSE IF Guarded THEN [o EXCEPT !.response = r, !.step = "screen"]
              ELSE [o EXCEPT !.response = r, !.step = "done", !.reply = "response"]
      BY <1>1, <2>1
    <2>3. QED
      BY <1>1, <1>5, <2>2 DEF Answered, Call
  <1>6. CASE ScreenOutput(c)
    <2> DEFINE reply == IF MayPass(o.response) THEN "response" ELSE Withheld(o.response)
    <2>1. k = [o EXCEPT !.step = "done", !.reply = reply]
      BY <1>1, <1>6 DEF ScreenOutput
    <2>2. QED
      BY <1>1, <1>6, <2>1 DEF Closed, Call
  <1>7. QED
    BY <1>2, <1>3, <1>4, <1>5, <1>6 DEF GoOn

(***************************************************************************)
(* Nothing gets beyond the gates but through them.                         *)
(***************************************************************************)
LEMMA StaysBeyond ==
    ASSUME GatewayTypeOK, NEW c \in Calls, GoOn(c)
    PROVE  (Beyond(call'[c]) => Beyond(call[c])) /\ call'[c].step # "idle"
  <1>0. PICK k : k = call'[c]
    OBVIOUS
  <1>r. k.req = call[c].req
    BY <1>0, CallGoesOn DEF Same
  <1>1. CASE FromLog(c, k)
    <2>1. CASE call[c].verdict = "allowed"
      BY <1>0, <1>r, <1>1, <2>1 DEF FromLog, LogInput, At, Beyond
    <2>2. CASE call[c].verdict # "allowed"
      BY <1>0, <1>r, <1>1, <2>2 DEF FromLog, Forwarded, Reply, Beyond
    <2>3. QED
      BY <2>1, <2>2
  <1>2. CASE ToCharge(c, k) \/ ToLog(c, k)
    BY <1>0, <1>r, <1>2
    DEF ToCharge, ToLog, ReadClock, Unlimited, InvalidCost, Charge, At, Beyond
  <1>3. CASE Answered(c, k) \/ Closed(c, k)
    BY <1>0, <1>r, <1>3 DEF Answered, Closed, Answer, ScreenOutput, At, Beyond
  <1>4. QED
    BY <1>0, <1>1, <1>2, <1>3, CallAfter

LEMMA NoneOfOutput == \A r \in Asked : r.via # "output"
  BY GatewayAssumption DEF GatewayAssumption, Asked, RequestFromHTTP

LEMMA GateStep ==
    ASSUME GInv, [Next]_vars
    PROVE  GateInv'
  <1> USE DEF GInv
  <1>1. CASE UNCHANGED <<call, charges>>
    BY <1>1 DEF GateInv, At, Charged
  <1>2. CASE Restart
    <2> SUFFICES ASSUME NEW c \in Calls
                 PROVE  /\ At(c, "idle")' => ~Charged(c)'
                        /\ Beyond(call'[c]) \/ Charged(c)' => Passed(call'[c])
      BY DEF GateInv
    <2>1. Charged(c)' <=> Charged(c)
      BY <1>2 DEF Restart, Charged
    <2>2. CASE call'[c] = call[c]
      BY <2>1, <2>2 DEF GateInv, At
    <2>3. CASE call'[c] # call[c]
      <3>1. /\ Same(call'[c], call[c]) /\ call'[c].response = call[c].response
            /\ call'[c].step = "done" /\ call'[c].reply = "lost"
        BY <1>2, <2>3, CallLost
      <3>2. Beyond(call'[c]) => Beyond(call[c])
        BY <3>1 DEF Beyond, Same
      <3>3. QED
        BY <2>1, <3>1, <3>2, SamePassed DEF GateInv, At
    <2>4. QED
      BY <2>2, <2>3
  <1>3. ASSUME NEW c \in Calls, Receive(c) PROVE GateInv'
    <2>1. PICK k : /\ call' = [call EXCEPT ![c] = k]
                   /\ Begun(k)
      BY <1>3, ReceiveStep
    <2>2. At(c, "idle") /\ UNCHANGED charges
      BY <1>3, ReceiveStep
    <2>3. k.step # "idle" /\ (Beyond(k) => Passed(k))
      <3>1. CASE k = BadRequest
        BY <3>1 DEF BadRequest, Fresh, Beyond
      <3>2. ASSUME NEW sent, NEW r, Taken(sent, r), k = Received(sent, r)
            PROVE  k.step # "idle" /\ (Beyond(k) => Passed(k))
        <4>1. /\ k.sent = sent /\ k.req = r /\ k.reg = registry /\ k.verdict = Gates(r)
              /\ k.step = IF Gates(r) = "allowed" THEN "time" ELSE "log"
              /\ k.reply = "none" /\ k.response = NoResponse
          BY <3>2 DEF Received, Fresh
        <4>2. Beyond(k) => Gates(r) = "allowed"
          BY <4>1 DEF Beyond
        <4>3. registry \in Registries
          BY DEF GatewayTypeOK
        <4>4. QED
          BY <3>2, <4>1, <4>2, <4>3, GatesPassed
      <3>3. ASSUME NEW o \in Outputs, k = Posted(o) PROVE k.step # "idle" /\ ~Beyond(k)
        BY <3>3, PostedType DEF Beyond
      <3>4. QED
        BY <2>1, <3>1, <3>2, <3>3 DEF Begun
    <2>4. call'[c] = k /\ \A d \in Calls : d # c => call'[d] = call[d]
      BY <2>1 DEF GatewayTypeOK
    <2>5. ~Charged(c) /\ \A d \in Calls : Charged(d)' <=> Charged(d)
      BY <2>2 DEF GateInv, Charged
    <2>6. QED
      BY <2>3, <2>4, <2>5 DEF GateInv, At
  <1>4. ASSUME NEW c \in Calls, GoOn(c) PROVE GateInv'
    <2>1. Same(call'[c], call[c]) /\ \A d \in Calls : d # c => call'[d] = call[d]
      BY <1>4, CallGoesOn
    <2>2. (Beyond(call'[c]) => Beyond(call[c])) /\ call'[c].step # "idle"
      BY <1>4, StaysBeyond
    <2>3. \A d \in Calls : Charged(d)' => Charged(d) \/ (d = c /\ Beyond(call[c]))
      <3>1. CASE Charge(c)
        <4>1. Beyond(call[c])
          <5>1. call[c].step = "charge"
            BY <3>1 DEF Charge, At
          <5>2. call[c].req.via # "output"
            BY <5>1, NoneOfOutput DEF RequestInv, Read, UnderWay
          <5>3. QED
            BY <5>1, <5>2 DEF Beyond
        <4>2. \A h \in charges' : h \in charges \/ h.call = c
          BY <3>1 DEF Charge
        <4>3. QED
          BY <4>1, <4>2 DEF Charged
      <3>2. CASE ~Charge(c)
        <4>1. UNCHANGED charges
          BY <1>4, <3>2 DEF GoOn, ReadClock, Unlimited, InvalidCost, LogInput, Answer,
                            ScreenOutput
        <4>2. QED
          BY <4>1 DEF Charged
      <3>3. QED
        BY <3>1, <3>2
    <2>4. Beyond(call'[c]) \/ Charged(c)' => Passed(call'[c])
      BY <2>1, <2>2, <2>3, SamePassed DEF GateInv
    <2>5. QED
      BY <2>1, <2>2, <2>3, <2>4 DEF GateInv, At
  <1>5. QED
    BY <1>1, <1>2, <1>3, <1>4 DEF Next, Receive, GoOn, vars, Tick

----------------------------------------------------------------------------
(* The log                                                                 *)

(***************************************************************************)
(* The log only grows, by one line at its end or by none.                  *)
(***************************************************************************)
Grown(line) == log' = log \/ log' = Append(log, line)

LEMMA GrownLog ==
    ASSUME log \in Seq(Line), NEW line, Grown(line)
    PROVE  /\ 1..Len(log) \subseteq 1..Len(log') /\ \A i \in 1..Len(log) : log'[i] = log[i]
           /\ \A i \in 1..Len(log') : i \in 1..Len(log) \/ log'[i] = line
  BY DEF Grown

LEMMA LineKept ==
    ASSUME log \in Seq(Line), NEW line, Grown(line), NEW c, Req(c)' = Req(c), InputLogged(c)
    PROVE  InputLogged(c)'
  <1>1. PICK i \in 1..Len(log) : /\ log[i].id = IdOf(c) /\ log[i].agent = Req(c).agent
                                 /\ log[i].phase = "input" /\ log[i].allowed
    BY DEF InputLogged
  <1>2. i \in 1..Len(log') /\ log'[i] = log[i]
    BY GrownLog
  <1>3. IdOf(c)' = IdOf(c)
    BY DEF IdOf
  <1>4. QED
    BY <1>1, <1>2, <1>3 DEF InputLogged

LEMMA LogStep ==
    ASSUME GInv, [Next]_vars
    PROVE  LogInv'
  <1> USE DEF GInv
  <1>0. log \in Seq(Line)
    BY DEF GatewayTypeOK
  <1>1. CASE UNCHANGED <<call, log, unlogged>>
    BY <1>1 DEF LogInv, InputLogged, IdOf, Req
  <1>2. CASE Restart
    <2> SUFFICES ASSUME NEW c \in Calls, <<c, "input">> \notin unlogged', LetGo(call'[c])
                 PROVE  InputLogged(c)'
      BY DEF LogInv
    <2>1. <<c, "input">> \notin unlogged /\ log' = log
      BY <1>2 DEF Restart
    <2>2. LetGo(call[c]) /\ Same(call'[c], call[c])
      BY <1>2, CallLost DEF LetGo, Same
    <2>3. InputLogged(c) /\ Req(c)' = Req(c)
      BY <2>1, <2>2 DEF LogInv, Same, Req
    <2>4. QED
      BY <1>0, <2>1, <2>3, LineKept DEF Grown
  <1>3. ASSUME NEW c \in Calls, Receive(c) PROVE LogInv'
    <2>1. PICK k : call' = [call EXCEPT ![c] = k] /\ Begun(k)
      BY <1>3, ReceiveStep
    <2>2. ~LetGo(k)
      <3>1. CASE k = BadRequest \/ \E sent, r : Taken(sent, r) /\ k = Received(sent, r)
        BY <3>1 DEF BadRequest, Received, Fresh, LetGo
      <3>2. ASSUME NEW o \in Outputs, k = Posted(o) PROVE ~LetGo(k)
        BY <3>2, PostedType DEF LetGo
      <3>3. QED
        BY <2>1, <3>1, <3>2 DEF Begun
    <2>3. call'[c] = k /\ \A d \in Calls : d # c => call'[d] = call[d]
      BY <2>1 DEF GatewayTypeOK
    <2>4. UNCHANGED <<log, unlogged>>
      BY <1>3, ReceiveStep DEF rest
    <2>5. QED
      BY <2>2, <2>3, <2>4 DEF LogInv, InputLogged, IdOf, Req
  <1>4. ASSUME NEW c \in Calls, GoOn(c) PROVE LogInv'
    <2>1. Same(call'[c], call[c]) /\ \A d \in Calls : d # c => call'[d] = call[d]
      BY <1>4, CallGoesOn
    <2>2. \A d \in Calls : Req(d)' = Req(d)
      BY <2>1 DEF Same, Req
    <2>3. (\E line : Grown(line)) /\ unlogged \subseteq unlogged'
      BY <1>4 DEF GoOn, ReadClock, Unlimited, InvalidCost, Charge, LogInput, Answer,
                  ScreenOutput, writeLogLine, Grown, rest
    <2>4. ASSUME NEW d \in Calls, <<d, "input">> \notin unlogged', LetGo(call'[d])
          PROVE  InputLogged(d)'
      <3>1. CASE LetGo(call[d])
        <4>1. InputLogged(d)
          BY <2>3, <2>4, <3>1 DEF LogInv
        <4>2. QED
          BY <1>0, <2>2, <2>3, <4>1, LineKept
      <3>2. CASE ~LetGo(call[d])
        <4>1. d = c
          BY <2>1, <2>4, <3>2
        <4>2. FromLog(c, call'[c])
          <5>1. PICK k : k = call'[c]
            OBVIOUS
          <5>2. k.req = call[c].req /\ LetGo(k)
            BY <2>1, <2>4, <4>1, <5>1 DEF Same
          <5>3. ~ToCharge(c, k) /\ ~ToLog(c, k)
            BY <3>2, <4>1, <5>2 DEF ToCharge, ToLog, Kept, LetGo
          <5>4. ~Answered(c, k)
            BY <3>2, <4>1 DEF Answered, Answer, At, LetGo
          <5>5. ~Closed(c, k)
            <6>1. Closed(c, k) => k.reply # "admitted" /\ call[c].step = "screen"
              BY DEF Closed, ScreenOutput, Withheld, At
            <6>2. QED
              BY <3>2, <4>1, <5>2, <6>1 DEF LetGo, Closed
          <5>6. QED
            BY <1>4, <5>1, <5>3, <5>4, <5>5, CallAfter
        <4>3. call[c].verdict = "allowed"
          <5>1. ~Forwarded(c) => Reply(c) = "admitted" \/ LetGo(call[c])
            BY <2>1, <2>4, <4>1, <4>2 DEF FromLog, LetGo, Same
          <5>2. QED
            BY <3>2, <4>1, <5>1 DEF Forwarded, Reply
        <4>4. log' = Append(log, InputLine(c))
          <5>1. InputLine(c).phase = "input"
            BY DEF InputLine
          <5>2. QED
            BY <2>4, <4>1, <4>2, <5>1 DEF FromLog, LogInput, writeLogLine
        <4>5. log'[Len(log) + 1] = InputLine(c) /\ Len(log) + 1 \in 1..Len(log')
          BY <1>0, <4>4
        <4>6. IdOf(c)' = IdOf(c)
          BY <2>2 DEF IdOf
        <4>7. LET line == InputLine(c)
              IN  /\ line.id = IdOf(c) /\ line.agent = Req(c).agent
                  /\ line.phase = "input" /\ line.allowed
          BY <4>3 DEF InputLine
        <4>8. LET line == log'[Len(log) + 1]
              IN  /\ line.id = IdOf(c)' /\ line.agent = Req(c)'.agent
                  /\ line.phase = "input" /\ line.allowed
          BY <2>2, <4>5, <4>6, <4>7
        <4>9. InputLogged(c)'
          BY <4>5, <4>8 DEF InputLogged
        <4>10. QED
          BY <4>1, <4>9
      <3>3. QED
        BY <3>1, <3>2
    <2>5. QED
      BY <2>4 DEF LogInv
  <1>5. QED
    BY <1>1, <1>2, <1>3, <1>4 DEF Next, Receive, GoOn, vars, Tick, rest

----------------------------------------------------------------------------
(* The response                                                            *)

(***************************************************************************)
(* A line bears the identifier of a call only if it is of that call.       *)
(***************************************************************************)
LEMMA IdOwn ==
    ASSUME NEW c \in Calls, NEW d \in Calls, IdOf(c) = d
    PROVE  c = d
  BY GatewayAssumption DEF GatewayAssumption, IdOf

(***************************************************************************)
(* What is said of a response stays while the call and its own lines do,   *)
(* whatever lines are written under an id it shares.                       *)
(***************************************************************************)
LEMMA OutputKept ==
    ASSUME log \in Seq(Line), NEW line, Grown(line),
           NEW c \in Calls, OutputOf(c), call'[c] = call[c], unlogged \subseteq unlogged',
           OwnLines(c)' = OwnLines(c)
    PROVE  OutputOf(c)'
  <1>1. HasVerdict(c) => HasVerdict(c)'
    <2> SUFFICES ASSUME HasVerdict(c) PROVE HasVerdict(c)'
      OBVIOUS
    <2>1. PICK i \in 1..Len(log) : Tells(c, log[i]) /\ OwnLines(c) \subseteq {i}
      BY DEF HasVerdict
    <2>2. i \in 1..Len(log') /\ log'[i] = log[i]
      BY GrownLog
    <2>3. Req(c)' = Req(c) /\ IdOf(c)' = IdOf(c)
      BY DEF Req, IdOf
    <2>4. PICK l : l = log[i]
      OBVIOUS
    <2>5. Tells(c, l)'
      BY <2>1, <2>3, <2>4 DEF Tells
    <2>6. QED
      BY <2>1, <2>2, <2>4, <2>5 DEF HasVerdict, Tells
  <1>2. (At(c, "screen")' <=> At(c, "screen")) /\ (At(c, "done")' <=> At(c, "done"))
    BY DEF At
  <1>3. QED
    BY <1>1, <1>2 DEF OutputOf

(***************************************************************************)
(* A line that is not the output of a call is not among its own lines.     *)
(***************************************************************************)
LEMMA LinesKept ==
    ASSUME log \in Seq(Line), NEW line, Grown(line), NEW c,
           line.id # c \/ line.phase # "output"
    PROVE  OwnLines(c)' = OwnLines(c)
  <1>1. /\ 1..Len(log) \subseteq 1..Len(log') /\ \A i \in 1..Len(log) : log'[i] = log[i]
        /\ \A i \in 1..Len(log') : i \in 1..Len(log) \/ log'[i] = line
    BY GrownLog
  <1>2. QED
    BY <1>1 DEF OwnLines

(***************************************************************************)
(* A call that has not been judged has no output line, and gets none but   *)
(* from its screening.                                                     *)
(***************************************************************************)
LEMMA OutputUnjudged ==
    ASSUME NEW c \in Calls, OwnLines(c)' = {},
           call'[c].step = "screen" => Screenable(call'[c].response),
           call'[c].reply \notin {"response", "blocked", "cut"}
    PROVE  OutputOf(c)'
  BY DEF OutputOf, Judged, At

LEMMA OutputJudged ==
    ASSUME GatewayTypeOK, Guarded, NEW c \in Calls, OutputOf(c), Closed(c, call'[c]),
           Same(call'[c], call[c])
    PROVE  OutputOf(c)'
  <1> DEFINE k == call'[c]
             r == call[c].response
             line == OutputLine(c, OutputAllowed(c))
             n == Len(log) + 1
  <1>1. /\ At(c, "screen") /\ writeLogLine(c, line)
        /\ k.response = r /\ k.step = "done"
        /\ k.reply = IF MayPass(r) THEN "response" ELSE Withheld(r)
    BY DEF Closed, ScreenOutput
  <1>2. r.content \in {"clean", "dirty", "oversize"}
    BY <1>1 DEF OutputOf, Screenable
  <1>3. k.reply \in {"response", "blocked", "cut"} /\ (k.reply = "response" <=> MayPass(r))
    BY <1>1 DEF Withheld
  <1>4. MayPass(r) => r.content = "clean"
    BY <1>2 DEF MayPass, Screen
  <1>5. OwnLines(c) = {}
    BY <1>1 DEF OutputOf, Judged, At
  <1>6. Req(c)' = Req(c) /\ IdOf(c)' = IdOf(c)
    BY DEF Same, Req, IdOf
  <1>7. ASSUME <<c, "output">> \notin unlogged' PROVE HasVerdict(c)'
    <2>1. /\ line.id = IdOf(c) /\ line.agent = Req(c).agent /\ line.phase = "output"
          /\ line.allowed <=> MayPass(r)
      BY DEF OutputLine, OutputAllowed
    <2>2. log' = Append(log, line) /\ log \in Seq(Line)
      BY <1>1, <1>7, <2>1 DEF writeLogLine, GatewayTypeOK
    <2>3. PICK l : l = line
      OBVIOUS
    <2>4. /\ 1..Len(log') = 1..n /\ log'[n] = l /\ n \in 1..n
          /\ \A i \in 1..n : i # n => i \in 1..Len(log) /\ log'[i] = log[i]
      BY <2>2, <2>3
    <2>5. /\ l.id = IdOf(c)' /\ l.agent = Req(c)'.agent /\ l.phase = "output"
          /\ l.allowed <=> call'[c].reply = "response"
      BY <1>3, <1>6, <2>1, <2>3
    <2>6. OwnLines(c)' \subseteq {n}
      BY <1>5, <2>4 DEF OwnLines
    <2>7. \E i \in 1..Len(log') :
             /\ log'[i].id = IdOf(c)' /\ log'[i].agent = Req(c)'.agent
             /\ log'[i].phase = "output"
             /\ log'[i].allowed <=> call'[c].reply = "response"
             /\ OwnLines(c)' \subseteq {i}
      BY <2>4, <2>5, <2>6
    <2>8. QED
      BY <2>7 DEF HasVerdict, Tells
  <1>8. Judged(k) /\ At(c, "done")' /\ ~At(c, "screen")'
    BY <1>1, <1>3 DEF Judged, At
  <1>9. QED
    BY <1>1, <1>3, <1>4, <1>7, <1>8 DEF OutputOf

LEMMA OutputStep ==
    ASSUME GInv, Guarded, [Next]_vars
    PROVE  OutputInv'
  <1> USE DEF GInv
  <1>0. log \in Seq(Line) /\ call \in [Calls -> Call]
    BY DEF GatewayTypeOK
  <1>s. ASSUME NEW c \in Calls, call'[c] = call[c], UNCHANGED <<log, unlogged>>
        PROVE  OutputOf(c)'
    <2>1. Grown(CHOOSE line \in Line : TRUE) /\ OwnLines(c)' = OwnLines(c)
      BY <1>s DEF Grown, OwnLines
    <2>2. QED
      BY <1>0, <1>s, <2>1, OutputKept DEF OutputInv
  <1>1. CASE UNCHANGED <<call, log, unlogged>>
    BY <1>1, <1>s DEF OutputInv
  <1>2. CASE Restart
    <2> SUFFICES ASSUME NEW c \in Calls PROVE OutputOf(c)'
      BY DEF OutputInv
    <2>1. UNCHANGED <<log, unlogged>> /\ OwnLines(c)' = OwnLines(c)
      BY <1>2 DEF Restart, OwnLines
    <2>2. CASE call'[c] = call[c]
      BY <1>s, <2>1, <2>2
    <2>3. CASE call'[c] # call[c]
      <3>1. call'[c].step = "done" /\ call'[c].reply = "lost" /\ UnderWay(call[c])
        BY <1>2, <2>3, CallLost
      <3>2. OwnLines(c) = {}
        BY <3>1 DEF OutputInv, OutputOf, Judged, UnderWay
      <3>3. QED
        BY <2>1, <3>1, <3>2, OutputUnjudged
    <2>4. QED
      BY <2>2, <2>3
  <1>3. ASSUME NEW c \in Calls, Receive(c) PROVE OutputInv'
    <2>1. PICK k : call' = [call EXCEPT ![c] = k] /\ Begun(k)
      BY <1>3, ReceiveStep
    <2>2. call'[c] = k /\ \A d \in Calls : d # c => call'[d] = call[d]
      BY <1>0, <2>1
    <2>3. UNCHANGED <<log, unlogged>> /\ OwnLines(c)' = OwnLines(c)
      BY <1>3, ReceiveStep DEF rest, OwnLines
    <2>4. (k.step = "screen" => Screenable(k.response)) /\ k.reply \in {"none", "bad request"}
      <3>1. CASE k = BadRequest \/ \E sent, r : Taken(sent, r) /\ k = Received(sent, r)
        BY <3>1 DEF BadRequest, Received, Fresh
      <3>2. ASSUME NEW o \in Outputs, k = Posted(o)
            PROVE  Screenable(k.response) /\ k.reply = "none"
        BY <3>2, PostedType
      <3>3. QED
        BY <2>1, <3>1, <3>2 DEF Begun
    <2>5. OwnLines(c) = {}
      BY <1>3, ReceiveStep DEF OutputInv, OutputOf, Judged, At
    <2>6. OutputOf(c)'
      BY <2>2, <2>3, <2>4, <2>5, OutputUnjudged
    <2>7. \A d \in Calls : d # c => OutputOf(d)'
      BY <1>s, <2>2, <2>3
    <2>8. QED
      BY <2>6, <2>7 DEF OutputInv
  <1>4. ASSUME NEW c \in Calls, GoOn(c) PROVE OutputInv'
    <2>0. PICK k : k = call'[c]
      OBVIOUS
    <2>1. Same(k, call[c]) /\ \A d \in Calls : d # c => call'[d] = call[d]
      BY <1>4, <2>0, CallGoesOn
    <2>2. unlogged \subseteq unlogged'
      BY <1>4 DEF GoOn, ReadClock, Unlimited, InvalidCost, Charge, LogInput, Answer,
                  ScreenOutput, writeLogLine, rest
    <2>3. PICK line : /\ Grown(line)
                      /\ \/ line = InputLine(c) /\ ~ScreenOutput(c)
                         \/ line = OutputLine(c, OutputAllowed(c)) /\ ScreenOutput(c)
      BY <1>4 DEF GoOn, ReadClock, Unlimited, InvalidCost, Charge, LogInput, Answer,
                  ScreenOutput, writeLogLine, Grown
    <2>4. ASSUME NEW d \in Calls, d # c PROVE OutputOf(d)'
      <3>1. line.phase = "input" \/ line.id # d
        BY <2>3, <2>4, IdOwn DEF InputLine, OutputLine
      <3>2. OwnLines(d)' = OwnLines(d)
        BY <1>0, <2>3, <3>1, LinesKept
      <3>3. QED
        BY <1>0, <2>1, <2>2, <2>3, <2>4, <3>2, OutputKept DEF OutputInv
    <2>5. OutputOf(c)'
      <3>0. OutputOf(c)
        BY DEF OutputInv
      <3>1. CASE Closed(c, k)
        BY <2>0, <2>1, <3>0, <3>1, OutputJudged
      <3>2. CASE ~Closed(c, k)
        <4>1. ~ScreenOutput(c) /\ ~Judged(call[c])
          <5>1. ~ScreenOutput(c)
            BY <1>4, <2>0, <3>2, CallAfter
            DEF ToCharge, ToLog, FromLog, Answered, Closed, ReadClock, Unlimited,
                InvalidCost, Charge, LogInput, Answer, ScreenOutput, At
          <5>2. QED
            BY <1>4, <5>1
            DEF GoOn, ReadClock, Unlimited, InvalidCost, Charge, LogInput, Answer, At, Judged
        <4>2. OwnLines(c)' = {}
          <5>1. OwnLines(c)' = OwnLines(c)
            BY <1>0, <2>3, <4>1, LinesKept DEF InputLine
          <5>2. QED
            BY <3>0, <4>1, <5>1 DEF OutputOf
        <4>3. call[c].reply \notin {"response", "blocked", "cut"}
          BY <3>0, <4>1 DEF OutputOf, Judged, At
        <4>4. k.reply \notin {"response", "blocked", "cut"}
          BY <1>4, <2>0, <3>2, <4>3, CallAfter
          DEF ToCharge, ToLog, FromLog, Answered, Kept, Reply
        <4>5. k.step = "screen" => Screenable(k.response)
          <5>1. k.step = "screen" => k.response \in Responses /\ k.response.content # "broken"
            BY <1>4, <2>0, <3>2, CallAfter DEF ToCharge, ToLog, FromLog, Answered
          <5>2. QED
            BY <5>1, GatewayAssumption DEF GatewayAssumption, Screenable
        <4>6. QED
          BY <2>0, <4>2, <4>4, <4>5, OutputUnjudged
      <3>3. QED
        BY <3>1, <3>2
    <2>6. QED
      BY <2>4, <2>5 DEF OutputInv
  <1>5. QED
    BY <1>1, <1>2, <1>3, <1>4 DEF Next, Receive, GoOn, vars, Tick, rest

(***************************************************************************)
(* The invariant is one.                                                   *)
(***************************************************************************)
THEOREM GatewayInductive == Spec => []GInv
  <1>1. Init => GInv
    BY InitGInv
  <1>2. GInv /\ [Next]_vars => GInv'
    <2> SUFFICES ASSUME GInv, [Next]_vars PROVE GInv'
      OBVIOUS
    <2>1. GatewayTypeOK' /\ RequestInv'
      BY TypeStep
    <2>2. GateInv' /\ LogInv'
      BY GateStep, LogStep
    <2>3. Guarded => OutputInv'
      BY OutputStep
    <2>4. QED
      BY <2>1, <2>2, <2>3 DEF GInv
  <1>3. QED
    BY <1>1, <1>2, PTL DEF Spec

----------------------------------------------------------------------------
(* The properties                                                          *)

(***************************************************************************)
(* Every variable keeps its type: no window, call or line of the log is    *)
(* ever half made, whatever fails.                                         *)
(***************************************************************************)
THEOREM GatewayTypeCorrect == Spec => []GatewayTypeOK
  <1>1. GInv => GatewayTypeOK
    BY DEF GInv
  <1>2. QED
    BY <1>1, GatewayInductive, PTL

(***************************************************************************)
(* No request reaches the upstream, or is charged for, that a gate of its  *)
(* time refuses, judged by what was sent and not by what was read of it.   *)
(***************************************************************************)
THEOREM BlockedIsFree == Spec => []BlockedDrawsNothing
  <1>1. GInv => BlockedDrawsNothing
    <2>1. RequestInv => \A c \in Calls : At(c, "upstream") => Req(c).via # "output"
      BY GatewayAssumption
      DEF GatewayAssumption, RequestInv, Read, UnderWay, At, Req, Asked, RequestFromHTTP
    <2>2. QED
      BY <2>1
      DEF GInv, GateInv, Beyond, Charged, Passed, BlockedDrawsNothing, Upstream, At, Req
  <1>2. QED
    BY <1>1, GatewayInductive, PTL

(***************************************************************************)
(* What is forwarded is in the log first, whatever else fails and is       *)
(* killed, unless the write of that very line failed, which the code does  *)
(* not notice (server.go:191).                                             *)
(***************************************************************************)
THEOREM ForwardedIsLogged == Spec => []ForwardedLogged
  <1>1. GInv => ForwardedLogged
    BY DEF GInv, LogInv, LetGo, ForwardedLogged, Upstream, At, Req
  <1>2. QED
    BY <1>1, GatewayInductive, PTL

(***************************************************************************)
(* With a guardrail nothing that a rule matches passes, and the log says   *)
(* of every screened response and output what became of it; once, under an *)
(* id that one call has.                                                   *)
(***************************************************************************)
THEOREM OutputIsJudged == Spec => []OutputVerdict
  <1>1. ASSUME GInv, Guarded, NEW c \in Calls
        PROVE  /\ call[c].reply = "response" => call[c].response.content = "clean"
               /\ Screened(c) => \E i \in OutputLines(c) :
                                     /\ log[i].allowed <=> call[c].reply = "response"
                                     /\ Req(c).id = "own" => OutputLines(c) = {i}
    <2>1. OutputOf(c)
      BY <1>1 DEF GInv, OutputInv
    <2>2. ASSUME Screened(c)
          PROVE  \E i \in OutputLines(c) : /\ log[i].allowed <=> call[c].reply = "response"
                                           /\ Req(c).id = "own" => OutputLines(c) = {i}
      <3>1. HasVerdict(c)
        BY <2>1, <2>2 DEF OutputOf, Screened, Judged, Done, At
      <3>2. PICK i \in 1..Len(log) : Tells(c, log[i]) /\ OwnLines(c) \subseteq {i}
        BY <3>1 DEF HasVerdict
      <3>3. i \in OutputLines(c)
        BY <3>2 DEF Tells, OutputLines
      <3>4. Req(c).id = "own" => OutputLines(c) \subseteq OwnLines(c)
        BY DEF IdOf, OutputLines, OwnLines
      <3>5. QED
        BY <3>2, <3>3, <3>4 DEF Tells
    <2>3. QED
      BY <2>1, <2>2 DEF OutputOf
  <1>2. GInv => OutputVerdict
    BY <1>1 DEF OutputVerdict
  <1>3. QED
    BY <1>2, GatewayInductive, PTL

(***************************************************************************)
(* A registry without findings pins what it lists: an identifier it has is *)
(* of one artifact, which has a version, and an agent's references are to  *)
(* such.                                                                   *)
(***************************************************************************)
LEMMA ListedPinned ==
    ASSUME NEW list, list \in Seq(ToSet(list)), Unversioned(list) = {}, Repeated(list) = {},
           NEW ids, ids \subseteq Ids(list)
    PROVE  Pinned(list, ids)
  <1> SUFFICES ASSUME NEW id \in ids
               PROVE  \E i \in 1..Len(list) :
                          /\ list[i].id = id /\ list[i].versioned
                          /\ \A j \in 1..Len(list) : list[j].id = id => i = j
    BY DEF Pinned
  <1>1. DOMAIN list = 1..Len(list)
    OBVIOUS
  <1>2. PICK a \in ToSet(list) : a.id = id
    BY DEF Ids, IdsOf
  <1>3. PICK i \in 1..Len(list) : list[i] = a
    BY <1>1, <1>2 DEF ToSet
  <1>4. list[i].versioned
    BY <1>2, <1>3 DEF Unversioned, IdsOf
  <1>5. ASSUME NEW j \in 1..Len(list), list[j].id = id, i # j PROVE FALSE
    <2>1. id \in Ids(list)
      OBVIOUS
    <2>2. i < j \/ j < i
      BY <1>5
    <2>3. QED
      BY <1>2, <1>3, <1>5, <2>1, <2>2 DEF Repeated
  <1>6. QED
    BY <1>2, <1>3, <1>4, <1>5

LEMMA NoFindings ==
    ASSUME NEW reg, Validate(reg) = {}
    PROVE  /\ \A list \in {reg.agents, reg.prompts, reg.tools} :
                 Unversioned(list) = {} /\ Repeated(list) = {}
           /\ \A a \in ToSet(reg.agents) :
                 /\ a.owned /\ a.prompts \subseteq Ids(reg.prompts)
                 /\ a.tools \subseteq Ids(reg.tools)
  <1>1. /\ checkVersions(reg) = {} /\ checkOwners(reg) = {}
        /\ checkReferences(reg) = {} /\ checkDuplicateIDs(reg) = {}
    BY DEF Validate
  <1>2. \A rule, ids : Finding(rule, ids) = {} => ids = {}
    BY DEF Finding
  <1>3. \A list \in {reg.agents, reg.prompts, reg.tools} :
            Unversioned(list) = {} /\ Repeated(list) = {}
    BY <1>1, <1>2 DEF checkVersions, checkDuplicateIDs
  <1>4. \A a \in ToSet(reg.agents) : a.owned
    BY <1>1, <1>2 DEF checkOwners, IdsOf
  <1>5. \A a \in ToSet(reg.agents) : /\ a.prompts \subseteq Ids(reg.prompts)
                                     /\ a.tools \subseteq Ids(reg.tools)
    BY <1>1, <1>2 DEF checkReferences, IdsOf
  <1>6. QED
    BY <1>3, <1>4, <1>5

(***************************************************************************)
(* With a registry that Validate has no finding about, what was let        *)
(* through has one owned agent, a versioned prompt and versioned tools.    *)
(***************************************************************************)
THEOREM SurfaceIsQualified == Spec => []QualifiedSurface
  <1>1. ASSUME GInv PROVE QualifiedSurface
    <2> SUFFICES ASSUME NEW c \in Calls, LetThrough(c), Validate(call[c].reg) = {}
                 PROVE  /\ Pinned(call[c].reg.agents, {Req(c).agent})
                        /\ Pinned(call[c].reg.prompts, {Req(c).prompt})
                        /\ Pinned(call[c].reg.tools, Req(c).tools)
                        /\ \E a \in ToSet(call[c].reg.agents) : a.id = Req(c).agent /\ a.owned
      BY DEF QualifiedSurface
    <2> DEFINE reg == call[c].reg
    <2>1. Passed(call[c])
      BY <1>1 DEF GInv, GateInv, LetThrough, Beyond, Req
    <2>2. PICK i \in 1..Len(reg.agents) :
              /\ FirstOf(reg.agents, i, Req(c).agent)
              /\ Req(c).prompt \in reg.agents[i].prompts
              /\ Req(c).tools \subseteq reg.agents[i].tools
      BY <2>1 DEF Passed, Qualified, Req
    <2>3. reg \in Registries \cup {NoRegistry}
      <3>1. call[c] \in Call
        BY <1>1 DEF GInv, GatewayTypeOK
      <3>2. QED
        BY <3>1 DEF Call
    <2>4. reg \in Registries
      BY <2>2, <2>3 DEF NoRegistry
    <2>5. /\ reg.agents \in Seq(ToSet(reg.agents)) /\ reg.prompts \in Seq(ToSet(reg.prompts))
          /\ reg.tools \in Seq(ToSet(reg.tools))
      BY <2>4, RegistriesListed
    <2> DEFINE a == reg.agents[i]
    <2>6. a \in ToSet(reg.agents) /\ a.id = Req(c).agent
      BY <2>2, <2>5 DEF ToSet, FirstOf
    <2>7. /\ {Req(c).agent} \subseteq Ids(reg.agents) /\ {Req(c).prompt} \subseteq Ids(reg.prompts)
          /\ Req(c).tools \subseteq Ids(reg.tools) /\ a.owned
      BY <2>2, <2>6, NoFindings DEF Ids, IdsOf
    <2>8. \A list \in {reg.agents, reg.prompts, reg.tools} :
              Unversioned(list) = {} /\ Repeated(list) = {}
      BY NoFindings
    <2>9. Pinned(reg.agents, {Req(c).agent})
      BY <2>5, <2>7, <2>8, ListedPinned
    <2>10. Pinned(reg.prompts, {Req(c).prompt})
      BY <2>5, <2>7, <2>8, ListedPinned
    <2>11. Pinned(reg.tools, Req(c).tools)
      BY <2>5, <2>7, <2>8, ListedPinned
    <2>12. QED
      BY <2>6, <2>7, <2>9, <2>10, <2>11
  <1>2. QED
    BY <1>1, GatewayInductive, PTL

----------------------------------------------------------------------------
(* The records of a log                                                    *)

(***************************************************************************)
(* The members of a finite set of numbers, in their order: every place has *)
(* exactly one.                                                            *)
(***************************************************************************)
Rank(S, i) == Cardinality(S \cap (1..i))

LEMMA RankRises ==
    ASSUME NEW S, S \subseteq Nat \ {0}, IsFiniteSet(S), NEW i \in S, NEW j \in S, i < j
    PROVE  Rank(S, i) < Rank(S, j)
  <1> DEFINE A == S \cap (1..i)
             B == S \cap (1..j)
  <1>1. A \cup {j} \subseteq B /\ j \notin A /\ i \in Nat /\ j \in Nat
    <2>1. i \in Nat /\ j \in Nat /\ j \in 1..j
      OBVIOUS
    <2>2. \A n \in 1..i : n \in 1..j /\ n # j
      BY <2>1
    <2>3. QED
      BY <2>1, <2>2
  <1>2. IsFiniteSet(A) /\ IsFiniteSet(B)
    BY FS_Subset
  <1> HIDE DEF A, B
  <1>3. Cardinality(A \cup {j}) = Cardinality(A) + 1 /\ Cardinality(A \cup {j}) <= Cardinality(B)
    BY <1>1, <1>2, FS_AddElement, FS_Subset
  <1>4. Cardinality(A) \in Nat /\ Cardinality(B) \in Nat
    BY <1>2, FS_CardinalityType
  <1>5. Cardinality(A) < Cardinality(B)
    BY <1>3, <1>4
  <1>6. QED
    BY <1>5 DEF Rank, A, B

LEMMA RankOnce ==
    ASSUME NEW S, S \subseteq Nat \ {0}, IsFiniteSet(S), NEW i \in S, NEW j \in S,
           Rank(S, i) = Rank(S, j)
    PROVE  i = j
  <1>1. i \in Nat /\ j \in Nat
    OBVIOUS
  <1>2. Rank(S, i) \in Nat /\ Rank(S, j) \in Nat
    <2>1. IsFiniteSet(S \cap (1..i)) /\ IsFiniteSet(S \cap (1..j))
      BY FS_Subset
    <2>2. QED
      BY <2>1, FS_CardinalityType DEF Rank
  <1>3. ~(i < j) /\ ~(j < i)
    <2>1. i < j => Rank(S, i) < Rank(S, j)
      BY RankRises
    <2>2. j < i => Rank(S, j) < Rank(S, i)
      BY RankRises
    <2>3. QED
      BY <1>2, <2>1, <2>2
  <1>4. QED
    BY <1>1, <1>3

LEMMA RankRange ==
    ASSUME NEW S, S \subseteq Nat \ {0}, IsFiniteSet(S), NEW i \in S
    PROVE  Rank(S, i) \in 1..Cardinality(S)
  <1> DEFINE A == S \cap (1..i)
  <1>1. IsFiniteSet(A) /\ Cardinality(A) <= Cardinality(S)
    BY FS_Subset
  <1>2. Cardinality(A) \in Nat /\ Cardinality(S) \in Nat
    BY <1>1, FS_CardinalityType
  <1>3. Cardinality(A) # 0
    <2>1. i \in A
      OBVIOUS
    <2>2. QED
      BY <1>1, <2>1, FS_EmptySet
  <1>4. Cardinality(A) \in 1..Cardinality(S)
    <2> HIDE DEF A
    <2>1. QED
      BY <1>1, <1>2, <1>3
  <1>5. QED
    BY <1>4 DEF Rank

LEMMA EveryRank ==
    ASSUME NEW S, S \subseteq Nat \ {0}, IsFiniteSet(S), NEW n \in 1..Cardinality(S)
    PROVE  \E i \in S : Rank(S, i) = n
  <1> DEFINE T == 1..Cardinality(S)
             rank == [i \in S |-> Rank(S, i)]
  <1>1. Cardinality(S) \in Nat
    BY FS_CardinalityType
  <1>2. IsFiniteSet(T) /\ Cardinality(T) = Cardinality(S)
    BY <1>1, FS_Interval
  <1>3. rank \in [S -> T]
    BY RankRange
  <1>4. rank \in Injection(S, T)
    <2>1. \A i, j \in S : rank[i] = rank[j] => i = j
      BY RankOnce
    <2> HIDE DEF rank, T
    <2>2. QED
      BY <1>3, <2>1 DEF Injection, IsInjective
  <1>5. rank \in Surjection(S, T)
    <2> HIDE DEF rank, T
    <2>1. QED
      BY <1>2, <1>4, FS_Injection
  <1>6. \A m \in T : \E i \in S : rank[i] = m
    <2> HIDE DEF rank, T
    <2>1. QED
      BY <1>5 DEF Surjection
  <1>7. QED
    BY <1>6

LEMMA NthRank ==
    ASSUME NEW S, S \subseteq Nat \ {0}, IsFiniteSet(S), NEW n \in 1..Cardinality(S)
    PROVE  NthOf(S, n) \in S /\ Rank(S, NthOf(S, n)) = n
  <1>1. \E i \in S : Cardinality(S \cap (1..i)) = n
    BY EveryRank DEF Rank
  <1>2. QED
    BY <1>1 DEF NthOf, Rank

LEMMA NthIs ==
    ASSUME NEW S, S \subseteq Nat \ {0}, IsFiniteSet(S), NEW i \in S
    PROVE  Rank(S, i) \in 1..Cardinality(S) /\ NthOf(S, Rank(S, i)) = i
  <1>1. Rank(S, i) \in 1..Cardinality(S)
    BY RankRange
  <1>2. NthOf(S, Rank(S, i)) \in S /\ Rank(S, NthOf(S, Rank(S, i))) = Rank(S, i)
    BY <1>1, NthRank
  <1>3. QED
    BY <1>1, <1>2, RankOnce

(***************************************************************************)
(* Every line is of the interaction of a first line, and no interaction    *)
(* has two of them.                                                        *)
(***************************************************************************)
LEMMA FirstLinesForm ==
    ASSUME NEW lines, Len(lines) \in Nat
    PROVE  /\ FirstLines(lines) \subseteq Nat \ {0} /\ IsFiniteSet(FirstLines(lines))
           /\ FirstLines(lines) \subseteq 1..Len(lines)
           /\ Cardinality(FirstLines(lines)) \in Nat
  <1>1. FirstLines(lines) \subseteq 1..Len(lines)
    BY DEF FirstLines
  <1>2. IsFiniteSet(FirstLines(lines))
    <2>1. IsFiniteSet(1..Len(lines))
      BY FS_Interval
    <2>2. QED
      BY <1>1, <2>1, FS_Subset
  <1>3. QED
    BY <1>1, <1>2, FS_CardinalityType

LEMMA FirstLineOf ==
    ASSUME NEW lines, Len(lines) \in Nat, NEW i \in 1..Len(lines), lines[i].id # NoId
    PROVE  \E f \in FirstLines(lines) : lines[f].id = lines[i].id
  <1> DEFINE I == {j \in 1..Len(lines) : lines[j].id = lines[i].id}
  <1>1. I \subseteq Nat /\ i \in I
    OBVIOUS
  <1>2. Min(I) \in I /\ \A j \in I : Min(I) <= j
    <2> HIDE DEF I
    <2>1. QED
      BY <1>1, LeastIndex
  <1>3. PICK f \in I : \A j \in I : f <= j
    BY <1>2
  <1>4. ASSUME NEW j \in 1..(f - 1) PROVE ~SameInteraction(lines, f, j)
    <2>1. j \in 1..Len(lines) /\ ~(f <= j)
      BY <1>3
    <2>2. lines[j].id # lines[i].id /\ j # f
      BY <1>3, <2>1
    <2>3. QED
      BY <1>3, <2>2 DEF SameInteraction
  <1>5. f \in FirstLines(lines)
    BY <1>3, <1>4 DEF FirstLines, IsFirst
  <1>6. QED
    BY <1>3, <1>5

LEMMA FirstLineOnce ==
    ASSUME NEW lines, Len(lines) \in Nat, NEW f \in FirstLines(lines), NEW g \in FirstLines(lines),
           lines[f].id = lines[g].id, lines[f].id # NoId
    PROVE  f = g
  <1>1. ASSUME NEW h \in FirstLines(lines), NEW k \in FirstLines(lines), h < k,
               lines[h].id = lines[k].id, lines[k].id # NoId
        PROVE  FALSE
    <2>1. h \in 1..(k - 1) /\ IsFirst(lines, k)
      BY <1>1 DEF FirstLines
    <2>2. QED
      BY <1>1, <2>1 DEF IsFirst, SameInteraction
  <1>2. f \in Nat /\ g \in Nat
    BY DEF FirstLines
  <1>3. ~(f < g) /\ ~(g < f)
    BY <1>1
  <1>4. QED
    BY <1>2, <1>3

(***************************************************************************)
(* The records are those of the first lines.                               *)
(***************************************************************************)
RecordOf(reg, lines, i) ==
    [subject |-> <<lines[i].agent, lines[i].id>>, result |-> Worst(reg, lines, i)]

LEMMA RecordsForm ==
    ASSUME NEW reg, NEW lines, Len(lines) \in Nat,
           NEW record, record = AgentRecords(reg, lines)
    PROVE  LET first == FirstLines(lines)
           IN  /\ Len(record) = Cardinality(first)
               /\ \A n \in 1..Cardinality(first) :
                     /\ NthOf(first, n) \in first /\ Rank(first, NthOf(first, n)) = n
                     /\ record[n] = RecordOf(reg, lines, NthOf(first, n))
               /\ \A i \in first :
                     /\ Rank(first, i) \in 1..Cardinality(first)
                     /\ record[Rank(first, i)] = RecordOf(reg, lines, i)
  <1> DEFINE first == FirstLines(lines)
  <1>1. first \subseteq Nat \ {0} /\ IsFiniteSet(first) /\ Cardinality(first) \in Nat
    BY FirstLinesForm
  <1>2. record = [n \in 1..Cardinality(first) |-> RecordOf(reg, lines, NthOf(first, n))]
    BY DEF AgentRecords, RecordOf
  <1> HIDE DEF first
  <1>3. Len(record) = Cardinality(first)
    BY <1>1, <1>2
  <1>4. \A n \in 1..Cardinality(first) :
           /\ NthOf(first, n) \in first /\ Rank(first, NthOf(first, n)) = n
           /\ record[n] = RecordOf(reg, lines, NthOf(first, n))
    BY <1>1, <1>2, NthRank
  <1>5. \A i \in first : /\ Rank(first, i) \in 1..Cardinality(first)
                         /\ record[Rank(first, i)] = RecordOf(reg, lines, i)
    BY <1>1, <1>2, NthIs
  <1>6. QED
    BY <1>3, <1>4, <1>5 DEF first

(***************************************************************************)
(* What a longer log says of the interactions of a shorter one.            *)
(***************************************************************************)
Extends(more, lines) ==
    /\ Len(lines) \in Nat /\ Len(more) \in Nat /\ Len(lines) <= Len(more)
    /\ \A i \in 1..Len(lines) : more[i] = lines[i]

LEMMA FirstLinesKept ==
    ASSUME NEW lines, NEW more, Extends(more, lines)
    PROVE  /\ FirstLines(lines) \subseteq FirstLines(more)
           /\ \A i \in FirstLines(lines) :
                 FirstLines(more) \cap (1..i) = FirstLines(lines) \cap (1..i)
  <1>0. 1..Len(lines) \subseteq 1..Len(more)
    BY DEF Extends
  <1>1. \A i, j \in 1..Len(lines) : SameInteraction(more, i, j) <=> SameInteraction(lines, i, j)
    BY DEF Extends, SameInteraction
  <1>2. ASSUME NEW i \in 1..Len(lines) PROVE IsFirst(more, i) <=> IsFirst(lines, i)
    <2>1. 1..(i - 1) \subseteq 1..Len(lines)
      BY DEF Extends
    <2>2. QED
      BY <1>1, <2>1 DEF IsFirst
  <1>3. \A i \in 1..Len(lines) : i \in FirstLines(more) <=> i \in FirstLines(lines)
    BY <1>0, <1>2 DEF FirstLines
  <1>4. FirstLines(lines) \subseteq 1..Len(lines)
    BY DEF FirstLines
  <1>5. ASSUME NEW i \in FirstLines(lines)
        PROVE  FirstLines(more) \cap (1..i) = FirstLines(lines) \cap (1..i)
    <2>1. 1..i \subseteq 1..Len(lines)
      BY <1>4 DEF Extends
    <2>2. QED
      BY <1>3, <2>1
  <1>6. QED
    BY <1>3, <1>4, <1>5

LEMMA WorstStays ==
    ASSUME NEW reg, NEW lines, NEW more, Extends(more, lines), NEW i \in 1..Len(lines),
           Worst(reg, lines, i) = "not-satisfied"
    PROVE  Worst(reg, more, i) = "not-satisfied"
  <1>1. PICK j \in 1..Len(lines) : /\ SameInteraction(lines, i, j)
                                   /\ LineResult(reg, lines[j]) # "satisfied"
    BY DEF Worst
  <1>2. j \in 1..Len(more) /\ more[j] = lines[j] /\ more[i] = lines[i]
    BY DEF Extends
  <1>3. SameInteraction(more, i, j)
    BY <1>1, <1>2 DEF SameInteraction
  <1>4. QED
    BY <1>1, <1>2, <1>3 DEF Worst

LEMMA RecordsGrow ==
    ASSUME NEW reg, NEW lines, NEW more, Extends(more, lines),
           NEW before, before = AgentRecords(reg, lines),
           NEW after, after = AgentRecords(reg, more)
    PROVE  /\ Len(before) <= Len(after)
           /\ \A n \in 1..Len(before) :
                 /\ after[n].subject = before[n].subject
                 /\ before[n].result = "not-satisfied" => after[n].result = "not-satisfied"
  <1> DEFINE F == FirstLines(lines)
             G == FirstLines(more)
  <1>0. Len(lines) \in Nat /\ Len(more) \in Nat
    BY DEF Extends
  <1>1. F \subseteq G /\ \A i \in F : G \cap (1..i) = F \cap (1..i)
    BY FirstLinesKept
  <1>2. /\ F \subseteq 1..Len(lines) /\ IsFiniteSet(G)
        /\ Cardinality(F) \in Nat /\ Cardinality(G) \in Nat
    BY <1>0, FirstLinesForm
  <1>3. /\ Len(before) = Cardinality(F)
        /\ \A n \in 1..Cardinality(F) :
              /\ NthOf(F, n) \in F /\ Rank(F, NthOf(F, n)) = n
              /\ before[n] = RecordOf(reg, lines, NthOf(F, n))
    BY <1>0, RecordsForm
  <1>4. /\ Len(after) = Cardinality(G)
        /\ \A i \in G : after[Rank(G, i)] = RecordOf(reg, more, i)
    BY <1>0, RecordsForm
  <1> HIDE DEF F, G
  <1>5. Len(before) <= Len(after)
    BY <1>1, <1>2, <1>3, <1>4, FS_Subset
  <1>6. ASSUME NEW n \in 1..Len(before)
        PROVE  /\ after[n].subject = before[n].subject
               /\ before[n].result = "not-satisfied" => after[n].result = "not-satisfied"
    <2>1. PICK i \in F : Rank(F, i) = n /\ before[n] = RecordOf(reg, lines, i)
      BY <1>3
    <2>2. Rank(G, i) = n /\ i \in G /\ i \in 1..Len(lines)
      BY <1>1, <1>2, <2>1 DEF Rank
    <2>3. after[n] = RecordOf(reg, more, i)
      BY <1>4, <2>2
    <2>4. more[i] = lines[i]
      BY <2>2 DEF Extends
    <2>5. QED
      BY <2>1, <2>2, <2>3, <2>4, WorstStays DEF RecordOf
  <1>7. QED
    BY <1>5, <1>6

LEMMA LogExtends ==
    ASSUME GatewayTypeOK, [Next]_vars
    PROVE  Extends(log', log)
  <1>1. log \in Seq(Line)
    BY DEF GatewayTypeOK
  <1>2. \E line : log' = log \/ log' = Append(log, line)
    BY ReceiveStep
    DEF Next, vars, Tick, Restart, Receive, ReadClock, Unlimited, InvalidCost, Charge, LogInput,
        Answer, ScreenOutput, writeLogLine, rest, ReceiveWire, ReceiveSubmission, ReceiveOutput
  <1>3. QED
    BY <1>1, <1>2 DEF Extends

(***************************************************************************)
(* Either transport brings what it brought before.                         *)
(***************************************************************************)
LEMMA ParsedExtends ==
    ASSUME NEW more, more \in Seq(Line), NEW lines, lines \in Seq(Line), Extends(more, lines),
           NEW transport \in Transports
    PROVE  Extends(parseTraces(transport, more), parseTraces(transport, lines))
  <1>1. CASE transport = "lines"
    BY <1>1 DEF parseTraces
  <1>2. CASE transport # "lines"
    <2>1. /\ parseTraces(transport, more) = [i \in 1..Len(more) |-> spanToTrace(more[i])]
          /\ parseTraces(transport, lines) = [i \in 1..Len(lines) |-> spanToTrace(lines[i])]
      BY <1>2 DEF parseTraces
    <2>2. QED
      BY <2>1 DEF Extends
  <1>3. QED
    BY <1>1, <1>2

(***************************************************************************)
(* What a longer log keeps of the report that was drawn from it before.    *)
(***************************************************************************)
Keeps(before, after) ==
    /\ Len(before) <= Len(after)
    /\ \A n \in 1..Len(before) :
          /\ after[n].subject = before[n].subject
          /\ before[n].result = "not-satisfied" => after[n].result = "not-satisfied"

LEMMA ReportKeeps ==
    ASSUME NEW more, more \in Seq(Line), NEW lines, lines \in Seq(Line), Extends(more, lines),
           NEW transport \in Transports, NEW reg, NEW tear, NEW torn2,
           NEW before \in Reports(transport, reg, lines, tear),
           NEW after \in Reports(transport, reg, more, torn2)
    PROVE  Keeps(before, after)
  <1>1. PICK a, b : a = parseTraces(transport, lines) /\ b = parseTraces(transport, more)
    OBVIOUS
  <1>2. before = AgentRecords(reg, a) /\ after = AgentRecords(reg, b)
    BY <1>1 DEF Reports
  <1>3. Extends(b, a)
    BY <1>1, ParsedExtends
  <1>4. QED
    BY <1>2, <1>3, RecordsGrow DEF Keeps

(***************************************************************************)
(* Of two reports that can be drawn while the registry stays, the later    *)
(* never takes back a lapse, nor moves or drops a record, for any calls,   *)
(* shared ids, registries, restarts and faults.                            *)
(***************************************************************************)
THEOREM EvidenceStays == Spec => EvidenceMonotone
  <1>1. ASSUME GatewayTypeOK, GatewayTypeOK', [Next]_vars
        PROVE  [registry' = registry =>
                  \A transport \in Transports :
                     \A before \in Reports(transport, registry, log, torn),
                        after \in Reports(transport, registry', log', torn') :
                       /\ Len(before) <= Len(after)
                       /\ \A n \in 1..Len(before) :
                             /\ after[n].subject = before[n].subject
                             /\ before[n].result = "not-satisfied" =>
                                   after[n].result = "not-satisfied"]_vars
    <2>1. PICK lines, more, reg, old, new :
             lines = log /\ more = log' /\ reg = registry /\ old = torn /\ new = torn'
      OBVIOUS
    <2>2. Extends(more, lines) /\ lines \in Seq(Line) /\ more \in Seq(Line)
      BY <1>1, <2>1, LogExtends DEF GatewayTypeOK
    <2>3. \A transport \in Transports :
             \A before \in Reports(transport, reg, lines, old),
                after \in Reports(transport, reg, more, new) : Keeps(before, after)
      BY <2>2, ReportKeeps
    <2>4. registry' = registry =>
             \A transport \in Transports :
                /\ Reports(transport, registry, log, torn) = Reports(transport, reg, lines, old)
                /\ Reports(transport, registry', log', torn') = Reports(transport, reg, more, new)
      BY <2>1
    <2>5. QED
      BY <2>3, <2>4 DEF Keeps
  <1>2. QED
    BY <1>1, GatewayTypeCorrect, PTL DEF Spec, EvidenceMonotone

----------------------------------------------------------------------------
(* The invariant of the evidence                                           *)

(***************************************************************************)
(* How far a call has come shows in its reply.                             *)
(***************************************************************************)
Ends(k) ==
    /\ k.step = "idle" => k.req = NoRequest
    /\ UnderWay(k) => k.req # NoRequest
    /\ k.req = NoRequest => k.reply \in {"none", "bad request"}
    /\ k.step # "done" => k.reply = "none"
    /\ k.step = "done" => k.req = NoRequest \/ k.reply \notin {"none", "bad request"}
    /\ k.step = "upstream" \/ k.reply = "broken" => k.req.via = "proxy"
    /\ k.step = "screen" \/ k.reply \in {"response", "blocked", "cut", "broken"} =>
          k.req.via \in {"proxy", "output"} /\ k.response # NoResponse
    /\ k.step \in {"time", "charge", "log"} => k.req.via # "output"
Decided(k) == Decide(k.reg, k.req, k.req.via = "proxy") = "allowed"
CallInv == \A c \in Calls : Ends(call[c]) /\ (Beyond(call[c]) => Decided(call[c]))

(***************************************************************************)
(* Every line is of a call: it names what the call was given, or leaves it *)
(* out, and is allowed only if the registry of its time qualified it, or   *)
(* if it is of an output, that passed; one that is not allowed is of a     *)
(* call that was refused.                                                  *)
(***************************************************************************)
LineOf(line, c) ==
    /\ Req(c) # NoRequest /\ line.id = IdOf(c)
    /\ line.agent = Req(c).agent /\ line.prompt = Req(c).prompt
    /\ line.model \in {Req(c).model, NoModel} /\ line.tools \in {Req(c).tools, {}}
    /\ line.allowed /\ Req(c).via # "output" => Decided(call[c])
    /\ line.allowed /\ Req(c).via = "output" => call[c].reply = "response"
    /\ Req(c).via = "output" => line.model = NoModel /\ line.tools = {}
    /\ ~line.allowed => Refused(c)
LinesInv == \A i \in 1..Len(log) : \E c \in Calls : LineOf(log[i], c)

(***************************************************************************)
(* A refusal, and an output that passed, is in the log, unless a write     *)
(* failed.                                                                 *)
(***************************************************************************)
Lossy(c) == \E phase \in {"input", "output"} : <<c, phase>> \in unlogged
Decisive(c) == Refused(c) \/ (Req(c).via = "output" /\ call[c].reply = "response")
Says(c, line) ==
    /\ line.id = IdOf(c) /\ line.agent = Req(c).agent /\ line.prompt = Req(c).prompt
    /\ Refused(c) => ~line.allowed
Recorded(c) == \E i \in 1..Len(log) : Says(c, log[i])
DecisionInv == \A c \in Calls : Decisive(c) /\ ~Lossy(c) => Recorded(c)

EInv == CallInv /\ LinesInv /\ DecisionInv

LEMMA NoRequestSent ==
    /\ NoRequest \notin Requests /\ NoResponse \notin Responses
    /\ \A sent, r : Taken(sent, r) => r # NoRequest /\ r.via # "output"
    /\ \A o \in Outputs : o # NoRequest /\ Generated(o) # NoResponse
  <1>1. \A r \in Submissions : r # NoRequest /\ r.via # "output"
    BY GatewayAssumption DEF GatewayAssumption, NoRequest
  <1>2. \A wire \in Wires : RequestFromHTTP(wire).via = "proxy" /\ NoRequest.via = "none"
    BY GatewayAssumption DEF GatewayAssumption, RequestFromHTTP, NoRequest
  <1>3. NoResponse \notin Responses /\ \A o \in Outputs : Generated(o) # NoResponse
    BY GatewayAssumption DEF GatewayAssumption, NoResponse, Generated
  <1>4. \A o \in Outputs : o # NoRequest
    BY GatewayAssumption DEF GatewayAssumption, NoRequest
  <1>5. QED
    BY <1>1, <1>2, <1>3, <1>4 DEF Requests, Asked, Taken

LEMMA InitEInv == Init => EInv
  <1> SUFFICES ASSUME Init PROVE EInv
    OBVIOUS
  <1>1. \A c \in Calls : call[c] = Fresh
    BY DEF Init
  <1>2. Ends(Fresh) /\ ~Beyond(Fresh) /\ Fresh.reply = "none"
    BY DEF Fresh, Ends, Beyond, UnderWay
  <1>3. Len(log) = 0
    BY DEF Init
  <1>4. QED
    BY <1>1, <1>2, <1>3 DEF EInv, CallInv, LinesInv, DecisionInv, Decisive, Refused

LEMMA EndsReceived ==
    ASSUME GatewayTypeOK, NEW k, Begun(k)
    PROVE  Ends(k) /\ (Beyond(k) => Decided(k))
  <1>1. CASE k = BadRequest
    BY <1>1 DEF BadRequest, Fresh, Ends, Beyond, UnderWay
  <1>2. ASSUME NEW sent, NEW r, Taken(sent, r), k = Received(sent, r)
        PROVE  Ends(k) /\ (Beyond(k) => Decided(k))
    <2>1. /\ k.req = r /\ k.reg = registry /\ k.verdict = Gates(r) /\ k.reply = "none"
          /\ k.response = NoResponse /\ k.step = IF Gates(r) = "allowed" THEN "time" ELSE "log"
      BY <1>2 DEF Received, Fresh
    <2>2. r # NoRequest /\ r.via # "output"
      BY <1>2, NoRequestSent
    <2>3. Gates(r) = "allowed" => Decide(registry, r, r.via = "proxy") = "allowed"
      BY DEF Gates
    <2>4. QED
      BY <2>1, <2>2, <2>3 DEF Ends, Beyond, UnderWay, Decided
  <1>3. ASSUME NEW o \in Outputs, k = Posted(o)
        PROVE  Ends(k) /\ (Beyond(k) => Decided(k))
    <2>1. /\ k.req = o /\ k.step = "screen" /\ k.reply = "none" /\ o.via = "output"
          /\ k.response = Generated(o)
      BY <1>3, PostedType
    <2>2. o # NoRequest /\ Generated(o) # NoResponse
      BY NoRequestSent
    <2>3. QED
      BY <2>1, <2>2 DEF Ends, Beyond, UnderWay
  <1>4. QED
    BY <1>1, <1>2, <1>3 DEF Begun

LEMMA EndsAfter ==
    ASSUME GatewayTypeOK, NEW c \in Calls, GoOn(c), Ends(call[c])
    PROVE  Ends(call'[c])
  <1> DEFINE o == call[c]
  <1>0. PICK k : k = call'[c]
    OBVIOUS
  <1>1. Same(k, o)
    BY <1>0, CallGoesOn
  <1>2. k.req = o.req
    BY <1>1 DEF Same
  <1> USE DEF Ends, UnderWay, At
  <1>3. CASE ToCharge(c, k) \/ ToLog(c, k)
    BY <1>0, <1>2, <1>3
    DEF ToCharge, ToLog, ReadClock, Unlimited, InvalidCost, Charge, Kept
  <1>4. CASE FromLog(c, k)
    <2>1. Reply(c) \in {"unauthorized", "admitted", "denied"}
      BY DEF Reply
    <2>2. o.step = "log" /\ k.response = o.response
      BY <1>4 DEF FromLog, LogInput
    <2>3. \/ k.step = "upstream" /\ k.reply = o.reply /\ o.req.via = "proxy"
          \/ k.step = "done" /\ k.reply \in {"unauthorized", "admitted", "denied"}
      BY <1>4, <2>1 DEF FromLog, Forwarded, Req
    <2>4. QED
      BY <1>0, <1>2, <2>2, <2>3
  <1>5. CASE Answered(c, k)
    BY <1>0, <1>2, <1>5, NoRequestSent DEF Answered, Answer
  <1>6. CASE Closed(c, k)
    <2>1. o.step = "screen" /\ k.step = "done" /\ k.response = o.response
      BY <1>6 DEF Closed, ScreenOutput
    <2>2. k.reply \in {"response", "blocked", "cut"}
      BY <1>6 DEF Closed, Withheld
    <2>3. QED
      BY <1>0, <1>2, <2>1, <2>2
  <1>7. QED
    BY <1>0, <1>3, <1>4, <1>5, <1>6, CallAfter

LEMMA SameDecided ==
    ASSUME NEW k, NEW l, Same(k, l), Decided(l)
    PROVE  Decided(k)
  BY DEF Same, Decided

LEMMA CallStep ==
    ASSUME GInv, CallInv, [Next]_vars
    PROVE  CallInv'
  <1>0. GatewayTypeOK /\ registry \in Registries /\ call \in [Calls -> Call]
    BY DEF GInv, GatewayTypeOK
  <1> SUFFICES ASSUME NEW c \in Calls
               PROVE  Ends(call'[c]) /\ (Beyond(call'[c]) => Decided(call'[c]))
    BY DEF CallInv
  <1>1. Ends(call[c]) /\ (Beyond(call[c]) => Decided(call[c]))
    BY DEF CallInv
  <1>2. CASE call'[c] = call[c]
    BY <1>1, <1>2
  <1>3. CASE Restart
    <2>1. CASE call'[c] # call[c]
      <3>1. /\ Same(call'[c], call[c]) /\ call'[c].response = call[c].response
            /\ call'[c].step = "done" /\ call'[c].reply = "lost" /\ UnderWay(call[c])
        BY <1>0, <1>3, <2>1, CallLost
      <3>2. Ends(call'[c])
        BY <1>1, <3>1 DEF Ends, UnderWay, Same
      <3>3. Beyond(call'[c]) => Beyond(call[c])
        BY <3>1 DEF Beyond, Same
      <3>4. QED
        BY <1>1, <3>1, <3>2, <3>3, SameDecided
    <2>2. QED
      BY <1>2, <2>1
  <1>4. ASSUME NEW d \in Calls, Receive(d)
        PROVE  Ends(call'[c]) /\ (Beyond(call'[c]) => Decided(call'[c]))
    <2>1. PICK k : /\ call' = [call EXCEPT ![d] = k]
                   /\ Begun(k)
      BY <1>4, ReceiveStep
    <2>2. Ends(k) /\ (Beyond(k) => Decided(k))
      BY <1>0, <2>1, EndsReceived
    <2>3. call'[c] = k \/ call'[c] = call[c]
      BY <1>0, <2>1
    <2>4. QED
      BY <1>2, <2>2, <2>3
  <1>5. ASSUME NEW d \in Calls, GoOn(d)
        PROVE  Ends(call'[c]) /\ (Beyond(call'[c]) => Decided(call'[c]))
    <2>1. CASE c = d
      BY <1>0, <1>1, <1>5, <2>1, EndsAfter, StaysBeyond, CallGoesOn, SameDecided
    <2>2. CASE c # d
      BY <1>0, <1>2, <1>5, <2>2, CallGoesOn
    <2>3. QED
      BY <2>1, <2>2
  <1>6. QED
    BY <1>2, <1>3, <1>4, <1>5 DEF Next, Receive, GoOn, vars, Tick

(***************************************************************************)
(* What has been received keeps its request, and what is over stays.       *)
(***************************************************************************)
LEMMA DecisiveEnds ==
    ASSUME CallInv, NEW c \in Calls, Refused(c) \/ call[c].reply = "response"
    PROVE  At(c, "done") /\ Req(c) # NoRequest
  BY DEF CallInv, Ends, Refused, At, Req, UnderWay

LEMMA CallStays ==
    ASSUME GInv, CallInv, [Next]_vars, NEW c \in Calls, Req(c) # NoRequest
    PROVE  Same(call'[c], call[c]) /\ (At(c, "done") => call'[c] = call[c])
  <1>0. GatewayTypeOK /\ call \in [Calls -> Call]
    BY DEF GInv, GatewayTypeOK
  <1>1. CASE call'[c] = call[c]
    BY <1>1 DEF Same
  <1>2. CASE Restart
    <2>1. At(c, "done") => ~UnderWay(call[c])
      BY DEF UnderWay, At
    <2>2. QED
      BY <1>0, <1>1, <1>2, <2>1, CallLost
  <1>3. ASSUME NEW d \in Calls, Receive(d) PROVE call'[c] = call[c]
    <2>1. At(d, "idle") /\ \E k : call' = [call EXCEPT ![d] = k]
      BY <1>3, ReceiveStep
    <2>2. c # d
      BY <2>1 DEF CallInv, Ends, At, Req
    <2>3. QED
      BY <1>0, <2>1, <2>2
  <1>4. ASSUME NEW d \in Calls, GoOn(d)
        PROVE  Same(call'[c], call[c]) /\ (At(c, "done") => call'[c] = call[c])
    <2>1. CASE c # d
      BY <1>0, <1>1, <1>4, <2>1, CallGoesOn
    <2>2. CASE c = d
      <3>1. ~At(c, "done")
        BY <1>4, <2>2 DEF GoOn, ReadClock, Unlimited, InvalidCost, Charge, LogInput, Answer,
                          ScreenOutput, At
      <3>2. QED
        BY <1>0, <1>4, <2>2, <3>1, CallGoesOn
    <2>3. QED
      BY <2>1, <2>2
  <1>5. QED
    BY <1>1, <1>2, <1>3, <1>4 DEF Next, Receive, GoOn, vars, Tick

LEMMA LineOfStays ==
    ASSUME GInv, CallInv, [Next]_vars, NEW c \in Calls, NEW line, LineOf(line, c)
    PROVE  LineOf(line, c)'
  <1>1. Same(call'[c], call[c]) /\ (At(c, "done") => call'[c] = call[c])
    BY CallStays DEF LineOf
  <1>2. Req(c)' = Req(c) /\ IdOf(c)' = IdOf(c)
    BY <1>1 DEF Same, Req, IdOf
  <1>3. /\ Refused(c) => Refused(c)'
        /\ call[c].reply = "response" => call'[c].reply = "response"
    BY <1>1, DecisiveEnds DEF Refused
  <1>4. Decided(call[c]) => Decided(call'[c])
    BY <1>1, SameDecided
  <1>5. QED
    BY <1>2, <1>3, <1>4 DEF LineOf

(***************************************************************************)
(* The line a step writes is of its call, and tells a refusal.             *)
(***************************************************************************)
Wrote(c, line) ==
    /\ LineOf(line, c)' /\ (Refused(c)' => ~line.allowed)
    /\ ~Lossy(c)' => log' = Append(log, line)

LEMMA WroteInput ==
    ASSUME GInv, CallInv, NEW c \in Calls, LogInput(c), NEW line, line = InputLine(c)
    PROVE  Wrote(c, line) /\ (log' = log \/ log' = Append(log, line))
  <1>0. GatewayTypeOK /\ GoOn(c) /\ call[c].step = "log"
    BY DEF GInv, GoOn, LogInput, At
  <1>1. Same(call'[c], call[c])
    BY <1>0, CallGoesOn
  <1>2. /\ Req(c)' = Req(c) /\ IdOf(c)' = IdOf(c)
        /\ Req(c) # NoRequest /\ Req(c).via # "output"
    BY <1>0, <1>1 DEF Same, Req, IdOf, CallInv, Ends, UnderWay
  <1>3. FromLog(c, call'[c])
    BY <1>0, CallAfter
    DEF ToCharge, ToLog, Answered, Closed, ReadClock, Unlimited, InvalidCost, Charge,
        Answer, ScreenOutput, At
  <1>4. line.allowed => Decided(call'[c])
    <2>1. line.allowed => Beyond(call[c])
      BY <1>0, <1>2 DEF InputLine, Beyond, Req
    <2>2. QED
      BY <1>1, <2>1, SameDecided DEF CallInv
  <1>5. ~line.allowed <=> Refused(c)'
    <2>1. line.allowed <=> call[c].verdict = "allowed"
      BY DEF InputLine
    <2>2. CASE Forwarded(c)
      <3>1. call'[c].reply = "none"
        BY <1>0, <1>3, <2>2 DEF FromLog, CallInv, Ends
      <3>2. QED
        BY <2>1, <2>2, <3>1 DEF Forwarded, Refused
    <2>3. CASE ~Forwarded(c)
      <3>1. call'[c].reply = Reply(c)
        BY <1>3, <2>3 DEF FromLog
      <3>2. QED
        BY <2>1, <3>1 DEF Reply, Refused
    <2>4. QED
      BY <2>2, <2>3
  <1>6. /\ line.id = IdOf(c) /\ line.agent = Req(c).agent /\ line.prompt = Req(c).prompt
        /\ line.model \in {Req(c).model, NoModel} /\ line.tools \in {Req(c).tools, {}}
    BY DEF InputLine
  <1>7. /\ ~Lossy(c)' => log' = Append(log, line)
        /\ log' = log \/ log' = Append(log, line)
    <2>1. line.phase = "input"
      BY DEF InputLine
    <2>2. QED
      BY <2>1 DEF LogInput, writeLogLine, Lossy
  <1>8. LineOf(line, c)'
    BY <1>2, <1>4, <1>5, <1>6 DEF LineOf
  <1>9. QED
    BY <1>5, <1>7, <1>8 DEF Wrote

LEMMA WroteOutput ==
    ASSUME GInv, CallInv, NEW c \in Calls, ScreenOutput(c),
           NEW line, line = OutputLine(c, OutputAllowed(c))
    PROVE  Wrote(c, line) /\ (log' = log \/ log' = Append(log, line))
  <1>0. GatewayTypeOK /\ GoOn(c) /\ call[c].step = "screen"
    BY DEF GInv, GoOn, ScreenOutput, At
  <1>1. Same(call'[c], call[c])
    BY <1>0, CallGoesOn
  <1>2. Req(c)' = Req(c) /\ IdOf(c)' = IdOf(c) /\ Req(c) # NoRequest
    BY <1>0, <1>1 DEF Same, Req, IdOf, CallInv, Ends, UnderWay
  <1>3. Closed(c, call'[c])
    BY <1>0, CallAfter
    DEF ToCharge, ToLog, FromLog, Answered, ReadClock, Unlimited, InvalidCost, Charge,
        LogInput, Answer, At
  <1>4. Req(c).via # "output" => Decided(call'[c])
    <2>1. Req(c).via # "output" => Beyond(call[c])
      BY <1>0 DEF Beyond, Req
    <2>2. QED
      BY <1>1, <2>1, SameDecided DEF CallInv
  <1>5. (~line.allowed <=> Refused(c)') /\ (line.allowed => call'[c].reply = "response")
    <2>1. line.allowed <=> MayPass(call[c].response)
      BY DEF OutputLine, OutputAllowed
    <2>2. call'[c].reply = IF MayPass(call[c].response) THEN "response"
                           ELSE Withheld(call[c].response)
      BY <1>3 DEF Closed
    <2>3. Withheld(call[c].response) \in {"blocked", "cut"}
      BY DEF Withheld
    <2>4. QED
      BY <2>1, <2>2, <2>3 DEF Refused
  <1>6. /\ line.id = IdOf(c) /\ line.agent = Req(c).agent /\ line.prompt = Req(c).prompt
        /\ line.model \in {Req(c).model, NoModel} /\ line.tools = {}
        /\ Req(c).via = "output" => line.model = NoModel
    BY DEF OutputLine
  <1>7. /\ ~Lossy(c)' => log' = Append(log, line)
        /\ log' = log \/ log' = Append(log, line)
    <2>1. line.phase = "output"
      BY DEF OutputLine
    <2>2. QED
      BY <2>1 DEF ScreenOutput, writeLogLine, Lossy
  <1>8. LineOf(line, c)'
    BY <1>2, <1>4, <1>5, <1>6 DEF LineOf
  <1>9. QED
    BY <1>5, <1>7, <1>8 DEF Wrote

(***************************************************************************)
(* Every other step leaves the log, and decides nothing.                   *)
(***************************************************************************)
LEMMA Unwritten ==
    ASSUME GInv, CallInv, [Next]_vars, ~(\E c \in Calls : LogInput(c) \/ ScreenOutput(c))
    PROVE  log' = log /\ unlogged' = unlogged /\ \A c \in Calls : Decisive(c)' => Decisive(c)
  <1>0. GatewayTypeOK /\ call \in [Calls -> Call]
    BY DEF GInv, GatewayTypeOK
  <1>1. CASE UNCHANGED vars \/ Tick
    BY <1>1 DEF vars, Tick, rest, Decisive, Refused, Req
  <1>2. CASE Restart
    <2>1. log' = log /\ unlogged' = unlogged
      BY <1>2 DEF Restart
    <2>2. \A c \in Calls : call'[c] = call[c] \/ call'[c].reply = "lost"
      BY <1>0, <1>2, CallLost
    <2>3. QED
      BY <2>1, <2>2 DEF Decisive, Refused, Req
  <1>3. ASSUME NEW d \in Calls, Receive(d)
        PROVE  log' = log /\ unlogged' = unlogged /\ \A c \in Calls : Decisive(c)' => Decisive(c)
    <2>1. PICK k : call' = [call EXCEPT ![d] = k] /\ Begun(k)
      BY <1>3, ReceiveStep
    <2>2. k.reply \in {"none", "bad request"}
      <3>1. BadRequest.reply = "bad request"
        BY DEF BadRequest, Fresh
      <3>2. \A sent, r : Received(sent, r).reply = "none"
        BY DEF Received, Fresh
      <3>3. \A o \in Outputs : Posted(o).reply = "none"
        BY DEF Posted, Fresh
      <3>4. QED
        BY <2>1, <3>1, <3>2, <3>3 DEF Begun
    <2>3. \A c \in Calls : call'[c] = call[c] \/ call'[c] = k
      BY <1>0, <2>1
    <2>4. QED
      BY <1>3, <2>2, <2>3, ReceiveStep DEF rest, Decisive, Refused, Req
  <1>4. ASSUME NEW d \in Calls, GoOn(d)
        PROVE  log' = log /\ unlogged' = unlogged /\ \A c \in Calls : Decisive(c)' => Decisive(c)
    <2>1. log' = log /\ unlogged' = unlogged
      BY <1>4 DEF GoOn, ReadClock, Unlimited, InvalidCost, Charge, Answer, rest
    <2>2. Decisive(d)' => Decisive(d)
      <3>0. PICK k : k = call'[d]
        OBVIOUS
      <3>1. ~FromLog(d, k) /\ ~Closed(d, k)
        BY DEF FromLog, Closed
      <3>2. k.req = call[d].req /\ Ends(call[d])
        BY <1>0, <1>4, <3>0, CallGoesOn DEF Same, CallInv
      <3>3. CASE Kept(k, call[d])
        BY <3>0, <3>2, <3>3 DEF Kept, Decisive, Refused, Req
      <3>4. CASE Answered(d, k)
        <4>1. call[d].req.via = "proxy"
          BY <3>2, <3>4 DEF Answered, Answer, At, Ends
        <4>2. k.reply \in {"broken", "response", call[d].reply}
          BY <3>4 DEF Answered
        <4>3. QED
          BY <3>0, <3>2, <4>1, <4>2 DEF Decisive, Refused, Req
      <3>5. QED
        BY <1>0, <1>4, <3>0, <3>1, <3>3, <3>4, CallAfter DEF ToCharge, ToLog
    <2>3. \A c \in Calls : c # d => call'[c] = call[c]
      BY <1>0, <1>4, CallGoesOn
    <2>4. QED
      BY <2>1, <2>2, <2>3 DEF Decisive, Refused, Req
  <1>5. QED
    BY <1>1, <1>2, <1>3, <1>4 DEF Next, Receive, GoOn

LEMMA WrittenLine ==
    ASSUME GInv, EInv, [Next]_vars, NEW c \in Calls, LogInput(c) \/ ScreenOutput(c)
    PROVE  \E line : Wrote(c, line) /\ (log' = log \/ log' = Append(log, line))
  <1>1. CallInv
    BY DEF EInv
  <1>2. PICK input, output : input = InputLine(c) /\ output = OutputLine(c, OutputAllowed(c))
    OBVIOUS
  <1>3. QED
    BY <1>1, <1>2, WroteInput, WroteOutput

LEMMA EvidenceStep ==
    ASSUME GInv, EInv, [Next]_vars
    PROVE  EInv'
  <1>0. log \in Seq(Line) /\ CallInv /\ GatewayTypeOK
    BY DEF GInv, GatewayTypeOK, EInv
  <1>1. CallInv'
    BY <1>0, CallStep
  <1>2. ASSUME NEW line, NEW c \in Calls, LineOf(line, c) PROVE LineOf(line, c)'
    BY <1>0, <1>2, LineOfStays
  <1>3. ASSUME NEW c \in Calls, Decisive(c), Recorded(c), Extends(log', log) PROVE Recorded(c)'
    <2>1. call'[c] = call[c]
      BY <1>0, <1>3, DecisiveEnds, CallStays DEF Decisive
    <2>2. Req(c)' = Req(c) /\ IdOf(c)' = IdOf(c) /\ (Refused(c)' <=> Refused(c))
      BY <2>1 DEF IdOf, Req, Refused
    <2>3. QED
      BY <1>3, <2>2 DEF Recorded, Says, Extends
  <1>4. Extends(log', log)
    BY <1>0, LogExtends
  <1>5. CASE ~(\E c \in Calls : LogInput(c) \/ ScreenOutput(c))
    <2>1. log' = log /\ unlogged' = unlogged /\ \A c \in Calls : Decisive(c)' => Decisive(c)
      BY <1>0, <1>5, Unwritten
    <2>2. LinesInv'
      BY <1>2, <2>1 DEF EInv, LinesInv
    <2>3. DecisionInv'
      BY <1>3, <1>4, <2>1 DEF EInv, DecisionInv, Lossy
    <2>4. QED
      BY <1>1, <2>2, <2>3 DEF EInv
  <1>6. ASSUME NEW c \in Calls, LogInput(c) \/ ScreenOutput(c) PROVE EInv'
    <2>1. PICK line : Wrote(c, line) /\ (log' = log \/ log' = Append(log, line))
      BY <1>6, WrittenLine
    <2>2. \A i \in 1..Len(log') : (i \in 1..Len(log) /\ log'[i] = log[i]) \/ log'[i] = line
      BY <1>0, <2>1
    <2>3. LinesInv'
      <3>1. ASSUME NEW i \in 1..Len(log') PROVE \E d \in Calls : LineOf(log[i], d)'
        <4>1. PICK l : l = log'[i]
          OBVIOUS
        <4>2. \E d \in Calls : LineOf(l, d)'
          <5>1. CASE i \in 1..Len(log) /\ l = log[i]
            BY <1>2, <5>1 DEF EInv, LinesInv
          <5>2. CASE l = line
            BY <1>6, <2>1, <5>2 DEF Wrote
          <5>3. QED
            BY <2>2, <4>1, <5>1, <5>2
        <4>3. QED
          BY <4>1, <4>2 DEF LineOf
      <3>2. QED
        BY <3>1 DEF LinesInv
    <2>4. ASSUME NEW d \in Calls, ~Lossy(d)', Decisive(d)' PROVE Recorded(d)'
      <3>1. CASE d = c
        <4>1. log' = Append(log, line) /\ Says(c, line)'
          BY <2>1, <2>4, <3>1 DEF Wrote, LineOf, Says
        <4>2. log'[Len(log) + 1] = line /\ Len(log) + 1 \in 1..Len(log')
          BY <1>0, <4>1
        <4>3. QED
          BY <3>1, <4>1, <4>2 DEF Recorded, Says
      <3>2. CASE d # c
        <4>1. call'[d] = call[d] /\ unlogged \subseteq unlogged'
          BY <1>0, <1>6, <3>2, CallGoesOn
          DEF GoOn, LogInput, ScreenOutput, writeLogLine, rest
        <4>2. Decisive(d) /\ Recorded(d)
          BY <2>4, <4>1 DEF Decisive, Refused, Req, EInv, DecisionInv, Lossy
        <4>3. QED
          BY <1>3, <1>4, <4>2
      <3>3. QED
        BY <3>1, <3>2
    <2>5. QED
      BY <1>1, <2>3, <2>4 DEF EInv, DecisionInv
  <1>7. QED
    BY <1>5, <1>6

----------------------------------------------------------------------------
(* The evidence                                                            *)

(***************************************************************************)
(* What was qualified live is qualified again when it is judged from a     *)
(* line, that may leave the model and the tools out.                       *)
(***************************************************************************)
LEMMA Rejudged ==
    ASSUME NEW reg, NEW r, NEW live, Decide(reg, r, live) = "allowed",
           NEW line, line.agent = r.agent, line.prompt = r.prompt,
           line.model \in {r.model, NoModel}, line.tools \in {r.tools, {}}
    PROVE  Decide(reg, line, FALSE) = "allowed"
  <1> DEFINE entry == EntryOf(reg, r.agent)
  <1>1. /\ Registered(reg, r.agent) /\ r.prompt \in entry.prompts
        /\ ModelVerdict(entry, r.model, live) = "allowed" /\ r.tools \subseteq entry.tools
    BY DEF Decide
  <1>2. ModelVerdict(entry, line.model, FALSE) = "allowed"
    <2>1. entry.model = NoModel \/ r.model = NoModel \/ r.model = entry.model
      BY <1>1 DEF ModelVerdict
    <2>2. entry.model = NoModel \/ line.model = NoModel \/ line.model = entry.model
      BY <2>1
    <2> HIDE DEF entry
    <2>3. QED
      BY <2>2 DEF ModelVerdict
  <1>3. line.tools \subseteq entry.tools
    BY <1>1
  <1>4. QED
    BY <1>1, <1>2, <1>3 DEF Decide

(***************************************************************************)
(* The line of an output says its agent and its prompt alone: it is        *)
(* qualified exactly if the agent's first entry declares the prompt.       *)
(***************************************************************************)
LEMMA OutputRejudged ==
    ASSUME NEW reg, reg.agents \in Seq(ToSet(reg.agents)), NEW r, NEW line,
           line.agent = r.agent, line.prompt = r.prompt
    PROVE  /\ \A i \in 1..Len(reg.agents) :
                line.model = NoModel /\ line.tools = {} /\ Declares(reg.agents, i, r)
                    => Decide(reg, line, FALSE) = "allowed"
           /\ Decide(reg, line, FALSE) = "allowed" =>
                \E i \in 1..Len(reg.agents) : Declares(reg.agents, i, r)
  <1>1. ASSUME Decide(reg, line, FALSE) = "allowed"
        PROVE  \E i \in 1..Len(reg.agents) : Declares(reg.agents, i, r)
    <2>1. PICK i : FirstOf(reg.agents, i, line.agent) /\ line.prompt \in reg.agents[i].prompts
      <3>1. PICK live \in BOOLEAN : live = FALSE
        OBVIOUS
      <3>2. Decide(reg, line, live) = "allowed"
        BY <1>1, <3>1
      <3>3. QED
        BY <3>2, AllowedMeans
    <2>2. QED
      BY <2>1 DEF FirstOf, Declares
  <1>2. ASSUME line.model = NoModel, line.tools = {},
               NEW i \in 1..Len(reg.agents), Declares(reg.agents, i, r)
        PROVE  Decide(reg, line, FALSE) = "allowed"
    <2>1. Registered(reg, line.agent)
      <3>1. reg.agents[i] \in ToSet(reg.agents) /\ reg.agents[i].id = line.agent
        BY <1>2 DEF ToSet, Declares
      <3>2. QED
        BY <3>1 DEF Registered, Ids, IdsOf
    <2>2. PICK j : FirstOf(reg.agents, j, line.agent) /\ EntryOf(reg, line.agent) = reg.agents[j]
      BY <2>1, EntryIsFirst
    <2>3. i = j
      <3>1. /\ j \in 1..Len(reg.agents) /\ reg.agents[j].id = r.agent
            /\ \A h \in 1..j - 1 : reg.agents[h].id # r.agent
        BY <2>2 DEF FirstOf
      <3>2. reg.agents[i].id = r.agent /\ \A h \in 1..i - 1 : reg.agents[h].id # r.agent
        BY <1>2 DEF Declares
      <3>3. ~(i < j) /\ ~(j < i)
        BY <3>1, <3>2
      <3>4. QED
        BY <3>1, <3>3
    <2>4. PICK entry : entry = EntryOf(reg, line.agent)
      OBVIOUS
    <2>5. line.prompt \in entry.prompts
      BY <1>2, <2>2, <2>3, <2>4 DEF Declares
    <2>6. ModelVerdict(entry, line.model, FALSE) = "allowed"
      BY <1>2 DEF ModelVerdict
    <2>7. QED
      BY <1>2, <2>1, <2>4, <2>5, <2>6 DEF Decide
  <1>3. QED
    BY <1>1, <1>2

(***************************************************************************)
(* Either transport brings every line, with what the verdict needs of it.  *)
(***************************************************************************)
Brings(lines, i, line) ==
    /\ lines[i].id = line.id /\ lines[i].agent = line.agent /\ lines[i].prompt = line.prompt
    /\ lines[i].tools = line.tools /\ lines[i].allowed = line.allowed
    /\ lines[i].model \in {line.model, NoModel}

LEMMA Brought ==
    ASSUME log \in Seq(Line), NEW transport \in Transports,
           NEW lines, lines = parseTraces(transport, log)
    PROVE  Len(lines) = Len(log) /\ Len(log) \in Nat
           /\ \A i \in 1..Len(log) : Brings(lines, i, log[i])
  <1>1. CASE transport = "lines"
    BY <1>1 DEF parseTraces, Brings
  <1>2. CASE transport # "lines"
    <2>1. lines = [i \in 1..Len(log) |-> spanToTrace(log[i])] /\ Len(log) \in Nat
      BY <1>2 DEF parseTraces
    <2>2. Len(lines) = Len(log)
      BY <2>1
    <2>3. ASSUME NEW line \in Line
          PROVE  LET l == spanToTrace(line)
                 IN  /\ l.id = line.id /\ l.agent = line.agent /\ l.prompt = line.prompt
                     /\ l.tools = line.tools /\ l.allowed = line.allowed /\ l.model = NoModel
      BY DEF spanToTrace, Line
    <2>4. ASSUME NEW i \in 1..Len(log) PROVE Brings(lines, i, log[i])
      <3>1. log[i] \in Line /\ lines[i] = spanToTrace(log[i])
        BY <2>1
      <3>2. QED
        BY <2>3, <3>1 DEF Brings
    <2>5. QED
      BY <2>1, <2>2, <2>4
  <1>3. QED
    BY <1>1, <1>2

LEMMA AtMostOne ==
    ASSUME NEW S, \A n, m \in S : n = m
    PROVE  Cardinality(S) <= 1
  <1>1. CASE S = {}
    BY <1>1, FS_EmptySet
  <1>2. CASE S # {}
    <2>1. PICK n : S = {n}
      BY <1>2
    <2>2. Cardinality({n}) = 1
      BY FS_Singleton
    <2>3. QED
      BY <2>1, <2>2
  <1>3. QED
    BY <1>1, <1>2

(***************************************************************************)
(* An interaction has one record at most, and has one if it has a line.    *)
(***************************************************************************)
RecordsOf(id, record) == {n \in 1..Len(record) : record[n].subject[2] = id}
RecordedOnce(reg, lines, id) ==
    LET record == AgentRecords(reg, lines)
        of == RecordsOf(id, record)
    IN  /\ Cardinality(of) <= 1
        /\ (\E i \in 1..Len(lines) : lines[i].id = id) => of # {}
        /\ \A n \in of : \E f \in 1..Len(lines) :
              lines[f].id = id /\ record[n].result = Worst(reg, lines, f)

LEMMA RecordOnce ==
    ASSUME NEW reg, NEW lines, Len(lines) \in Nat, NEW id, id # NoId
    PROVE  RecordedOnce(reg, lines, id)
  <1> DEFINE first == FirstLines(lines)
             record == AgentRecords(reg, lines)
             of == RecordsOf(id, record)
  <1>1. first \subseteq 1..Len(lines)
    BY FirstLinesForm
  <1>2. /\ Len(record) = Cardinality(first)
        /\ \A n \in 1..Cardinality(first) :
              /\ NthOf(first, n) \in first /\ Rank(first, NthOf(first, n)) = n
              /\ record[n] = RecordOf(reg, lines, NthOf(first, n))
        /\ \A i \in first :
              /\ Rank(first, i) \in 1..Cardinality(first)
              /\ record[Rank(first, i)] = RecordOf(reg, lines, i)
    BY RecordsForm
  <1>3. \A i : RecordOf(reg, lines, i).subject[2] = lines[i].id
               /\ RecordOf(reg, lines, i).result = Worst(reg, lines, i)
    BY DEF RecordOf
  <1>4. \A f, g \in first : lines[f].id = id /\ lines[g].id = id => f = g
    BY FirstLineOnce
  <1>5. \A i \in 1..Len(lines) : lines[i].id = id => \E f \in first : lines[f].id = id
    BY FirstLineOf
  <1>s. of = {n \in 1..Len(record) : record[n].subject[2] = id}
    BY DEF RecordsOf
  <1> HIDE DEF first, record, of
  <1>6. ASSUME NEW n \in of
        PROVE  \E f \in first : /\ Rank(first, f) = n /\ lines[f].id = id
                                /\ record[n].result = Worst(reg, lines, f)
    BY <1>s, <1>2, <1>3
  <1>7. \A n, m \in of : n = m
    BY <1>4, <1>6
  <1>8. Cardinality(of) <= 1
    BY <1>7, AtMostOne
  <1>9. (\E i \in 1..Len(lines) : lines[i].id = id) => of # {}
    BY <1>s, <1>2, <1>3, <1>5
  <1>10. QED
    BY <1>1, <1>6, <1>8, <1>9 DEF RecordedOnce, record, of

(***************************************************************************)
(* What has come to its end, and lost no line, has a line.                 *)
(***************************************************************************)
LEMMA EndHasLine ==
    ASSUME GInv, EInv, NEW c \in Calls, ~Lossy(c), Req(c) # NoRequest,
           Done(c), call[c].reply # "lost"
    PROVE  \E i \in 1..Len(log) : log[i].id = IdOf(c)
  <1>1. call[c] \in Call /\ Ends(call[c])
    BY DEF GInv, GatewayTypeOK, EInv, CallInv
  <1>2. Decisive(c) \/ LetGo(call[c])
    <2>1. call[c].reply \in {"unauthorized", "denied", "admitted", "response", "blocked", "cut",
                             "broken"}
      BY <1>1 DEF Ends, Done, At, Req, Call
    <2>2. QED
      BY <1>1, <2>1 DEF Ends, Decisive, Refused, LetGo, Req
  <1>3. LetGo(call[c]) => InputLogged(c)
    BY DEF GInv, LogInv, Lossy
  <1>4. QED
    BY <1>2, <1>3 DEF EInv, DecisionInv, Recorded, Says, InputLogged

LEMMA LapseShown ==
    ASSUME NEW reg, NEW lines, NEW f \in 1..Len(lines), NEW i \in 1..Len(lines),
           lines[f].id = lines[i].id, lines[i].id # NoId,
           ~lines[i].allowed \/ Decide(reg, lines[i], FALSE) # "allowed"
    PROVE  Worst(reg, lines, f) = "not-satisfied"
  <1>1. SameInteraction(lines, f, i) /\ LineResult(reg, lines[i]) = "not-satisfied"
    BY DEF SameInteraction, LineResult
  <1>2. QED
    BY <1>1 DEF Worst

(***************************************************************************)
(* An output that passed without an agent and prompt of the registry is    *)
(* found out when its line is judged.                                      *)
(***************************************************************************)
LEMMA StrayShown ==
    ASSUME NEW c, Stray(c), call[c].reg = registry, registry \in Registries,
           NEW line, line.agent = Req(c).agent, line.prompt = Req(c).prompt
    PROVE  Decide(registry, line, FALSE) # "allowed"
  <1>1. registry.agents \in Seq(ToSet(registry.agents))
    BY RegistriesListed
  <1>2. PICK reg, r : reg = registry /\ r = Req(c)
    OBVIOUS
  <1>3. Decide(reg, line, FALSE) = "allowed" =>
           \E i \in 1..Len(reg.agents) : Declares(reg.agents, i, r)
    BY <1>1, <1>2, OutputRejudged
  <1>4. QED
    BY <1>2, <1>3 DEF Stray

LEMMA NoLapse ==
    ASSUME EInv, log \in Seq(Line), registry \in Registries, NEW lines, Len(lines) = Len(log),
           \A i \in 1..Len(log) : Brings(lines, i, log[i]),
           NEW id, NEW f \in 1..Len(lines), lines[f].id = id,
           \A c \in Sharing(id) : call[c].reg = registry /\ ~Refused(c) /\ ~Stray(c)
    PROVE  Worst(registry, lines, f) = "satisfied"
  <1> SUFFICES ASSUME NEW i \in 1..Len(lines), SameInteraction(lines, f, i)
               PROVE  LineResult(registry, lines[i]) = "satisfied"
    BY DEF Worst
  <1>1. lines[i].id = id /\ Brings(lines, i, log[i])
    BY DEF SameInteraction
  <1>2. PICK c \in Calls : LineOf(log[i], c)
    BY DEF EInv, LinesInv
  <1>3. c \in Sharing(id)
    BY <1>1, <1>2 DEF LineOf, Sharing, Brings
  <1>4. log[i].allowed
    BY <1>2, <1>3 DEF LineOf
  <1>5. /\ lines[i].agent = Req(c).agent /\ lines[i].prompt = Req(c).prompt
        /\ lines[i].model \in {Req(c).model, NoModel} /\ lines[i].tools \in {Req(c).tools, {}}
        /\ Req(c).via = "output" => lines[i].model = NoModel /\ lines[i].tools = {}
    BY <1>1, <1>2 DEF LineOf, Brings
  <1>6. PICK r, line, reg : r = Req(c) /\ line = lines[i] /\ reg = registry
    OBVIOUS
  <1>7. CASE r.via # "output"
    <2>1. PICK live \in BOOLEAN : live = (r.via = "proxy")
      OBVIOUS
    <2>2. Decide(reg, r, live) = "allowed"
      BY <1>2, <1>3, <1>4, <1>6, <1>7, <2>1 DEF LineOf, Decided, Req
    <2>3. Decide(reg, line, FALSE) = "allowed"
      BY <1>5, <1>6, <2>2, Rejudged
    <2>4. QED
      BY <1>1, <1>4, <1>6, <2>3 DEF LineResult, Brings
  <1>8. CASE r.via = "output"
    <2>1. call[c].reply = "response"
      BY <1>2, <1>4, <1>6, <1>8 DEF LineOf
    <2>2. \E j \in 1..Len(reg.agents) : Declares(reg.agents, j, r)
      BY <1>3, <1>6, <1>8, <2>1 DEF Stray
    <2>3. reg.agents \in Seq(ToSet(reg.agents))
      BY <1>6, RegistriesListed
    <2>4. Decide(reg, line, FALSE) = "allowed"
      BY <1>5, <1>6, <1>8, <2>2, <2>3, OutputRejudged
    <2>5. QED
      BY <1>1, <1>4, <1>6, <2>4 DEF LineResult, Brings
  <1>9. QED
    BY <1>7, <1>8

Told(id, record) ==
    LET of == {n \in 1..Len(record) : record[n].subject[2] = id}
    IN  /\ Cardinality(of) <= 1
        /\ (\E c \in Sharing(id) : Done(c) /\ call[c].reply # "lost") => of # {}
        /\ \A n \in of :
              /\ (\E c \in Sharing(id) : Refused(c)) => record[n].result = "not-satisfied"
              /\ (\A c \in Sharing(id) : call[c].reg = registry)
                    => (record[n].result = "satisfied"
                          <=> ~\E c \in Sharing(id) : Refused(c) \/ Stray(c))

LEMMA Faithful ==
    ASSUME GInv, EInv, NEW id \in Calls \cup {SharedId}, NEW transport \in Transports,
           Whole(id), NEW record, record = AgentRecords(registry, parseTraces(transport, log))
    PROVE  Told(id, record)
  <1> DEFINE of == {n \in 1..Len(record) : record[n].subject[2] = id}
  <1>0. log \in Seq(Line) /\ id # NoId /\ registry \in Registries
    BY GatewayAssumption DEF GInv, GatewayTypeOK, GatewayAssumption
  <1>1. PICK lines : lines = parseTraces(transport, log)
    OBVIOUS
  <1>2. /\ Len(lines) = Len(log) /\ Len(log) \in Nat
        /\ \A i \in 1..Len(log) : Brings(lines, i, log[i])
    BY <1>0, <1>1, Brought
  <1>3. /\ Cardinality(of) <= 1
        /\ (\E i \in 1..Len(lines) : lines[i].id = id) => of # {}
        /\ \A n \in of : \E f \in 1..Len(lines) :
              lines[f].id = id /\ record[n].result = Worst(registry, lines, f)
    <2>1. PICK reg : reg = registry
      OBVIOUS
    <2>2. record = AgentRecords(reg, lines) /\ Len(lines) \in Nat /\ id # NoId
      BY <1>0, <1>1, <1>2, <2>1
    <2>3. RecordedOnce(reg, lines, id)
      BY <2>2, RecordOnce
    <2>4. QED
      BY <2>1, <2>2, <2>3 DEF RecordedOnce, RecordsOf
  <1>4. ASSUME NEW c \in Sharing(id) PROVE c \in Calls /\ ~Lossy(c) /\ IdOf(c) = id
    BY DEF Sharing, Whole, Lossy
  <1>5. ASSUME NEW c \in Sharing(id), Done(c), call[c].reply # "lost" PROVE of # {}
    <2>1. \E i \in 1..Len(log) : log[i].id = id
      BY <1>4, <1>5, EndHasLine DEF Sharing
    <2>2. QED
      BY <1>2, <1>3, <2>1 DEF Brings
  <1>6. ASSUME NEW n \in of, NEW c \in Sharing(id),
               Refused(c) \/ (Stray(c) /\ call[c].reg = registry)
        PROVE  record[n].result = "not-satisfied"
    <2>1. PICK f \in 1..Len(lines) : /\ lines[f].id = id
                                     /\ record[n].result = Worst(registry, lines, f)
      BY <1>3
    <2>2. PICK i \in 1..Len(log) : Says(c, log[i])
      BY <1>4, <1>6 DEF EInv, DecisionInv, Decisive, Recorded, Stray
    <2>3. /\ i \in 1..Len(lines) /\ lines[i].id = id
          /\ lines[i].agent = Req(c).agent /\ lines[i].prompt = Req(c).prompt
          /\ Refused(c) => ~lines[i].allowed
      BY <1>2, <1>4, <2>2 DEF Brings, Says
    <2>4. ~lines[i].allowed \/ Decide(registry, lines[i], FALSE) # "allowed"
      BY <1>0, <1>6, <2>3, StrayShown
    <2>5. PICK reg, line : reg = registry /\ line = lines[i]
      OBVIOUS
    <2>6. ~line.allowed \/ Decide(reg, line, FALSE) # "allowed"
      BY <2>4, <2>5
    <2>7. Worst(reg, lines, f) = "not-satisfied"
      BY <1>0, <2>1, <2>3, <2>5, <2>6, LapseShown
    <2>8. QED
      BY <2>1, <2>5, <2>7
  <1>7. ASSUME NEW n \in of,
               \A c \in Sharing(id) : call[c].reg = registry /\ ~Refused(c) /\ ~Stray(c)
        PROVE  record[n].result = "satisfied"
    <2>1. PICK f \in 1..Len(lines) : /\ lines[f].id = id
                                     /\ record[n].result = Worst(registry, lines, f)
      BY <1>3
    <2>2. Worst(registry, lines, f) = "satisfied"
      BY <1>0, <1>2, <1>7, <2>1, NoLapse
    <2>3. QED
      BY <2>1, <2>2
  <1>8. ASSUME NEW n \in of, \A c \in Sharing(id) : call[c].reg = registry
        PROVE  record[n].result = "satisfied" <=> ~\E c \in Sharing(id) : Refused(c) \/ Stray(c)
    BY <1>6, <1>7, <1>8
  <1>9. QED
    BY <1>3, <1>5, <1>6, <1>8 DEF Told

(***************************************************************************)
(* A report over the log tells of every call, or of all the callers that   *)
(* share an id, whether one of them was refused, or passed an output of an *)
(* agent or a prompt that is not registered, for any requests, outputs,    *)
(* registries, restarts, faults and interleavings.                         *)
(***************************************************************************)
THEOREM EvidenceIsFaithful == Spec => []EvidenceFaithful
  <1>1. Init => EInv
    BY InitEInv
  <1>2. GInv /\ EInv /\ [Next]_vars => EInv'
    BY EvidenceStep
  <1>3. ASSUME GInv, EInv PROVE EvidenceFaithful
    <2>1. ASSUME NEW id \in Calls \cup {SharedId}, NEW transport \in Transports, Whole(id),
                 NEW record \in Reports(transport, registry, log, torn)
          PROVE  Told(id, record)
      <3>1. record = AgentRecords(registry, parseTraces(transport, log))
        BY DEF Reports
      <3>2. QED
        BY <1>3, <2>1, <3>1, Faithful
    <2>2. QED
      BY <2>1 DEF EvidenceFaithful, Told
  <1>4. QED
    BY <1>1, <1>2, <1>3, GatewayInductive, PTL DEF Spec
=============================================================================
