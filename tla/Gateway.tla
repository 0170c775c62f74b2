------------------------------ MODULE Gateway ------------------------------
(***************************************************************************)
(* The live gateway (internal/gateway): concurrent calls, each to the      *)
(* enforcing proxy or to one of the two surfaces of the inline decision    *)
(* server, which admits a request and screens a generated output, that     *)
(* share one limiter and one interaction log.  The response of the         *)
(* upstream is whole or a stream; what happens inside a stream is          *)
(* abstracted to how it ends.                                              *)
(*                                                                         *)
(* The clock is read before the limiter's mutex is taken, so that a charge *)
(* may bring a time that is already past (up to Delay).  A log line is one *)
(* write, under the log's mutex, that may fail, leaving nothing or a torn  *)
(* line, and is not checked; timestamps are left out.  The gateway may be  *)
(* killed and started again, with the registry then on disk.               *)
(***************************************************************************)
EXTENDS Traces, Limiter

CONSTANTS
    Calls,       \* the calls, each one HTTP request
    Registries,  \* the registries that may be on disk
    Wires,       \* the requests the proxy may receive
    Submissions, \* the requests the decision server may receive
    Outputs,     \* the generated outputs it may receive
    LimitOf,     \* the budgets, by agent; an agent without one is unlimited
    Responses,   \* what the upstream may answer
    SharedId,    \* an id that several calls are given by their callers
    Delay,       \* how old the time of a charge may be
    MaxClock,    \* bound: the time
    MaxRestarts, \* bound: restarts
    MaxFaults    \* bound: writes to the log that fail

ASSUME GatewayAssumption ==
    /\ \A wire \in Wires :
          /\ wire.via = "proxy" /\ wire.authentic \in BOOLEAN /\ wire.cost \in Int
          /\ wire.body.kind = "empty" =>
                wire.body = [kind |-> "empty", keys |-> <<>>, model |-> NoModel,
                             tools |-> {}, functions |-> {}, dirty |-> {}]
    /\ \A r \in Submissions :
          r.via = "server" /\ r.id \in {"own", "shared", "none"} /\ r.cost \in Int
    /\ \A r \in Outputs :
          /\ r.via = "output" /\ r.id \in {"own", "shared", "none"}
          /\ r.content \in {"clean", "dirty"}
    /\ \A reg \in Registries : \A list \in {reg.agents, reg.prompts, reg.tools} :
          list \in Seq(ToSet(list))
    /\ {SharedId, NoId} \cap Calls = {} /\ SharedId # NoId
    /\ \A a \in DOMAIN LimitOf : LimitOf[a] \in Limits
    /\ Responses \subseteq [kind : {"whole", "stream"},
                            content : {"clean", "dirty", "oversize", "broken"}]
    /\ Delay \in Nat
    /\ {MaxClock, MaxRestarts, MaxFaults} \subseteq Nat

VARIABLES
    registry,    \* the registry that was loaded at the start
    clock,       \* the present time
    window,      \* per limited agent, its current window
    call,        \* the progress of each call
    log,         \* the interaction log
    torn,        \* whether the log holds a line that is no line
    charges,     \* history: the charges admitted, each with the real time, the
                 \* start of its window and the life of the process it fell in
    unlogged,    \* history: the lines that were lost, by call and phase
    restarts, faults

vars == <<registry, clock, window, call, log, torn, charges, unlogged, restarts, faults>>
rest == <<unlogged, torn, restarts, faults>>

----------------------------------------------------------------------------
NoRequest == [via |-> "none"]
Asked == {RequestFromHTTP(wire) : wire \in Wires} \cup Submissions
Requests == Asked \cup Outputs
Generated(output) == [kind |-> "whole", content |-> output.content]
NoResponse == [kind |-> "none"]
NoRegistry == [agents |-> <<>>, prompts |-> <<>>, tools |-> <<>>]

Call == [step : {"idle", "time", "charge", "log", "upstream", "screen", "done"},
         sent : Wires \cup Submissions \cup Outputs \cup {NoRequest},
         req : Requests \cup {NoRequest}, now : Nat,
         verdict : {"allowed", "unregistered", "prompt", "model", "model undeclared",
                    "tool", "guardrail", "budget", "invalid cost", "authentication"},
         response : Responses \cup {Generated(o) : o \in Outputs} \cup {NoResponse},
         reg : Registries \cup {NoRegistry},
         reply : {"none", "bad request", "unauthorized", "denied", "admitted",
                  "response", "blocked", "cut", "broken", "lost"}]
Fresh == [step |-> "idle", sent |-> NoRequest, req |-> NoRequest, now |-> 0, verdict |-> "allowed",
          response |-> NoResponse, reg |-> NoRegistry, reply |-> "none"]

Line == [id : Calls \cup {SharedId, NoId}, agent : {r.agent : r \in Requests},
         prompt : {r.prompt : r \in Requests},
         model : {r.model : r \in Asked} \cup {NoModel},
         tools : {r.tools : r \in Asked} \cup {{}},
         phase : {"input", "output"}, allowed : BOOLEAN]

GatewayTypeOK ==
    /\ registry \in Registries
    /\ clock \in 0..MaxClock
    /\ window \in [DOMAIN LimitOf -> Window \cup {NoWindow}]
    /\ call \in [Calls -> Call]
    /\ log \in Seq(Line)
    /\ unlogged \subseteq Calls \X {"input", "output"}
    /\ torn => faults > 0
    /\ restarts \in 0..MaxRestarts /\ faults \in 0..MaxFaults

Init ==
    /\ registry \in Registries
    /\ clock = 0
    /\ window = [a \in DOMAIN LimitOf |-> NoWindow]
    /\ call = [c \in Calls |-> Fresh]
    /\ log = <<>> /\ torn = FALSE
    /\ charges = {} /\ unlogged = {}
    /\ restarts = 0 /\ faults = 0

At(c, step) == call[c].step = step
Req(c) == call[c].req

(***************************************************************************)
(* Time passes, but no goroutine stays longer than Delay between reading   *)
(* the clock and taking the limiter's mutex.                               *)
(***************************************************************************)
Tick ==
    /\ clock < MaxClock
    /\ \A c \in Calls : At(c, "charge") => clock < call[c].now + Delay
    /\ clock' = clock + 1
    /\ UNCHANGED <<registry, window, call, log, charges, rest>>

(***************************************************************************)
(* A restart forgets the windows, ends what was under way, and loads the   *)
(* registry that is there now.  The log stays.                             *)
(***************************************************************************)
Restart ==
    /\ restarts < MaxRestarts /\ restarts' = restarts + 1
    /\ registry' \in Registries
    /\ window' = [a \in DOMAIN LimitOf |-> NoWindow]
    /\ call' = [c \in Calls |->
                   IF call[c].step \in {"idle", "done"} THEN call[c]
                   ELSE [call[c] EXCEPT !.step = "done", !.reply = "lost"]]
    /\ UNCHANGED <<clock, log, charges, torn, unlogged, faults>>

----------------------------------------------------------------------------
(* The request                                                             *)

(***************************************************************************)
(* What the gates before the budget say, the first denial first: the       *)
(* proxy's authentication, the registry, the guardrail.                    *)
(***************************************************************************)
BadToken(r) == r.via = "proxy" /\ ~r.authentic

Gates(r) ==
    IF BadToken(r) THEN "authentication"
    ELSE LET decision == Decide(registry, r, r.via = "proxy")
         IN  IF decision = "allowed" THEN Screen(r.input) ELSE decision

Received(sent, r) ==
    [Fresh EXCEPT !.sent = sent, !.req = r, !.reg = registry, !.verdict = Gates(r),
                  !.step = IF Gates(r) = "allowed" THEN "time" ELSE "log"]

(***************************************************************************)
(* A request that cannot be read gets a 400 and leaves no trace.           *)
(***************************************************************************)
BadRequest == [Fresh EXCEPT !.step = "done", !.reply = "bad request"]

ReceiveWire(c) ==
    /\ At(c, "idle")
    /\ \E wire \in Wires :
          call' = [call EXCEPT ![c] = IF Acceptable(wire)
                                      THEN Received(wire, RequestFromHTTP(wire))
                                      ELSE BadRequest]
    /\ UNCHANGED <<registry, clock, window, log, charges, rest>>

ReceiveSubmission(c) ==
    /\ At(c, "idle")
    /\ call' \in {[call EXCEPT ![c] = reply] :
                     reply \in {Received(r, r) : r \in Submissions} \cup {BadRequest}}
    /\ UNCHANGED <<registry, clock, window, log, charges, rest>>

(***************************************************************************)
(* The decision server screens an output whoever presents it, under any id *)
(* and as often as it comes: nothing ties it to an admission.              *)
(***************************************************************************)
Posted(output) ==
    [Fresh EXCEPT !.sent = output, !.req = output, !.reg = registry,
                  !.response = Generated(output), !.step = "screen"]

ReceiveOutput(c) ==
    /\ At(c, "idle")
    /\ call' \in {[call EXCEPT ![c] = reply] :
                     reply \in {Posted(output) : output \in Outputs} \cup {BadRequest}}
    /\ UNCHANGED <<registry, clock, window, log, charges, rest>>

ReadClock(c) ==
    /\ At(c, "time")
    /\ call' = [call EXCEPT ![c].now = clock, ![c].step = "charge"]
    /\ UNCHANGED <<registry, clock, window, log, charges, rest>>

(***************************************************************************)
(* Charge.  A window is opened even by a charge that is then denied.       *)
(***************************************************************************)
Unlimited(c) ==
    /\ At(c, "charge")
    /\ Req(c).agent \notin DOMAIN LimitOf
    /\ call' = [call EXCEPT ![c].step = "log"]
    /\ UNCHANGED <<registry, clock, window, log, charges, rest>>

Believed(cost) == FALSE                            \* mutant: any cost is taken
Invalid(cost) == cost < 0

InvalidCostPassed(c) ==                            \* mutant: let through, uncharged
    /\ At(c, "charge") /\ Invalid(Req(c).cost)
    /\ Req(c).agent \in DOMAIN LimitOf
    /\ call' = [call EXCEPT ![c].step = "log"]
    /\ UNCHANGED <<registry, clock, window, log, charges, rest>>
InvalidCost(c) ==
    /\ At(c, "charge")
    /\ Req(c).agent \in DOMAIN LimitOf
    /\ Invalid(Req(c).cost)
    /\ call' = [call EXCEPT ![c].verdict = "invalid cost", ![c].step = "log"]
    /\ UNCHANGED <<registry, clock, window, log, charges, rest>>

Charge(c) ==
    LET a == Req(c).agent
        lim == LimitOf[a]
        w == Current(window[a], lim, call[c].now)
    IN  /\ At(c, "charge")
        /\ a \in DOMAIN LimitOf
        /\ ~Invalid(Req(c).cost)
        /\ IF Fits(w, lim, Req(c).cost)
           THEN /\ window' = [window EXCEPT ![a] = Counted(w, Req(c).cost)]
                /\ call' = [call EXCEPT ![c].step = "log"]
                /\ charges' = charges \cup {[call |-> c, at |-> clock, start |-> w.start,
                                               life |-> restarts]}
           ELSE /\ window' = [window EXCEPT ![a] = w]
                /\ call' = [call EXCEPT ![c].verdict = "budget", ![c].step = "log"]
                /\ UNCHANGED charges
        /\ UNCHANGED <<registry, clock, log, rest>>

----------------------------------------------------------------------------
(* The log and the reply                                                   *)

IdOf(c) == CASE Req(c).id = "own" -> c [] Req(c).id = "shared" -> SharedId
              [] OTHER -> NoId
InputLine(c) ==
    [id |-> IdOf(c), agent |-> Req(c).agent, prompt |-> Req(c).prompt,
     model |-> IF call[c].verdict = "authentication" THEN NoModel ELSE Req(c).model,
     tools |-> IF call[c].verdict = "authentication" THEN {} ELSE Req(c).tools,
     phase |-> "input", allowed |-> call[c].verdict = "allowed"]
OutputLine(c, allowed) ==
    [id |-> IdOf(c), agent |-> Req(c).agent, prompt |-> Req(c).prompt,
     model |-> IF Req(c).via = "proxy" THEN Req(c).model ELSE NoModel,
     tools |-> {}, phase |-> "output", allowed |-> allowed]

Forwarded(c) == call[c].verdict = "allowed" /\ Req(c).via = "proxy"
Reply(c) ==
    CASE call[c].verdict = "authentication" -> "unauthorized"
      [] call[c].verdict = "allowed" -> "admitted"
      [] OTHER -> "denied"

(***************************************************************************)
(* The error of a write is dropped: a line that is lost, or torn, changes  *)
(* nothing for the call.                                                   *)
(***************************************************************************)
LoggedAtEnd(c, line) ==             \* mutant: what is forwarded is logged on return
    /\ log' = IF line.phase = "input" /\ Forwarded(c) THEN log ELSE Append(log, line)
    /\ UNCHANGED rest
writeLogLine(c, line) ==
    \/ /\ log' = Append(log, line)
       /\ UNCHANGED rest
    \/ /\ faults < MaxFaults /\ faults' = faults + 1
       /\ torn' \in {torn, TRUE}
       /\ unlogged' = unlogged \cup {<<c, line.phase>>}
       /\ UNCHANGED <<log, restarts>>

LogInput(c) ==
    /\ At(c, "log")
    /\ writeLogLine(c, InputLine(c))
    /\ call' = [call EXCEPT ![c] =
                   IF Forwarded(c) THEN [@ EXCEPT !.step = "upstream"]
                   ELSE [@ EXCEPT !.step = "done", !.reply = Reply(c)]]
    /\ UNCHANGED <<registry, clock, window, charges>>

----------------------------------------------------------------------------
(* The response                                                            *)

(***************************************************************************)
(* The upstream answers, or breaks off.  An unguarded proxy passes on what *)
(* it gets.                                                                *)
(***************************************************************************)
Answer(c) ==
    /\ At(c, "upstream")
    /\ \E r \in Responses :
          call' = [call EXCEPT ![c] =
              IF r.content = "broken"
              THEN [@ EXCEPT !.response = r, !.step = "done", !.reply = "broken"]
              ELSE IF Guarded THEN [@ EXCEPT !.response = r, !.step = "screen"]
              ELSE [@ EXCEPT !.response = r, !.step = "done", !.reply = "response"]]
    /\ UNCHANGED <<registry, clock, window, log, charges, rest>>

MayPass(r) == r.content # "oversize" /\ Screen(r.content) = "allowed"

(***************************************************************************)
(* A whole response that may not pass is replaced, a stream is cut.        *)
(***************************************************************************)
Withheld(r) == IF r.kind = "whole" THEN "blocked" ELSE "cut"

VerdictIgnored(c) == TRUE                          \* mutant: logged as allowed
OutputAllowed(c) == MayPass(call[c].response)

ScreenOutput(c) ==
    LET r == call[c].response
    IN  /\ At(c, "screen")
        /\ writeLogLine(c, OutputLine(c, OutputAllowed(c)))
        /\ call' = [call EXCEPT ![c].step = "done",
                       ![c].reply = IF MayPass(r) THEN "response" ELSE Withheld(r)]
        /\ UNCHANGED <<registry, clock, window, charges>>

Next ==
    \/ Tick \/ Restart
    \/ \E c \in Calls :
          \/ ReceiveWire(c) \/ ReceiveSubmission(c) \/ ReceiveOutput(c)
          \/ ReadClock(c) \/ Unlimited(c) \/ InvalidCost(c) \/ Charge(c)
          \/ LogInput(c)
          \/ Answer(c) \/ ScreenOutput(c)

Spec == Init /\ [][Next]_vars

----------------------------------------------------------------------------
(* Properties                                                              *)

Done(c) == At(c, "done")
(***************************************************************************)
(* Read off what was sent: every entry of a body that is called something  *)
(* must be called as a tool of the agent, and no place may be dirty.       *)
(***************************************************************************)
Covered(sent, tools) ==
    IF sent.via = "server" THEN sent.tools \subseteq tools
    ELSE /\ \A entry \in sent.body.tools :
               entry.function # Unnamed \/ entry.name # Unnamed =>
                   entry.function \in tools \/ entry.name \in tools
         /\ \A name \in sent.body.functions : name # Unnamed => name \in tools
Harmless(sent) == IF sent.via = "server" THEN sent.input # "dirty" ELSE sent.body.dirty = {}
Pins(entry, sent) ==
    CASE entry.model = NoModel -> TRUE
      [] entry.model # NoModel /\ sent.via = "server" -> sent.model \in {entry.model, NoModel}
      [] entry.model # NoModel /\ sent.via = "proxy" -> sent.body.model = entry.model

Declares(agents, i, sent) ==
    /\ agents[i].id = sent.agent /\ \A j \in 1..i - 1 : agents[j].id # sent.agent
    /\ sent.prompt \in agents[i].prompts

Admissible(k) ==
    LET sent == k.sent
        agents == k.reg.agents
    IN  /\ sent.via = "proxy" => sent.authentic /\ ~Ambiguous(sent.body)
        /\ \E i \in 1..Len(agents) :
              /\ Declares(agents, i, sent)
              /\ Covered(sent, agents[i].tools) /\ Pins(agents[i], sent)
        /\ Guarded => Harmless(sent)

(***************************************************************************)
(* Only a request that passes every gate of the process that handled it    *)
(* reaches the upstream or is charged: a blocked request consumes no       *)
(* budget (server.go:90-95).  What keeps the promise at the end has it.    *)
(***************************************************************************)
Upstream(c) ==
    At(c, "upstream") \/ (Req(c).via = "proxy" /\ call[c].response # NoResponse)
BlockedDrawsNothing ==
    \A c \in Calls :
        Upstream(c) \/ (\E h \in charges : h.call = c) => Admissible(call[c])

(***************************************************************************)
(* With a registry that Validate has no finding about, what a request was  *)
(* let through with is pinned: one owned agent answers for it, and its     *)
(* prompt and tools are versioned ("before anything downstream relies on   *)
(* it", registry.go:5-7).  Nothing holds an output to the registry.        *)
(***************************************************************************)
Pinned(artifacts, ids) ==
    \A id \in ids :
        \E i \in 1..Len(artifacts) :
            /\ artifacts[i].id = id /\ artifacts[i].versioned
            /\ \A j \in 1..Len(artifacts) : artifacts[j].id = id => i = j
LetThrough(c) ==
    /\ Req(c).via # "output"
    /\ \/ call[c].reply \in {"admitted", "response", "blocked", "cut", "broken"}
       \/ call[c].response # NoResponse
QualifiedSurface ==
    \A c \in Calls : LetThrough(c) /\ Validate(call[c].reg) = {} =>
        /\ Pinned(call[c].reg.agents, {Req(c).agent})
        /\ Pinned(call[c].reg.prompts, {Req(c).prompt})
        /\ Pinned(call[c].reg.tools, Req(c).tools)
        /\ \E a \in ToSet(call[c].reg.agents) : a.id = Req(c).agent /\ a.owned

(***************************************************************************)
(* The tally of a window is what was admitted in it, request by request    *)
(* and unit of cost by unit of cost: nothing concurrent, late or denied is *)
(* counted, lost or counted twice.  Its cost stays within the limit; what  *)
(* the limit on requests is worth over any time, TwiceBudget says.         *)
(***************************************************************************)
InWindow(a) ==
    {h \in charges : /\ Req(h.call).agent = a
                     /\ h.start = window[a].start /\ h.life = restarts}
Units(H) == UNION {{h} \X (1..Req(h.call).cost) : h \in H}
TallyExact ==
    \A a \in DOMAIN LimitOf : window[a] # NoWindow =>
        /\ window[a].requests = Cardinality(InWindow(a))
        /\ window[a].cost = Cardinality(Units(InWindow(a)))
        /\ LimitOf[a].cost > 0 => window[a].cost <= LimitOf[a].cost

(***************************************************************************)
(* An agent "can run up to twice MaxRequests" across a window's boundary   *)
(* (limit.go:79-87) and no more: over any stretch of time shorter than the *)
(* window by the delay between reading the clock and charging.  The        *)
(* windows are in memory, so that each restart gives it one budget more.   *)
(***************************************************************************)
TwiceBudget ==
    \A a \in DOMAIN LimitOf : LimitOf[a].requests > 0 =>
        \A t \in 0..clock :
            LET length == IF LimitOf[a].window = 0 THEN clock + 1
                          ELSE LimitOf[a].window - Delay
                budgets == restarts + IF LimitOf[a].window = 0 THEN 1 ELSE 2
            IN  Cardinality({h \in charges : /\ Req(h.call).agent = a
                                             /\ h.at \in t..(t + length - 1)})
                    <= budgets * LimitOf[a].requests

(***************************************************************************)
(* With a guardrail, no content that a rule matches passes, and the log    *)
(* says of every response and every output that was screened what became   *)
(* of it, under its id and its agent, unless that line was lost or a kill  *)
(* came first; an id that one call has says it once.                       *)
(***************************************************************************)
OutputLines(c) ==
    {i \in 1..Len(log) : /\ log[i].id = IdOf(c) /\ log[i].agent = Req(c).agent
                         /\ log[i].phase = "output"}
Screened(c) ==
    /\ Done(c) /\ call[c].reply \in {"response", "blocked", "cut"}
    /\ <<c, "output">> \notin unlogged
OutputVerdict ==
    Guarded => \A c \in Calls :
        /\ call[c].reply = "response" => call[c].response.content = "clean"
        /\ Screened(c) => \E i \in OutputLines(c) :
                              /\ log[i].allowed <=> call[c].reply = "response"
                              /\ Req(c).id = "own" => OutputLines(c) = {i}

(***************************************************************************)
(* What was forwarded to the upstream was logged before, whenever the      *)
(* gateway is killed and whatever comes back; except when the write of     *)
(* that very line failed, which the code does not notice (server.go:191).  *)
(***************************************************************************)
InputLogged(c) ==
    \E i \in 1..Len(log) :
        /\ log[i].id = IdOf(c) /\ log[i].agent = Req(c).agent
        /\ log[i].phase = "input" /\ log[i].allowed
ForwardedLogged ==
    \A c \in Calls : Upstream(c) /\ <<c, "input">> \notin unlogged => InputLogged(c)

(***************************************************************************)
(* The gateway "records every call" (docs/adr/0007:13).  It does not: one  *)
(* whose line could not be written is forwarded all the same.              *)
(***************************************************************************)
EveryCallLogged == \A c \in Calls : Upstream(c) => InputLogged(c)

(***************************************************************************)
(* An output is not held to the registry because "the agent already passed *)
(* the input-admission decision" (server.go:119).  This does not hold:     *)
(* nothing asks whether it did.                                            *)
(***************************************************************************)
OutputAdmitted ==
    \A c \in Calls : Req(c).via = "output" /\ call[c].reply = "response" =>
        \E d \in Calls : call[d].reply = "admitted" /\ Req(d).agent = Req(c).agent

(***************************************************************************)
(* A report over a log that lost no line of an id has one record for the   *)
(* calls with that id, however many callers used it and however their      *)
(* lines are spread: not satisfied if one of them was denied, withheld or  *)
(* cut, and, as long as the registry is the one they were decided with,    *)
(* exactly then or if an output passed that is of no registered agent and  *)
(* prompt; whether it is drawn from the lines or from spans of the same    *)
(* calls (trace.go:172-179).  There is none over lines of which one is     *)
(* torn.                                                                   *)
(***************************************************************************)
Sharing(id) == {c \in Calls : Req(c) # NoRequest /\ IdOf(c) = id}
Whole(id) == \A c \in Sharing(id), phase \in {"input", "output"} : <<c, phase>> \notin unlogged
Refused(c) == call[c].reply \in {"unauthorized", "denied", "blocked", "cut"}
Stray(c) ==
    /\ Req(c).via = "output" /\ call[c].reply = "response"
    /\ LET agents == call[c].reg.agents
       IN  ~\E i \in 1..Len(agents) : Declares(agents, i, Req(c))
EvidenceFaithful ==
    \A id \in Calls \cup {SharedId}, transport \in Transports :
      Whole(id) =>
        \A record \in Reports(transport, registry, log, torn) :
          LET of == {n \in 1..Len(record) : record[n].subject[2] = id}
          IN  /\ Cardinality(of) <= 1
              /\ (\E c \in Sharing(id) : Done(c) /\ call[c].reply # "lost") => of # {}
              /\ \A n \in of :
                    /\ (\E c \in Sharing(id) : Refused(c))
                          => record[n].result = "not-satisfied"
                    /\ (\A c \in Sharing(id) : call[c].reg = registry)
                          => (record[n].result = "satisfied"
                                <=> ~\E c \in Sharing(id) : Refused(c) \/ Stray(c))

(***************************************************************************)
(* Of two reports that can be drawn while the registry stays, the later    *)
(* never takes back a lapse, nor moves or drops a record: later lines of   *)
(* an interaction, or of another one that reuses its id, can only make it  *)
(* worse.  After a torn line none can be drawn from the lines any more.    *)
(***************************************************************************)
EvidenceMonotone ==
    [][registry' = registry =>
         \A transport \in Transports :
            \A before \in Reports(transport, registry, log, torn),
               after \in Reports(transport, registry', log', torn') :
              /\ Len(before) <= Len(after)
              /\ \A n \in 1..Len(before) :
                    /\ after[n].subject = before[n].subject
                    /\ before[n].result = "not-satisfied" =>
                          after[n].result = "not-satisfied"]_vars

(***************************************************************************)
(* Each call, through any door, keeps the promise of module Interaction:   *)
(* what was drawn from a budget is drawn once and let through unless the   *)
(* gateway is killed, "a blocked request consumes nothing" (server.go:     *)
(* 94-95), nothing is refused or withheld without a reason in what was     *)
(* sent or answered, and no end of a call is revised.  An entry with two   *)
(* names is blameless if both are tools of the agent.                      *)
(***************************************************************************)
Case(k) == [sent |-> k.sent, reg |-> k.reg]
Metered(k) == k.sent.agent \in DOMAIN LimitOf
Uncapped(k) ==
    Metered(k) => LET lim == LimitOf[k.sent.agent]
                  IN  k.sent.cost >= 0 /\ lim.requests = 0 /\ lim.cost = 0
Blameless(k) ==
    /\ Admissible(k) /\ Uncapped(k)
    /\ k.sent.via = "proxy" => \A entry \in k.sent.body.tools, a \in ToSet(k.reg.agents) :
          a.id = k.sent.agent => {entry.function, entry.name} \ {Unnamed} \subseteq a.tools
IsOutput(k) == k.sent.via = "output"
Deliverable(r) == r.content # "broken" /\ (Guarded => r.content = "clean")

Stage(k) ==
    CASE k.reply \in {"bad request", "unauthorized", "denied"} -> "refused"
      [] k.reply = "response" -> "delivered"
      [] k.reply \in {"blocked", "cut"} -> "withheld"
      [] k.reply \in {"broken", "lost"} -> "lost"
      [] k.reply = "admitted" -> "running"
      [] k.reply = "none" -> IF k.step \in {"upstream", "screen"} THEN "running" ELSE "open"
Drawn(c) == \E h \in charges : h.call = c
Progress(c) == [stage |-> Stage(call[c]), case |-> Case(call[c]), drawn |-> Drawn(c),
                answer |-> call[c].response]

Promise == INSTANCE Interaction
    WITH Unread <- Case(Fresh), NoAnswer <- NoResponse, Sound <- Admissible,
         Presented <- IsOutput,
         progress <- [c \in Calls |-> Progress(c)]
ImplementsInteraction == Promise!Spec
=============================================================================
