------------------------------- MODULE Traces -------------------------------
(***************************************************************************)
(* FromAgentTraces of internal/evidence/trace.go: the evidence records     *)
(* that a gateway interaction log amounts to, one per interaction.  The    *)
(* lines come as the gateway wrote them, or as the spans of an OTLP export *)
(* of the same interactions.                                               *)
(***************************************************************************)
EXTENDS Decision

CONSTANT NoId      \* the id of an interaction that carries none

(***************************************************************************)
(* Of the attributes of a span neither the model nor the phase is read.    *)
(* One without an id has that of the span, which no other span has: it     *)
(* stands alone, as a line without an id does.                             *)
(***************************************************************************)
Transports == {"lines", "spans"}
spanToTrace(line) == [line EXCEPT !.model = NoModel, !.phase = "input"]
parseTraces(transport, lines) ==
    IF transport = "lines" THEN lines
    ELSE [i \in DOMAIN lines |-> spanToTrace(lines[i])]

(***************************************************************************)
(* One line that does not parse fails the whole log.  In an export there   *)
(* is none.                                                                *)
(***************************************************************************)
ParseFails(transport, torn) == transport = "lines" /\ torn

(***************************************************************************)
(* A blocked line is a lapse; an allowed one is judged again, from what    *)
(* the line says.                                                          *)
(***************************************************************************)
LineResult(reg, line) ==
    IF line.allowed /\ Decide(reg, line, FALSE) = "allowed"
    THEN "satisfied" ELSE "not-satisfied"

(***************************************************************************)
(* Lines with the same id are phases of one interaction; lines without one *)
(* cannot be correlated.                                                   *)
(***************************************************************************)
SameInteraction(lines, i, j) ==
    i = j \/ (lines[i].id = lines[j].id /\ lines[i].id # NoId)

IsFirst(lines, i) == \A j \in 1..(i - 1) : ~SameInteraction(lines, i, j)

(***************************************************************************)
(* The worst verdict over the phases wins.                                 *)
(***************************************************************************)
FirstPhase(reg, lines, i) == LineResult(reg, lines[i])   \* mutant: the request masks
LatestPhase(reg, lines, i) ==                      \* mutant: the last line decides
    LineResult(reg, lines[CHOOSE j \in 1..Len(lines) :
        /\ SameInteraction(lines, i, j)
        /\ \A k \in (j + 1)..Len(lines) : ~SameInteraction(lines, i, k)])
Worst(reg, lines, i) ==
    IF \A j \in 1..Len(lines) :
          SameInteraction(lines, i, j) => LineResult(reg, lines[j]) = "satisfied"
    THEN "satisfied" ELSE "not-satisfied"

(***************************************************************************)
(* One record per interaction, in the order of their first lines.          *)
(***************************************************************************)
FirstLines(lines) == {i \in 1..Len(lines) : IsFirst(lines, i)}
NthOf(S, n) == CHOOSE i \in S : Cardinality(S \cap (1..i)) = n

AgentRecords(reg, lines) ==
    LET first == FirstLines(lines)
        record(i) == [subject |-> <<lines[i].agent, lines[i].id>>,
                      result |-> Worst(reg, lines, i)]
    IN  [n \in 1..Cardinality(first) |-> record(NthOf(first, n))]

(***************************************************************************)
(* The report that can be drawn, if any.                                   *)
(***************************************************************************)
Reports(transport, reg, lines, torn) ==
    IF ParseFails(transport, torn) THEN {}
    ELSE {AgentRecords(reg, parseTraces(transport, lines))}
=============================================================================
