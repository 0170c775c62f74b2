------------------------------- MODULE Stream -------------------------------
(***************************************************************************)
(* The screening of one streamed response (screeningReader of              *)
(* internal/gateway/proxy.go): the upstream's bytes arrive in chunks that  *)
(* know nothing of events, whole events are screened together with the     *)
(* tail of what went before, and the agent is given what passed.           *)
(*                                                                         *)
(* A stream is a sequence of units: text (the strings in the data lines),  *)
(* Mark (a field outside the data lines that a rule matches), and          *)
(* Boundary, which ends an event.  The screen joins every string of every  *)
(* event; the agent puts together only what is not Aside.                  *)
(***************************************************************************)
EXTENDS Integers, Sequences, SequencesExt, FiniteSets

CONSTANTS
    TextUnits, Mark, Boundary,
    Aside,       \* text that the agent leaves aside: ids, roles, model names
    Pattern,     \* the text that a rule matches
    Overlap,     \* overlapBytes: the tail that is screened again
    MaxPending,  \* maxPendingBytes: the longest event that is buffered
    MaxChunk,    \* the size of the read buffer
    MaxSent      \* bound: the length of the stream

Units == TextUnits \cup {Mark, Boundary}

(***************************************************************************)
(* "It must exceed the longest pattern a rule can match" (screen.go:26);   *)
(* all but one unit of the pattern is enough.                              *)
(***************************************************************************)
ASSUME StreamAssumption ==
    /\ Mark \notin TextUnits /\ Boundary \notin TextUnits /\ Mark # Boundary
    /\ Aside \subseteq TextUnits
    /\ Pattern \in Seq(TextUnits) /\ Pattern # <<>>
    /\ Overlap \in Nat /\ Len(Pattern) - 1 <= Overlap
    /\ MaxPending \in Nat /\ MaxChunk \in Nat \ {0} /\ MaxSent \in Nat

VARIABLES
    pending,     \* read, not yet a whole event
    ready,       \* screened, not yet given to the agent
    textTail,    \* the tail of the text that passed
    done,        \* no more is read
    verdicts,    \* the output verdicts that were logged
    end,         \* how the response ended, for the agent
    sent, got    \* history: all that was read, all that was given

vars == <<pending, ready, textTail, done, verdicts, end, sent, got>>

----------------------------------------------------------------------------
(* The guardrail                                                           *)

Text(content) ==
    LET text[n \in 0..Len(content)] ==
            IF n = 0 THEN <<>>
            ELSE IF content[n] \in TextUnits THEN Append(text[n - 1], content[n])
            ELSE text[n - 1]
    IN  text[Len(content)]
AgentText(content) == SelectSeq(Text(content), LAMBDA unit : unit \notin Aside)
Occurs(pattern, text) ==
    \E i \in 0..Len(text) - Len(pattern) :
        SubSeq(text, i + 1, i + Len(pattern)) = pattern

Passes(text) == ~Occurs(Pattern, text)
RawPasses(event) == \A i \in 1..Len(event) : event[i] # Mark
Clean(content) == Passes(Text(content)) /\ RawPasses(content)

LastUnits(s, n) == SubSeq(s, IF Len(s) > n THEN Len(s) - n + 1 ELSE 1, Len(s))

----------------------------------------------------------------------------
(* Reading                                                                 *)

(***************************************************************************)
(* The reader as a record, so that one event after the other can be        *)
(* screened.  log records a verdict once.                                  *)
(***************************************************************************)
Reader == [pending |-> pending, ready |-> ready, tail |-> textTail,
           done |-> done, verdicts |-> verdicts]

Logged(r, outcome) ==
    IF r.verdicts = <<>> THEN [r EXCEPT !.verdicts = <<outcome>>] ELSE r
Cut(r, outcome) == Logged([r EXCEPT !.done = TRUE, !.pending = <<>>], outcome)

TailOfEvent(probe, text) == LastUnits(text, Overlap)   \* mutant: one event back
NextTail(probe, text) == LastUnits(probe, Overlap)

(***************************************************************************)
(* screen: the event as text behind the tail, then as it is.               *)
(***************************************************************************)
ScreenEvent(r) ==
    LET text == Text(r.pending)
        probe == r.tail \o text
    IN  IF Passes(probe) /\ RawPasses(r.pending)
        THEN [r EXCEPT !.ready = @ \o r.pending, !.pending = <<>>,
                       !.tail = NextTail(probe, text)]
        ELSE Cut(r, "guardrail")

(***************************************************************************)
(* drain(false), unit by unit: a boundary completes the event; what comes  *)
(* after a blocked event is never looked at.                               *)
(***************************************************************************)
Take(r, unit) ==
    IF r.done THEN r
    ELSE LET more == [r EXCEPT !.pending = Append(@, unit)]
         IN  IF unit = Boundary THEN ScreenEvent(more) ELSE more

Unbounded(r) == r                                  \* mutant: no limit
Bounded(r) ==
    IF ~r.done /\ Len(r.pending) > MaxPending THEN Cut(r, "overflow") ELSE r

Drained(r, chunk) ==
    LET taken[n \in 0..Len(chunk)] ==
            IF n = 0 THEN r ELSE Take(taken[n - 1], chunk[n])
    IN  Bounded(taken[Len(chunk)])

(***************************************************************************)
(* drain(true) and finish, at the end of the upstream's response: the      *)
(* unterminated last event is screened too.                                *)
(***************************************************************************)
TailDropped(r) ==                                  \* mutant: last event forgotten
    IF r.done THEN r ELSE Logged([r EXCEPT !.done = TRUE], "allowed")
Finished(r) ==
    LET last == IF ~r.done /\ r.pending # <<>> THEN ScreenEvent(r) ELSE r
    IN  IF last.done THEN last ELSE Logged([last EXCEPT !.done = TRUE], "allowed")

----------------------------------------------------------------------------
(* The steps                                                               *)

Init ==
    /\ pending = <<>> /\ ready = <<>> /\ textTail = <<>>
    /\ done = FALSE /\ verdicts = <<>> /\ end = "open"
    /\ sent = <<>> /\ got = <<>>

Become(r) ==
    /\ pending' = r.pending /\ ready' = r.ready /\ textTail' = r.tail
    /\ done' = r.done /\ verdicts' = r.verdicts

Reading == end = "open" /\ ready = <<>> /\ ~done
Chunks == {c \in BoundedSeq(Units, MaxChunk) : Len(sent) + Len(c) <= MaxSent}

(***************************************************************************)
(* One read from the upstream: a chunk, alone or with the end of the       *)
(* response, or with an error.  An error is passed on at once, and what    *)
(* the chunk made ready is lost.                                           *)
(***************************************************************************)
Read ==
    /\ Reading
    /\ \E chunk \in Chunks \ {<<>>} :
          Become(Drained(Reader, chunk)) /\ sent' = sent \o chunk
    /\ UNCHANGED <<end, got>>

ReadLast ==
    /\ Reading
    /\ \E chunk \in Chunks :
          Become(Finished(Drained(Reader, chunk))) /\ sent' = sent \o chunk
    /\ UNCHANGED <<end, got>>

ReadError ==
    /\ Reading
    /\ \E chunk \in Chunks :
          Become(Drained(Reader, chunk)) /\ sent' = sent \o chunk
    /\ end' = "error"
    /\ UNCHANGED got

(***************************************************************************)
(* The agent is given as much of what is ready as its buffer holds.        *)
(***************************************************************************)
Deliver ==
    /\ end = "open" /\ ready # <<>>
    /\ \E n \in 1..Len(ready) :
          /\ got' = got \o SubSeq(ready, 1, n)
          /\ ready' = SubSeq(ready, n + 1, Len(ready))
    /\ UNCHANGED <<pending, textTail, done, verdicts, end, sent>>

EndOfStream ==
    /\ end = "open" /\ ready = <<>> /\ done
    /\ end' = "eof"
    /\ UNCHANGED <<pending, ready, textTail, done, verdicts, sent, got>>

(***************************************************************************)
(* The agent hangs up.                                                     *)
(***************************************************************************)
Close ==
    /\ end = "open"
    /\ end' = "closed"
    /\ UNCHANGED <<pending, ready, textTail, done, verdicts, sent, got>>

Next == Read \/ ReadLast \/ ReadError \/ Deliver \/ EndOfStream \/ Close

Spec == Init /\ [][Next]_vars

----------------------------------------------------------------------------
(* Properties                                                              *)

(***************************************************************************)
(* Types; an upstream without boundaries cannot grow the buffer without    *)
(* limit (proxy.go:436-438), and what is ready comes from one read and     *)
(* the event it completed.                                                 *)
(***************************************************************************)
StreamTypeOK ==
    /\ pending \in Seq(Units) /\ Len(pending) <= MaxPending
    /\ ready \in Seq(Units) /\ Len(ready) <= MaxPending + MaxChunk
    /\ textTail \in Seq(TextUnits) /\ Len(textTail) <= Overlap
    /\ done \in BOOLEAN
    /\ verdicts \in Seq({"allowed", "guardrail", "overflow"})
    /\ end \in {"open", "eof", "error", "closed"}
    /\ sent \in Seq(Units) /\ got \in Seq(Units)

(***************************************************************************)
(* The agent never has events whose strings, all of them one after the     *)
(* other, a rule matches, however the pattern is spread over events and    *)
(* chunks, and only gets what was sent, in order.  Of what the agent makes *)
(* of some of these strings it says nothing (NeverReassembled).            *)
(***************************************************************************)
Filter == INSTANCE OutputFilter
    WITH verdict <- IF verdicts = <<>> THEN "none" ELSE Last(verdicts),
         Verdicts <- {"allowed", "guardrail", "overflow"}
ImplementsFilter == Filter!Spec

(***************************************************************************)
(* A stream that ended by itself has exactly one verdict, and the verdict  *)
(* is true of the strings of its events, all of them one after the other:  *)
(* a clean stream was "forwarded unchanged" (proxy.go:376), and a cut one  *)
(* up to the last event before the offence, no less.                       *)
(***************************************************************************)
WholeEvents(content) ==
    {<<>>} \cup {SubSeq(content, 1, i) : i \in {j \in 1..Len(content) : content[j] = Boundary}}
LongestClean(content) ==
    CHOOSE p \in WholeEvents(content) :
        Clean(p) /\ \A q \in WholeEvents(content) : Clean(q) => Len(q) <= Len(p)
VerdictTrue ==
    end = "eof" =>
        /\ Len(verdicts) = 1
        /\ Last(verdicts) = "allowed" => Clean(sent) /\ got = sent
        /\ Last(verdicts) = "guardrail" => ~Clean(sent) /\ got = LongestClean(sent)
        /\ Last(verdicts) = "overflow" =>
              got = LongestClean(sent) /\ Len(sent) - Len(got) > MaxPending

(***************************************************************************)
(* "Token-by-token deltas concatenate into the same string the agent's     *)
(* parser reconstructs" (screen.go:164-165), "so the full pattern is never *)
(* completed" (proxy.go:461-462).  This does not hold: with another string *)
(* beside the deltas of the events the screened text is not that string.   *)
(***************************************************************************)
NeverReassembled == ~Occurs(Pattern, AgentText(got))
=============================================================================
