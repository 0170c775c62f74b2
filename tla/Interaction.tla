----------------------------- MODULE Interaction -----------------------------
(***************************************************************************)
(* What the gateway (internal/gateway) promises of each call, whichever    *)
(* door it comes through and whatever else is under way.  A request is     *)
(* read, may draw on its agent's budget, and is then refused, for a        *)
(* reason, or let through, having drawn exactly if its agent has a budget; *)
(* what is let through gets one answer at most.  An output is presented    *)
(* with its answer, draws nothing, and is asked for no admission.  The     *)
(* agent gets the answer or, for a reason, does not.  Every end is final.  *)
(***************************************************************************)
CONSTANTS
    Calls,           \* the calls
    Unread,          \* the case of a call that was not read
    NoAnswer,        \* no answer yet
    Presented(_),    \* cases that are outputs
    Metered(_),      \* cases whose agent has a budget
    Sound(_),        \* cases that may be let through
    Blameless(_),    \* cases that may not be refused
    Deliverable(_)   \* answers that the agent may have

VARIABLE progress    \* of each call

New == [stage |-> "open", case |-> Unread, drawn |-> FALSE, answer |-> NoAnswer]

Init == progress = [c \in Calls |-> New]

Read(old, new) ==
    /\ old = New /\ ~Presented(new.case)
    /\ new = [old EXCEPT !.case = new.case]

Present(old, new) ==
    /\ old = New /\ Presented(new.case) /\ new.answer # NoAnswer
    /\ new = [old EXCEPT !.stage = "running", !.case = new.case, !.answer = new.answer]

Open(old) == old.stage = "open" /\ old.case # Unread

Draw(old, new) ==
    /\ Open(old) /\ ~old.drawn
    /\ Metered(old.case) /\ Sound(old.case)
    /\ new.drawn /\ new = [old EXCEPT !.drawn = new.drawn]

Refuse(old, new) ==
    /\ old.stage = "open" /\ ~old.drawn
    /\ old.case # Unread => ~Blameless(old.case)
    /\ new = [old EXCEPT !.stage = "refused"]

LetThrough(old, new) ==
    /\ Open(old) /\ Sound(old.case)
    /\ old.drawn <=> Metered(old.case)
    /\ new = [old EXCEPT !.stage = "running"]

(***************************************************************************)
(* An answer that has been given is not exchanged for another.             *)
(***************************************************************************)
Answered(old, new) == old.answer # NoAnswer => new.answer = old.answer

Answer(old, new) ==
    /\ old.stage = "running" /\ Answered(old, new)
    /\ new = [old EXCEPT !.answer = new.answer]

Deliver(old, new) ==
    /\ old.stage = "running" /\ Answered(old, new)
    /\ new.answer # NoAnswer /\ Deliverable(new.answer)
    /\ new = [old EXCEPT !.stage = "delivered", !.answer = new.answer]

Withhold(old, new) ==
    /\ old.stage = "running" /\ old.answer # NoAnswer
    /\ ~Deliverable(old.answer)
    /\ new = [old EXCEPT !.stage = "withheld"]

Lose(old, new) ==
    /\ Open(old) \/ old.stage = "running"
    /\ Answered(old, new)
    /\ new = [old EXCEPT !.stage = "lost", !.answer = new.answer]

Step(old, new) ==
    \/ Read(old, new) \/ Present(old, new) \/ Draw(old, new) \/ Refuse(old, new) \/ LetThrough(old, new)
    \/ Answer(old, new) \/ Deliver(old, new) \/ Withhold(old, new) \/ Lose(old, new)

(***************************************************************************)
(* A kill is a step of every call that is under way.                       *)
(***************************************************************************)
Next ==
    /\ DOMAIN progress' = Calls
    /\ \A c \in Calls : progress'[c] = progress[c] \/ Step(progress[c], progress'[c])

Spec == Init /\ [][Next]_progress
=============================================================================
