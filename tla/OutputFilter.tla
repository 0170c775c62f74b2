--------------------------- MODULE OutputFilter ---------------------------
(***************************************************************************)
(* What the screening of a streamed response promises                      *)
(* (screeningReader, internal/gateway/proxy.go): what the agent has is a   *)
(* prefix of what the upstream sent, it only grows, no rule matches its    *)
(* events or their strings one after the other, and one verdict is given,  *)
(* after which nothing more is read.                                       *)
(***************************************************************************)
EXTENDS Sequences, SequencesExt

CONSTANTS
    Clean(_),    \* no rule matches this content
    Verdicts     \* what a verdict may say, "allowed" among others

VARIABLES
    sent,        \* what was read from the upstream
    got,         \* what the agent was given
    verdict      \* what the log says of the response, or "none"

Init == sent = <<>> /\ got = <<>> /\ verdict = "none"

Grow == IsPrefix(sent, sent') /\ IsPrefix(got, got') /\ IsPrefix(got', sent')

Next ==
    /\ Grow
    /\ Clean(got')
    /\ verdict' \in Verdicts \cup {"none"}
    /\ verdict # "none" => UNCHANGED <<sent, verdict>>
    /\ verdict' = "allowed" => Clean(sent')

Spec == Init /\ [][Next]_<<sent, got, verdict>>
=============================================================================
