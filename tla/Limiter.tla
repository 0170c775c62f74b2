------------------------------ MODULE Limiter ------------------------------
(***************************************************************************)
(* The budget arithmetic of internal/gateway/limit.go: one fixed window    *)
(* per agent, opened by the first charge after the last window has         *)
(* elapsed.  Limiter.Charge applies these operators under its mutex, and   *)
(* module Gateway does so in one step.  Costs are whole numbers here.      *)
(***************************************************************************)
EXTENDS Integers

(***************************************************************************)
(* A zero limit is no limit; a zero window never elapses.                  *)
(***************************************************************************)
Limits == [requests : Nat, cost : Nat, window : Nat]

Window == [start : Nat, requests : Nat, cost : Nat]
NoWindow == [start |-> "none"]
Opened(now) == [start |-> now, requests |-> 0, cost |-> 0]

Elapsed(w, lim, now) == lim.window > 0 /\ now - w.start >= lim.window
Current(w, lim, now) ==
    IF w = NoWindow THEN Opened(now)
    ELSE IF Elapsed(w, lim, now) THEN Opened(now) ELSE w

FitsLate(w, lim, cost) ==                          \* mutant: one too many
    /\ lim.requests > 0 => w.requests <= lim.requests
    /\ lim.cost > 0 => w.cost + cost <= lim.cost
Fits(w, lim, cost) ==
    /\ lim.requests > 0 => w.requests + 1 <= lim.requests
    /\ lim.cost > 0 => w.cost + cost <= lim.cost

CountedFree(w, cost) == [w EXCEPT !.requests = @ + 1]   \* mutant: cost forgotten
Counted(w, cost) == [w EXCEPT !.requests = @ + 1, !.cost = @ + cost]
=============================================================================
