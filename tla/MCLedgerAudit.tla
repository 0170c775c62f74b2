--------------------------- MODULE MCLedgerAudit ---------------------------
(***************************************************************************)
(* Small instances of LedgerAudit: one goroutine in each of two processes, *)
(* and the auditor.                                                        *)
(***************************************************************************)
EXTENDS LedgerAudit

CONSTANTS t1, t3, h1, h3, p1, p2, r1, r2

MCHandleOf == [t \in Threads |-> IF t = t1 THEN h1 ELSE h3]
MCProcOf == [h \in Handles |-> IF h = h1 THEN p1 ELSE p2]
MCLegacies == {<<>>, <<r1>>}
MCNoLegacy == {<<>>}
=============================================================================
