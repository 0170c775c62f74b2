------------------------------ MODULE MCLedger ------------------------------
(***************************************************************************)
(* Small instances of Ledger.  Threads t1 and t2 append through handles of *)
(* their own in one process, t3 through the only handle of another.        *)
(***************************************************************************)
EXTENDS LedgerInvariant

CONSTANTS t1, t2, t3, h1, h2, h3, p1, p2, r1, big

MCHandleOf == [t \in Threads |-> IF t = t1 THEN h1 ELSE IF t = t2 THEN h2 ELSE h3]
MCProcOf == [h \in Handles |-> IF h = h3 THEN p2 ELSE p1]
MCLegacies == {<<>>, <<r1>>}
MCNoLegacy == {<<>>}
=============================================================================
