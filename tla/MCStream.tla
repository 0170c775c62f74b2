------------------------------ MODULE MCStream ------------------------------
(***************************************************************************)
(* A small instance of Stream: a pattern of three units, two of which are  *)
(* the same, and an id that stands beside them.                            *)
(***************************************************************************)
EXTENDS Stream

CONSTANTS a, b, id
MCPattern == <<a, a, b>>
=============================================================================
