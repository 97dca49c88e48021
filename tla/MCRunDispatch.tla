----------------------------- MODULE MCRunDispatch -----------------------------
(***************************************************************************)
(* TLC instances of RunDispatch: a plan without Sentinel and two with a    *)
(* small cap.  Dispatchers are interchangeable.                            *)
(***************************************************************************)
EXTENDS RunDispatch, TLC

CONSTANTS Free, Pro, ProPlus

Caps == [p \in Plans |-> CASE p = Free -> 0 [] p = Pro -> 1 [] p = ProPlus -> 2]


===============================================================================
