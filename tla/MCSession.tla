----------------------------- MODULE MCSession -----------------------------
(***************************************************************************)
(* Three requests on one browser, one of them with lazy loading: a holder, *)
(* the waiter it wakes, and one behind.                                    *)
(***************************************************************************)
EXTENDS Session

CONSTANTS g1, g2, g3
=============================================================================
