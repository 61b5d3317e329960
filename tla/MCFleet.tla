------------------------------ MODULE MCFleet ------------------------------
(***************************************************************************)
(* Instances of Fleet for TLC.                                             *)
(***************************************************************************)
EXTENDS Fleet, TLC

CONSTANTS n1, n2, i1, r1, r2

OneEach == (n1 :> {i1}) @@ (n2 :> {i1})

\* for the safety run: the nodes, and the requests, are interchangeable
Alike == Permutations({n1, n2}) \cup Permutations({r1, r2})
=============================================================================
