----------------------------- MODULE MCScraper -----------------------------
(***************************************************************************)
(* Instances of Scraper for TLC: browsers that ask for an instance id of   *)
(* their own, and b3, which asks for the id of b1.                         *)
(***************************************************************************)
EXTENDS Scraper, TLC

CONSTANTS i1, i2, b1, b2, b3, g1, g2, k1, k2

WantsOwn == (b1 :> i1) @@ (b2 :> i2)
WantsShared == WantsOwn @@ (b3 :> i1)
AsksFirst == (g1 :> i1) @@ (g2 :> i1)
AsksNone == <<>>
=============================================================================
