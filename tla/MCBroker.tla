------------------------------ MODULE MCBroker ------------------------------
(***************************************************************************)
(* Instances of Broker for TLC: at most two targets, the first one due     *)
(* before the second, and two /clear handlers.                             *)
(***************************************************************************)
EXTENDS Broker, TLC

CONSTANTS d1, d2, c1, c2

MCDue == (d1 :> 1) @@ (d2 :> 2)
MCDueOne == d1 :> 1

\* every request, and enough of them to reach every stage but the kills, which
\* change nothing in the broker
EveryRequest == SUBSET Flag
MainRequests == {{"cancel"}, {"retire"}, {"cancel", "retire"}}

(***************************************************************************)
(* A job insert that fails may be repeated without end: records are lost   *)
(* and the attempt made again, or written again.  The bound lets both go   *)
(* once past the retries of a target.                                      *)
(***************************************************************************)
MaxJobs == 3
JobsBounded ==
    \A t \in Target : attempts[t] <= MaxJobs /\ successes[t] + failures[t] <= MaxJobs
=============================================================================
