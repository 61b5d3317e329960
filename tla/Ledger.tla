------------------------------- MODULE Ledger -------------------------------
(***************************************************************************)
(* What the broker promises about its targets (src/broker/core/Broker.py   *)
(* and the two tables of DatabaseHandler.py), without its update loop, its *)
(* locks and its handlers: a target is registered, attempts at it are      *)
(* opened one at a time and closed with a success or a failure, and it is  *)
(* retired for good.  What is written is saved sooner or later; a restart  *)
(* falls back to what was.                                                 *)
(***************************************************************************)
EXTENDS Naturals

CONSTANTS
    Target,             \* the uuids a target may be registered under
    Retries,            \* the number of attempts a target is given
    ClearDbOnStartup    \* whether a restart empties the tables

VARIABLES
    row,        \* no row, enabled or disabled
    successes,  \* attempts of the target that are recorded as a success
    failures,   \* attempts of the target that are recorded as a failure
    open,       \* the targets with an attempt that is not recorded
    saved       \* the first three as they were last saved

vars == <<row, successes, failures, open, saved>>

Written == [row |-> row, successes |-> successes, failures |-> failures]

\* a step may save what it writes
MaySave == saved' \in {saved, Written'}

Init ==
    /\ row = [t \in Target |-> "absent"]
    /\ successes = [t \in Target |-> 0]
    /\ failures = [t \in Target |-> 0]
    /\ open = {}
    /\ saved = Written

\* a target is known from the moment /scrape has written its row
Register(S) ==
    /\ S # {} /\ \A t \in S : row[t] = "absent"
    /\ row' = [t \in Target |-> IF t \in S THEN "enabled" ELSE row[t]]
    /\ MaySave /\ UNCHANGED <<successes, failures, open>>

\* an attempt starts: never two at a time, never after a success
Open(t) ==
    /\ row[t] = "enabled" /\ t \notin open
    /\ successes[t] = 0 /\ failures[t] < Retries
    /\ open' = open \cup {t}
    /\ MaySave /\ UNCHANGED <<row, successes, failures>>

\* the attempts at S are recorded, those at W as successes
Close(S, W) ==
    /\ S # {} /\ S \subseteq open /\ W \subseteq S
    /\ open' = open \ S
    /\ successes' = [t \in Target |-> successes[t] + (IF t \in W THEN 1 ELSE 0)]
    /\ failures' = [t \in Target |-> failures[t] + (IF t \in S \ W THEN 1 ELSE 0)]
    /\ MaySave /\ UNCHANGED row

Retire(S) ==
    /\ S # {} /\ \A t \in S : row[t] = "enabled"
    /\ row' = [t \in Target |-> IF t \in S THEN "disabled" ELSE row[t]]
    /\ MaySave /\ UNCHANGED <<successes, failures, open>>

Save == saved' = Written /\ UNCHANGED <<row, successes, failures, open>>

\* a restart loses the open attempts and what was not saved, and the tables when
\* configured to
Forget ==
    /\ open' = {}
    /\ IF ClearDbOnStartup
       THEN /\ row' = [t \in Target |-> "absent"]
            /\ successes' = [t \in Target |-> 0]
            /\ failures' = [t \in Target |-> 0]
       ELSE /\ row' = saved.row
            /\ successes' = saved.successes
            /\ failures' = saved.failures
    /\ saved' = Written'

Next ==
    \/ \E S \in SUBSET Target : Register(S) \/ Retire(S)
    \/ \E t \in Target : Open(t)
    \/ \E S \in SUBSET Target : \E W \in SUBSET S : Close(S, W)
    \/ Save \/ Forget

Spec == Init /\ [][Next]_vars

-----------------------------------------------------------------------------
TypeOK ==
    /\ row \in [Target -> {"absent", "enabled", "disabled"}]
    /\ successes \in [Target -> Nat]
    /\ failures \in [Target -> Nat]
    /\ open \in SUBSET Target
    /\ saved \in [row : [Target -> {"absent", "enabled", "disabled"}],
                 successes : [Target -> Nat], failures : [Target -> Nat]]

\* A target has at most one success and at most Retries attempts, open ones
\* included: what a client that registers a url may rely on.
AttemptsBounded ==
    \A t \in Target :
        /\ successes[t] <= 1
        /\ successes[t] + failures[t] + (IF t \in open THEN 1 ELSE 0) <= Retries
        /\ t \in open => successes[t] = 0

\* a target nobody registered has no attempt: what makes AttemptsBounded and
\* SettledIsFinal inductive
Unregistered ==
    \A t \in Target : row[t] = "absent" =>
        successes[t] = 0 /\ failures[t] = 0 /\ t \notin open

\* what is saved is a part of what is written, and whole in itself
SavedIsWritten ==
    \A t \in Target :
        /\ saved.successes[t] <= successes[t] /\ saved.failures[t] <= failures[t]
        /\ saved.row[t] = "absent" => saved.successes[t] = 0 /\ saved.failures[t] = 0

SettledStays(t) ==
    /\ t \in open' => t \in open
    /\ row'[t] = "enabled" => "enabled" \in {row[t], saved.row[t]}

\* A target that was retired or has succeeded is never tried again, unless a
\* restart dropped the tables or came before that was saved.
SettledIsFinal ==
    [][\A t \in Target : row[t] = "disabled" \/ successes[t] > 0 => SettledStays(t)]_vars
=============================================================================
