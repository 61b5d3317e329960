------------------------------- MODULE Fleet -------------------------------
(***************************************************************************)
(* The fleet behind the broker: the update cycle finds nodes by pinging    *)
(* them, keeps an image of the browsers of each, and sends a request to a  *)
(* browser whose image reads idle, or asks a node for a new browser        *)
(* (src/broker/core/Broker.py, NodeIdentifier.py, ScraperImage.py).        *)
(*                                                                         *)
(* Beside the images stand the nodes themselves, with as much of a scraper *)
(* as the broker can tell apart, and the requests on their way.            *)
(***************************************************************************)
EXTENDS Naturals, FiniteSets

CONSTANTS
    Node,           \* the nodes of the network
    Names,          \* Names[n]: the instance ids that are ever chosen for node n
    Request,        \* the /get requests of the broker
    MaxInstances    \* Config.MAX_INSTANCES_PER_SCRAPER

ASSUME FleetAssumption == MaxInstances \in Nat \ {0}

VARIABLES
    loop,       \* where the update cycle is
    reach,      \* reachable_nodes, dropped at the end of a cycle: nobody reads it later
    known,      \* the keys of scrapers
    online,     \* images that are online
    available,  \* images with available
    seen,       \* the ids in the image of each node
    idle,       \* those among them that may be chosen
    due,        \* images whose update has not returned
    asked,      \* the node and the id of the /new-instance that is awaited
    kills,      \* the /kill requests that a /clear awaits
    up,         \* nodes whose network works
    browser,    \* the browsers of each node
    request,    \* what each request is at
    to,         \* the node and the browser it is meant for
    awaited,    \* requests whose answer the broker awaits
    noted       \* history: requests that a refresh of their node has found holding the tab

image == <<known, online, available, seen, idle>>
cycle == <<loop, reach, due, asked, kills>>
task == <<request, to, awaited, noted>>
vars == <<cycle, image, up, browser, task>>

Browser == UNION {{n} \X Names[n] : n \in Node}
Nowhere == <<>>

TypeOK ==
    /\ loop \in {"ping", "meet", "refresh", "distribute", "creating", "created", "clearing"}
    /\ online \subseteq known /\ known \subseteq Node /\ reach \subseteq Node
    /\ available \subseteq known
    /\ {seen, idle} \subseteq [Node -> SUBSET UNION {Names[n] : n \in Node}]
    /\ \A n \in Node : idle[n] \subseteq seen[n] /\ seen[n] \subseteq Names[n]
    /\ due \subseteq online
    /\ asked \in Browser \cup {Nowhere} /\ (asked # Nowhere <=> loop \in {"creating", "created"})
    /\ kills \subseteq Browser /\ up \subseteq Node
    /\ browser \in [Browser -> {"none", "creating", "ready", "resting", "spotted"}]
    /\ request \in [Request -> {"none", "sent", "arrived", "holding"}]
    /\ to \in [Request -> Browser \cup {Nowhere}]
    /\ awaited \subseteq Request /\ noted \subseteq Request

Init ==
    /\ loop = "ping" /\ reach = {} /\ due = {} /\ asked = Nowhere /\ kills = {}
    /\ known = {} /\ online = {} /\ available = {}
    /\ seen = [n \in Node |-> {}] /\ idle = [n \in Node |-> {}]
    /\ up \in SUBSET Node
    /\ browser = [b \in Browser |-> "none"]
    /\ request = [r \in Request |-> "none"]
    /\ to = [r \in Request |-> Nowhere]
    /\ awaited = {} /\ noted = {}

-----------------------------------------------------------------------------
(***************************************************************************)
(* A node.                                                                 *)
(***************************************************************************)
Open(n) == {i \in Names[n] : browser[<<n, i>>] \in {"ready", "resting", "spotted"}}
On(b) == {r \in Request : request[r] \in {"arrived", "holding"} /\ to[r] = b}
\* the request that holds __get_lock
Holding(b) == {r \in On(b) : request[r] = "holding"}
\* status() is idle: the lock reads as free until a request has run, and while it
\* passes from one to the next
IsIdle(b) == browser[b] = "ready" /\ Holding(b) = {}

\* requests end; the broker has their answers if the network works
End(requests) ==
    /\ request' = [r \in Request |-> IF r \in requests THEN "none" ELSE request[r]]
    /\ to' = [r \in Request |-> IF r \in requests THEN Nowhere ELSE to[r]]
    /\ awaited' = awaited \ {r \in requests : to[r][1] \in up}
    /\ noted' = noted \ requests

\* a creation ends: the browser is registered, or creation has failed
CreationEnds(b) ==
    /\ browser[b] = "creating"
    /\ \E state \in {"ready", "none"} : browser' = [browser EXCEPT ![b] = state]
    /\ UNCHANGED <<cycle, image, up, task>>

\* the browser leaves the registry and its requests are aborted
Gone(b) ==
    /\ browser' = [browser EXCEPT ![b] = "none"]
    /\ End(On(b))

Expire(b) ==
    /\ b[2] \in Open(b[1]) /\ Gone(b)
    /\ UNCHANGED <<cycle, image, up>>

\* the recovery period is over and the score has dropped
Cool(b) ==
    /\ browser[b] = "resting" /\ browser' = [browser EXCEPT ![b] = "ready"]
    /\ UNCHANGED <<cycle, image, up, task>>

\* one of the requests that queue for the tab of their browser takes the lock
Begin(r) ==
    /\ request[r] = "arrived" /\ Holding(to[r]) = {}
    /\ request' = [request EXCEPT ![r] = "holding"]
    /\ UNCHANGED <<cycle, image, up, browser, to, awaited, noted>>

\* it is answered; no recovery period follows one that raises
Serve(r) ==
    /\ request[r] = "holding"
    /\ End({r})
    /\ \E state \in {"resting", "spotted", browser[to[r]]} :
           browser' = [browser EXCEPT ![to[r]] = IF @ = "spotted" THEN @ ELSE state]
    /\ UNCHANGED <<cycle, image, up>>

\* a request reaches its node; the scraper refuses it when the browser is gone or
\* about to expire, or when it is busy
Arrive(r) ==
    /\ request[r] = "sent" /\ to[r][1] \in up
    /\ \/ /\ to[r][2] \in Open(to[r][1])
          /\ request' = [request EXCEPT ![r] = "arrived"]
          /\ UNCHANGED <<to, awaited, noted>>
       \/ End({r})
    /\ UNCHANGED <<cycle, image, up, browser>>

\* a request does not get through
Lose(r) ==
    /\ request[r] = "sent" /\ (to[r][1] \notin up \/ r \notin awaited) /\ End({r})
    /\ UNCHANGED <<cycle, image, up, browser>>

\* the time-out of BrowserImage.get; the node goes on
TimeOut(r) ==
    /\ r \in awaited /\ awaited' = awaited \ {r}
    /\ UNCHANGED <<cycle, image, up, browser, request, to, noted>>

Down(n) == n \in up /\ up' = up \ {n} /\ UNCHANGED <<cycle, image, browser, task>>
Return(n) == n \notin up /\ up' = up \cup {n} /\ UNCHANGED <<cycle, image, browser, task>>

-----------------------------------------------------------------------------
(***************************************************************************)
(* The update cycle.                                                       *)
(***************************************************************************)
\* the cycle ends
Skip == loop' = "ping" /\ reach' = {} /\ asked' = Nowhere /\ UNCHANGED <<due, kills>>

\* update_reachable_nodes; a node may miss the 0.1 s
Ping ==
    /\ loop = "ping" /\ loop' = "meet"
    /\ reach' \in SUBSET up
    /\ UNCHANGED <<due, asked, kills, image, up, browser, task>>

\* ScraperImage.create, one node after the other
Meet(n) ==
    /\ loop = "meet" /\ n \in reach \ known
    /\ known' = known \cup {n} /\ online' = online \cup {n}
    /\ UNCHANGED <<cycle, available, seen, idle, up, browser, task>>

\* it raises, the cycle is aborted and the other nodes keep their flags
MeetFails ==
    /\ loop = "meet" /\ ~(reach \subseteq known) /\ Skip
    /\ UNCHANGED <<image, up, browser, task>>

\* Mutant: a node that is not reachable stays online.
MarksOnlineOnly ==
    /\ loop = "meet" /\ reach \subseteq known
    /\ online' = online \cup reach /\ due' = online' /\ loop' = "refresh"
    /\ UNCHANGED <<reach, asked, kills, known, available, seen, idle, up, browser, task>>

\* Mutant: a node that comes back stays offline.
MarksOfflineOnly ==
    /\ loop = "meet" /\ reach \subseteq known
    /\ online' = online \cap reach /\ due' = online' /\ loop' = "refresh"
    /\ UNCHANGED <<reach, asked, kills, known, available, seen, idle, up, browser, task>>

\* the reachable nodes are online, the others are not
Mark ==
    /\ loop = "meet" /\ reach \subseteq known
    /\ online' = known \cap reach /\ due' = online' /\ loop' = "refresh"
    /\ UNCHANGED <<reach, asked, kills, known, available, seen, idle, up, browser, task>>

\* the answer of a node replaces its image: ids are those that may be chosen
Replace(n, ids) ==
    /\ loop = "refresh" /\ n \in due \cap up /\ due' = due \ {n}
    /\ seen' = [seen EXCEPT ![n] = Open(n)]
    /\ idle' = [idle EXCEPT ![n] = ids]
    /\ available' = IF Cardinality(Open(n)) < MaxInstances THEN available \cup {n}
                                                           ELSE available \ {n}
    /\ noted' = noted \cup UNION {Holding(<<n, i>>) : i \in Names[n]}
    /\ UNCHANGED <<loop, reach, asked, kills, known, online, up, browser, request, to, awaited>>

\* Mutant: a browser is chosen whatever requests it has.
TakesAnyAsIdle(n) == Replace(n, {i \in Open(n) : browser[<<n, i>>] = "ready"})

\* Mutant: a browser that is gone is still chosen.
KeepsIdle(n) == Replace(n, idle[n] \cup {i \in Open(n) : IsIdle(<<n, i>>)})

\* ScraperImage.update
Refresh(n) == Replace(n, {i \in Open(n) : IsIdle(<<n, i>>)})

\* it is not due (for 0.1 s after an answer, for 180 s after a refused connection),
\* times out, is refused or answered with an error: the image stays
Stale(n) ==
    /\ loop = "refresh" /\ n \in due /\ due' = due \ {n}
    /\ UNCHANGED <<loop, reach, asked, kills, image, up, browser, task>>

Refreshed ==
    /\ loop = "refresh" /\ due = {} /\ loop' = "distribute"
    /\ UNCHANGED <<reach, due, asked, kills, image, up, browser, task>>

\* there is no target, or retrieving, disabling or selecting one raises
NoTarget ==
    /\ loop = "distribute" /\ Skip
    /\ UNCHANGED <<image, up, browser, task>>

Choices == UNION {{n} \X idle[n] : n \in online}

Launch(r, b) ==
    /\ loop = "distribute" /\ b \in Choices /\ Skip
    /\ request[r] = "none" /\ r \notin awaited /\ request' = [request EXCEPT ![r] = "sent"]
    /\ to' = [to EXCEPT ![r] = b]
    /\ awaited' = awaited \cup {r}
    /\ UNCHANGED <<image, up, browser, noted>>

\* __create_browser; offline nodes are not left out
AskNew(b) ==
    /\ loop = "distribute" /\ Choices = {} /\ b[1] \in available
    /\ loop' = "creating" /\ asked' = b
    /\ UNCHANGED <<reach, due, kills, image, up, browser, task>>

NoneAvailable ==
    /\ loop = "distribute" /\ Choices = {} /\ available = {} /\ Skip
    /\ UNCHANGED <<image, up, browser, task>>

Full(n) == Cardinality(Open(n)) > MaxInstances

\* /new-instance reaches the node: a creation starts, or it is refused; that two
\* creations of one id overlap is left to Scraper
Create ==
    /\ loop = "creating" /\ asked[1] \in up
    /\ \/ /\ browser[asked] = "none" /\ ~Full(asked[1]) /\ loop' = "created"
          /\ browser' = [browser EXCEPT ![asked] = "creating"]
          /\ UNCHANGED <<reach, due, asked, kills>>
       \/ /\ asked[2] \in Open(asked[1]) \/ Full(asked[1])
          /\ Skip /\ UNCHANGED browser
    /\ UNCHANGED <<image, up, task>>

\* the node answers; the answer is not looked at
Created ==
    /\ loop = "created" /\ asked[1] \in up /\ browser[asked] # "creating" /\ Skip
    /\ UNCHANGED <<image, up, browser, task>>

\* after 10 s, or at once when nobody listens, the request raises; a node that is
\* busy terminating refuses it
GiveUp ==
    /\ loop \in {"creating", "created"} /\ Skip
    /\ UNCHANGED <<image, up, browser, task>>

-----------------------------------------------------------------------------
\* /clear, between two cycles: tasks are cancelled, the browsers of the images killed
Clear ==
    /\ loop = "ping" /\ loop' = "clearing"
    /\ awaited' \in {awaited, {}}
    /\ kills' \in {{}, UNION {{n} \X seen[n] : n \in online}}
    /\ UNCHANGED <<reach, due, asked, image, up, browser, request, to, noted>>

\* a /kill is answered, refused or lost
Kill(b) ==
    /\ b \in kills /\ kills' = kills \ {b}
    /\ \/ b[1] \in up /\ b[2] \in Open(b[1]) /\ Gone(b)
       \/ UNCHANGED <<browser, task>>
    /\ UNCHANGED <<loop, reach, due, asked, image, up>>

Cleared ==
    /\ loop = "clearing" /\ kills = {} /\ loop' = "ping"
    /\ UNCHANGED <<reach, due, asked, kills, image, up, browser, task>>

-----------------------------------------------------------------------------
NodeStep == \/ \E b \in Browser : CreationEnds(b) \/ Expire(b) \/ Cool(b)
            \/ \E r \in Request : Arrive(r) \/ Begin(r) \/ Serve(r) \/ Lose(r)
Network == \E n \in Node : Down(n) \/ Return(n)
LoopStep == \/ Ping \/ MeetFails \/ Mark \/ Refreshed \/ NoTarget \/ NoneAvailable
            \/ \E n \in Node : Meet(n) \/ Refresh(n) \/ Stale(n)
            \/ \E r \in Request, b \in Browser : Launch(r, b)
            \/ \E b \in Browser : AskNew(b)
            \/ Create \/ Created \/ GiveUp
ClearStep == Cleared \/ \E b \in Browser : Kill(b)

Next ==
    \/ NodeStep \/ Network \/ LoopStep \/ Clear \/ ClearStep
    \/ \E r \in Request : TimeOut(r)

Spec == Init /\ [][Next]_vars

(***************************************************************************)
(* Fairness: the loop and the nodes run, every request to a node has a     *)
(* time-out, a lifespan ends, and random.choice leaves no node out for     *)
(* ever.                                                                   *)
(***************************************************************************)
FairSpec ==
    /\ Spec
    /\ WF_vars(LoopStep) /\ WF_vars(ClearStep)
    /\ \A b \in Browser :
           WF_vars(CreationEnds(b)) /\ WF_vars(Expire(b)) /\ WF_vars(Cool(b)) /\ SF_vars(AskNew(b))
    /\ \A r \in Request :
           /\ WF_vars(Arrive(r) \/ Lose(r)) /\ WF_vars(Begin(r) \/ Serve(r))
           /\ WF_vars(TimeOut(r))
-----------------------------------------------------------------------------
(***************************************************************************)
(* Properties.                                                             *)
(***************************************************************************)

\* A request goes only to a node that has answered the pings of this very cycle,
\* whatever aborted the cycles before.
TasksGoToReachable ==
    [][\A r \in Request : request[r] = "none" /\ request'[r] = "sent" => to'[r][1] \in reach]_vars

\* The broker never sends a request to a browser whose tab an earlier one holds
\* that a refresh has found holding it, be it one whose task has timed out or has
\* been cancelled long ago.  Of a request that only queues for the tab a refresh
\* may see nothing, so it is no part of this.
NoSecondOnKnownBusy ==
    [][\A r \in Request : request[r] = "none" /\ request'[r] = "sent" =>
           \A q \in noted : to[q] # to'[r]]_vars

\* What may keep a target waiting.
Trouble ==
    \/ MeetFails \/ Clear \/ Network
    \/ NoTarget /\ \E r \in Request : request[r] = "none" /\ r \notin awaited
    \/ Ping /\ reach' # up
    \/ \E n \in Node : Stale(n)
    \/ GiveUp /\ asked[1] \in up
    \/ \E b \in Browser : \/ CreationEnds(b) /\ browser'[b] = "none"
                          \/ Expire(b) /\ b[2] \notin seen[b[1]]

\* Once the trouble is over and a node is up, a target always finds a browser
\* again, whatever the images and the browsers were left at: Broker relies on it.
BrowserIsFound ==
    <>[][~Trouble]_vars /\ <>[](up # {}) =>
        []<><<\E r \in Request, b \in Browser : Launch(r, b)>>_vars
=============================================================================
