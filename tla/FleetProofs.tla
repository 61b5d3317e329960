----------------------------- MODULE FleetProofs -----------------------------
(***************************************************************************)
(* Theorems about Fleet, for any sets of nodes, ids and requests and any   *)
(* limit on the browsers of a node: a request goes only to a node that was *)
(* reachable in this cycle, and never to a browser whose tab is still held *)
(* by a request that the broker has seen holding it.                       *)
(***************************************************************************)
EXTENDS Fleet, TLAPS

\* A browser is a node with one of its ids.
LEMMA BrowserPair ==
    ASSUME NEW b \in Browser
    PROVE  b = <<b[1], b[2]>> /\ b[1] \in Node /\ b[2] \in Names[b[1]] /\ b # Nowhere
<1> PICK n \in Node : b \in {n} \X Names[n]
  BY DEF Browser
<1> PICK i \in Names[n] : b = <<n, i>>
  OBVIOUS
<1> QED
  BY DEF Nowhere

\* And every such pair is one.
LEMMA PairIsBrowser ==
    ASSUME NEW n \in Node, NEW i \in Names[n]
    PROVE  <<n, i>> \in Browser
BY DEF Browser

\* The ids in the images are ids of their nodes.
LEMMA ImagesAreBrowsers ==
    ASSUME TypeOK, NEW S \in SUBSET Node
    PROVE  /\ UNION {{n} \X seen[n] : n \in S} \subseteq Browser
           /\ UNION {{n} \X idle[n] : n \in S} \subseteq Browser
<1>1. ASSUME NEW b \in UNION {{n} \X seen[n] : n \in S} PROVE b \in Browser
  <2> PICK n \in S : b \in {n} \X seen[n]
    OBVIOUS
  <2> PICK i \in seen[n] : b = <<n, i>>
    OBVIOUS
  <2> QED
    BY PairIsBrowser DEF TypeOK
<1>2. ASSUME NEW b \in UNION {{n} \X idle[n] : n \in S} PROVE b \in Browser
  <2> PICK n \in S : b \in {n} \X idle[n]
    OBVIOUS
  <2> PICK i \in idle[n] : b = <<n, i>>
    OBVIOUS
  <2> QED
    BY PairIsBrowser DEF TypeOK
<1> QED
  BY <1>1, <1>2

-----------------------------------------------------------------------------
(***************************************************************************)
(* The inductive invariant.                                                *)
(***************************************************************************)
\* once the images are marked, the online ones are those of reachable nodes
OnlineInv == loop \in {"refresh", "distribute"} => online \subseteq reach

\* no image shows a browser idle whose tab a noted request holds: whatever reads
\* the browser idle again must find that the request has let go of it
NotedInv ==
    \A q \in noted : /\ request[q] = "holding" /\ to[q] \in Browser
                     /\ to[q][2] \notin idle[to[q][1]]

\* the inductive invariant
FleetInv == TypeOK /\ OnlineInv /\ NotedInv

-----------------------------------------------------------------------------
(***************************************************************************)
(* Types.                                                                  *)
(***************************************************************************)
\* what an action may assume of the parts it leaves alone
TypeCycle ==
    /\ loop \in {"ping", "meet", "refresh", "distribute", "creating", "created", "clearing"}
    /\ reach \subseteq Node /\ kills \subseteq Browser /\ due \subseteq online
    /\ asked \in Browser \cup {Nowhere} /\ (asked # Nowhere <=> loop \in {"creating", "created"})
TypeImage ==
    /\ online \subseteq known /\ known \subseteq Node /\ available \subseteq known
    /\ {seen, idle} \subseteq [Node -> SUBSET UNION {Names[n] : n \in Node}]
    /\ \A n \in Node : idle[n] \subseteq seen[n] /\ seen[n] \subseteq Names[n]
TypeTask ==
    /\ request \in [Request -> {"none", "sent", "arrived", "holding"}]
    /\ to \in [Request -> Browser \cup {Nowhere}]
    /\ awaited \subseteq Request /\ noted \subseteq Request
TypeBrowser == browser \in [Browser -> {"none", "creating", "ready", "resting", "spotted"}]

\* The type invariant in four parts.
LEMMA TypeParts ==
    ASSUME TypeOK
    PROVE  TypeCycle /\ TypeImage /\ TypeTask /\ TypeBrowser /\ up \subseteq Node
BY DEF TypeOK, TypeCycle, TypeImage, TypeTask, TypeBrowser

\* The same of the next state.
LEMMA NextTypeParts ==
    ASSUME TypeCycle', TypeImage', TypeTask', TypeBrowser', up' \subseteq Node
    PROVE  TypeOK'
BY DEF TypeOK, TypeCycle, TypeImage, TypeTask, TypeBrowser

\* Whatever requests end, the others keep their types.
LEMMA EndType ==
    ASSUME TypeTask, NEW requests, End(requests)
    PROVE  TypeTask'
BY DEF TypeTask, End

\* The cycle may end at any place.
LEMMA SkipType ==
    ASSUME TypeCycle, Skip, UNCHANGED online
    PROVE  TypeCycle'
BY DEF TypeCycle, Skip

\* The nodes and the network leave the broker's state alone but for its requests.
LEMMA NodeTypes ==
    ASSUME TypeOK, NodeStep \/ Network \/ \E r \in Request : TimeOut(r)
    PROVE  TypeOK'
<1>0. TypeCycle /\ TypeImage /\ TypeTask /\ TypeBrowser /\ up \subseteq Node
  BY TypeParts
<1>1. UNCHANGED <<cycle, image>>
  BY DEF NodeStep, Network, TimeOut, CreationEnds, Expire, Cool, Begin, Serve, Arrive, Lose, Down,
         Return
<1>2. TypeCycle' /\ TypeImage'
  BY <1>0, <1>1 DEF TypeCycle, TypeImage, cycle, image
<1>3. up' \subseteq Node
  BY <1>0 DEF NodeStep, Network, TimeOut, CreationEnds, Expire, Cool, Begin, Serve, Arrive,
              Lose, Down, Return
<1>4. ASSUME NEW b \in Browser, CreationEnds(b) \/ Cool(b) PROVE TypeTask' /\ TypeBrowser'
  BY <1>0, <1>4 DEF CreationEnds, Cool, TypeTask, TypeBrowser, task
<1>5. ASSUME NEW b \in Browser, Expire(b) PROVE TypeTask' /\ TypeBrowser'
  BY <1>0, <1>5, EndType DEF Expire, Gone, TypeBrowser
<1>6. ASSUME NEW r \in Request, Serve(r) PROVE TypeTask' /\ TypeBrowser'
  BY <1>0, <1>6, EndType DEF Serve, TypeBrowser
<1>7. ASSUME NEW r \in Request, Arrive(r) PROVE TypeTask' /\ TypeBrowser'
  <2>1. CASE End({r})
    BY <1>0, <1>7, <2>1, EndType DEF Arrive, TypeBrowser
  <2>2. CASE request' = [request EXCEPT ![r] = "arrived"] /\ UNCHANGED <<to, awaited, noted>>
    BY <1>0, <1>7, <2>2 DEF Arrive, TypeTask, TypeBrowser
  <2> QED
    BY <1>7, <2>1, <2>2 DEF Arrive
<1>8. ASSUME NEW r \in Request, Lose(r) PROVE TypeTask' /\ TypeBrowser'
  BY <1>0, <1>8, EndType DEF Lose, TypeBrowser
<1>9. ASSUME NEW r \in Request, TimeOut(r) PROVE TypeTask' /\ TypeBrowser'
  BY <1>0, <1>9 DEF TimeOut, TypeTask, TypeBrowser
<1>10. ASSUME Network PROVE TypeTask' /\ TypeBrowser'
  BY <1>0, <1>10 DEF Network, Down, Return, TypeTask, TypeBrowser, task
<1>11. ASSUME NEW r \in Request, Begin(r) PROVE TypeTask' /\ TypeBrowser'
  BY <1>0, <1>11 DEF Begin, TypeTask, TypeBrowser
<1>12. TypeTask' /\ TypeBrowser'
  BY <1>4, <1>5, <1>6, <1>7, <1>8, <1>9, <1>10, <1>11 DEF NodeStep
<1> QED
  BY <1>2, <1>3, <1>12, NextTypeParts

\* A refresh takes its ids from the browsers that are open.
LEMMA RefreshTypes ==
    ASSUME TypeOK, NEW n \in Node, Refresh(n)
    PROVE  TypeOK'
<1> DEFINE ids == {i \in Open(n) : IsIdle(<<n, i>>)}
<1>1. Open(n) \subseteq Names[n] /\ ids \subseteq Open(n)
  BY DEF Open
<1>2. noted' \subseteq Request
  BY DEF Refresh, Replace, Holding, On, TypeOK
<1>3. idle' = [idle EXCEPT ![n] = ids]
  BY DEF Refresh, Replace
<1> HIDE DEF ids
<1>4. {seen', idle'} \subseteq [Node -> SUBSET UNION {Names[m] : m \in Node}]
  BY <1>1, <1>3 DEF TypeOK, Refresh, Replace
<1>5. \A m \in Node : idle'[m] \subseteq seen'[m] /\ seen'[m] \subseteq Names[m]
  BY <1>1, <1>3 DEF TypeOK, Refresh, Replace
<1>6. available' \subseteq known
  BY DEF TypeOK, Refresh, Replace
<1>7. TypeCycle'
  BY DEF TypeOK, TypeCycle, Refresh, Replace
<1>8. TypeImage' /\ TypeTask' /\ TypeBrowser' /\ up' \subseteq Node
  BY <1>2, <1>4, <1>5, <1>6 DEF TypeOK, TypeImage, TypeTask, TypeBrowser, Refresh, Replace
<1> QED
  BY <1>7, <1>8, NextTypeParts

\* The update cycle keeps the types, wherever it is aborted.
LEMMA LoopTypes ==
    ASSUME TypeOK, LoopStep
    PROVE  TypeOK'
<1>0. TypeCycle /\ TypeImage /\ TypeTask /\ TypeBrowser /\ up \subseteq Node
  BY TypeParts
<1>1. CASE MeetFails \/ NoTarget \/ NoneAvailable \/ Created \/ GiveUp
  <2>1. Skip /\ UNCHANGED <<image, up, browser, task>>
    BY <1>1 DEF MeetFails, NoTarget, NoneAvailable, Created, GiveUp
  <2>2. TypeCycle'
    BY <1>0, <2>1, SkipType DEF image
  <2>3. TypeImage' /\ TypeTask' /\ TypeBrowser' /\ up' \subseteq Node
    BY <1>0, <2>1 DEF TypeImage, TypeTask, TypeBrowser, image, task
  <2> QED
    BY <2>2, <2>3, NextTypeParts
<1>2. CASE Ping \/ Mark \/ Refreshed \/ (\E n \in Node : Meet(n) \/ Stale(n))
  <2>1. TypeTask' /\ TypeBrowser' /\ up' \subseteq Node
    BY <1>0, <1>2 DEF TypeTask, TypeBrowser, Ping, Mark, Refreshed, Meet, Stale, task
  <2>2. TypeCycle' /\ TypeImage'
    BY <1>0, <1>2 DEF TypeCycle, TypeImage, Ping, Mark, Refreshed, Meet, Stale, image, cycle
  <2> QED
    BY <2>1, <2>2, NextTypeParts
<1>3. ASSUME NEW n \in Node, Refresh(n) PROVE TypeOK'
  BY <1>3, RefreshTypes
<1>4. ASSUME NEW r \in Request, NEW b \in Browser, Launch(r, b) PROVE TypeOK'
  <2>1. TypeCycle'
    BY <1>0, <1>4, SkipType DEF Launch, image
  <2>2. TypeImage' /\ TypeTask' /\ TypeBrowser' /\ up' \subseteq Node
    BY <1>0, <1>4 DEF TypeImage, TypeTask, TypeBrowser, Launch, image
  <2> QED
    BY <2>1, <2>2, NextTypeParts
<1>5. ASSUME NEW b \in Browser, AskNew(b) PROVE TypeOK'
  <2>1. TypeCycle'
    BY <1>0, <1>5, BrowserPair DEF TypeCycle, AskNew, image
  <2>2. TypeImage' /\ TypeTask' /\ TypeBrowser' /\ up' \subseteq Node
    BY <1>0, <1>5 DEF TypeImage, TypeTask, TypeBrowser, AskNew, image, task
  <2> QED
    BY <2>1, <2>2, NextTypeParts
<1>6. CASE Create
  <2>1. TypeCycle'
    <3>1. CASE Skip
      BY <1>0, <1>6, <3>1, SkipType DEF Create, image
    <3>2. CASE loop' = "created" /\ UNCHANGED <<reach, due, asked, kills>>
      BY <1>0, <1>6, <3>2 DEF Create, TypeCycle, image
    <3> QED
      BY <1>6, <3>1, <3>2 DEF Create
  <2>2. TypeImage' /\ TypeTask' /\ TypeBrowser' /\ up' \subseteq Node
    BY <1>0, <1>6 DEF TypeImage, TypeTask, TypeBrowser, Create, image, task
  <2> QED
    BY <2>1, <2>2, NextTypeParts
<1> QED
  BY <1>1, <1>2, <1>3, <1>4, <1>5, <1>6 DEF LoopStep

\* So does /clear.
LEMMA ClearTypes ==
    ASSUME TypeOK, Clear \/ ClearStep
    PROVE  TypeOK'
<1>0. TypeCycle /\ TypeImage /\ TypeTask /\ TypeBrowser /\ up \subseteq Node
  BY TypeParts
<1>1. CASE Clear
  <2>1. kills' \subseteq Browser
    BY <1>0, <1>1, ImagesAreBrowsers DEF Clear, TypeImage
  <2>2. TypeCycle'
    BY <1>0, <1>1, <2>1 DEF Clear, TypeCycle, image
  <2>3. TypeImage' /\ TypeTask' /\ TypeBrowser' /\ up' \subseteq Node
    BY <1>0, <1>1 DEF Clear, TypeImage, TypeTask, TypeBrowser, image
  <2> QED
    BY <2>2, <2>3, NextTypeParts
<1>2. ASSUME NEW b \in Browser, Kill(b) PROVE TypeOK'
  <2>1. TypeCycle' /\ TypeImage' /\ up' \subseteq Node
    BY <1>0, <1>2 DEF Kill, TypeCycle, TypeImage, image
  <2>2. TypeTask' /\ TypeBrowser'
    <3>1. CASE Gone(b)
      BY <1>0, <3>1, EndType DEF Gone, TypeBrowser
    <3>2. CASE UNCHANGED <<browser, task>>
      BY <1>0, <3>2 DEF TypeTask, TypeBrowser, task
    <3> QED
      BY <1>2, <3>1, <3>2 DEF Kill
  <2> QED
    BY <2>1, <2>2, NextTypeParts
<1>3. CASE Cleared
  BY <1>0, <1>3, NextTypeParts DEF Cleared, TypeCycle, TypeImage, TypeTask, TypeBrowser, image, task
<1> QED
  BY <1>1, <1>2, <1>3 DEF ClearStep

\* Every step keeps the types.
LEMMA TypeStep == TypeOK /\ [Next]_vars => TypeOK'
<1> SUFFICES ASSUME TypeOK, [Next]_vars PROVE TypeOK'
  OBVIOUS
<1>1. CASE UNCHANGED vars
  BY <1>1 DEF TypeOK, vars, cycle, image, task
<1> QED
  BY <1>1, NodeTypes, LoopTypes, ClearTypes DEF Next

-----------------------------------------------------------------------------
(***************************************************************************)
(* The other parts.                                                        *)
(***************************************************************************)
\* Nothing is known, and nothing noted.
LEMMA InitFleet == Init => FleetInv
<1> SUFFICES ASSUME Init PROVE FleetInv
  OBVIOUS
<1>1. TypeOK
  BY DEF Init, TypeOK, Nowhere
<1> QED
  BY <1>1 DEF Init, FleetInv, OnlineInv, NotedInv

\* Only Mark leaves "meet", and a cycle that is aborted starts again at the ping.
LEMMA OnlineStep == TypeOK /\ OnlineInv /\ [Next]_vars => OnlineInv'
<1> SUFFICES ASSUME TypeOK, OnlineInv, [Next]_vars PROVE OnlineInv'
  OBVIOUS
<1>1. CASE NodeStep \/ Network \/ \E r \in Request : TimeOut(r)
  <2>1. UNCHANGED <<cycle, image>>
    BY <1>1 DEF NodeStep, Network, TimeOut, CreationEnds, Expire, Cool, Begin, Serve, Arrive,
                Lose, Down, Return
  <2> QED
    BY <2>1 DEF OnlineInv, cycle, image
<1>2. CASE LoopStep
  BY <1>2 DEF OnlineInv, LoopStep, Ping, MeetFails, Mark, Refreshed, NoTarget, NoneAvailable, Meet,
              Refresh, Replace, Stale, Launch, AskNew, Create, Created, GiveUp, Skip, cycle, image
<1>3. CASE Clear \/ ClearStep \/ UNCHANGED vars
  BY <1>3 DEF OnlineInv, Clear, ClearStep, Cleared, Kill, vars, cycle, image
<1> QED
  BY <1>1, <1>2, <1>3 DEF Next

\* A request that ends is noted no more.
LEMMA EndKeepsNoted ==
    ASSUME TypeOK, NotedInv, NEW requests, End(requests), UNCHANGED idle
    PROVE  NotedInv'
<1> SUFFICES ASSUME NEW q \in noted'
             PROVE  /\ request'[q] = "holding" /\ to'[q] \in Browser
                    /\ to'[q][2] \notin idle'[to'[q][1]]
  BY DEF NotedInv
<1>1. q \in noted /\ q \notin requests /\ q \in Request
  BY DEF End, TypeOK
<1>2. request'[q] = request[q] /\ to'[q] = to[q]
  BY <1>1 DEF End
<1> QED
  BY <1>1, <1>2 DEF NotedInv

\* A refresh notes the requests that hold a tab, and their browsers do not read idle.
LEMMA RefreshKeepsNoted ==
    ASSUME TypeOK, NotedInv, NEW n \in Node, Refresh(n)
    PROVE  NotedInv'
<1> SUFFICES ASSUME NEW q \in noted'
             PROVE  /\ request[q] = "holding" /\ to[q] \in Browser
                    /\ to[q][2] \notin idle'[to[q][1]]
  BY DEF NotedInv, Refresh, Replace
<1>1. q \in Request /\ request[q] = "holding" /\ to[q] \in Browser
  <2>1. CASE q \in noted
    BY <2>1 DEF NotedInv, TypeOK
  <2>2. CASE q \notin noted
    <3> PICK i \in Names[n] : q \in Holding(<<n, i>>)
      BY <2>2 DEF Refresh, Replace
    <3> QED
      BY PairIsBrowser DEF Holding, On
  <2> QED
    BY <2>1, <2>2
<1>2. to[q] = <<to[q][1], to[q][2]>> /\ to[q][1] \in Node
  BY <1>1, BrowserPair
<1>3. CASE to[q][1] = n
  <2>1. q \in Holding(<<n, to[q][2]>>)
    BY <1>1, <1>2, <1>3 DEF Holding, On
  <2>2. ~IsIdle(<<n, to[q][2]>>)
    BY <2>1 DEF IsIdle
  <2>3. idle'[n] = {i \in Open(n) : IsIdle(<<n, i>>)}
    BY DEF Refresh, Replace, TypeOK
  <2> QED
    BY <1>1, <1>3, <2>2, <2>3
<1>4. CASE to[q][1] # n
  <2>1. q \in noted
    <3> SUFFICES ASSUME q \notin noted PROVE FALSE
      OBVIOUS
    <3> PICK i \in Names[n] : q \in Holding(<<n, i>>)
      BY DEF Refresh, Replace
    <3> QED
      BY <1>4 DEF Holding, On
  <2>2. idle'[to[q][1]] = idle[to[q][1]]
    BY <1>2, <1>4 DEF Refresh, Replace, TypeOK
  <2> QED
    BY <2>1, <2>2 DEF NotedInv
<1> QED
  BY <1>1, <1>3, <1>4

\* A noted request holds its tab until it ends, and only a refresh makes a browser
\* read idle.
LEMMA NotedStep == TypeOK /\ NotedInv /\ [Next]_vars => NotedInv'
<1> SUFFICES ASSUME TypeOK, NotedInv, [Next]_vars PROVE NotedInv'
  OBVIOUS
<1>1. ASSUME NEW n \in Node, Refresh(n) PROVE NotedInv'
  BY <1>1, RefreshKeepsNoted
<1>2. ASSUME NEW b \in Browser, Expire(b) PROVE NotedInv'
  BY <1>2, EndKeepsNoted DEF Expire, Gone, image
<1>3. ASSUME NEW r \in Request, Serve(r) \/ Lose(r) PROVE NotedInv'
  BY <1>3, EndKeepsNoted DEF Serve, Lose, image
<1>4. ASSUME NEW r \in Request, Arrive(r) PROVE NotedInv'
  <2>1. CASE End({r})
    BY <1>4, <2>1, EndKeepsNoted DEF Arrive, image
  <2>2. CASE request' = [request EXCEPT ![r] = "arrived"] /\ UNCHANGED <<to, awaited, noted>>
    BY <1>4, <2>2 DEF Arrive, NotedInv, TypeOK, image
  <2> QED
    BY <1>4, <2>1, <2>2 DEF Arrive
<1>4a. ASSUME NEW r \in Request, Begin(r) PROVE NotedInv'
  BY <1>4a DEF Begin, NotedInv, TypeOK, image
<1>5. ASSUME NEW r \in Request, NEW b \in Browser, Launch(r, b) PROVE NotedInv'
  <2>1. r \notin noted /\ noted' = noted /\ idle' = idle
    BY <1>5 DEF NotedInv, Launch, image
  <2>2. \A q \in noted : request'[q] = request[q] /\ to'[q] = to[q]
    BY <1>5, <2>1 DEF Launch, TypeOK
  <2> QED
    BY <2>1, <2>2 DEF NotedInv
<1>6. CASE UNCHANGED <<request, to, noted, idle>>
  BY <1>6 DEF NotedInv
<1>7. ASSUME NEW n \in Node, Meet(n) \/ Stale(n) \/ Down(n) \/ Return(n) PROVE NotedInv'
  BY <1>6, <1>7 DEF Meet, Stale, Down, Return, image, task
<1>8. ASSUME NEW b \in Browser, CreationEnds(b) \/ Cool(b) \/ AskNew(b) PROVE NotedInv'
  BY <1>6, <1>8 DEF CreationEnds, Cool, AskNew, image, task
<1>9. CASE Ping \/ MeetFails \/ Mark \/ Refreshed \/ NoTarget \/ NoneAvailable
  BY <1>6, <1>9 DEF Ping, MeetFails, Mark, Refreshed, NoTarget, NoneAvailable, image, task
<1>10. CASE Create \/ Created \/ GiveUp \/ Clear \/ Cleared \/ UNCHANGED vars
  BY <1>6, <1>10 DEF Create, Created, GiveUp, Clear, Cleared, vars, image, task
<1>11. ASSUME NEW r \in Request, TimeOut(r) PROVE NotedInv'
  BY <1>6, <1>11 DEF TimeOut, image
<1>12. ASSUME NEW b \in Browser, Kill(b) PROVE NotedInv'
  <2>1. CASE Gone(b)
    BY <1>12, <2>1, EndKeepsNoted DEF Kill, Gone, image
  <2>2. CASE UNCHANGED <<browser, task>>
    BY <1>6, <1>12, <2>2 DEF Kill, image, task
  <2> QED
    BY <1>12, <2>1, <2>2 DEF Kill
<1>13. CASE NodeStep
  <2>1. ASSUME NEW b \in Browser, CreationEnds(b) \/ Expire(b) \/ Cool(b) PROVE NotedInv'
    BY <1>2, <1>8, <2>1
  <2>2. ASSUME NEW r \in Request, Arrive(r) \/ Begin(r) \/ Serve(r) \/ Lose(r)
        PROVE  NotedInv'
    BY <1>3, <1>4, <1>4a, <2>2
  <2> QED
    BY <1>13, <2>1, <2>2 DEF NodeStep
<1>14. CASE LoopStep
  BY <1>1, <1>5, <1>7, <1>8, <1>9, <1>10, <1>14 DEF LoopStep
<1>15. CASE Clear \/ ClearStep \/ UNCHANGED vars
  BY <1>10, <1>12, <1>15 DEF ClearStep
<1>16. CASE Network
  BY <1>7, <1>16 DEF Network
<1> QED
  BY <1>11, <1>13, <1>14, <1>15, <1>16 DEF Next

-----------------------------------------------------------------------------
(***************************************************************************)
(* The theorems.                                                           *)
(***************************************************************************)
\* The inductive invariant of the fleet.
THEOREM FleetHolds == Spec => []FleetInv
<1>1. FleetInv /\ [Next]_vars => FleetInv'
  BY TypeStep, OnlineStep, NotedStep DEF FleetInv
<1> QED
  BY <1>1, InitFleet, PTL DEF Spec

\* The images, the nodes and the requests keep their types: no cycle, aborted or
\* not, makes the broker hold an id a node never had.
THEOREM TypeCorrect == Spec => []TypeOK
<1>1. FleetInv => TypeOK
  BY DEF FleetInv
<1> QED
  BY <1>1, FleetHolds, PTL

\* Only a launch sends a request, and it sends it to its browser.
LEMMA SentIsLaunched ==
    ASSUME TypeOK, [Next]_vars, NEW r \in Request, request[r] = "none", request'[r] = "sent"
    PROVE  \E b \in Choices : loop = "distribute" /\ to'[r] = b /\ UNCHANGED <<noted, idle>>
              /\ \A q \in noted : q # r => to'[q] = to[q]
<1>1. ASSUME NEW q \in Request, NEW b \in Browser, Launch(q, b)
      PROVE  \E c \in Choices : loop = "distribute" /\ to'[r] = c /\ UNCHANGED <<noted, idle>>
                /\ \A p \in noted : p # r => to'[p] = to[p]
  <2>1. q = r
    BY <1>1 DEF Launch, TypeOK
  <2> QED
    BY <1>1, <2>1 DEF Launch, TypeOK, image
<1>2. ASSUME NEW requests, End(requests) PROVE FALSE
  BY <1>2 DEF End
<1>3. ASSUME NEW q \in Request, Arrive(q) PROVE FALSE
  BY <1>2, <1>3 DEF Arrive, TypeOK
<1>4. ASSUME NEW q \in Request, Begin(q) \/ Serve(q) \/ Lose(q) \/ TimeOut(q) PROVE FALSE
  BY <1>2, <1>4 DEF Begin, Serve, Lose, TimeOut, TypeOK
<1>5. ASSUME NEW b \in Browser, Expire(b) \/ Kill(b) \/ CreationEnds(b) \/ Cool(b) \/ AskNew(b)
      PROVE  FALSE
  BY <1>2, <1>5 DEF Expire, Kill, Gone, CreationEnds, Cool, AskNew, task
<1>6. ASSUME NEW n \in Node, Meet(n) \/ Refresh(n) \/ Stale(n) \/ Down(n) \/ Return(n) PROVE FALSE
  BY <1>6 DEF Meet, Refresh, Replace, Stale, Down, Return, task
<1>7. ~(Ping \/ MeetFails \/ Mark \/ Refreshed \/ NoTarget \/ NoneAvailable)
  BY DEF Ping, MeetFails, Mark, Refreshed, NoTarget, NoneAvailable, task
<1>8. ~(Create \/ Created \/ GiveUp \/ Clear \/ Cleared \/ UNCHANGED vars)
  BY DEF Create, Created, GiveUp, Clear, Cleared, vars, task
<1> QED
  BY <1>1, <1>3, <1>4, <1>5, <1>6, <1>7, <1>8 DEF Next, NodeStep, Network, LoopStep, ClearStep

\* A request goes only to a node that was found reachable in this very cycle,
\* whatever aborted the cycles before.
THEOREM ReachableOnly == Spec => TasksGoToReachable
<1>1. FleetInv /\ [Next]_vars =>
          [\A r \in Request : request[r] = "none" /\ request'[r] = "sent" => to'[r][1] \in reach]_vars
  <2> SUFFICES ASSUME FleetInv, [Next]_vars,
                      NEW r \in Request, request[r] = "none", request'[r] = "sent"
               PROVE  to'[r][1] \in reach
    OBVIOUS
  <2>1. PICK b \in Choices : loop = "distribute" /\ to'[r] = b
    BY SentIsLaunched DEF FleetInv
  <2>2. b[1] \in online
    BY DEF Choices
  <2> QED
    BY <2>1, <2>2 DEF FleetInv, OnlineInv
<1> QED
  BY <1>1, FleetHolds, PTL DEF Spec, TasksGoToReachable

\* No request is sent to a browser whose tab is held by a request that a refresh
\* has found holding it, although its task may have timed out or been cancelled
\* long ago.
THEOREM KnownBusyIsLeft == Spec => NoSecondOnKnownBusy
<1>1. FleetInv /\ [Next]_vars =>
          [\A r \in Request : request[r] = "none" /\ request'[r] = "sent" =>
              \A q \in noted : to[q] # to'[r]]_vars
  <2> SUFFICES ASSUME FleetInv, [Next]_vars,
                      NEW r \in Request, request[r] = "none", request'[r] = "sent",
                      NEW q \in noted, to[q] = to'[r]
               PROVE  FALSE
    OBVIOUS
  <2>1. PICK b \in Choices : to'[r] = b
    BY SentIsLaunched DEF FleetInv
  <2>2. b[2] \in idle[b[1]]
    BY DEF Choices
  <2> QED
    BY <2>1, <2>2 DEF FleetInv, NotedInv
<1> QED
  BY <1>1, FleetHolds, PTL DEF Spec, NoSecondOnKnownBusy
=============================================================================
