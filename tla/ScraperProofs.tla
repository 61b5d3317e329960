---------------------------- MODULE ScraperProofs ----------------------------
(***************************************************************************)
(* Theorems about Scraper, for every set of ids, creations, requests and   *)
(* /terminate handlers, and every MaxInstances.                            *)
(***************************************************************************)
EXTENDS Scraper, TLAPS

-----------------------------------------------------------------------------
(***************************************************************************)
(* Type correctness.                                                       *)
(***************************************************************************)
\* What an operation on __lock_terminate leaves of the lock and of its queue.
LEMMA LockType ==
    ASSUME TypeOK, NEW who \in Terminator \cup {"update"},
           \/ Acquire \/ Enqueue(who) \/ Woken(who) \/ PassOn(who) \/ Release
           \/ Withdraw(who) \/ UNCHANGED lock
    PROVE  locked' \in BOOLEAN /\ waiters' \in Seq(Terminator \cup {"update"})
<1>1. CASE Enqueue(who)
  BY <1>1 DEF Enqueue, TypeOK
<1>2. CASE Woken(who) \/ PassOn(who)
  <2>1. waiters \in Seq(Terminator \cup {"update"}) /\ waiters # <<>>
    BY <1>2 DEF Woken, PassOn, Scheduled, TypeOK
  <2>2. locked' \in BOOLEAN /\ waiters' = Tail(waiters)
    BY <1>2 DEF Woken, PassOn
  <2> QED
    BY <2>1, <2>2
<1>3. CASE Acquire \/ Release \/ UNCHANGED lock
  BY <1>3 DEF Acquire, Release, TypeOK, lock
<1>4. CASE Withdraw(who)
  <2> DEFINE T == Terminator \cup {"update"}
  <2>1. PICK i \in 1 .. Len(waiters) :
            waiters' = SubSeq(waiters, 1, i - 1) \o SubSeq(waiters, i + 1, Len(waiters))
    BY <1>4 DEF Withdraw
  <2>2. waiters \in Seq(T) /\ i \in Nat /\ i >= 1 /\ i <= Len(waiters) /\ Len(waiters) \in Nat
    BY DEF TypeOK
  <2>3. SubSeq(waiters, 1, i - 1) \in Seq(T) /\ SubSeq(waiters, i + 1, Len(waiters)) \in Seq(T)
    BY <2>2
  <2>4. waiters' \in Seq(T)
    BY <2>1, <2>3
  <2> QED
    BY <1>4, <2>4 DEF Withdraw, TypeOK
<1> QED
  BY <1>1, <1>2, <1>3, <1>4

\* The first step of a kill keeps the types of what it changes.
LEMMA PopType ==
    ASSUME TypeOK, NEW i \in Id, Pop(i)
    PROVE  /\ browsers' \in [Id -> Creation \cup {NoBrowser}]
           /\ active' \in [Id -> SUBSET Get]
           /\ life' \in [Creation -> LifeState]
           /\ waitsFor' \in [Creation -> SUBSET Get]
           /\ get' \in [Get -> GetState]
           /\ UNCHANGED <<expired, on>>
<1> USE DEF TypeOK, Pop
<1>1. browsers[i] \in Creation
  OBVIOUS
<1>2. \A s \in GetState : Cancelled(s) \in GetState
  BY DEF Cancelled, GetState
<1>3. get' \in [Get -> GetState]
  BY <1>2
<1>4. life' \in [Creation -> LifeState] /\ waitsFor' \in [Creation -> SUBSET Get]
  BY <1>1 DEF LifeState
<1> QED
  BY <1>3, <1>4

\* The program starts with well-typed variables.
LEMMA InitType == Init => TypeOK
<1> SUFFICES ASSUME Init PROVE TypeOK
  OBVIOUS
<1>1. waiters \in Seq(Terminator \cup {"update"})
  BY DEF Init
<1> QED
  BY <1>1, ScraperAssumption DEF Init, TypeOK, LifeState, GetState

\* Every step of the registry keeps the types.
LEMMA TypeStep == TypeOK /\ [Next]_vars => TypeOK'
<1> SUFFICES ASSUME TypeOK, [Next]_vars PROVE TypeOK'
  OBVIOUS
<1> USE DEF registry, object, request, lock, batch
<1>1. ASSUME NEW b \in Creation, NewInstance(b) \/ CreationFails(b) PROVE TypeOK'
  BY <1>1 DEF NewInstance, CreationFails, TypeOK, LifeState
<1>2. ASSUME NEW b \in Creation, Register(b) PROVE TypeOK'
  BY <1>2, ScraperAssumption DEF Register, TypeOK, LifeState
<1>3. ASSUME NEW b \in Creation, Expire(b) PROVE TypeOK'
  BY <1>3 DEF Expire, TypeOK
<1>4. ASSUME NEW b \in Creation, Close(b) \/ Closed(b) PROVE TypeOK'
  BY <1>4 DEF Close, Closed, TypeOK, LifeState
<1>5. ASSUME NEW g \in Get, Admit(g) PROVE TypeOK'
  BY <1>5, ScraperAssumption DEF Admit, TypeOK, GetState, Registered, Expired
<1>6. ASSUME NEW g \in Get, Start(g) \/ Browse(g) PROVE TypeOK'
  BY <1>6 DEF Start, Browse, TypeOK, GetState
<1>7. ASSUME NEW g \in Get, Answer(g) PROVE TypeOK'
  BY <1>7, ScraperAssumption DEF Answer, TypeOK, GetState
<1>8. ASSUME NEW i \in Id, KillRequest(i) PROVE TypeOK'
  BY <1>8, PopType DEF KillRequest, TypeOK
<1>9. ASSUME NEW i \in Id, KillScheduled(i) PROVE TypeOK'
  <2>1. CASE browsers[i] = NoBrowser
    BY <1>9, <2>1 DEF KillScheduled, Pop, TypeOK
  <2>2. CASE Pop(i) /\ killing' = killing \cup {browsers[i]} /\ UNCHANGED missing
    <3>1. browsers[i] \in Creation
      BY <2>2 DEF Pop, TypeOK
    <3>2. killing' \in SUBSET Creation /\ todo' \in SUBSET Id
      BY <1>9, <2>2, <3>1 DEF KillScheduled, TypeOK
    <3> QED
      BY <1>9, <2>2, <3>2, PopType DEF KillScheduled, TypeOK
  <2> QED
    BY <1>9, <2>1, <2>2 DEF KillScheduled
<1>10. ASSUME UpdateStep PROVE TypeOK'
  <2>1. locked' \in BOOLEAN /\ waiters' \in Seq(Terminator \cup {"update"})
    BY <1>10, LockType DEF UpdateStep, Update, UpdateWakes, UpdateEnds
  <2> QED
    BY <1>10, <2>1 DEF UpdateStep, Update, UpdateWakes, UpdateEnds, Schedule, Expired,
                       Registered, TypeOK
<1>11. ASSUME NEW k \in Terminator, TerminateStep(k) PROVE TypeOK'
  <2>1. locked' \in BOOLEAN /\ waiters' \in Seq(Terminator \cup {"update"})
    BY <1>11, LockType DEF TerminateStep, Terminate, TerminateWakes, TerminateEnds
  <2> QED
    BY <1>11, <2>1 DEF TerminateStep, Terminate, TerminateWakes, TerminateEnds, Schedule,
                       Registered, TypeOK
<1>12. CASE ShutDown
  <2>1. locked' \in BOOLEAN /\ waiters' \in Seq(Terminator \cup {"update"})
    BY <1>12, LockType DEF ShutDown, CancelKills
  <2>2. /\ life' \in [Creation -> LifeState] /\ expired' \in SUBSET Creation
        /\ waitsFor' \in [Creation -> SUBSET Get]
    BY <1>12 DEF ShutDown, CancelKills, TypeOK, LifeState
  <2>3. /\ todo' \in SUBSET Id /\ killing' \in SUBSET Creation /\ missing' \in BOOLEAN
        /\ raised' \in BOOLEAN /\ alone' \in SUBSET Creation
    BY <1>12 DEF ShutDown, CancelKills, TypeOK
  <2> QED
    BY <1>12, <2>1, <2>2, <2>3 DEF ShutDown, CancelKills, TypeOK
<1>13. CASE ShutDownGoesOn \/ ShutDownEnds
  <2>1. locked' \in BOOLEAN /\ waiters' \in Seq(Terminator \cup {"update"})
    BY <1>13, LockType DEF ShutDownGoesOn, ShutDownEnds
  <2> QED
    BY <1>13, <2>1 DEF ShutDownGoesOn, ShutDownEnds, Schedule, Registered, TypeOK
<1>14. CASE UNCHANGED vars
  BY <1>14 DEF vars, TypeOK
<1> QED
  BY <1>1, <1>2, <1>3, <1>4, <1>5, <1>6, <1>7, <1>8, <1>9, <1>10, <1>11, <1>12, <1>13, <1>14,
     ScraperAssumption DEF Next, BrowserStep, GetStep, Ended

\* Every variable of the registry keeps its type.
THEOREM TypeCorrect == Spec => []TypeOK
BY InitType, TypeStep, PTL DEF Spec
-----------------------------------------------------------------------------
(***************************************************************************)
(* The inductive invariant, in named parts, beside RegisteredIsLive.       *)
(***************************************************************************)
\* the task of a request is one its browser, live or being killed, answers for
RequestInv ==
    \A g \in Get :
        IF get[g] = "idle" THEN on[g] = NoBrowser
        ELSE /\ on[g] \in Creation /\ Wants[on[g]] = Asks[g]
             /\ \/ life[on[g]] = "live"
                \/ life[on[g]] = "stopping" /\ g \in waitsFor[on[g]]
             /\ browsers[Asks[g]] = on[g] => g \in active[Asks[g]]

\* who holds __lock_terminate, and what busy says of it
HolderInv ==
    /\ busy <=> service = "terminating" \/ \E k \in Terminator : terminate[k] = "inside"
    /\ locked <=> busy \/ updater = "inside"
    /\ TerminateIsExclusive

\* the kills of the holder; those of a terminate find their browsers
KillInv ==
    /\ \A b \in killing \cup alone : life[b] \in {"stopping", "closing"}
    /\ killing \cap alone = {}
    /\ busy => ~missing /\ todo \subseteq Registered

\* nobody works beside the terminate that ends the process
ServiceInv ==
    /\ service # "up" =>
          /\ updater \in {"dead", "ended"} \/ (service = "stopping" /\ updater = "inside")
          /\ \A g \in Get : get[g] = "idle"
          /\ \A k \in Terminator : terminate[k] = "idle"
          /\ \A b \in Creation : life[b] # "creating"
    /\ updater = "ended" => service # "up"
    /\ service = "terminating" => updater = "ended" /\ Registered \subseteq todo
    /\ service = "down" /\ updater = "ended" => Registered = {}

\* a /terminate has still to kill whatever is serving a request
StopInv ==
    \A k \in Terminator, g \in Get :
        terminate[k] = "inside" /\ get[g] # "idle" /\ on[g] = browsers[Asks[g]]
        => Asks[g] \in todo

\* the inductive invariant
RegistryInv ==
    /\ TypeOK /\ RegisteredIsLive /\ RequestInv
    /\ HolderInv /\ KillInv /\ ServiceInv /\ StopInv

\* A cancelled task is idle only if it was.
LEMMA CancelledIsBusy ==
    ASSUME TypeOK, NEW i \in Id, Pop(i)
    PROVE  /\ \A g \in Get : get'[g] = "idle" <=> get[g] = "idle"
           /\ browsers[i] \in Creation
           /\ browsers' = [browsers EXCEPT ![i] = NoBrowser]
           /\ active' = [active EXCEPT ![i] = {}]
           /\ life' = [life EXCEPT ![browsers[i]] = "stopping"]
           /\ waitsFor' = [waitsFor EXCEPT ![browsers[i]] = active[i]]
           /\ UNCHANGED <<expired, on>>
<1>1. \A s \in GetState : Cancelled(s) = "idle" <=> s = "idle"
  BY DEF Cancelled, GetState
<1>2. ASSUME NEW g \in Get PROVE get'[g] = "idle" <=> get[g] = "idle"
  BY <1>1 DEF Pop, TypeOK
<1> QED
  BY <1>2 DEF Pop, TypeOK

\* The program starts with an empty dict, nobody at the lock and nothing asked.
LEMMA InitRegistry == Init => RegistryInv
<1> SUFFICES ASSUME Init PROVE RegistryInv
  OBVIOUS
<1>1. TypeOK
  BY InitType
<1>2. RegisteredIsLive /\ RequestInv
  BY DEF Init, RegisteredIsLive, Registered, RequestInv
<1>3. HolderInv /\ KillInv /\ ServiceInv /\ StopInv
  BY DEF Init, HolderInv, TerminateIsExclusive, KillInv, ServiceInv, StopInv
<1> QED
  BY <1>1, <1>2, <1>3 DEF RegistryInv

\* Only a registration puts a browser in the dict, and it is live from then on;
\* one that is killed leaves the dict in the same step.
LEMMA LiveStep == RegistryInv /\ [Next]_vars => RegisteredIsLive'
<1> SUFFICES ASSUME RegistryInv, [Next]_vars PROVE RegisteredIsLive'
  OBVIOUS
<1>t. TypeOK /\ RegisteredIsLive
  BY DEF RegistryInv
<1> USE DEF RegisteredIsLive, Registered
<1>1. ASSUME NEW b \in Creation, NewInstance(b) \/ CreationFails(b) \/ Close(b) \/ Closed(b)
      PROVE  RegisteredIsLive'
  BY <1>t, <1>1 DEF NewInstance, CreationFails, Close, Closed, TypeOK, registry
<1>2. ASSUME NEW b \in Creation, Register(b) PROVE RegisteredIsLive'
  BY <1>t, <1>2, ScraperAssumption DEF Register, TypeOK
<1>3. ASSUME NEW i \in Id, Pop(i) PROVE RegisteredIsLive'
  BY <1>t, <1>3, CancelledIsBusy DEF TypeOK
<1>4. CASE UNCHANGED <<browsers, life>>
  BY <1>t, <1>4
<1>5. CASE ShutDown
  BY <1>t, <1>5 DEF ShutDown, CancelKills, Halfway, TypeOK, registry, object
<1> QED
  BY <1>1, <1>2, <1>3, <1>4, <1>5, ScraperAssumption
     DEF Next, BrowserStep, GetStep, UpdateStep, TerminateStep, vars, registry, object,
         Expire, Admit, Start, Browse, Answer, KillRequest, KillScheduled, Update, UpdateWakes,
         UpdateEnds, Terminate, TerminateWakes, TerminateEnds, ShutDown, CancelKills,
         ShutDownGoesOn, ShutDownEnds, Ended

\* A kill takes over every task of its browser, and closes it only after them.
LEMMA RequestStep == RegistryInv /\ [Next]_vars => RequestInv'
<1> SUFFICES ASSUME RegistryInv, [Next]_vars PROVE RequestInv'
  OBVIOUS
<1>t. TypeOK /\ RegisteredIsLive /\ RequestInv
  BY DEF RegistryInv
<1>1. ASSUME NEW b \in Creation, NewInstance(b) \/ CreationFails(b) \/ Close(b) \/ Closed(b)
      PROVE  RequestInv'
  BY <1>t, <1>1 DEF NewInstance, CreationFails, Close, Closed, TypeOK, RequestInv, registry, request
<1>2. ASSUME NEW b \in Creation, Register(b) PROVE RequestInv'
  BY <1>t, <1>2, ScraperAssumption DEF Register, TypeOK, RequestInv, request
<1>3. ASSUME NEW g \in Get, Admit(g) PROVE RequestInv'
  BY <1>t, <1>3, ScraperAssumption
     DEF Admit, TypeOK, RequestInv, RegisteredIsLive, Registered, Expired, object
<1>4. ASSUME NEW g \in Get, Start(g) \/ Browse(g) PROVE RequestInv'
  BY <1>t, <1>4 DEF Start, Browse, TypeOK, RequestInv, registry, object
<1>5. ASSUME NEW g \in Get, Answer(g) PROVE RequestInv'
  BY <1>t, <1>5, ScraperAssumption DEF Answer, TypeOK, RequestInv
<1>6. ASSUME NEW i \in Id, Pop(i) PROVE RequestInv'
  <2> SUFFICES ASSUME NEW g \in Get, get[g] # "idle"
               PROVE  /\ on[g] \in Creation /\ Wants[on[g]] = Asks[g]
                      /\ \/ life'[on[g]] = "live"
                         \/ life'[on[g]] = "stopping" /\ g \in waitsFor'[on[g]]
                      /\ browsers'[Asks[g]] = on[g] => g \in active'[Asks[g]]
    BY <1>t, <1>6, CancelledIsBusy DEF RequestInv
  <2>1. CASE on[g] = browsers[i]
    BY <1>t, <1>6, <2>1, CancelledIsBusy, ScraperAssumption
       DEF TypeOK, RequestInv, RegisteredIsLive, Registered
  <2>2. CASE on[g] # browsers[i]
    BY <1>t, <1>6, <2>2, CancelledIsBusy, ScraperAssumption DEF TypeOK, RequestInv
  <2> QED
    BY <2>1, <2>2
<1>7. CASE UNCHANGED <<registry, life, waitsFor, request>>
  BY <1>t, <1>7 DEF RequestInv, registry, request
<1>8. CASE ShutDown
  BY <1>t, <1>8 DEF ShutDown, Quiet, RequestInv, registry, request
<1> QED
  BY <1>1, <1>2, <1>3, <1>4, <1>5, <1>6, <1>7, <1>8, ScraperAssumption
     DEF Next, BrowserStep, GetStep, UpdateStep, TerminateStep, vars, object, Expire,
         KillRequest, KillScheduled, Update, UpdateWakes, UpdateEnds, Terminate,
         TerminateWakes, TerminateEnds, ShutDown, CancelKills, ShutDownGoesOn,
         ShutDownEnds, Ended

\* The lock is taken by one and given back by the same.
LEMMA HolderStep == RegistryInv /\ [Next]_vars => HolderInv'
<1> SUFFICES ASSUME RegistryInv, [Next]_vars PROVE HolderInv'
  OBVIOUS
<1>t. TypeOK /\ HolderInv /\ ServiceInv
  BY DEF RegistryInv
<1> USE DEF HolderInv, TerminateIsExclusive
<1>1. CASE UpdateStep
  BY <1>t, <1>1 DEF UpdateStep, Update, UpdateWakes, UpdateEnds, PassOn, Acquire, Enqueue,
     Woken, Scheduled, LockFree, Release, ServiceInv
<1>2. ASSUME NEW k \in Terminator, Terminate(k) PROVE HolderInv'
  BY <1>t, <1>2 DEF Terminate, Serving, Acquire, Enqueue, LockFree, TypeOK
<1>3. ASSUME NEW k \in Terminator, TerminateWakes(k) PROVE HolderInv'
  BY <1>t, <1>3 DEF TerminateWakes, PassOn, Woken, Scheduled, TypeOK
<1>4. ASSUME NEW k \in Terminator, TerminateEnds(k) PROVE HolderInv'
  BY <1>t, <1>4 DEF TerminateEnds, Release, ServiceInv, TypeOK
<1>5. CASE ShutDown
  <2>1. /\ service = "up" /\ service' = "stopping" /\ UNCHANGED <<terminate, busy>>
        /\ \A k \in Terminator : terminate[k] = "idle"
    BY <1>5 DEF ShutDown, Quiet
  <2>2. ~busy /\ (locked <=> updater = "inside")
    BY <1>t, <2>1
  <2>3. locked' <=> updater' = "inside"
    <3>1. CASE updater = "queued" /\ updater' = "ended" /\ Withdraw("update")
      BY <1>t, <2>2, <3>1 DEF Withdraw, TypeOK
    <3>2. CASE updater = "inside" /\ CancelKills
      BY <3>2 DEF CancelKills, Release
    <3>3. CASE UNCHANGED lock /\ (updater' = updater \/ (updater = "asleep" /\ updater' = "ended"))
      BY <1>t, <2>2, <3>3 DEF lock, TypeOK
    <3> QED
      <4>1. \/ UNCHANGED <<updater, lock>>
            \/ updater = "asleep" /\ updater' = "ended" /\ UNCHANGED lock
            \/ updater = "queued" /\ updater' = "ended" /\ Withdraw("update")
            \/ updater = "inside" /\ CancelKills
        BY <1>5 DEF ShutDown
      <4> QED
        BY <4>1, <3>1, <3>2, <3>3
  <2> QED
    BY <2>1, <2>2, <2>3
<1>6. CASE ShutDownGoesOn \/ ShutDownEnds
  BY <1>t, <1>6 DEF ShutDownGoesOn, ShutDownEnds, Acquire, LockFree, Release, ServiceInv, lock
<1>7. CASE UNCHANGED <<updater, terminate, busy, lock, service>>
  BY <1>t, <1>7 DEF lock
<1> QED
  BY <1>1, <1>2, <1>3, <1>4, <1>5, <1>6, <1>7, ScraperAssumption
     DEF Next, BrowserStep, GetStep, TerminateStep, vars, NewInstance, Register,
         CreationFails, Expire, Close, Closed, Admit, Start, Browse, Answer, KillRequest,
         KillScheduled, Ended

\* While busy is set only the scheduled kills take ids out of the dict.
LEMMA KillStep == RegistryInv /\ [Next]_vars => KillInv'
<1> SUFFICES ASSUME RegistryInv, [Next]_vars PROVE KillInv'
  OBVIOUS
<1>t. TypeOK /\ RegisteredIsLive /\ HolderInv /\ KillInv /\ ServiceInv
  BY DEF RegistryInv
<1> USE DEF KillInv, Registered
<1>1. ASSUME NEW b \in Creation, BrowserStep(b) PROVE KillInv'
  BY <1>t, <1>1, ScraperAssumption
     DEF BrowserStep, NewInstance, Register, CreationFails, Expire, Close, Closed, TypeOK,
         registry, batch
<1>2. ASSUME NEW i \in Id, KillRequest(i) PROVE KillInv'
  BY <1>t, <1>2, CancelledIsBusy DEF KillRequest, Serving, TypeOK, batch
<1>3. ASSUME NEW i \in Id, KillScheduled(i) PROVE KillInv'
  <2>1. CASE Pop(i) /\ killing' = killing \cup {browsers[i]} /\ UNCHANGED missing
    <3>1. life[browsers[i]] = "live"
      BY <1>t, <2>1 DEF Pop, RegisteredIsLive
    <3> QED
      BY <1>t, <1>3, <2>1, <3>1, CancelledIsBusy DEF KillScheduled, TypeOK
  <2>2. CASE browsers[i] = NoBrowser
    BY <1>t, <1>3, <2>2 DEF KillScheduled, Pop, registry, object, TypeOK
  <2> QED
    BY <1>3, <2>1, <2>2 DEF KillScheduled
<1>4. CASE UpdateStep
  BY <1>t, <1>4 DEF UpdateStep, Update, UpdateWakes, UpdateEnds, Schedule, PassOn, Acquire,
     Enqueue, Woken, Scheduled, LockFree, HolderInv, TerminateIsExclusive, ServiceInv,
     registry, object, batch
<1>5. ASSUME NEW k \in Terminator, TerminateStep(k) PROVE KillInv'
  BY <1>t, <1>5 DEF TerminateStep, Terminate, TerminateWakes, TerminateEnds, Schedule,
     registry, object, batch
<1>6. CASE ShutDown
  <2>1. ~busy'
    BY <1>t, <1>6 DEF ShutDown, Quiet, HolderInv
  <2>2. CASE UNCHANGED <<batch, object>>
    BY <1>t, <2>1, <2>2 DEF batch, object
  <2>3. CASE CancelKills
    <3>1. ASSUME NEW b \in killing' \cup alone' PROVE life'[b] = life[b] /\ b \in killing \cup alone
      BY <1>t, <2>3 DEF CancelKills, Halfway, object, TypeOK
    <3>2. killing' = {}
      BY <2>3 DEF CancelKills
    <3> QED
      BY <1>t, <2>1, <3>1, <3>2
  <2> QED
    BY <1>6, <2>2, <2>3 DEF ShutDown
<1>8. CASE ShutDownGoesOn \/ ShutDownEnds
  BY <1>t, <1>8 DEF ShutDownGoesOn, ShutDownEnds, Schedule, HolderInv, ServiceInv, registry, object,
                    batch
<1>7. CASE UNCHANGED <<browsers, life, busy, batch>>
  BY <1>t, <1>7 DEF batch
<1> QED
  BY <1>1, <1>2, <1>3, <1>4, <1>5, <1>6, <1>7, <1>8, ScraperAssumption
     DEF Next, GetStep, vars, registry, object, Admit, Start, Browse, Answer, Ended

\* The terminate of the shutdown meets neither a request nor another holder.
LEMMA ServiceStep == RegistryInv /\ [Next]_vars => ServiceInv'
<1> SUFFICES ASSUME RegistryInv, [Next]_vars PROVE ServiceInv'
  OBVIOUS
<1>t. TypeOK /\ HolderInv /\ KillInv /\ ServiceInv
  BY DEF RegistryInv
<1> USE DEF ServiceInv, Registered
<1>1. ASSUME NEW b \in Creation, NewInstance(b) PROVE ServiceInv'
  BY <1>t, <1>1 DEF NewInstance, Serving, registry, request
<1>2. ASSUME NEW b \in Creation,
             Register(b) \/ CreationFails(b) \/ Expire(b) \/ Close(b) \/ Closed(b)
      PROVE  ServiceInv'
  BY <1>t, <1>2 DEF Register, CreationFails, Expire, Close, Closed, TypeOK, registry, request, batch
<1>3. ASSUME NEW g \in Get, GetStep(g) PROVE ServiceInv'
  BY <1>t, <1>3 DEF GetStep, Admit, Start, Browse, Answer, Serving, object, batch
<1>4. ASSUME NEW i \in Id, KillRequest(i) PROVE ServiceInv'
  BY <1>t, <1>4 DEF KillRequest, Serving
<1>5. ASSUME NEW i \in Id, KillScheduled(i) PROVE ServiceInv'
  <2>1. CASE Pop(i)
    BY <1>t, <1>5, <2>1, CancelledIsBusy DEF KillScheduled, TypeOK
  <2>2. CASE browsers[i] = NoBrowser
    BY <1>t, <1>5, <2>2 DEF KillScheduled, Pop, registry, object, request
  <2> QED
    BY <1>5, <2>1, <2>2 DEF KillScheduled
<1>6. CASE UpdateStep
  BY <1>t, <1>6 DEF UpdateStep, Update, UpdateWakes, UpdateEnds, registry, object, request
<1>7. ASSUME NEW k \in Terminator, TerminateStep(k) PROVE ServiceInv'
  BY <1>t, <1>7 DEF TerminateStep, Terminate, TerminateWakes, TerminateEnds, Serving,
     registry, object, request
<1>8. CASE ShutDown
  BY <1>t, <1>8 DEF ShutDown, CancelKills, Quiet, KillInv, registry, object, request, batch, TypeOK
<1>9. CASE ShutDownGoesOn \/ ShutDownEnds
  BY <1>t, <1>9 DEF ShutDownGoesOn, ShutDownEnds, Schedule, Gathered, registry, object, request
<1>10. CASE UNCHANGED vars
  BY <1>t, <1>10 DEF vars, registry, object, request, batch
<1> QED
  BY <1>1, <1>2, <1>3, <1>4, <1>5, <1>6, <1>7, <1>8, <1>9, <1>10, ScraperAssumption
     DEF Next, BrowserStep, Ended

\* A browser a /terminate has not listed has no request, and gets none while busy
\* is set.
LEMMA StopStep == RegistryInv /\ [Next]_vars => StopInv'
<1> SUFFICES ASSUME RegistryInv, [Next]_vars PROVE StopInv'
  OBVIOUS
<1>t. TypeOK /\ RegisteredIsLive /\ RequestInv /\ HolderInv /\ ServiceInv /\ StopInv
  BY DEF RegistryInv
<1> USE DEF StopInv
<1>1. ASSUME NEW b \in Creation, Register(b) PROVE StopInv'
  BY <1>t, <1>1, ScraperAssumption DEF Register, TypeOK, RequestInv, request, batch
<1>2. ASSUME NEW g \in Get, Admit(g) PROVE StopInv'
  BY <1>t, <1>2 DEF Admit, Serving, HolderInv, object, batch
<1>3. ASSUME NEW g \in Get, Start(g) \/ Browse(g) \/ Answer(g) PROVE StopInv'
  BY <1>t, <1>3 DEF Start, Browse, Answer, TypeOK, registry, object, batch
<1>4. ASSUME NEW i \in Id, KillRequest(i) PROVE StopInv'
  BY <1>t, <1>4 DEF KillRequest, Serving, HolderInv
<1>5. ASSUME NEW i \in Id, KillScheduled(i) PROVE StopInv'
  <2>1. CASE Pop(i)
    BY <1>t, <1>5, <2>1, CancelledIsBusy, ScraperAssumption DEF KillScheduled, TypeOK, RequestInv
  <2>2. CASE browsers[i] = NoBrowser /\ UNCHANGED <<registry, object, request>>
    BY <1>t, <1>5, <2>2, ScraperAssumption DEF KillScheduled, RequestInv, registry, request
  <2> QED
    BY <1>5, <2>1, <2>2 DEF KillScheduled
<1>6. CASE UpdateStep
  BY <1>t, <1>6 DEF UpdateStep, Update, UpdateWakes, UpdateEnds, Acquire, LockFree, Woken,
     Scheduled, Schedule, HolderInv, TerminateIsExclusive, registry, request, batch
<1>7. ASSUME NEW k \in Terminator, Terminate(k) \/ TerminateWakes(k) PROVE StopInv'
  BY <1>t, <1>7, ScraperAssumption
     DEF Terminate, TerminateWakes, Serving, Schedule, RequestInv, Registered, HolderInv,
         TerminateIsExclusive, TypeOK, registry, request, batch
<1>8. ASSUME NEW k \in Terminator, TerminateEnds(k) PROVE StopInv'
  BY <1>t, <1>8 DEF TerminateEnds, HolderInv, TerminateIsExclusive, TypeOK
<1>9. CASE ShutDown \/ ShutDownGoesOn \/ ShutDownEnds
  BY <1>t, <1>9 DEF ShutDown, ShutDownGoesOn, ShutDownEnds, Quiet, ServiceInv, registry, request
<1>10. CASE UNCHANGED <<registry, request, terminate, todo>>
  BY <1>t, <1>10 DEF registry, request
<1> QED
  BY <1>1, <1>2, <1>3, <1>4, <1>5, <1>6, <1>7, <1>8, <1>9, <1>10, ScraperAssumption
     DEF Next, BrowserStep, GetStep, TerminateStep, vars, batch, NewInstance, CreationFails,
         Expire, Close, Closed, Ended

-----------------------------------------------------------------------------
(***************************************************************************)
(* The theorems.                                                           *)
(***************************************************************************)
\* The inductive invariant: types, the dict, the requests, the holder of the lock, the
\* kills that are due, the service and the batches, each step needing several of them.
THEOREM RegistryHolds == Spec => []RegistryInv
<1>1. RegistryInv /\ [Next]_vars => RegistryInv'
  <2>1. RegistryInv => TypeOK
    BY DEF RegistryInv
  <2> QED
    BY <2>1, TypeStep, LiveStep, RequestStep, HolderStep, KillStep, ServiceStep, StopStep
       DEF RegistryInv
<1> QED
  BY InitRegistry, <1>1, PTL DEF Spec

\* The dict leads to live browsers of the right id, whatever creations, kills,
\* expiries and terminations overlap.
THEOREM RegisteredLive == Spec => []RegisteredIsLive
<1>1. RegistryInv => RegisteredIsLive
  BY DEF RegistryInv
<1> QED
  BY RegistryHolds, <1>1, PTL

\* No browser is closed under a request.
THEOREM NoneClosedUnder == Spec => []NoRequestOnClosedBrowser
<1>1. RegistryInv => NoRequestOnClosedBrowser
  BY DEF RegistryInv, RequestInv, NoRequestOnClosedBrowser
<1> QED
  BY RegistryHolds, <1>1, PTL

\* A /terminate works alone.
THEOREM TerminateAlone == Spec => []TerminateIsExclusive
<1>1. RegistryInv => TerminateIsExclusive
  BY DEF RegistryInv, HolderInv
<1> QED
  BY RegistryHolds, <1>1, PTL

\* A /terminate finds every browser it has listed.
THEOREM TerminateFindsAll == Spec => []TerminateKeepsItsIds
<1>1. RegistryInv => TerminateKeepsItsIds
  BY DEF RegistryInv, HolderInv, KillInv, TerminateKeepsItsIds
<1> QED
  BY RegistryHolds, <1>1, PTL

\* An orderly shutdown leaves no browser in the dict.
THEOREM ShutDownIsClean == Spec => []ShutDownLeavesNone
<1>1. RegistryInv => ShutDownLeavesNone
  BY DEF RegistryInv, ServiceInv, ShutDownLeavesNone
<1> QED
  BY RegistryHolds, <1>1, PTL

\* When a /terminate is over, nobody is at work on a browser of the dict.
THEOREM TerminateStops == Spec => TerminateStopsServing
<1>1. RegistryInv /\ [Next]_vars =>
        [busy /\ ~busy' => \A g \in Get : get[g] # "idle" => on[g] # browsers[Asks[g]]]_vars
  <2> SUFFICES ASSUME RegistryInv, Next, busy, ~busy', NEW g \in Get, get[g] # "idle"
               PROVE  on[g] # browsers[Asks[g]]
    OBVIOUS
  <2>1. CASE ShutDownEnds
    BY <2>1 DEF ShutDownEnds, RegistryInv, ServiceInv
  <2>2. ASSUME NEW k \in Terminator, TerminateEnds(k) PROVE on[g] # browsers[Asks[g]]
    BY <2>2 DEF TerminateEnds, Gathered, RegistryInv, StopInv
  <2> QED
    BY <2>1, <2>2
       DEF Next, BrowserStep, GetStep, UpdateStep, TerminateStep, NewInstance, Register,
           CreationFails, Expire, Close, Closed, Admit, Start, Browse, Answer, KillRequest,
           KillScheduled, Update, UpdateWakes, UpdateEnds, Terminate, TerminateWakes,
           ShutDown, ShutDownGoesOn, Ended, vars
<1> QED
  BY RegistryHolds, <1>1, PTL DEF Spec, TerminateStopsServing
=============================================================================
