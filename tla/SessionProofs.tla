---------------------------- MODULE SessionProofs ----------------------------
(***************************************************************************)
(* Theorems about Session, for every set of requests, lazy or not: what    *)
(* the shared tab and the kill of a browser guarantee, and that a Browser  *)
(* does what Scraper assumes of it.                                        *)
(***************************************************************************)
EXTENDS Session, SequenceTheorems, FiniteSetTheorems, TLAPS

\* before a kill can have begun
Young == {"unborn", "creating", "live"}

\* the task of g is between the lock and its record
Holds(g) == at[g] \in Stage \cup {"resting"}

\* the cancellations g has swallowed, or is about to
Cancellations(g) == swallowed[g] + (IF g \in cancelled THEN 1 ELSE 0)

-----------------------------------------------------------------------------
(***************************************************************************)
(* The operators of the stages.                                            *)
(***************************************************************************)
\* A stage leads to a later stage, or to the status of a get that has returned.
LEMMA AnswersType ==
    ASSUME NEW g \in Get, at[g] \in Stage
    PROVE  Answers(g) \subseteq (Stage \ {"load"}) \cup {"success", "blocked"}
<1>1. CASE at[g] = "load"
  BY <1>1 DEF Answers, Stage
<1>2. CASE at[g] = "settle"
  BY <1>2 DEF Answers, Stage
<1>3. CASE at[g] = "search"
  BY <1>3 DEF Answers, Stage
<1>4. CASE at[g] = "resolve"
  BY <1>4 DEF Answers, Stage
<1>5. CASE at[g] = "check"
  BY <1>5 DEF Answers, Stage
<1>6. CASE at[g] = "lazy"
  BY <1>6 DEF Answers, Stage
<1>7. CASE at[g] = "content"
  BY <1>7 DEF Answers, Stage
<1> QED
  BY <1>1, <1>2, <1>3, <1>4, <1>5, <1>6, <1>7 DEF Stage

\* A time-out leads to a later stage, or to a failure.
LEMMA OnTimeoutType ==
    ASSUME NEW g \in Get, at[g] \in Timed
    PROVE  OnTimeout(g) \in (Stage \ {"load"}) \cup {"failed"}
<1>1. CASE at[g] \in {"load", "content"}
  BY <1>1 DEF OnTimeout, Stage
<1>2. CASE at[g] \in {"search", "resolve"}
  BY <1>2 DEF OnTimeout, Stage
<1>3. CASE at[g] = "lazy"
  BY <1>3 DEF OnTimeout, Stage
<1> QED
  BY <1>1, <1>2, <1>3 DEF Stage, Timed

\* What a step of a stage comes to: the request moves to another stage but the
\* first, or it leaves the record of a get that was not cancelled.
Advances(g) ==
    \/ /\ \E s \in Stage \ {"load"} : Go(g, s)
       /\ UNCHANGED <<record, lock, tab>>
    \/ \E status \in Status \ {"aborted"} : Finish(g, status)

\* A task that goes on after an awaited step advances, its cancellation swallowed or not.
LEMMA ResumeAdvances ==
    ASSUME NEW g \in Get, Resume(g)
    PROVE  Advances(g)
<1>1. PICK next \in Answers(g) \cup {"raised"} : GoOn(g, next)
  BY DEF Resume
<1>2. next \in (Stage \ {"load"}) \cup {"success", "blocked", "raised"}
  BY <1>1, AnswersType DEF Resume
<1>3. CASE next \in Stage /\ Go(g, next) /\ UNCHANGED <<record, lock, tab>>
  BY <1>2, <1>3 DEF Advances, Stage
<1>4. CASE next \in Status /\ Finish(g, next)
  BY <1>2, <1>4 DEF Advances, Status, Stage
<1> QED
  BY <1>1, <1>3, <1>4 DEF GoOn

\* So does one whose step has timed out.
LEMMA TimeOutAdvances ==
    ASSUME NEW g \in Get, TimeOut(g)
    PROVE  Advances(g)
<1> DEFINE next == OnTimeout(g)
<1>1. GoOn(g, next)
  BY DEF TimeOut
<1>2. next \in (Stage \ {"load"}) \cup {"failed"}
  BY OnTimeoutType DEF TimeOut
<1> HIDE DEF next
<1>3. CASE next \in Stage /\ Go(g, next) /\ UNCHANGED <<record, lock, tab>>
  BY <1>2, <1>3 DEF Advances, Stage
<1>4. CASE next \in Status /\ Finish(g, next)
  BY <1>2, <1>4 DEF Advances, Status, Stage
<1> QED
  BY <1>1, <1>3, <1>4 DEF GoOn

-----------------------------------------------------------------------------
(***************************************************************************)
(* The queue of __get_lock.                                                *)
(***************************************************************************)
\* The part of a sequence in front of an element.
LEMMA Front ==
    ASSUME NEW S, NEW s \in Seq(S), NEW i \in 1 .. Len(s)
    PROVE  /\ SubSeq(s, 1, i - 1) \in Seq(S)
           /\ Len(SubSeq(s, 1, i - 1)) = i - 1
           /\ \A k \in 1 .. i - 1 : SubSeq(s, 1, i - 1)[k] = s[k]
<1>1. Len(s) \in Nat /\ \A k \in 1 .. Len(s) : s[k] \in S
  OBVIOUS
<1>2. 1 \in Int /\ i - 1 \in Int /\ \A k \in 1 .. i - 1 : s[k] \in S
  BY <1>1
<1> QED
  BY <1>1, <1>2, SubSeqProperties

\* The part behind it.
LEMMA Back ==
    ASSUME NEW S, NEW s \in Seq(S), NEW i \in 1 .. Len(s)
    PROVE  /\ SubSeq(s, i + 1, Len(s)) \in Seq(S)
           /\ Len(SubSeq(s, i + 1, Len(s))) = Len(s) - i
           /\ \A k \in 1 .. Len(s) - i : SubSeq(s, i + 1, Len(s))[k] = s[i + k]
<1>1. Len(s) \in Nat /\ \A k \in 1 .. Len(s) : s[k] \in S
  OBVIOUS
<1>2. i + 1 \in Int /\ Len(s) \in Int /\ \A k \in i + 1 .. Len(s) : s[k] \in S
  BY <1>1
<1>3. /\ SubSeq(s, i + 1, Len(s)) \in Seq(S)
      /\ Len(SubSeq(s, i + 1, Len(s))) = IF i + 1 <= Len(s) THEN Len(s) - (i + 1) + 1 ELSE 0
      /\ \A k \in 1 .. Len(s) - (i + 1) + 1 :
            SubSeq(s, i + 1, Len(s))[k] = s[i + 1 + k - 1]
  BY <1>2, SubSeqProperties
<1> QED
  BY <1>1, <1>3

\* Taking one element out of a sequence moves up those behind it.
LEMMA WithoutOne ==
    ASSUME NEW S, NEW s \in Seq(S), NEW i \in 1 .. Len(s)
    PROVE  LET t == SubSeq(s, 1, i - 1) \o SubSeq(s, i + 1, Len(s)) IN
           /\ t \in Seq(S) /\ Len(t) = Len(s) - 1
           /\ \A k \in 1 .. Len(s) - 1 : t[k] = IF k < i THEN s[k] ELSE s[k + 1]
<1> DEFINE a == SubSeq(s, 1, i - 1)
           b == SubSeq(s, i + 1, Len(s))
<1>1. Len(s) \in Nat
  OBVIOUS
<1>2. /\ a \in Seq(S) /\ Len(a) = i - 1
      /\ \A k \in 1 .. i - 1 : a[k] = s[k]
  BY Front
<1>3. /\ b \in Seq(S) /\ Len(b) = Len(s) - i
      /\ \A k \in 1 .. Len(s) - i : b[k] = s[i + k]
  BY Back
<1> HIDE DEF a, b
<1>4. /\ a \o b \in Seq(S) /\ Len(a \o b) = Len(a) + Len(b)
      /\ \A k \in 1 .. Len(a) + Len(b) :
            (a \o b)[k] = IF k <= Len(a) THEN a[k] ELSE b[k - Len(a)]
  BY <1>2, <1>3, ConcatProperties
<1>5. Len(a) + Len(b) = Len(s) - 1
  BY <1>1, <1>2, <1>3
<1>6. ASSUME NEW k \in 1 .. Len(s) - 1 PROVE (a \o b)[k] = IF k < i THEN s[k] ELSE s[k + 1]
  <2>1. (a \o b)[k] = IF k <= Len(a) THEN a[k] ELSE b[k - Len(a)]
    BY <1>4, <1>5
  <2>2. CASE k < i
    BY <1>1, <1>2, <2>1, <2>2
  <2>3. CASE ~(k < i)
    <3>1. k - (i - 1) \in 1 .. Len(s) - i /\ i + (k - (i - 1)) = k + 1
      BY <1>1, <2>3
    <3>2. (a \o b)[k] = b[k - (i - 1)]
      BY <1>1, <1>2, <2>1, <2>3
    <3> QED
      BY <1>3, <2>3, <3>1, <3>2
  <2> QED
    BY <2>2, <2>3
<1> QED
  BY <1>4, <1>5, <1>6 DEF a, b

\* A waiter leaves the queue, its turn come or cancelled; the others keep their order.
LEMMA LeavesQueue ==
    ASSUME waiters \in Seq(Get), NEW g \in Get, Woken(g) \/ Withdraw(g)
    PROVE  /\ waiters' \in Seq(Get)
           /\ \E i \in 1 .. Len(waiters) :
                 /\ waiters[i] = g /\ Len(waiters') = Len(waiters) - 1
                 /\ \A k \in 1 .. Len(waiters) - 1 :
                       waiters'[k] = IF k < i THEN waiters[k] ELSE waiters[k + 1]
<1>1. CASE Woken(g)
  BY <1>1 DEF Woken, Scheduled
<1>2. CASE Withdraw(g)
  <2>1. PICK i \in 1 .. Len(waiters) :
            /\ waiters[i] = g
            /\ waiters' = SubSeq(waiters, 1, i - 1) \o SubSeq(waiters, i + 1, Len(waiters))
    BY <1>2 DEF Withdraw
  <2>2. /\ waiters' \in Seq(Get) /\ Len(waiters') = Len(waiters) - 1
        /\ \A k \in 1 .. Len(waiters) - 1 :
              waiters'[k] = IF k < i THEN waiters[k] ELSE waiters[k + 1]
    BY <2>1, WithoutOne
  <2> QED
    BY <2>1, <2>2
<1> QED
  BY <1>1, <1>2

\* The queue holds the queued requests, each once.
QueueInv ==
    /\ \A k \in 1 .. Len(waiters) : at[waiters[k]] = "queued"
    /\ \A j, k \in 1 .. Len(waiters) : waiters[j] = waiters[k] => j = k
    /\ \A g \in Get : at[g] = "queued" => \E k \in 1 .. Len(waiters) : waiters[k] = g

\* A queued request that leaves the queue and its place leaves the others queued.
LEMMA LeavingKeepsQueue ==
    ASSUME TypeOK, QueueInv, NEW g \in Get, Woken(g) \/ Withdraw(g),
           NEW place, place # "queued", Go(g, place)
    PROVE  QueueInv'
<1>0. waiters \in Seq(Get)
  BY DEF TypeOK
<1>1. PICK i \in 1 .. Len(waiters) :
          /\ waiters[i] = g /\ Len(waiters') = Len(waiters) - 1
          /\ \A k \in 1 .. Len(waiters) - 1 :
                waiters'[k] = IF k < i THEN waiters[k] ELSE waiters[k + 1]
  BY <1>0, LeavesQueue
<1>2. Len(waiters) \in Nat /\ Len(waiters') \in Nat
  BY <1>0, <1>1
<1>3. \A h \in Get : at'[h] = IF h = g THEN place ELSE at[h]
  BY DEF Go, TypeOK
<1>4. \A k \in 1 .. Len(waiters) : waiters[k] \in Get
  BY <1>0
<1>5. ASSUME NEW k \in 1 .. Len(waiters') PROVE at'[waiters'[k]] = "queued"
  <2> PICK j \in 1 .. Len(waiters) : waiters'[k] = waiters[j] /\ j # i
    BY <1>1, <1>2
  <2> QED
    BY <1>1, <1>3, <1>4 DEF QueueInv
<1>6. ASSUME NEW j \in 1 .. Len(waiters'), NEW k \in 1 .. Len(waiters'), waiters'[j] = waiters'[k]
      PROVE  j = k
  <2>1. PICK m \in 1 .. Len(waiters) :
            m = (IF j < i THEN j ELSE j + 1) /\ waiters'[j] = waiters[m]
    BY <1>1, <1>2
  <2>2. PICK n \in 1 .. Len(waiters) :
            n = (IF k < i THEN k ELSE k + 1) /\ waiters'[k] = waiters[n]
    BY <1>1, <1>2
  <2>3. waiters[m] = waiters[n]
    BY <1>6, <2>1, <2>2
  <2>4. m = n
    BY <2>3 DEF QueueInv
  <2> QED
    BY <1>2, <2>1, <2>2, <2>4
<1>7. ASSUME NEW h \in Get, at'[h] = "queued"
      PROVE  \E k \in 1 .. Len(waiters') : waiters'[k] = h
  <2>1. at[h] = "queued" /\ h # g
    BY <1>3, <1>7
  <2> PICK k \in 1 .. Len(waiters) : waiters[k] = h
    BY <2>1 DEF QueueInv
  <2>2. k # i
    BY <1>1, <2>1
  <2>3. CASE k < i
    BY <1>1, <1>2, <2>3
  <2>4. CASE k > i
    <3>1. k - 1 \in 1 .. Len(waiters')
      BY <1>1, <1>2, <2>4
    <3>2. waiters'[k - 1] = waiters[k]
      BY <1>1, <1>2, <2>4, <3>1
    <3> QED
      BY <3>1, <3>2
  <2> QED
    BY <1>2, <2>2, <2>3, <2>4
<1> QED
  BY <1>5, <1>6, <1>7 DEF QueueInv

-----------------------------------------------------------------------------
(***************************************************************************)
(* The inductive invariant, in named parts.                                *)
(***************************************************************************)
\* locked() says whether some task is between the lock and its record
LockInv == TabIsExclusive /\ (locked <=> \E g \in Get : Holds(g))

\* a kill cancels each of its tasks at most twice
CancelInv ==
    /\ life \in Young => cancelled = {} /\ ~insisted /\ \A g \in Get : swallowed[g] = 0
    /\ \A g \in Get : Cancellations(g) <= IF insisted THEN 2 ELSE 1

\* whatever has not reached its first stage has its cancellation before it
PendingInv ==
    life # "live" =>
        \A g \in Get : at[g] \in {"scheduled", "queued", "resting"} => g \in cancelled

\* a browser has tasks only between its registration and its close
IdleInv == life \in {"unborn", "creating", "closing", "gone"} => Active = {}

\* the parts of kill run once the tasks are over
PartsInv == parts # {} => life \in {"closing", "gone"}

\* the inductive invariant
SessionInv ==
    /\ TypeOK /\ QueueInv /\ LockInv /\ CancelInv
    /\ PendingInv /\ IdleInv /\ PartsInv /\ RecordIsHonest

-----------------------------------------------------------------------------
(***************************************************************************)
(* Type correctness.                                                       *)
(***************************************************************************)
\* What a step of a task leaves of the lock and of its queue.
LEMMA LockType ==
    ASSUME TypeOK, NEW g \in Get,
           Acquire \/ Enqueue(g) \/ Woken(g) \/ Withdraw(g) \/ Release
    PROVE  locked' \in BOOLEAN /\ waiters' \in Seq(Get)
<1>1. waiters \in Seq(Get) /\ locked \in BOOLEAN
  BY DEF TypeOK
<1>2. CASE Woken(g) \/ Withdraw(g)
  <2>1. waiters' \in Seq(Get)
    BY <1>1, <1>2, LeavesQueue
  <2> QED
    BY <1>1, <1>2, <2>1 DEF Woken, Withdraw
<1>3. CASE Enqueue(g)
  BY <1>1, <1>3 DEF Enqueue
<1>4. CASE Acquire \/ Release
  BY <1>1, <1>4 DEF Acquire, Release
<1> QED
  BY <1>2, <1>3, <1>4

\* A step of a stage keeps the types of what it changes.
LEMMA AdvanceType ==
    ASSUME TypeOK, NEW g \in Get, Advances(g)
    PROVE  /\ at' \in [Get -> {"away", "scheduled", "queued", "resting", "done"} \cup Stage]
           /\ record' \in [Get -> Status \cup {"none"}]
           /\ locked' \in BOOLEAN /\ waiters' \in Seq(Get)
           /\ recovering' \in BOOLEAN /\ spotted' \in BOOLEAN
<1>1. CASE (\E s \in Stage \ {"load"} : Go(g, s)) /\ UNCHANGED <<record, lock, tab>>
  BY <1>1 DEF TypeOK, Go, lock, tab
<1>2. ASSUME NEW status \in Status \ {"aborted"}, Finish(g, status)
      PROVE  /\ at' \in [Get -> {"away", "scheduled", "queued", "resting", "done"} \cup Stage]
             /\ record' \in [Get -> Status \cup {"none"}]
             /\ locked' \in BOOLEAN /\ waiters' \in Seq(Get)
             /\ recovering' \in BOOLEAN /\ spotted' \in BOOLEAN
  BY <1>2, LockType DEF TypeOK, Finish, Go
<1> QED
  BY <1>1, <1>2 DEF Advances

\* Every step keeps the types; a third cancellation of one task would not.
LEMMA TypeStep == TypeOK /\ CancelInv /\ [Next]_vars => TypeOK'
<1> SUFFICES ASSUME TypeOK, CancelInv, [Next]_vars PROVE TypeOK'
  OBVIOUS
<1>1. CASE CreateDisplay \/ FinishCreation \/ CreationFails
  BY <1>1 DEF TypeOK, CreateDisplay, FinishCreation, CreationFails, task, lock, tab
<1>2. ASSUME NEW g \in Get, Admit(g) \/ StepEnds(g) PROVE TypeOK'
  BY <1>2 DEF TypeOK, Admit, StepEnds, Go, process, lock, tab
<1>3. ASSUME NEW g \in Get, Start(g) \/ Turn(g) PROVE TypeOK'
  <2>1. locked' \in BOOLEAN /\ waiters' \in Seq(Get)
    BY <1>3, LockType DEF Start, Turn
  <2>2. at' \in [Get -> {"away", "scheduled", "queued", "resting", "done"} \cup Stage]
    BY <1>3 DEF TypeOK, Start, Turn, Enter, Go, Stage
  <2> QED
    BY <1>3, <2>1, <2>2 DEF TypeOK, Start, Turn, process, tab
<1>4. ASSUME NEW g \in Get, Rested(g) PROVE TypeOK'
  BY <1>4 DEF TypeOK, Rested, Go, Stage, process, lock, tab
<1>5. ASSUME NEW g \in Get, Resume(g) PROVE TypeOK'
  <2>1. swallowed' \in [Get -> 0 .. 2]
    <3>1. CASE g \in cancelled
      <4>1. swallowed[g] + 1 \in 0 .. 2
        BY <3>1 DEF CancelInv, Cancellations, TypeOK
      <4> QED
        BY <1>5, <3>1, <4>1 DEF TypeOK, Resume
    <3>2. CASE g \notin cancelled
      BY <1>5, <3>2 DEF TypeOK, Resume
    <3> QED
      BY <3>1, <3>2
  <2> QED
    BY <1>5, <2>1, AdvanceType, ResumeAdvances DEF TypeOK, Resume, process
<1>6. ASSUME NEW g \in Get, TimeOut(g) PROVE TypeOK'
  BY <1>6, AdvanceType, TimeOutAdvances DEF TypeOK, TimeOut, process
<1>7. ASSUME NEW g \in Get, Abort(g) PROVE TypeOK'
  <2>1. locked' \in BOOLEAN /\ waiters' \in Seq(Get)
    BY <1>7, LockType DEF Abort
  <2> QED
    BY <1>7, <2>1 DEF TypeOK, Abort, Go, Status, process, tab
<1>8. ASSUME NEW g \in Get, Drop(g) PROVE TypeOK'
  BY <1>8 DEF TypeOK, Drop, Go, process, lock, tab
<1>9. CASE RecoveryEnds \/ Kill \/ Insist
  BY <1>9 DEF TypeOK, RecoveryEnds, Kill, Insist, Active, process, task, lock, tab
<1>10. CASE KillStep
  BY <1>10 DEF TypeOK, KillStep, Close, StopDriver, StopProcess, Join, ThreadEnds, Closed,
               KillPart, process, task, lock, tab
<1>11. CASE UNCHANGED vars
  BY <1>11 DEF TypeOK, vars, process, task, lock, tab
<1> QED
  BY <1>1, <1>2, <1>3, <1>4, <1>5, <1>6, <1>7, <1>8, <1>9, <1>10, <1>11 DEF Next, TaskStep

-----------------------------------------------------------------------------
(***************************************************************************)
(* The steps keep the invariant, part by part.                             *)
(***************************************************************************)
\* A browser that is not born yet has no task and a free lock.
LEMMA InitSession == Init => SessionInv
<1> SUFFICES ASSUME Init PROVE SessionInv
  OBVIOUS
<1>0. waiters \in Seq(Get) /\ \A g \in Get : swallowed[g] = 0 /\ 0 \in 0 .. 2
  BY DEF Init
<1>1. TypeOK
  BY <1>0 DEF Init, TypeOK
<1>2. Active = {}
  BY DEF Init, Active
<1>3. QueueInv
  BY DEF Init, QueueInv
<1>4. LockInv
  BY DEF Init, LockInv, TabIsExclusive, Holds, Stage
<1>5. CancelInv
  BY DEF Init, CancelInv, Cancellations
<1>6. PendingInv /\ IdleInv /\ PartsInv /\ RecordIsHonest
  BY <1>2 DEF Init, PendingInv, IdleInv, PartsInv, RecordIsHonest
<1> QED
  BY <1>1, <1>3, <1>4, <1>5, <1>6 DEF SessionInv

\* A request queues once, at the end, and leaves the queue when its turn has come or
\* when it is cancelled.
LEMMA QueueStep == TypeOK /\ QueueInv /\ [Next]_vars => QueueInv'
<1> SUFFICES ASSUME TypeOK, QueueInv, [Next]_vars PROVE QueueInv'
  OBVIOUS
<1>0. waiters \in Seq(Get) /\ Len(waiters) \in Nat /\ \A k \in 1 .. Len(waiters) : waiters[k] \in Get
  BY DEF TypeOK
<1>1. ASSUME NEW g \in Get, at[g] # "queued", NEW place, place # "queued", Go(g, place),
             UNCHANGED waiters
      PROVE  QueueInv'
  <2>1. \A h \in Get : at'[h] = "queued" <=> at[h] = "queued"
    BY <1>1 DEF Go, TypeOK
  <2> QED
    BY <1>0, <1>1, <2>1 DEF QueueInv
<1>2. ASSUME NEW g \in Get, Admit(g) \/ Rested(g) \/ Drop(g) PROVE QueueInv'
  BY <1>1, <1>2 DEF Admit, Rested, Drop, lock
<1>3. ASSUME NEW g \in Get, Start(g) PROVE QueueInv'
  <2>1. CASE Acquire /\ Enter(g)
    BY <1>1, <1>3, <2>1 DEF Start, Acquire, Enter
  <2>2. CASE Enqueue(g) /\ Go(g, "queued")
    <3>1. \A h \in Get : at'[h] = "queued" <=> (at[h] = "queued" \/ h = g)
      BY <2>2 DEF Go, TypeOK
    <3>2. /\ Len(waiters') = Len(waiters) + 1
          /\ \A k \in 1 .. Len(waiters) + 1 :
                waiters'[k] = IF k <= Len(waiters) THEN waiters[k] ELSE g
      BY <1>0, <2>2 DEF Enqueue
    <3>3. \A k \in 1 .. Len(waiters) : waiters[k] # g
      BY <1>3 DEF Start, QueueInv
    <3> QED
      BY <1>0, <3>1, <3>2, <3>3 DEF QueueInv
  <2> QED
    BY <1>3, <2>1, <2>2 DEF Start
<1>4. ASSUME NEW g \in Get, Turn(g) PROVE QueueInv'
  BY <1>4, LeavingKeepsQueue DEF Turn, Enter
<1>5. ASSUME NEW g \in Get, at[g] \in Stage, Advances(g) PROVE QueueInv'
  BY <1>1, <1>5 DEF Advances, Finish, Release, Stage, lock
<1>6. ASSUME NEW g \in Get, Abort(g) PROVE QueueInv'
  <2>1. CASE at[g] = "queued"
    BY <1>6, <2>1, LeavingKeepsQueue DEF Abort, Stage
  <2>2. CASE at[g] # "queued"
    BY <1>1, <1>6, <2>2 DEF Abort, Release
  <2> QED
    BY <2>1, <2>2
<1>7. CASE UNCHANGED <<at, waiters>>
  BY <1>7 DEF QueueInv
<1> QED
  BY <1>2, <1>3, <1>4, <1>5, <1>6, <1>7, ResumeAdvances, TimeOutAdvances
     DEF Next, TaskStep, Resume, TimeOut, Timed, StepEnds, CreateDisplay, FinishCreation,
         CreationFails, RecoveryEnds, Kill, Insist, KillStep, Close, StopDriver, StopProcess,
         Join, ThreadEnds, Closed, vars, task, lock

\* A task takes the lock only when nobody has it, and gives it back with its record.
LEMMA LockStep == TypeOK /\ LockInv /\ [Next]_vars => LockInv'
<1> SUFFICES ASSUME TypeOK, LockInv, [Next]_vars PROVE LockInv'
  OBVIOUS
<1>1. ASSUME NEW g \in Get, ~Holds(g), NEW place, place \notin Stage \cup {"resting"},
             Go(g, place), UNCHANGED locked
      PROVE  LockInv'
  <2>1. \A h \in Get : Holds(h)' <=> Holds(h)
    BY <1>1 DEF Go, Holds, TypeOK
  <2>2. \A h, k \in Get : Holds(h) /\ Holds(k) => h = k
    BY DEF LockInv, TabIsExclusive, Holds
  <2> QED
    BY <1>1, <2>1, <2>2 DEF LockInv, TabIsExclusive, Holds
<1>2. ASSUME NEW g \in Get, ~locked, locked', Enter(g) \/ Go(g, "load")
      PROVE  LockInv'
  <2>1. \A h \in Get : Holds(h)' <=> h = g
    BY <1>2 DEF Enter, Go, Holds, Stage, LockInv, TypeOK
  <2> QED
    BY <1>2, <2>1 DEF LockInv, TabIsExclusive, Holds
<1>3. ASSUME NEW g \in Get, Holds(g), NEW place \in Stage \cup {"resting"},
             Go(g, place), UNCHANGED locked
      PROVE  LockInv'
  <2>1. \A h \in Get : Holds(h)' <=> Holds(h)
    BY <1>3 DEF Go, Holds, TypeOK
  <2>2. \A h, k \in Get : Holds(h) /\ Holds(k) => h = k
    BY DEF LockInv, TabIsExclusive, Holds
  <2> QED
    BY <1>3, <2>1, <2>2 DEF LockInv, TabIsExclusive, Holds
<1>4. ASSUME NEW g \in Get, Holds(g), Go(g, "done"), Release
      PROVE  LockInv'
  <2>1. \A h \in Get : ~Holds(h)'
    BY <1>4 DEF Go, Holds, Stage, LockInv, TabIsExclusive, TypeOK
  <2> QED
    BY <1>4, <2>1 DEF LockInv, TabIsExclusive, Holds, Release
<1>5. ASSUME NEW g \in Get, Admit(g) \/ Drop(g) PROVE LockInv'
  BY <1>1, <1>5 DEF Admit, Drop, Holds, Stage, lock
<1>6. ASSUME NEW g \in Get, Start(g) \/ Turn(g) PROVE LockInv'
  BY <1>1, <1>2, <1>6 DEF Start, Turn, Acquire, LockFree, Enqueue, Woken, Scheduled, Holds, Stage
<1>7. ASSUME NEW g \in Get, Rested(g) PROVE LockInv'
  BY <1>3, <1>7 DEF Rested, Holds, Stage, lock
<1>8. ASSUME NEW g \in Get, at[g] \in Stage, Advances(g) PROVE LockInv'
  BY <1>3, <1>4, <1>8 DEF Advances, Finish, Holds, lock
<1>9. ASSUME NEW g \in Get, Abort(g) PROVE LockInv'
  BY <1>1, <1>4, <1>9 DEF Abort, Withdraw, Holds, Stage
<1>10. CASE UNCHANGED <<at, locked>>
  BY <1>10 DEF LockInv, TabIsExclusive, Holds
<1> QED
  BY <1>5, <1>6, <1>7, <1>8, <1>9, <1>10, ResumeAdvances, TimeOutAdvances
     DEF Next, TaskStep, Resume, TimeOut, Timed, StepEnds, CreateDisplay, FinishCreation,
         CreationFails, RecoveryEnds, Kill, Insist, KillStep, Close, StopDriver, StopProcess,
         Join, ThreadEnds, Closed, vars, task, lock

\* Kill cancels once, Insist once more, and only when nothing is pending.
LEMMA CancelStep == TypeOK /\ CancelInv /\ PartsInv /\ [Next]_vars => CancelInv'
<1> SUFFICES ASSUME TypeOK, CancelInv, PartsInv, [Next]_vars PROVE CancelInv'
  OBVIOUS
<1> USE DEF CancelInv, Cancellations
<1>1. ASSUME UNCHANGED <<cancelled, insisted, swallowed>>, life' \in Young => life \in Young
      PROVE  CancelInv'
  BY <1>1
<1>2. CASE CreateDisplay \/ FinishCreation \/ CreationFails \/ RecoveryEnds
  BY <1>1, <1>2 DEF CreateDisplay, FinishCreation, CreationFails, RecoveryEnds, Young, task
<1>3. ASSUME NEW g \in Get, Admit(g) \/ StepEnds(g) \/ Start(g) \/ Turn(g) \/ Rested(g) \/ TimeOut(g)
      PROVE  CancelInv'
  BY <1>1, <1>3 DEF Admit, StepEnds, Start, Turn, Rested, TimeOut
<1>4. ASSUME NEW g \in Get, Resume(g) PROVE CancelInv'
  <2>1. life' = life /\ insisted' = insisted
    BY <1>4 DEF Resume
  <2>2. CASE g \in cancelled
    <3>1. /\ cancelled' = cancelled \ {g}
          /\ \A h \in Get : swallowed'[h] = IF h = g THEN swallowed[h] + 1 ELSE swallowed[h]
      BY <1>4, <2>2 DEF Resume, TypeOK
    <3>2. \A h \in Get : Cancellations(h)' = Cancellations(h)
      BY <2>2, <3>1 DEF TypeOK
    <3> QED
      BY <2>1, <2>2, <3>1, <3>2
  <2>3. CASE g \notin cancelled
    BY <1>1, <1>4, <2>1, <2>3 DEF Resume
  <2> QED
    BY <2>2, <2>3
<1>5. ASSUME NEW g \in Get, Abort(g) \/ Drop(g) PROVE CancelInv'
  <2>1. /\ cancelled' = cancelled \ {g}
        /\ UNCHANGED <<life, insisted, swallowed>>
    BY <1>5 DEF Abort, Drop
  <2> QED
    BY <2>1 DEF TypeOK
<1>6. CASE Kill
  BY <1>6 DEF Kill, Young, Active, TypeOK
<1>7. CASE Insist
  BY <1>7 DEF Insist, Young, Active, TypeOK
<1>8. CASE KillStep
  BY <1>1, <1>8 DEF KillStep, Close, StopDriver, StopProcess, Join, ThreadEnds, Closed, task,
                    PartsInv, Young
<1>9. CASE UNCHANGED vars
  BY <1>1, <1>9 DEF vars, task
<1> QED
  BY <1>2, <1>3, <1>4, <1>5, <1>6, <1>7, <1>8, <1>9 DEF Next, TaskStep

\* What a step of a task does to its place: nobody else moves, nobody comes back.
LEMMA TaskMoves ==
    ASSUME TypeOK, NEW g \in Get, TaskStep(g)
    PROVE  /\ \A h \in Get \ {g} : at'[h] = at[h]
           /\ at[g] \notin {"away", "done"} /\ at'[g] # "away"
           /\ UNCHANGED <<life, insisted, process>>
<1>1. ASSUME NEW place, place # "away", Go(g, place)
      PROVE  at'[g] # "away" /\ \A h \in Get \ {g} : at'[h] = at[h]
  BY <1>1 DEF Go, TypeOK
<1>2. CASE Start(g) \/ Turn(g) \/ Rested(g) \/ Drop(g)
  BY <1>1, <1>2 DEF Start, Turn, Rested, Drop, Enter
<1>3. CASE Resume(g) \/ TimeOut(g)
  <2>1. Advances(g)
    BY <1>3, ResumeAdvances, TimeOutAdvances
  <2>2. at[g] \in Stage
    BY <1>3 DEF Resume, TimeOut, Timed
  <2> QED
    BY <1>1, <1>3, <2>1, <2>2 DEF Advances, Finish, Resume, TimeOut, Stage
<1>4. CASE Abort(g)
  BY <1>1, <1>4 DEF Abort, Stage
<1> QED
  BY <1>2, <1>3, <1>4 DEF TaskStep

\* A cancelled task never reaches a stage from outside one.
LEMMA PendingStep ==
    TypeOK /\ PendingInv /\ IdleInv /\ PartsInv /\ [Next]_vars => PendingInv'
<1> SUFFICES ASSUME TypeOK, PendingInv, IdleInv, PartsInv, [Next]_vars PROVE PendingInv'
  OBVIOUS
<1> USE DEF PendingInv
<1>1. CASE CreateDisplay \/ FinishCreation \/ CreationFails \/ RecoveryEnds
  BY <1>1 DEF CreateDisplay, FinishCreation, CreationFails, RecoveryEnds, task, IdleInv, Active
<1>2. ASSUME NEW g \in Get, Admit(g) \/ StepEnds(g) PROVE PendingInv'
  BY <1>2 DEF Admit, StepEnds
<1>3. ASSUME NEW g \in Get, TaskStep(g), life # "live" PROVE PendingInv'
  <2>1. /\ \A h \in Get \ {g} : at'[h] = at[h]
        /\ cancelled \ {g} \subseteq cancelled'
        /\ UNCHANGED life
    BY <1>3, TaskMoves DEF TaskStep, Start, Turn, Rested, Resume, TimeOut, Abort, Drop
  <2>2. at'[g] \notin {"scheduled", "queued", "resting"}
    <3>1. CASE Start(g) \/ Turn(g) \/ Rested(g)
      BY <1>3, <3>1 DEF Start, Turn, Rested
    <3>2. CASE Resume(g) \/ TimeOut(g)
      BY <3>2, ResumeAdvances, TimeOutAdvances DEF Advances, Finish, Go, Stage, TypeOK
    <3>3. CASE Abort(g) \/ Drop(g)
      BY <3>3 DEF Abort, Drop, Go, TypeOK
    <3> QED
      BY <1>3, <3>1, <3>2, <3>3 DEF TaskStep
  <2> QED
    BY <1>3, <2>1, <2>2
<1>4. ASSUME NEW g \in Get, TaskStep(g), life = "live" PROVE PendingInv'
  BY <1>4, TaskMoves
<1>5. CASE Kill \/ Insist
  BY <1>5 DEF Kill, Insist, Active
<1>6. CASE KillStep
  BY <1>6 DEF KillStep, Close, StopDriver, StopProcess, Join, ThreadEnds, Closed, task, PartsInv
<1>7. CASE UNCHANGED vars
  BY <1>7 DEF vars, task
<1> QED
  BY <1>1, <1>2, <1>3, <1>4, <1>5, <1>6, <1>7 DEF Next

\* Tasks come only to a live browser, and kill closes it only when they are gone.
LEMMA IdleStep ==
    TypeOK /\ IdleInv /\ PartsInv /\ [Next]_vars => IdleInv' /\ PartsInv'
<1> SUFFICES ASSUME TypeOK, IdleInv, PartsInv, [Next]_vars PROVE IdleInv' /\ PartsInv'
  OBVIOUS
<1> USE DEF IdleInv, PartsInv
<1>1. CASE CreateDisplay \/ FinishCreation \/ CreationFails \/ RecoveryEnds \/ Kill \/ Insist
  BY <1>1 DEF CreateDisplay, FinishCreation, CreationFails, RecoveryEnds, Kill, Insist, Active,
              process, task
<1>2. ASSUME NEW g \in Get, Admit(g) \/ StepEnds(g) PROVE IdleInv' /\ PartsInv'
  BY <1>2 DEF Admit, StepEnds, Active, process
<1>3. ASSUME NEW g \in Get, TaskStep(g) PROVE IdleInv' /\ PartsInv'
  BY <1>3, TaskMoves DEF Active, process
<1>4. CASE KillStep
  BY <1>4 DEF KillStep, Close, StopDriver, StopProcess, Join, ThreadEnds, Closed, Active, task
<1>5. CASE UNCHANGED vars
  BY <1>5 DEF vars, task, process, Active
<1> QED
  BY <1>1, <1>2, <1>3, <1>4, <1>5 DEF Next

\* Only a cancelled task is aborted or dropped, and no task is cancelled before kill.
LEMMA RecordStep ==
    TypeOK /\ CancelInv /\ PartsInv /\ RecordIsHonest /\ [Next]_vars => RecordIsHonest'
<1> SUFFICES ASSUME TypeOK, CancelInv, PartsInv, RecordIsHonest, [Next]_vars
             PROVE  RecordIsHonest'
  OBVIOUS
<1> USE DEF RecordIsHonest
<1>1. CASE CreateDisplay \/ FinishCreation \/ CreationFails \/ RecoveryEnds \/ Kill \/ Insist
  BY <1>1 DEF CreateDisplay, FinishCreation, CreationFails, RecoveryEnds, Kill, Insist,
              task, tab
<1>2. ASSUME NEW g \in Get, Admit(g) \/ StepEnds(g) \/ Start(g) \/ Turn(g) \/ Rested(g)
      PROVE  RecordIsHonest'
  <2>1. UNCHANGED <<life, record, spotted>>
    BY <1>2 DEF Admit, StepEnds, Start, Turn, Rested, tab
  <2>2. \A h \in Get : at'[h] = "done" => at[h] = "done"
    BY <1>2 DEF Admit, StepEnds, Start, Turn, Rested, Enter, Go, TypeOK
  <2> QED
    BY <2>1, <2>2
<1>3. ASSUME NEW g \in Get, Advances(g), UNCHANGED life PROVE RecordIsHonest'
  <2>1. CASE (\E s \in Stage \ {"load"} : Go(g, s)) /\ UNCHANGED <<record, lock, tab>>
    BY <1>3, <2>1 DEF Go, Stage, TypeOK, tab
  <2>2. ASSUME NEW status \in Status \ {"aborted"}, Finish(g, status) PROVE RecordIsHonest'
    BY <1>3, <2>2 DEF Finish, Go, Status, TypeOK
  <2> QED
    BY <1>3, <2>1, <2>2 DEF Advances
<1>4. ASSUME NEW g \in Get, Abort(g) \/ Drop(g) PROVE RecordIsHonest'
  <2>1. life' \notin Young
    BY <1>4 DEF Abort, Drop, CancelInv
  <2>2. \A h \in Get : record'[h] = "blocked" => record[h] = "blocked"
    BY <1>4 DEF Abort, Drop, TypeOK
  <2> QED
    BY <1>4, <2>1, <2>2 DEF Abort, Drop, Young, tab
<1>5. CASE KillStep
  BY <1>5 DEF KillStep, Close, StopDriver, StopProcess, Join, ThreadEnds, Closed, task, tab,
              PartsInv
<1>6. CASE UNCHANGED vars
  BY <1>6 DEF vars, task, tab
<1> QED
  BY <1>1, <1>2, <1>3, <1>4, <1>5, <1>6, ResumeAdvances, TimeOutAdvances
     DEF Next, TaskStep, Resume, TimeOut

-----------------------------------------------------------------------------
(***************************************************************************)
(* The theorems on the tab and on kill.                                    *)
(***************************************************************************)
\* The inductive invariant of a browser.
THEOREM SessionHolds == Spec => []SessionInv
<1>1. SessionInv /\ [Next]_vars => SessionInv'
  BY TypeStep, QueueStep, LockStep, CancelStep, PendingStep, IdleStep, RecordStep DEF SessionInv
<1> QED
  BY InitSession, <1>1, PTL DEF Spec

\* Every variable of a browser keeps its type; no task is cancelled three times.
THEOREM TypeCorrect == Spec => []TypeOK
<1>1. SessionInv => TypeOK
  BY DEF SessionInv
<1> QED
  BY SessionHolds, <1>1, PTL

\* Requests that come at any rate use the tab one after the other.
THEOREM OneAtATime == Spec => []TabIsExclusive
<1>1. SessionInv => TabIsExclusive
  BY DEF SessionInv, LockInv
<1> QED
  BY SessionHolds, <1>1, PTL

\* Only a kill aborts a request or leaves it without a record, and a blocked page
\* leaves the browser spotted.
THEOREM HonestRecords == Spec => []RecordIsHonest
<1>1. SessionInv => RecordIsHonest
  BY DEF SessionInv
<1> QED
  BY SessionHolds, <1>1, PTL

\* A page is loaded only by a task that enters its first stage, and never before its
\* cancellation is looked at.
LEMMA LoadsOnlyFrom ==
    ASSUME TypeOK, [Next]_vars, NEW g \in Get, at[g] # "load", at'[g] = "load"
    PROVE  /\ ~recovering /\ g \notin cancelled
           /\ at[g] \in {"scheduled", "queued", "resting"}
<1>1. TaskStep(g)
  <2>1. ASSUME NEW h \in Get, Admit(h) \/ StepEnds(h) PROVE FALSE
    BY <2>1 DEF Admit, StepEnds, Go, TypeOK
  <2>2. ASSUME NEW h \in Get, TaskStep(h) PROVE TaskStep(g)
    BY <2>2, TaskMoves
  <2> QED
    BY <2>1, <2>2
       DEF Next, CreateDisplay, FinishCreation, CreationFails, RecoveryEnds, Kill, Insist,
           KillStep, Close, StopDriver, StopProcess, Join, ThreadEnds, Closed, vars, task
<1>2. CASE Start(g) \/ Turn(g) \/ Rested(g)
  BY <1>2 DEF Start, Turn, Rested, Enter, Go, TypeOK
<1>3. CASE Resume(g) \/ TimeOut(g)
  BY <1>3, ResumeAdvances, TimeOutAdvances DEF Advances, Finish, Go, Stage, TypeOK
<1>4. CASE Abort(g) \/ Drop(g)
  BY <1>4 DEF Abort, Drop, Go, TypeOK
<1> QED
  BY <1>1, <1>2, <1>3, <1>4 DEF TaskStep

\* However long a request has been queued, it loads its page after the recovery
\* period of the one before.
THEOREM PagesRest == Spec => RestsBetweenPages
<1>1. TypeOK /\ [Next]_vars =>
        [\A g \in Get : at[g] # "load" /\ at'[g] = "load" => ~recovering]_vars
  BY LoadsOnlyFrom
<1> QED
  BY TypeCorrect, <1>1, PTL DEF Spec, RestsBetweenPages

\* A kill that has begun lets no request open its page, wherever the request was.
THEOREM NoPageAfterKill == Spec => KillStartsNoPage
<1>1. SessionInv /\ [Next]_vars =>
        [life # "live" => \A g \in Get : at'[g] = "load" => at[g] = "load"]_vars
  BY LoadsOnlyFrom DEF SessionInv, PendingInv
<1> QED
  BY SessionHolds, <1>1, PTL DEF Spec, KillStartsNoPage

-----------------------------------------------------------------------------
(***************************************************************************)
(* A Browser does what the registry assumes of it.                         *)
(***************************************************************************)
\* What the registry sees of a request, case by case.
LEMMA ViewCases ==
    ASSUME NEW g \in Get
    PROVE  RegistryView(g) =
              IF g \notin Active THEN "idle"
              ELSE IF at[g] = "scheduled" THEN IF life = "live" THEN "scheduled" ELSE "dropped"
              ELSE IF life # "live" THEN "aborting"
              ELSE IF at[g] = "queued" THEN "waiting" ELSE "browsing"
  BY DEF RegistryView

\* The same of the next state.
LEMMA NextViewCases ==
    ASSUME NEW g \in Get
    PROVE  RegistryView(g)' =
              IF g \notin Active' THEN "idle"
              ELSE IF at'[g] = "scheduled" THEN IF life' = "live" THEN "scheduled" ELSE "dropped"
              ELSE IF life' # "live" THEN "aborting"
              ELSE IF at'[g] = "queued" THEN "waiting" ELSE "browsing"
  BY DEF RegistryView

\* A browser that is not born yet is none that the registry has.
LEMMA InitImplements == Init => Registry!Init
<1> SUFFICES ASSUME Init PROVE Registry!Init
  OBVIOUS
<1>1. Active = {}
  BY DEF Init, Active
<1>2. \A g \in Get : RegistryView(g) = "idle"
  BY <1>1, ViewCases
<1> QED
  BY <1>1, <1>2 DEF Init, Registry!Init

\* What the registry does not see.
LEMMA RegistryStutters ==
    ASSUME Active' = Active, life' = life,
           \A g \in Get : RegistryView(g)' = RegistryView(g)
    PROVE  UNCHANGED Registry!vars
  BY DEF Registry!vars, Registry!registry, Registry!object, Registry!request, Registry!lock,
         Registry!batch

\* A browser is asked for, registered, or its creation fails.
LEMMA CreationImplements ==
    ASSUME SessionInv, CreateDisplay \/ FinishCreation \/ CreationFails
    PROVE  Registry!BrowserStep(TheBrowser)
<1>1. Active = {} /\ Active' = {}
  BY DEF SessionInv, IdleInv, CreateDisplay, FinishCreation, CreationFails, Active, task
<1>2. \A g \in Get : RegistryView(g) = "idle" /\ RegistryView(g)' = "idle"
  BY <1>1, ViewCases, NextViewCases
<1> USE DEF Registry!registry, Registry!request, Registry!lock, Registry!batch
<1>3. CASE CreateDisplay
  <2>1. Registry!Registered = {}
    BY <1>3 DEF Registry!Registered, CreateDisplay
  <2>2. ~(Registry!Cardinality(Registry!Registered) > 0)
    <3>1. Registry!Cardinality({}) = Cardinality({})
      BY DEF Registry!Cardinality, Cardinality
    <3> QED
      BY <2>1, <3>1, FS_EmptySet
  <2>3. Registry!NewInstance(TheBrowser)
    BY <1>1, <1>2, <1>3, <2>2 DEF CreateDisplay, Registry!NewInstance, Registry!Serving
  <2> QED
    BY <2>3 DEF Registry!BrowserStep
<1>4. CASE FinishCreation
  <2>1. Registry!Register(TheBrowser)
    BY <1>1, <1>2, <1>4 DEF FinishCreation, Registry!Register
  <2> QED
    BY <2>1 DEF Registry!BrowserStep
<1>5. CASE CreationFails
  <2>1. Registry!CreationFails(TheBrowser)
    BY <1>1, <1>2, <1>5 DEF CreationFails, Registry!CreationFails
  <2> QED
    BY <2>1 DEF Registry!BrowserStep
<1> QED
  BY <1>3, <1>4, <1>5

\* kill takes the browser and its tasks out of the dict.
LEMMA KillImplements ==
    ASSUME SessionInv, Kill
    PROVE  Registry!KillRequest(TheId)
<1>1. Active' = Active
  BY DEF Kill, Active
<1>2. \A g \in Get : RegistryView(g)' = IF g \in Active THEN Registry!Cancelled(RegistryView(g))
                                                         ELSE RegistryView(g)
  BY <1>1, ViewCases, NextViewCases DEF Kill, Registry!Cancelled
<1>3. Registry!Pop(TheId)
  BY <1>1, <1>2, SessionAssumption DEF Kill, Registry!Pop
<1> QED
  BY <1>3 DEF Registry!KillRequest, Registry!Serving, Registry!lock, Registry!batch

\* kill closes the browser after its tasks, and returns.
LEMMA CloseImplements ==
    ASSUME SessionInv, KillStep
    PROVE  Registry!BrowserStep(TheBrowser) \/ UNCHANGED Registry!vars
<1>1. Active' = Active
  BY DEF KillStep, Close, StopDriver, StopProcess, Join, ThreadEnds, Closed, Active, task
<1>2. (life \in {"stopping", "closing", "gone"} /\ life' # "live") \/ life' = life
  BY DEF KillStep, Close, StopDriver, StopProcess, Join, ThreadEnds, Closed, SessionInv, PartsInv
<1>3. \A g \in Get : RegistryView(g)' = RegistryView(g)
  BY <1>1, <1>2, ViewCases, NextViewCases
     DEF KillStep, Close, StopDriver, StopProcess, Join, ThreadEnds, Closed, task
<1> USE DEF Registry!registry, Registry!request, Registry!lock, Registry!batch
<1>4. CASE Close
  <2>1. Registry!Close(TheBrowser)
    BY <1>1, <1>3, <1>4 DEF Close, Registry!Close
  <2> QED
    BY <2>1 DEF Registry!BrowserStep
<1>5. CASE life = "closing" /\ life' = "gone"
  <2>1. Registry!Closed(TheBrowser)
    BY <1>1, <1>3, <1>5 DEF Registry!Closed
  <2> QED
    BY <2>1 DEF Registry!BrowserStep
<1>6. CASE life' = life
  BY <1>1, <1>3, <1>6, RegistryStutters
<1> QED
  BY <1>4, <1>5, <1>6
     DEF KillStep, StopDriver, StopProcess, Join, ThreadEnds, Closed, SessionInv, PartsInv

\* A request is admitted.
LEMMA AdmitImplements ==
    ASSUME SessionInv, NEW g \in Get, Admit(g)
    PROVE  Registry!Admit(g)
<1>1. at' = [at EXCEPT ![g] = "scheduled"] /\ life = "live" /\ life' = life /\ g \notin Active
  BY DEF Admit, Go, Active
<1>2. Active' = Active \cup {g}
  BY <1>1 DEF Active, SessionInv, TypeOK
<1>3. \A h \in Get : RegistryView(h)' = IF h = g THEN "scheduled" ELSE RegistryView(h)
  BY <1>1, <1>2, ViewCases, NextViewCases DEF SessionInv, TypeOK
<1>4. RegistryView(g) = "idle"
  BY <1>1, ViewCases
<1> QED
  BY <1>1, <1>2, <1>3, <1>4, SessionAssumption
     DEF Registry!Admit, Registry!Serving, Registry!Registered, Registry!Expired,
         Registry!object, Registry!lock, Registry!batch

\* A task ends with or without a record: its request is answered.
LEMMA EndImplements ==
    ASSUME SessionInv, NEW g \in Get, TaskStep(g), at'[g] = "done"
    PROVE  Registry!Answer(g)
<1>1. g \in Active /\ life' = life /\ \A h \in Get \ {g} : at'[h] = at[h]
  BY TaskMoves DEF SessionInv, Active
<1>2. Active' = Active \ {g}
  BY <1>1 DEF Active
<1>3. \A h \in Get : RegistryView(h)' = IF h = g THEN "idle" ELSE RegistryView(h)
  BY <1>1, <1>2, ViewCases, NextViewCases
<1>4. at[g] \in {"scheduled", "queued"} => life # "live"
  <2>1. ASSUME Start(g) \/ Turn(g) \/ Rested(g) PROVE FALSE
    BY <2>1 DEF Start, Turn, Rested, Enter, Go, SessionInv, TypeOK
  <2>2. CASE Resume(g) \/ TimeOut(g)
    BY <2>2 DEF Resume, TimeOut, Timed, Stage
  <2>3. CASE Abort(g) \/ Drop(g)
    BY <2>3 DEF Abort, Drop, SessionInv, CancelInv, Young
  <2> QED
    BY <2>1, <2>2, <2>3 DEF TaskStep
<1>5. RegistryView(g) \in {"browsing", "aborting", "dropped"}
  BY <1>1, <1>4, ViewCases
<1> QED
  BY <1>1, <1>2, <1>3, <1>5
     DEF Registry!Answer, Registry!lock, Registry!batch

\* A task takes the lock or queues for it, as the registry has it, or what it does is
\* inside the browser.
LEMMA GoesOnImplements ==
    ASSUME SessionInv, NEW g \in Get, TaskStep(g), at'[g] # "done"
    PROVE  Registry!GetStep(g) \/ UNCHANGED Registry!vars
<1>1. g \in Active /\ life' = life /\ \A h \in Get \ {g} : at'[h] = at[h]
  BY TaskMoves DEF SessionInv, Active
<1>2. Active' = Active
  BY <1>1, TaskMoves DEF Active, SessionInv
<1>3. \A h \in Get \ {g} : RegistryView(h)' = RegistryView(h)
  BY <1>1, <1>2, ViewCases, NextViewCases
<1>4. ASSUME Start(g) \/ Turn(g) PROVE life = "live"
  BY <1>4 DEF Start, Turn, SessionInv, PendingInv
<1> USE DEF Registry!registry, Registry!object, Registry!lock, Registry!batch
<1>5. CASE Start(g)
  <2>1. RegistryView(g) = "scheduled"
    BY <1>1, <1>4, <1>5, ViewCases DEF Start
  <2>2. CASE Acquire /\ Enter(g)
    <3>1. RegistryView(g)' = "browsing"
      BY <1>1, <1>2, <1>4, <1>5, <2>2, NextViewCases DEF Enter, Go, SessionInv, TypeOK
    <3>2. Registry!Others(g, {"waiting", "browsing"}) = {}
      BY <2>2, ViewCases
         DEF Registry!Others, Acquire, LockFree, SessionInv, LockInv, QueueInv, Holds, Active, TypeOK
    <3>3. Registry!Start(g)
      BY <1>1, <1>2, <1>3, <2>1, <3>1, <3>2 DEF Registry!Start
    <3> QED
      BY <3>3 DEF Registry!GetStep
  <2>3. CASE Enqueue(g) /\ Go(g, "queued")
    <3>1. RegistryView(g)' = "waiting"
      BY <1>1, <1>2, <1>4, <1>5, <2>3, NextViewCases DEF Go, SessionInv, TypeOK
    <3>2. PICK h \in Get \ {g} : at[h] = "queued" \/ Holds(h)
      <4>1. CASE locked
        BY <1>5, <4>1 DEF Start, SessionInv, LockInv, Holds, Stage
      <4>2. CASE waiters # <<>>
        <5>1. 1 \in 1 .. Len(waiters) /\ waiters[1] \in Get
          BY <4>2 DEF SessionInv, TypeOK
        <5> QED
          BY <1>5, <5>1 DEF Start, SessionInv, QueueInv
      <4> QED
        BY <2>3, <4>1, <4>2 DEF Enqueue, LockFree
    <3>3. h \in Registry!Others(g, {"waiting", "browsing"})
      BY <1>1, <1>4, <1>5, <3>2, ViewCases DEF Registry!Others, Holds, Active, Stage
    <3>4. Registry!Start(g)
      BY <1>1, <1>2, <1>3, <2>1, <3>1, <3>3 DEF Registry!Start
    <3> QED
      BY <3>4 DEF Registry!GetStep
  <2> QED
    BY <1>5, <2>2, <2>3 DEF Start
<1>6. CASE Turn(g)
  <2>1. RegistryView(g) = "waiting"
    BY <1>1, <1>4, <1>6, ViewCases DEF Turn
  <2>2. RegistryView(g)' = "browsing"
    BY <1>1, <1>2, <1>4, <1>6, NextViewCases DEF Turn, Enter, Go, SessionInv, TypeOK
  <2>3. Registry!Others(g, {"browsing"}) = {}
    BY <1>6, ViewCases
       DEF Turn, Woken, Scheduled, Registry!Others, SessionInv, LockInv, Holds, Active, TypeOK
  <2>4. Registry!Browse(g)
    BY <1>1, <1>2, <1>3, <2>1, <2>2, <2>3 DEF Registry!Browse
  <2> QED
    BY <2>4 DEF Registry!GetStep
<1>7. CASE Rested(g) \/ Resume(g) \/ TimeOut(g)
  <2>1. at[g] \notin {"scheduled", "queued"} /\ at'[g] \notin {"scheduled", "queued"}
    <3>1. CASE Rested(g)
      BY <3>1 DEF Rested, Go, SessionInv, TypeOK
    <3>2. CASE Resume(g) \/ TimeOut(g)
      BY <3>2, ResumeAdvances, TimeOutAdvances
         DEF Resume, TimeOut, Timed, Stage, Advances, Finish, Go, SessionInv, TypeOK
    <3> QED
      BY <1>7, <3>1, <3>2
  <2>2. RegistryView(g)' = RegistryView(g)
    BY <1>1, <1>2, <2>1, ViewCases, NextViewCases
  <2> QED
    BY <1>1, <1>2, <1>3, <2>2, RegistryStutters
<1>8. ASSUME Abort(g) \/ Drop(g) PROVE FALSE
  BY <1>8 DEF Abort, Drop, Go, SessionInv, TypeOK
<1> QED
  BY <1>5, <1>6, <1>7, <1>8 DEF TaskStep

\* Each step of a browser is a step of the registry, or is not seen there.
LEMMA StepImplements ==
    ASSUME SessionInv, [Next]_vars
    PROVE  [Registry!Next]_(Registry!vars)
<1>1. CASE CreateDisplay \/ FinishCreation \/ CreationFails
  BY <1>1, CreationImplements DEF Registry!Next
<1>2. ASSUME NEW g \in Get, Admit(g)
      PROVE  Registry!Next
  BY <1>2, AdmitImplements DEF Registry!Next, Registry!GetStep
<1>3. ASSUME NEW g \in Get, TaskStep(g)
      PROVE  Registry!Next \/ UNCHANGED Registry!vars
  BY <1>3, EndImplements, GoesOnImplements DEF Registry!Next, Registry!GetStep
<1>4. CASE Kill
  BY <1>4, KillImplements DEF Registry!Next
<1>5. CASE KillStep
  BY <1>5, CloseImplements DEF Registry!Next
<1>6. CASE UNCHANGED <<life, at>>
  <2>1. Active' = Active
    BY <1>6 DEF Active
  <2>2. \A g \in Get : RegistryView(g)' = RegistryView(g)
    BY <1>6, <2>1, ViewCases, NextViewCases
  <2> QED
    BY <1>6, <2>1, <2>2, RegistryStutters
<1> QED
  BY <1>1, <1>2, <1>3, <1>4, <1>5, <1>6 DEF Next, StepEnds, RecoveryEnds, Insist, vars, task

\* A Browser implements the registry of Scraper for its own id: no matter which
\* time-outs strike and which cancellations are swallowed, its requests wait, browse
\* and are answered, and it is closed, as Scraper has it.
THEOREM Implements == Spec => ImplementsRegistry
<1>1. SessionInv /\ [Next]_vars => [Registry!Next]_(Registry!vars)
  BY StepImplements
<1> QED
  BY SessionHolds, InitImplements, <1>1, PTL DEF Spec, ImplementsRegistry, Registry!Spec
=============================================================================
