---------------------------- MODULE BrokerProofs ----------------------------
(***************************************************************************)
(* Theorems about Broker, for every set of targets, pollers and /clear     *)
(* handlers, every number of retries and every choice of faults.           *)
(***************************************************************************)
EXTENDS Broker, TLAPS

-----------------------------------------------------------------------------
(***************************************************************************)
(* Facts about the operators the actions are built from.                   *)
(***************************************************************************)

\* The stages a /clear goes to next are stages inside the lock.
LEMMA Stages ==
    ASSUME NEW f
    PROVE  /\ FirstStage(f) \in {"cancel", "kill", "retire", "reply"}
           /\ AfterCancel(f) \in {"kill", "retire", "reply"}
           /\ AfterKill(f) \in {"retire", "reply"}
BY DEF FirstStage, AfterCancel, AfterKill

\* Inserting records leaves counts that are natural numbers.
LEMMA InsertedType ==
    ASSUME TableType, NEW rec, Inserted(rec)
    PROVE  successes' \in [Target -> Nat] /\ failures' \in [Target -> Nat]
BY DEF Inserted, TableType

\* Disabling a set of targets turns enabled rows of the set into disabled ones.
LEMMA DisabledRows ==
    ASSUME TableType, NEW T
    PROVE  /\ Disabled(T) \in [Target -> RowState]
           /\ \A t \in Target : Disabled(T)[t] = "absent" <=> row[t] = "absent"
           /\ \A t \in Target : Disabled(T)[t] = "enabled" <=> row[t] = "enabled" /\ t \notin T
BY DEF Disabled, RowState, TableType

-----------------------------------------------------------------------------
(***************************************************************************)
(* Type correctness, one lemma for each part of TypeOK.                    *)
(***************************************************************************)
LEMMA InitType == Init => TypeOK
<1> SUFFICES ASSUME Init PROVE TypeOK
  OBVIOUS
<1>1. TableType
  BY DEF Init, Tables, TableType, RowState
<1>2. MemoryType
  BY DEF Init, MemoryType, TaskState, RecordState
<1>3. LoopType
  <2>1. waiters \in Seq(ClearReq \cup {"update"})
    BY DEF Init
  <2> QED
    BY <2>1 DEF Init, LoopType, LoopState
<1>4. ApiType
  BY DEF Init, ApiType, ClearState, CollectState
<1> QED
  BY <1>1, <1>2, <1>3, <1>4 DEF TypeOK

\* No step makes durable anything but the tables as they are then.
LEMMA DiskMoves ==
    ASSUME [Next]_vars
    PROVE  UNCHANGED disk \/ Commits
<1>1. CASE LoopStep \/ LoopFault
  BY <1>1
     DEF LoopStep, LoopFault, StartUpdate, WakeUpdate, FinishUpdate, LoopDies, Discover,
         RetrieveTasks, InsertRecords, CommitRecords, InsertFails, GetTarget, Launch, NoBrowser,
         CycleAborts, DisableSuccessfulTargets, DisableUnsuccessfulTargets, database
<1>2. ASSUME NEW c \in ClearReq,
             ClearStep(c) \/ ClearFault(c) \/ \E f \in Asked : ClearRequest(c, f)
      PROVE  UNCHANGED disk \/ Commits
  BY <1>2
     DEF ClearStep, ClearFault, ClearRequest, ClearWake, CancelTasks, StoreCancelled,
         CommitCancelled, StoreCancelledFails, KillBrowsers, RetireTargets,
         ClearStatementFails, ClearReply, database
<1>3. ASSUME NEW t \in Polled, CollectStep(t)
      PROVE  UNCHANGED disk
  BY <1>3 DEF CollectStep, CollectKnown, CollectRunning, CollectJob, database
<1>4. CASE \/ \E S \in SUBSET Target : Scrape(S)
           \/ \E t \in Target : \E o \in Outcome : Finish(t, o)
           \/ Commit \/ Restart \/ UNCHANGED vars
  BY <1>4 DEF Scrape, Finish, Commit, Restart, vars, database
<1> QED
  BY <1>1, <1>2, <1>3, <1>4 DEF Next

\* The tables keep their types.
LEMMA TableTypeStep == TypeOK /\ [Next]_vars => TableType'
<1> SUFFICES ASSUME TypeOK, [Next]_vars PROVE TableType'
  OBVIOUS
<1> USE DEF TypeOK
<1> DEFINE Rows == /\ row' \in [Target -> RowState]
                   /\ successes' \in [Target -> Nat] /\ failures' \in [Target -> Nat]
                   /\ attempts' \in [Target -> Nat]
<1>1. ASSUME \E S \in SUBSET Target : Scrape(S) PROVE Rows
  BY <1>1 DEF Scrape, TableType, RowState
<1>2. ASSUME InsertRecords \/ InsertFails PROVE Rows
  BY <1>2, InsertedType DEF InsertRecords, InsertFails, InsertedInPart, TableType
<1>3. ASSUME DisableSuccessfulTargets \/ DisableUnsuccessfulTargets \/ CycleAborts PROVE Rows
  BY <1>3, DisabledRows
     DEF DisableSuccessfulTargets, DisableUnsuccessfulTargets, CycleAborts, TableType
<1>4. ASSUME Launch PROVE Rows
  BY <1>4 DEF Launch, TableType, table, database
<1>5. ASSUME NEW c \in ClearReq, StoreCancelled(c) \/ StoreCancelledFails(c)
      PROVE  Rows
  BY <1>5, InsertedType DEF StoreCancelled, StoreCancelledFails, InsertedInPart, TableType
<1>6. ASSUME NEW c \in ClearReq, RetireTargets(c) \/ ClearStatementFails(c)
      PROVE  Rows
  BY <1>6, DisabledRows DEF RetireTargets, ClearStatementFails, TableType
<1>7. ASSUME Restart PROVE Rows
  <2>1. /\ disk.row \in [Target -> RowState]
        /\ disk.successes \in [Target -> Nat] /\ disk.failures \in [Target -> Nat]
    BY DEF TableType
  <2>2. /\ row' \in [Target -> RowState]
        /\ successes' \in [Target -> Nat] /\ failures' \in [Target -> Nat]
    BY <1>7, <2>1 DEF Restart, InitializeDatabase, RowState
  <2> QED
    BY <1>7, <2>2 DEF Restart
<1>8. ASSUME UNCHANGED <<table, attempts>> PROVE Rows
  BY <1>8 DEF TableType, table
<1>9. Rows
  BY <1>1, <1>2, <1>3, <1>4, <1>5, <1>6, <1>7, <1>8
     DEF Next, LoopStep, LoopFault, ClearStep, ClearFault, CollectStep, vars, database,
         StartUpdate, WakeUpdate, Discover, RetrieveTasks, CommitRecords, GetTarget,
         NoBrowser, FinishUpdate, LoopDies, Finish, ClearRequest, ClearWake, CommitCancelled,
         CancelTasks, KillBrowsers, ClearReply, CollectKnown, CollectRunning, CollectJob, Commit
<1>10. disk' \in [row : [Target -> RowState], successes : [Target -> Nat],
                  failures : [Target -> Nat]]
  BY <1>9, DiskMoves DEF Commits, Tables, TableType
<1> QED
  BY <1>9, <1>10 DEF TableType

\* The records in memory keep their types.
LEMMA MemoryTypeStep == TypeOK /\ [Next]_vars => MemoryType'
<1> SUFFICES ASSUME TypeOK, [Next]_vars PROVE MemoryType'
  OBVIOUS
<1> USE DEF TypeOK, TaskState, RecordState
<1>1. CASE RetrieveTasks
  BY <1>1 DEF RetrieveTasks, MemoryType, Done, Raised
<1>2. CASE InsertRecords \/ InsertFails
  BY <1>2 DEF InsertRecords, InsertFails, MemoryType
<1>3. CASE GetTarget \/ NoBrowser \/ CycleAborts
  <2>1. picked' \in SUBSET Target
    BY <1>3 DEF GetTarget, Selectable, NoBrowser, CycleAborts, MemoryType
  <2>2. UNCHANGED <<task, completed>>
    BY <1>3 DEF GetTarget, NoBrowser, CycleAborts
  <2> QED
    BY <2>1, <2>2 DEF MemoryType
<1>4. CASE Launch
  BY <1>4 DEF Launch, MemoryType
<1>5. ASSUME NEW t \in Target, NEW o \in Outcome, Finish(t, o)
      PROVE  MemoryType'
  BY <1>5 DEF Finish, Outcome, MemoryType
<1>6. ASSUME NEW c \in ClearReq, CancelTasks(c) \/ ClearStatementFails(c)
      PROVE  MemoryType'
  BY <1>6 DEF CancelTasks, ClearStatementFails, Cancelled, MemoryType
<1>7. ASSUME NEW c \in ClearReq, StoreCancelled(c)
      PROVE  MemoryType'
  BY <1>7 DEF StoreCancelled, MemoryType
<1>8. CASE Restart
  BY <1>8 DEF Restart, InitializeDatabase, MemoryType
<1>9. CASE UNCHANGED memory
  BY <1>9 DEF MemoryType, memory
<1> QED
  BY <1>1, <1>2, <1>3, <1>4, <1>5, <1>6, <1>7, <1>8, <1>9
     DEF Next, LoopStep, LoopFault, ClearStep, ClearFault, CollectStep, vars, Scrape,
         StartUpdate, WakeUpdate, Discover, DisableSuccessfulTargets,
         DisableUnsuccessfulTargets, FinishUpdate, LoopDies, ClearRequest, ClearWake,
         CommitRecords, CommitCancelled, StoreCancelledFails, KillBrowsers, RetireTargets,
         ClearReply, CollectKnown, CollectRunning, CollectJob, Commit

\* What an operation on the lock leaves of the lock and of its queue.
LEMMA LockType ==
    ASSUME LoopType, NEW who \in ClearReq \cup {"update"},
           Acquire \/ Enqueue(who) \/ Woken(who) \/ Release \/ UNCHANGED hibernate
    PROVE  locked' \in BOOLEAN /\ waiters' \in Seq(ClearReq \cup {"update"})
<1> DEFINE W == ClearReq \cup {"update"}
<1>1. CASE Enqueue(who)
  BY <1>1 DEF Enqueue, LoopType
<1>2. CASE Woken(who)
  BY <1>2 DEF Woken, Scheduled, LoopType
<1>3. CASE Acquire \/ Release \/ UNCHANGED hibernate
  BY <1>3 DEF Acquire, Release, hibernate, LoopType
<1> QED
  BY <1>1, <1>2, <1>3

\* The state of the update loop keeps its type.
LEMMA LoopTypeStep == TypeOK /\ [Next]_vars => LoopType'
<1> SUFFICES ASSUME TypeOK, [Next]_vars PROVE LoopType'
  OBVIOUS
<1> USE DEF TypeOK
<1>1. ASSUME LoopStep \/ LoopFault PROVE LoopType'
  <2>1. locked' \in BOOLEAN /\ waiters' \in Seq(ClearReq \cup {"update"})
    BY <1>1, LockType
       DEF LoopStep, LoopFault, StartUpdate, WakeUpdate, FinishUpdate, LoopDies, Discover,
           RetrieveTasks, InsertRecords, CommitRecords, InsertFails, GetTarget, Launch,
           DisableSuccessfulTargets, DisableUnsuccessfulTargets, NoBrowser, CycleAborts
  <2>2. loop' \in LoopState
    BY <1>1
       DEF LoopStep, LoopFault, StartUpdate, WakeUpdate, FinishUpdate, LoopDies, Discover,
           RetrieveTasks, InsertRecords, CommitRecords, InsertFails, GetTarget, Launch,
           DisableSuccessfulTargets, DisableUnsuccessfulTargets, NoBrowser, CycleAborts,
           LoopState, LoopInside
  <2> QED
    BY <2>1, <2>2 DEF LoopType
<1>2. ASSUME NEW c \in ClearReq,
             ClearStep(c) \/ ClearFault(c) \/ \E f \in Asked : ClearRequest(c, f)
      PROVE  LoopType'
  <2>1. locked' \in BOOLEAN /\ waiters' \in Seq(ClearReq \cup {"update"})
    BY <1>2, LockType
       DEF ClearStep, ClearFault, ClearRequest, ClearWake, CancelTasks, StoreCancelled,
           CommitCancelled, StoreCancelledFails, KillBrowsers, RetireTargets,
           ClearStatementFails, ClearReply, ClearEnds
  <2> QED
    BY <1>2, <2>1
       DEF ClearStep, ClearFault, ClearRequest, ClearWake, CancelTasks, StoreCancelled,
           CommitCancelled, StoreCancelledFails, KillBrowsers, RetireTargets,
           ClearStatementFails, ClearReply, LoopType
<1>3. CASE Restart
  <2>1. waiters' \in Seq(ClearReq \cup {"update"})
    BY <1>3 DEF Restart, InitializeDatabase
  <2> QED
    BY <1>3, <2>1 DEF Restart, InitializeDatabase, LoopType, LoopState
<1>4. CASE UNCHANGED <<loop, hibernate>>
  BY <1>4 DEF LoopType, hibernate
<1> QED
  BY <1>1, <1>2, <1>3, <1>4
     DEF Next, CollectStep, vars, Scrape, Finish, CollectKnown, CollectRunning, CollectJob,
         Commit

\* The state of the requests under way keeps its type.
LEMMA ApiTypeStep == TypeOK /\ [Next]_vars => ApiType'
<1> SUFFICES ASSUME TypeOK, [Next]_vars PROVE ApiType'
  OBVIOUS
<1> USE DEF TypeOK
<1>1. ASSUME NEW c \in ClearReq, NEW f \in Asked, ClearRequest(c, f)
      PROVE  ApiType'
  BY <1>1, Stages, BrokerAssumption
     DEF ClearRequest, ApiType, ClearState, ClearInside, poll
<1>2. ASSUME NEW c \in ClearReq, ClearStep(c) \/ ClearFault(c)
      PROVE  ApiType'
  <2>1. UNCHANGED poll
    BY <1>2 DEF ClearStep, ClearFault, ClearWake, CancelTasks, StoreCancelled, CommitCancelled,
           StoreCancelledFails, KillBrowsers, RetireTargets, ClearStatementFails, ClearReply
  <2>2. clear' \in [ClearReq -> ClearState] /\ flags' \in [ClearReq -> SUBSET Flag]
    BY <1>2, Stages
       DEF ClearStep, ClearFault, ClearWake, CancelTasks, StoreCancelled, CommitCancelled,
           StoreCancelledFails, KillBrowsers, RetireTargets, ClearStatementFails,
           ClearReply, ClearEnds, ApiType, ClearState, ClearInside
  <2> QED
    BY <2>1, <2>2 DEF ApiType, poll
<1>3. ASSUME NEW t \in Polled, CollectStep(t)
      PROVE  ApiType'
  BY <1>3
     DEF CollectStep, CollectKnown, CollectRunning, CollectJob, CollectFails, Answer,
         Advance, ApiType, CollectState, api
<1>4. CASE Restart
  BY <1>4 DEF Restart, InitializeDatabase, ApiType, ClearState, CollectState
<1>5. CASE UNCHANGED <<api, poll>>
  BY <1>5 DEF ApiType, api, poll
<1> QED
  BY <1>1, <1>2, <1>3, <1>4, <1>5
     DEF Next, LoopStep, LoopFault, vars, Scrape, Finish, StartUpdate, WakeUpdate,
         FinishUpdate, LoopDies, Discover, RetrieveTasks, InsertRecords, CommitRecords,
         InsertFails, GetTarget, Launch, DisableSuccessfulTargets,
         DisableUnsuccessfulTargets, NoBrowser, CycleAborts, Commit

\* Every variable keeps its type, under every fault.
THEOREM TypeCorrect == Spec => []TypeOK
<1>1. TypeOK /\ [Next]_vars => TypeOK'
  BY TableTypeStep, MemoryTypeStep, LoopTypeStep, ApiTypeStep DEF TypeOK
<1> QED
  BY InitType, <1>1, PTL DEF Spec

-----------------------------------------------------------------------------
(***************************************************************************)
(* The control invariant: it needs no assumption on the faults.            *)
(***************************************************************************)
LEMMA LockStep == TypeOK /\ LockInv /\ [Next]_vars => LockInv'
<1> SUFFICES ASSUME TypeOK, LockInv, [Next]_vars PROVE LockInv'
  OBVIOUS
<1> USE DEF LockInv, HibernateIsExclusive
<1>1. CASE LoopStep \/ LoopFault
  <2>1. UNCHANGED clear
    BY <1>1
       DEF LoopStep, LoopFault, StartUpdate, WakeUpdate, FinishUpdate, LoopDies, Discover,
           RetrieveTasks, InsertRecords, CommitRecords, InsertFails, GetTarget, Launch,
           DisableSuccessfulTargets, DisableUnsuccessfulTargets, NoBrowser, CycleAborts, api
  <2>2. CASE StartUpdate \/ WakeUpdate
    BY <2>1, <2>2
       DEF StartUpdate, WakeUpdate, Acquire, Enqueue, Woken, Scheduled, LockFree, LoopInside
  <2>3. CASE FinishUpdate \/ LoopDies
    BY <2>1, <2>3 DEF FinishUpdate, LoopDies, Release, LoopInside, hibernate
  <2>4. ASSUME UNCHANGED hibernate, loop \in LoopInside, loop' \in LoopInside
        PROVE  LockInv'
    BY <2>1, <2>4 DEF hibernate
  <2> QED
    BY <1>1, <2>2, <2>3, <2>4
       DEF LoopStep, LoopFault, Discover, RetrieveTasks, InsertRecords, CommitRecords,
           InsertFails, GetTarget, Launch, DisableSuccessfulTargets,
           DisableUnsuccessfulTargets, NoBrowser, CycleAborts, LoopInside
<1>2. ASSUME NEW c \in ClearReq, NEW f \in Asked, ClearRequest(c, f)
      PROVE  LockInv'
  BY <1>2, Stages
     DEF ClearRequest, Acquire, Enqueue, LockFree, ClearInside, TypeOK, ApiType
<1>3. ASSUME NEW c \in ClearReq, ClearStep(c) \/ ClearFault(c)
      PROVE  LockInv'
  <2>1. UNCHANGED loop
    BY <1>3 DEF ClearStep, ClearFault, ClearWake, CancelTasks, StoreCancelled, CommitCancelled,
           StoreCancelledFails, KillBrowsers, RetireTargets, ClearStatementFails, ClearReply
  <2>2. CASE ClearWake(c)
    BY <2>2, Stages DEF ClearWake, Woken, Scheduled, ClearInside, TypeOK, ApiType
  <2>3. ASSUME ClearEnds(c), clear[c] \in ClearInside
        PROVE  LockInv'
    BY <2>1, <2>3 DEF ClearEnds, Release, ClearInside, TypeOK, ApiType
  <2>4. ASSUME NEW s \in ClearInside, clear[c] \in ClearInside, UNCHANGED hibernate,
               clear' = [clear EXCEPT ![c] = s]
        PROVE  LockInv'
    BY <2>1, <2>4 DEF hibernate, TypeOK, ApiType
  <2> QED
    BY <1>3, <2>2, <2>3, <2>4, Stages
       DEF ClearStep, ClearFault, CancelTasks, StoreCancelled, CommitCancelled,
           StoreCancelledFails, KillBrowsers, RetireTargets, ClearStatementFails,
           ClearReply, ClearInside
<1>4. CASE Restart
  BY <1>4 DEF Restart, InitializeDatabase, ClearInside, LoopInside
<1>5. CASE UNCHANGED <<loop, hibernate, clear>>
  BY <1>5 DEF hibernate
<1> QED
  BY <1>1, <1>2, <1>3, <1>4, <1>5
     DEF Next, CollectStep, vars, api, Scrape, Finish, CollectKnown, CollectRunning,
         CollectJob, Commit

\* Every step keeps StoreInv: records wait for an insert only where one is due.
LEMMA StoreStep == ControlInv /\ [Next]_vars => StoreInv'
<1> SUFFICES ASSUME ControlInv, [Next]_vars PROVE StoreInv'
  OBVIOUS
<1> USE DEF ControlInv, StoreInv
<1>1. CASE RetrieveTasks
  <2>1. \A c \in ClearReq : clear[c] \notin ClearInside
    BY <1>1 DEF RetrieveTasks, LockInv, HibernateIsExclusive, LoopInside
  <2> QED
    BY <1>1, <2>1
       DEF RetrieveTasks, Done, Raised, TypeOK, MemoryType, TaskState, api, ClearInside
<1>2. CASE InsertRecords \/ InsertFails
  BY <1>2 DEF InsertRecords, InsertFails, api
<1>3. CASE Launch
  BY <1>3
     DEF Launch, TypeOK, MemoryType, LockInv, HibernateIsExclusive, LoopInside, ClearInside,
         api
<1>4. ASSUME NEW t \in Target, NEW o \in Outcome, Finish(t, o)
      PROVE  StoreInv'
  BY <1>4 DEF Finish, TypeOK, MemoryType, api
<1>5. ASSUME NEW c \in ClearReq, CancelTasks(c) \/ ClearStatementFails(c)
      PROVE  StoreInv'
  <2>1. \A d \in ClearReq : clear'[d] # "commit" /\ (clear'[d] = "store" => c = d)
    BY <1>5, Stages
       DEF CancelTasks, ClearStatementFails, ClearEnds, LockInv, HibernateIsExclusive,
           ClearInside, TypeOK, ApiType
  <2>2. loop \notin LoopInside /\ UNCHANGED completed
    BY <1>5 DEF CancelTasks, ClearStatementFails, LockInv, HibernateIsExclusive, ClearInside
  <2>3. \A t \in Target : completed[t] = "none"
    BY <2>2 DEF LoopInside
  <2>4. clear'[c] = "store" => \A t \in Target : task'[t] \in {"none", "success", "failure"}
    BY <1>5, Stages
       DEF CancelTasks, ClearStatementFails, ClearEnds, Cancelled, Raised, TypeOK, ApiType,
           MemoryType, TaskState
  <2> QED
    BY <2>1, <2>2, <2>3, <2>4
<1>6. ASSUME NEW c \in ClearReq, StoreCancelled(c)
      PROVE  StoreInv'
  BY <1>6 DEF StoreCancelled, TypeOK, ApiType, MemoryType
<1>7. ASSUME UNCHANGED <<task, completed, loop>>,
             \A c \in ClearReq : clear'[c] \in {"store", "commit"} => clear'[c] = clear[c]
      PROVE  StoreInv'
  BY <1>7
<1>8. CASE Restart
  BY <1>8 DEF Restart, InitializeDatabase
<1>9. ASSUME UNCHANGED <<task, completed, clear>>, loop # "store"
      PROVE  StoreInv'
  BY <1>9
<1>10. CASE LoopStep \/ LoopFault
  BY <1>1, <1>2, <1>3, <1>9, <1>10
     DEF LoopStep, LoopFault, StartUpdate, WakeUpdate, FinishUpdate, LoopDies, Discover,
         CommitRecords, GetTarget, DisableSuccessfulTargets, DisableUnsuccessfulTargets,
         NoBrowser, CycleAborts, api, memory
<1>11. ASSUME NEW c \in ClearReq, NEW f \in Asked, ClearRequest(c, f)
       PROVE  StoreInv'
  <2>1. \A d \in ClearReq : clear'[d] \in {"store", "commit"} => clear'[d] = clear[d]
    BY <1>11, Stages DEF ClearRequest, TypeOK, ApiType
  <2> QED
    BY <1>7, <1>11, <2>1 DEF ClearRequest, memory
<1>12. ASSUME NEW c \in ClearReq, ClearStep(c) \/ ClearFault(c)
       PROVE  StoreInv'
  <2>1. CASE ClearWake(c) \/ KillBrowsers(c) \/ RetireTargets(c) \/ ClearReply(c)
             \/ CommitCancelled(c) \/ StoreCancelledFails(c)
    <3>1. \A d \in ClearReq : clear'[d] \in {"store", "commit"} => clear'[d] = clear[d]
      BY <2>1, Stages DEF ClearWake, KillBrowsers, RetireTargets, ClearReply, ClearEnds,
                          CommitCancelled, StoreCancelledFails, TypeOK, ApiType
    <3> QED
      BY <1>7, <2>1, <3>1 DEF ClearWake, KillBrowsers, RetireTargets, ClearReply,
                              CommitCancelled, StoreCancelledFails, memory
  <2> QED
    BY <1>5, <1>6, <1>12, <2>1 DEF ClearStep, ClearFault
<1>13. CASE UNCHANGED <<task, completed, loop, clear>>
  BY <1>13
<1> QED
  BY <1>4, <1>8, <1>10, <1>11, <1>12, <1>13
     DEF Next, CollectStep, vars, api, memory, Scrape, CollectKnown, CollectRunning,
         CollectJob, Commit

\* Every step keeps UnknownInv: an unknown target has no jobs and no task.
LEMMA UnknownStep == ControlInv /\ [Next]_vars => UnknownInv'
<1> SUFFICES ASSUME ControlInv, [Next]_vars PROVE UnknownInv'
  OBVIOUS
<1> USE DEF ControlInv, UnknownInv, Unrecorded, TypeOK
<1>1. ASSUME NEW S \in SUBSET Target, Scrape(S)
      PROVE  UnknownInv'
  BY <1>1 DEF Scrape, memory
<1>2. CASE RetrieveTasks
  BY <1>2 DEF RetrieveTasks, Done, table, database
<1>3. CASE InsertRecords \/ InsertFails
  BY <1>3 DEF InsertRecords, InsertFails, InsertedInPart, Inserted, TableType
<1>4. CASE DisableSuccessfulTargets \/ DisableUnsuccessfulTargets \/ CycleAborts
  <2>1. \A t \in Target : row'[t] = "absent" <=> row[t] = "absent"
    BY <1>4, DisabledRows DEF DisableSuccessfulTargets, DisableUnsuccessfulTargets, CycleAborts
  <2> QED
    BY <1>4, <2>1
       DEF DisableSuccessfulTargets, DisableUnsuccessfulTargets, CycleAborts, memory
<1>5. CASE Launch
  BY <1>5 DEF Launch, PickInv, table, database
<1>6. ASSUME NEW t \in Target, NEW o \in Outcome, Finish(t, o)
      PROVE  UnknownInv'
  BY <1>6 DEF Finish, MemoryType, table, database
<1>7. ASSUME NEW c \in ClearReq, CancelTasks(c)
      PROVE  UnknownInv'
  BY <1>7 DEF CancelTasks, Cancelled, table, database
<1>8. ASSUME NEW c \in ClearReq, StoreCancelled(c) \/ StoreCancelledFails(c)
      PROVE  UnknownInv'
  BY <1>8 DEF StoreCancelled, StoreCancelledFails, InsertedInPart, Inserted, TableType, memory
<1>9. ASSUME NEW c \in ClearReq, RetireTargets(c) \/ ClearStatementFails(c)
      PROVE  UnknownInv'
  <2>1. \A t \in Target : row'[t] = "absent" <=> row[t] = "absent"
    BY <1>9, DisabledRows DEF RetireTargets, ClearStatementFails
  <2> QED
    BY <1>9, <2>1 DEF RetireTargets, ClearStatementFails, Cancelled, memory
<1>10. CASE Restart
  BY <1>10 DEF Restart, InitializeDatabase, DiskInv
<1>11. CASE UNCHANGED <<table, task, completed>>
  BY <1>11 DEF table
<1> QED
  BY <1>1, <1>2, <1>3, <1>4, <1>5, <1>6, <1>7, <1>8, <1>9, <1>10, <1>11
     DEF Next, LoopStep, LoopFault, ClearStep, ClearFault, CollectStep, vars, memory,
         StartUpdate, WakeUpdate, Discover, CommitRecords, GetTarget, NoBrowser, FinishUpdate,
         LoopDies, ClearRequest, ClearWake, CommitCancelled, KillBrowsers, ClearReply,
         CollectKnown, CollectRunning, CollectJob, Commit, database

\* Every step keeps EligibleInv: the disable statements stay in force.
LEMMA EligibleStep == ControlInv /\ [Next]_vars => EligibleInv'
<1> SUFFICES ASSUME ControlInv, [Next]_vars PROVE EligibleInv'
  OBVIOUS
<1> USE DEF ControlInv, EligibleInv, TypeOK
<1>1. ASSUME NEW S \in SUBSET Target, Scrape(S)
      PROVE  EligibleInv'
  BY <1>1, BrokerAssumption DEF Scrape, UnknownInv
<1>2. CASE DisableSuccessfulTargets
  <2>1. \A t \in Target : row'[t] = "enabled" => successes[t] = 0
    BY <1>2, DisabledRows DEF DisableSuccessfulTargets, TableType
  <2> QED
    BY <1>2, <2>1 DEF DisableSuccessfulTargets
<1>3. CASE DisableUnsuccessfulTargets
  <2>1. \A t \in Target : row'[t] = "enabled" => row[t] = "enabled" /\ failures[t] < Retries
    BY <1>3, DisabledRows, BrokerAssumption DEF DisableUnsuccessfulTargets, TableType
  <2> QED
    BY <1>3, <2>1 DEF DisableUnsuccessfulTargets
<1>4. CASE GetTarget
  BY <1>4 DEF GetTarget, table, database
<1>5. ASSUME loop' \notin {"disable_failure", "select", "assign"}
      PROVE  EligibleInv'
  BY <1>5
<1>6. CASE LoopStep \/ LoopFault
  BY <1>2, <1>3, <1>4, <1>5, <1>6
     DEF LoopStep, LoopFault, StartUpdate, WakeUpdate, FinishUpdate, LoopDies, Discover,
         RetrieveTasks, InsertRecords, CommitRecords, InsertFails, Launch, NoBrowser,
         CycleAborts
<1>7. ASSUME NEW c \in ClearReq, ClearStep(c) \/ ClearFault(c)
      PROVE  EligibleInv'
  <2>1. CASE ClearWake(c)
    BY <2>1 DEF ClearWake, table, database
  <2>2. CASE clear[c] \in ClearInside
    BY <1>5, <1>7, <2>2
       DEF ClearStep, ClearFault, ClearWake, CancelTasks, StoreCancelled, CommitCancelled,
           StoreCancelledFails, KillBrowsers, RetireTargets, ClearStatementFails,
           ClearReply, LockInv, HibernateIsExclusive, LoopInside
  <2> QED
    BY <1>7, <2>1, <2>2
       DEF ClearStep, ClearFault, CancelTasks, StoreCancelled, CommitCancelled,
           StoreCancelledFails, KillBrowsers, RetireTargets, ClearStatementFails,
           ClearReply, ClearInside
<1>8. CASE Restart
  BY <1>5, <1>8 DEF Restart, InitializeDatabase
<1>9. CASE UNCHANGED <<table, loop>>
  BY <1>9 DEF table
<1> QED
  BY <1>1, <1>6, <1>7, <1>8, <1>9
     DEF Next, CollectStep, vars, database, Finish, ClearRequest, CollectKnown,
         CollectRunning, CollectJob, Commit

\* Every step keeps PickInv: the target selected stays one to start.
LEMMA PickStep == ControlInv /\ [Next]_vars => PickInv'
<1> SUFFICES ASSUME ControlInv, [Next]_vars PROVE PickInv'
  OBVIOUS
<1> USE DEF ControlInv, PickInv, TypeOK
<1>1. CASE GetTarget
  BY <1>1 DEF GetTarget, Selectable, table, database
<1>2. CASE picked' = {}
  BY <1>2
<1>3. CASE picked = {} /\ UNCHANGED picked
  BY <1>3
<1>4. CASE LoopStep \/ LoopFault
  BY <1>1, <1>2, <1>3, <1>4
     DEF LoopStep, LoopFault, StartUpdate, WakeUpdate, FinishUpdate, LoopDies, Discover,
         RetrieveTasks, InsertRecords, CommitRecords, InsertFails, Launch, NoBrowser,
         CycleAborts, DisableSuccessfulTargets, DisableUnsuccessfulTargets, memory
<1>5. ASSUME NEW S \in SUBSET Target, Scrape(S)
      PROVE  PickInv'
  BY <1>5 DEF Scrape, memory, MemoryType
<1>6. ASSUME NEW t \in Target, NEW o \in Outcome, Finish(t, o)
      PROVE  PickInv'
  BY <1>6 DEF Finish, MemoryType, table, database
<1>7. ASSUME NEW c \in ClearReq, ClearStep(c) \/ ClearFault(c)
      PROVE  PickInv'
  <2>1. CASE ClearWake(c)
    BY <2>1 DEF ClearWake, table, database, memory
  <2>2. CASE clear[c] \in ClearInside
    <3>1. picked = {}
      BY <2>2 DEF LockInv, HibernateIsExclusive, LoopInside
    <3>2. UNCHANGED picked
      BY <1>7
         DEF ClearStep, ClearFault, ClearWake, CancelTasks, StoreCancelled, CommitCancelled,
             StoreCancelledFails, KillBrowsers, RetireTargets, ClearStatementFails,
             ClearReply, memory
    <3> QED
      BY <1>3, <3>1, <3>2
  <2> QED
    BY <1>7, <2>1, <2>2
       DEF ClearStep, ClearFault, CancelTasks, StoreCancelled, CommitCancelled,
           StoreCancelledFails, KillBrowsers, RetireTargets, ClearStatementFails,
           ClearReply, ClearInside
<1>8. CASE Restart
  BY <1>2, <1>8 DEF Restart, InitializeDatabase
<1>9. CASE UNCHANGED <<table, memory, loop>>
  BY <1>9 DEF table, memory
<1> QED
  BY <1>4, <1>5, <1>6, <1>7, <1>8, <1>9
     DEF Next, CollectStep, vars, database, ClearRequest, CollectKnown, CollectRunning,
         CollectJob, Commit

\* Every step keeps ClearLeavesNoTask.
LEMMA ClearStepIdle == ControlInv /\ [Next]_vars => ClearLeavesNoTask'
<1> SUFFICES ASSUME ControlInv, [Next]_vars PROVE ClearLeavesNoTask'
  OBVIOUS
<1> USE DEF ControlInv, ClearLeavesNoTask, Unrecorded, TypeOK
<1>1. ASSUME UNCHANGED <<task, completed, api>>
      PROVE  ClearLeavesNoTask'
  BY <1>1 DEF api
<1>2. ASSUME UNCHANGED api, loop \in LoopInside
      PROVE  ClearLeavesNoTask'
  BY <1>2 DEF api, LockInv, HibernateIsExclusive, ClearInside
<1>3. CASE LoopStep \/ LoopFault
  BY <1>1, <1>2, <1>3
     DEF LoopStep, LoopFault, StartUpdate, WakeUpdate, FinishUpdate, LoopDies, Discover,
         RetrieveTasks, InsertRecords, CommitRecords, InsertFails, GetTarget, Launch,
         NoBrowser, CycleAborts, DisableSuccessfulTargets, DisableUnsuccessfulTargets,
         LoopInside, memory
<1>4. ASSUME NEW t \in Target, NEW o \in Outcome, Finish(t, o)
      PROVE  ClearLeavesNoTask'
  BY <1>4 DEF Finish, api
<1>5. ASSUME NEW c \in ClearReq, NEW f \in Asked, ClearRequest(c, f)
      PROVE  ClearLeavesNoTask'
  BY <1>5 DEF ClearRequest, FirstStage, ApiType, memory
<1>6. ASSUME NEW c \in ClearReq, ClearStep(c) \/ ClearFault(c)
      PROVE  ClearLeavesNoTask'
  <2>1. CASE ClearWake(c)
    BY <2>1 DEF ClearWake, FirstStage, ApiType, memory
  <2>2. CASE clear[c] \in ClearInside
    <3>1. \A d \in ClearReq : clear[d] \in ClearInside => c = d
      BY <2>2 DEF LockInv, HibernateIsExclusive
    <3>2. \A t \in Target : completed[t] = "none"
      BY <2>2 DEF StoreInv, LockInv, HibernateIsExclusive, LoopInside
    <3>3. CASE CancelTasks(c)
      BY <3>1, <3>2, <3>3
         DEF CancelTasks, ClearEnds, Cancelled, ApiType, MemoryType, ClearInside
    <3>4. CASE StoreCancelled(c)
      BY <3>1, <3>2, <3>4 DEF StoreCancelled, ApiType
    <3>5. CASE CommitCancelled(c)
      BY <3>1, <3>2, <3>5 DEF CommitCancelled, StoreInv, ApiType, memory
    <3>6. CASE KillBrowsers(c)
      BY <3>1, <3>2, <3>6 DEF KillBrowsers, ApiType, memory
    <3>7. CASE RetireTargets(c)
      BY <3>1, <3>2, <3>7 DEF RetireTargets, ApiType, memory
    <3>8. ASSUME ClearEnds(c)
          PROVE  ClearLeavesNoTask'
      BY <3>1, <3>8 DEF ClearEnds, ApiType, ClearInside
    <3> QED
      BY <1>6, <2>2, <3>3, <3>4, <3>5, <3>6, <3>7, <3>8
         DEF ClearStep, ClearFault, ClearWake, StoreCancelledFails, ClearStatementFails,
             ClearReply, ClearInside
  <2> QED
    BY <1>6, <2>1, <2>2
       DEF ClearStep, ClearFault, CancelTasks, StoreCancelled, CommitCancelled,
           StoreCancelledFails, KillBrowsers, RetireTargets, ClearStatementFails,
           ClearReply, ClearInside
<1>7. CASE Restart
  BY <1>7 DEF Restart, InitializeDatabase
<1> QED
  BY <1>1, <1>3, <1>4, <1>5, <1>6, <1>7
     DEF Next, CollectStep, vars, memory, Scrape, CollectKnown, CollectRunning, CollectJob,
         Commit

\* Only a restart takes rows out of the jobs table.
LEMMA CountsGrow ==
    ASSUME TypeOK, [Next]_vars, ~Restart, NEW t \in Target
    PROVE  successes[t] <= successes'[t] /\ failures[t] <= failures'[t]
<1> USE DEF TypeOK, TableType
<1>1. ASSUME NEW rec, Inserted(rec)
      PROVE  successes[t] <= successes'[t] /\ failures[t] <= failures'[t]
  BY <1>1 DEF Inserted
<1>2. CASE InsertRecords \/ InsertFails
  BY <1>1, <1>2 DEF InsertRecords, InsertFails, InsertedInPart
<1>3. ASSUME NEW c \in ClearReq, StoreCancelled(c) \/ StoreCancelledFails(c)
      PROVE  successes[t] <= successes'[t] /\ failures[t] <= failures'[t]
  BY <1>1, <1>3 DEF StoreCancelled, StoreCancelledFails, InsertedInPart
<1>4. CASE UNCHANGED <<successes, failures>>
  BY <1>4
<1> QED
  BY <1>2, <1>3, <1>4
     DEF Next, LoopStep, LoopFault, ClearStep, ClearFault, CollectStep, vars, table, database,
         Scrape, Finish, StartUpdate, WakeUpdate, FinishUpdate, LoopDies, Discover,
         RetrieveTasks, CommitRecords, GetTarget, Launch, NoBrowser, CycleAborts,
         DisableSuccessfulTargets, DisableUnsuccessfulTargets, ClearRequest, ClearWake,
         CancelTasks, CommitCancelled, KillBrowsers, RetireTargets, ClearStatementFails,
         ClearReply, CollectKnown, CollectRunning, CollectJob, Commit

\* Every step keeps DiskInv: what is committed stays a part of what is written.
LEMMA DiskStep ==
    ASSUME ControlInv, [Next]_vars, TypeOK', UnknownInv'
    PROVE  DiskInv'
<1> USE DEF DiskInv, TypeOK, TableType
<1>1. CASE Commits
  BY <1>1 DEF Commits, Tables, UnknownInv
<1>2. CASE UNCHANGED disk /\ ~Restart
  <2> SUFFICES ASSUME NEW t \in Target
               PROVE  /\ disk.successes[t] <= successes'[t] /\ disk.failures[t] <= failures'[t]
                      /\ disk.row[t] = "absent" =>
                            disk.successes[t] = 0 /\ disk.failures[t] = 0
    BY <1>2
  <2>1. successes[t] <= successes'[t] /\ failures[t] <= failures'[t]
    BY <1>2, CountsGrow DEF ControlInv
  <2>2. /\ disk.successes[t] \in Nat /\ disk.failures[t] \in Nat
        /\ successes[t] \in Nat /\ failures[t] \in Nat
        /\ successes'[t] \in Nat /\ failures'[t] \in Nat
    BY DEF ControlInv
  <2> QED
    BY <2>1, <2>2 DEF ControlInv
<1>3. Restart => Commits
  BY DEF Restart
<1> QED
  BY <1>1, <1>2, <1>3, DiskMoves

\* ControlInv holds at the start.
LEMMA InitControl == Init => ControlInv
<1> SUFFICES ASSUME Init PROVE ControlInv
  OBVIOUS
<1>1. LockInv
  BY DEF Init, LockInv, HibernateIsExclusive, LoopInside, ClearInside
<1>2. StoreInv /\ DiskInv /\ UnknownInv /\ EligibleInv /\ PickInv /\ ClearLeavesNoTask
  BY
     DEF Init, Tables, StoreInv, DiskInv, UnknownInv, EligibleInv, PickInv,
         ClearLeavesNoTask, Unrecorded
<1> QED
  BY InitType, <1>1, <1>2 DEF ControlInv

\* Every step keeps ControlInv.
LEMMA ControlStep == ControlInv /\ [Next]_vars => ControlInv'
<1> SUFFICES ASSUME ControlInv, [Next]_vars PROVE ControlInv'
  OBVIOUS
<1>1. TypeOK'
  BY TableTypeStep, MemoryTypeStep, LoopTypeStep, ApiTypeStep DEF ControlInv, TypeOK
<1>2. LockInv'
  BY LockStep DEF ControlInv
<1>3. UnknownInv'
  BY UnknownStep
<1>4. DiskInv'
  BY <1>1, <1>3, DiskStep
<1> QED
  BY <1>1, <1>2, <1>3, <1>4, StoreStep, EligibleStep, PickStep, ClearStepIdle DEF ControlInv

\* The control state keeps its invariant whatever fails: locks and stages agree,
\* pending records have an owner, and the selected target stays eligible.
THEOREM Control == Spec => []ControlInv
BY InitControl, ControlStep, PTL DEF Spec

\* An update cycle and a /clear never overlap, nor do two /clear, under every
\* fault and with any number of concurrent handlers.
THEOREM Exclusive == Spec => []HibernateIsExclusive
<1>1. ControlInv => HibernateIsExclusive
  BY DEF ControlInv, LockInv
<1> QED
  BY Control, <1>1, PTL

\* A /clear that was asked to cancel leaves no task and no pending record.
THEOREM ClearIdle == Spec => []ClearLeavesNoTask
<1>1. ControlInv => ClearLeavesNoTask
  BY DEF ControlInv
<1> QED
  BY Control, <1>1, PTL

\* The only step that starts a task is Launch, on the selected target.
LEMMA StartIsLaunch ==
    ASSUME TypeOK, [Next]_vars, NEW t \in Target, task[t] = "none", task'[t] = "running"
    PROVE  Launch /\ t \in picked
<1> USE DEF TypeOK, MemoryType
<1>1. CASE LoopStep
  BY <1>1 DEF LoopStep, Launch, StartUpdate, WakeUpdate, FinishUpdate, Discover, RetrieveTasks,
              InsertRecords, CommitRecords, GetTarget, NoBrowser, DisableSuccessfulTargets,
              DisableUnsuccessfulTargets, memory
<1>2. ASSUME NEW u \in Target, NEW o \in Outcome, Finish(u, o)
      PROVE  FALSE
  BY <1>2 DEF Finish
<1>3. ASSUME NEW c \in ClearReq, ClearStep(c) \/ ClearFault(c)
      PROVE  FALSE
  BY <1>3
     DEF ClearStep, ClearFault, ClearWake, CancelTasks, StoreCancelled, CommitCancelled,
         Cancelled, StoreCancelledFails, KillBrowsers, RetireTargets, ClearStatementFails,
         ClearReply, memory
<1>4. CASE Restart
  BY <1>4 DEF Restart, InitializeDatabase
<1>5. CASE UNCHANGED task
  BY <1>5
<1> QED
  BY <1>1, <1>2, <1>3, <1>4, <1>5
     DEF Next, LoopFault, InsertFails, CycleAborts, LoopDies, CollectStep, vars, memory,
         Scrape, ClearRequest, CollectKnown, CollectRunning, CollectJob, Commit

\* A task is started only for a target that is eligible at that moment, under
\* every fault.
THEOREM EligibleStart == Spec => StartOnlyEligible
<1>1. ASSUME ControlInv, [Next]_vars, NEW t \in Target, task[t] = "none", task'[t] = "running"
      PROVE  /\ row[t] = "enabled" /\ completed[t] = "none"
             /\ successes[t] = 0 /\ failures[t] < Retries
             /\ \A c \in ClearReq : clear[c] \notin ClearInside
  <2>1. loop = "assign" /\ t \in picked
    BY <1>1, StartIsLaunch DEF ControlInv, Launch
  <2> QED
    BY <1>1, <2>1 DEF ControlInv, PickInv, EligibleInv, StoreInv, LockInv,
                      HibernateIsExclusive, LoopInside
<1>2. ControlInv /\ [Next]_vars =>
        [\A t \in Target : task[t] = "none" /\ task'[t] = "running" =>
          /\ row[t] = "enabled" /\ completed[t] = "none"
          /\ successes[t] = 0 /\ failures[t] < Retries
          /\ \A c \in ClearReq : clear[c] \notin ClearInside]_vars
  BY <1>1
<1> QED
  BY Control, <1>2, PTL DEF Spec, StartOnlyEligible

-----------------------------------------------------------------------------
(***************************************************************************)
(* The ledger invariant, when the job insert does not fail.  Only three    *)
(* kinds of step move an attempt: it starts, it is recorded, or a restart  *)
(* takes it back to what was committed.  When only the insert of the       *)
(* update loop may fail, there is a fourth: some records are written and   *)
(* the others dropped.                                                     *)
(***************************************************************************)
\* a step that touches no jobs row
Kept ==
    /\ UNCHANGED <<successes, failures, attempts>>
    /\ \A t \in Target : Unrecorded(t)' <=> Unrecorded(t)

\* the insert of records, each of which settles an attempt that was open
Recorded ==
    \E rec \in [Target -> RecordState] :
        /\ Inserted(rec) /\ UNCHANGED <<row, attempts>>
        /\ \A t \in Target : IF rec[t] = "none"
                             THEN Unrecorded(t)' <=> Unrecorded(t)
                             ELSE Unrecorded(t) /\ ~Unrecorded(t)'

\* The loop's insert records what was completed.
LEMMA InsertIsRecorded ==
    ASSUME ControlInv, InsertRecords
    PROVE  Recorded
<1>1. completed \in [Target -> RecordState]
  BY DEF ControlInv, TypeOK, MemoryType
<1>2. \A t \in Target : IF completed[t] = "none"
                       THEN Unrecorded(t)' <=> Unrecorded(t)
                       ELSE Unrecorded(t) /\ ~Unrecorded(t)'
  BY DEF InsertRecords, ControlInv, StoreInv, Unrecorded
<1>3. Inserted(completed) /\ UNCHANGED <<row, attempts>>
  BY DEF InsertRecords
<1> QED
  BY <1>1, <1>2, <1>3 DEF Recorded

\* A /clear's insert records what it cancelled.
LEMMA StoreIsRecorded ==
    ASSUME ControlInv, NEW c \in ClearReq, StoreCancelled(c)
    PROVE  Recorded
<1>1. task \in [Target -> RecordState]
  BY DEF ControlInv, TypeOK, MemoryType, StoreInv, StoreCancelled, RecordState
<1>2. \A t \in Target : completed[t] = "none"
  BY DEF ControlInv, StoreInv, StoreCancelled, LockInv, HibernateIsExclusive, LoopInside,
         ClearInside
<1>3. \A t \in Target : IF task[t] = "none"
                       THEN Unrecorded(t)' <=> Unrecorded(t)
                       ELSE Unrecorded(t) /\ ~Unrecorded(t)'
  BY <1>2 DEF StoreCancelled, Unrecorded
<1>4. Inserted(task) /\ UNCHANGED <<row, attempts>>
  BY DEF StoreCancelled
<1> QED
  BY <1>1, <1>3, <1>4 DEF Recorded

\* the insert of a /clear does not fail in this step
CancelledIsStored == \A c \in ClearReq : ~StoreCancelledFails(c)

\* Every step is one of the four, or the insert of the loop that fails.
LEMMA StepKinds ==
    ASSUME CancelledIsStored, ControlInv, [Next]_vars
    PROVE  Kept \/ Recorded \/ Launch \/ Restart \/ InsertFails
<1> USE DEF ControlInv, TypeOK, MemoryType
<1>1. CASE LoopStep \/ LoopFault
  <2>1. CASE RetrieveTasks
    BY <2>1 DEF RetrieveTasks, Done, StoreInv, Kept, Unrecorded, table, database
  <2>2. ASSUME UNCHANGED <<successes, failures, attempts, task, completed>>
        PROVE  Kept
    BY <2>2 DEF Kept, Unrecorded
  <2> QED
    BY <1>1, <2>1, <2>2, InsertIsRecorded
       DEF LoopStep, LoopFault, StartUpdate, WakeUpdate, FinishUpdate, LoopDies,
           Discover, CommitRecords, GetTarget, NoBrowser, CycleAborts,
           DisableSuccessfulTargets, DisableUnsuccessfulTargets, memory, table, database
<1>2. ASSUME NEW t \in Target, NEW o \in Outcome, Finish(t, o)
      PROVE  Kept
  BY <1>2 DEF Finish, Outcome, Kept, Unrecorded, table, database
<1>3. ASSUME NEW c \in ClearReq, ClearStep(c) \/ ClearFault(c)
      PROVE  Kept \/ Recorded
  <2>1. CASE CancelTasks(c) \/ ClearStatementFails(c)
    BY <2>1 DEF CancelTasks, ClearStatementFails, Cancelled, Kept, Unrecorded, table, database
  <2>2. CASE \/ ClearWake(c) \/ CommitCancelled(c) \/ KillBrowsers(c)
             \/ RetireTargets(c) \/ ClearReply(c)
    BY <2>2 DEF ClearWake, CommitCancelled, KillBrowsers, RetireTargets, ClearReply, Kept,
                Unrecorded, table, database, memory
  <2> QED
    BY <1>3, <2>1, <2>2, StoreIsRecorded DEF ClearStep, ClearFault, CancelledIsStored
<1>4. ASSUME UNCHANGED <<successes, failures, attempts, memory>>
      PROVE  Kept
  BY <1>4 DEF Kept, Unrecorded, memory
<1> QED
  BY <1>1, <1>2, <1>3, <1>4
     DEF Next, CollectStep, vars, table, database, Scrape, ClearRequest, CollectKnown,
         CollectRunning, CollectJob, Commit

\* Every step keeps the bound on the attempts of a target, also the one that
\* drops records.
LEMMA BoundStep ==
    ASSUME CancelledIsStored, ControlInv, RetryBound, [Next]_vars
    PROVE  RetryBound'
<1> USE DEF ControlInv, TypeOK, TableType
<1> DEFINE open(t) == IF Unrecorded(t) THEN 1 ELSE 0
<1>1. CASE Kept
  BY <1>1 DEF Kept, RetryBound
<1>2. CASE Recorded
  <2> PICK rec \in [Target -> RecordState] :
        /\ Inserted(rec)
        /\ \A t \in Target : IF rec[t] = "none"
                             THEN Unrecorded(t)' <=> Unrecorded(t)
                             ELSE Unrecorded(t) /\ ~Unrecorded(t)'
    BY <1>2 DEF Recorded
  <2> SUFFICES ASSUME NEW t \in Target
               PROVE  /\ successes'[t] + failures'[t]
                            + (IF Unrecorded(t)' THEN 1 ELSE 0) <= Retries
                      /\ successes'[t] <= 1
                      /\ Unrecorded(t)' => successes'[t] = 0
    BY DEF RetryBound
  <2>1. /\ successes'[t] = successes[t] + (IF rec[t] = "success" THEN 1 ELSE 0)
        /\ failures'[t] = failures[t] + (IF rec[t] = "failure" THEN 1 ELSE 0)
    BY DEF Inserted
  <2>2. rec[t] \in {"none", "success", "failure"}
    BY DEF RecordState
  <2>3. /\ successes[t] + failures[t] + open(t) <= Retries
        /\ successes[t] <= 1
        /\ Unrecorded(t) => successes[t] = 0
    BY DEF RetryBound
  <2>4. successes[t] \in Nat /\ failures[t] \in Nat
    OBVIOUS
  <2>5. CASE rec[t] = "none"
    BY <2>1, <2>3, <2>4, <2>5
  <2>6. CASE rec[t] # "none"
    <3>1. Unrecorded(t) /\ ~Unrecorded(t)'
      BY <2>6
    <3> QED
      BY <2>1, <2>2, <2>3, <2>4, <2>6, <3>1, BrokerAssumption
  <2> QED
    BY <2>5, <2>6
<1>3. CASE Launch
  <2> SUFFICES ASSUME NEW t \in Target
               PROVE  /\ successes'[t] + failures'[t]
                            + (IF Unrecorded(t)' THEN 1 ELSE 0) <= Retries
                      /\ successes'[t] <= 1
                      /\ Unrecorded(t)' => successes'[t] = 0
    BY DEF RetryBound
  <2>1. CASE t \in picked
    BY <1>3, <2>1, BrokerAssumption
       DEF Launch, PickInv, EligibleInv, StoreInv, Unrecorded, table, database
  <2>2. CASE t \notin picked
    BY <1>3, <2>2 DEF Launch, Unrecorded, table, database, RetryBound
  <2> QED
    BY <2>1, <2>2
<1>4. CASE Restart
  <2>1. \A t \in Target : ~Unrecorded(t)'
    BY <1>4 DEF Restart, InitializeDatabase, Unrecorded
  <2>2. CASE ClearDbOnStartup
    BY <1>4, <2>1, <2>2, BrokerAssumption DEF Restart, InitializeDatabase, RetryBound
  <2>3. CASE ~ClearDbOnStartup
    <3> SUFFICES ASSUME NEW t \in Target
                 PROVE  /\ successes'[t] + failures'[t]
                              + (IF Unrecorded(t)' THEN 1 ELSE 0) <= Retries
                        /\ successes'[t] <= 1
                        /\ Unrecorded(t)' => successes'[t] = 0
      BY DEF RetryBound
    <3>1. successes'[t] = disk.successes[t] /\ failures'[t] = disk.failures[t]
      BY <1>4, <2>3 DEF Restart, InitializeDatabase
    <3>2. disk.successes[t] <= successes[t] /\ disk.failures[t] <= failures[t]
      BY DEF DiskInv
    <3>3. successes[t] + failures[t] + open(t) <= Retries /\ successes[t] <= 1
      BY DEF RetryBound
    <3>4. /\ successes[t] \in Nat /\ failures[t] \in Nat
          /\ disk.successes[t] \in Nat /\ disk.failures[t] \in Nat /\ Retries \in Nat
      BY BrokerAssumption
    <3> QED
      BY <2>1, <3>1, <3>2, <3>3, <3>4
  <2> QED
    BY <2>2, <2>3
<1>5. CASE InsertFails
  <2> PICK S \in SUBSET Target :
        Inserted([t \in Target |-> IF t \in S THEN completed[t] ELSE "none"])
    BY <1>5 DEF InsertFails, InsertedInPart
  <2> SUFFICES ASSUME NEW t \in Target
               PROVE  /\ successes'[t] + failures'[t]
                            + (IF Unrecorded(t)' THEN 1 ELSE 0) <= Retries
                      /\ successes'[t] <= 1
                      /\ Unrecorded(t)' => successes'[t] = 0
    BY DEF RetryBound
  <2>1. /\ successes'[t] = successes[t]
                            + (IF t \in S /\ completed[t] = "success" THEN 1 ELSE 0)
        /\ failures'[t] = failures[t]
                           + (IF t \in S /\ completed[t] = "failure" THEN 1 ELSE 0)
    BY DEF Inserted
  <2>2. /\ successes[t] + failures[t] + open(t) <= Retries
        /\ successes[t] <= 1
        /\ Unrecorded(t) => successes[t] = 0
    BY DEF RetryBound
  <2>3. successes[t] \in Nat /\ failures[t] \in Nat /\ Retries \in Nat
    BY BrokerAssumption
  <2>4. CASE completed[t] = "none"
    <3>1. Unrecorded(t)' <=> Unrecorded(t)
      BY <1>5, <2>4 DEF InsertFails, Unrecorded
    <3> QED
      BY <2>1, <2>2, <2>3, <2>4, <3>1
  <2>5. CASE completed[t] # "none"
    <3>1. Unrecorded(t) /\ ~Unrecorded(t)'
      BY <1>5, <2>5 DEF InsertFails, StoreInv, Unrecorded
    <3> QED
      BY <2>1, <2>2, <2>3, <3>1
  <2> QED
    BY <2>4, <2>5
<1> QED
  BY <1>1, <1>2, <1>3, <1>4, <1>5, StepKinds

\* Without a failing insert, every step keeps each attempt counted once.
LEMMA BalanceStep ==
    ASSUME "insert" \notin Faults, ControlInv, EveryAttemptRecordedOnce, [Next]_vars
    PROVE  EveryAttemptRecordedOnce'
<1> USE DEF ControlInv, TypeOK, TableType
<1> DEFINE open(t) == IF Unrecorded(t) THEN 1 ELSE 0
<1>1. CASE Kept
  BY <1>1 DEF Kept, EveryAttemptRecordedOnce
<1>2. CASE Recorded
  <2> PICK rec \in [Target -> RecordState] :
        /\ Inserted(rec) /\ UNCHANGED attempts
        /\ \A t \in Target : IF rec[t] = "none"
                             THEN Unrecorded(t)' <=> Unrecorded(t)
                             ELSE Unrecorded(t) /\ ~Unrecorded(t)'
    BY <1>2 DEF Recorded
  <2> SUFFICES ASSUME NEW t \in Target
               PROVE  attempts'[t] = successes'[t] + failures'[t]
                                    + (IF Unrecorded(t)' THEN 1 ELSE 0)
    BY DEF EveryAttemptRecordedOnce
  <2>1. /\ successes'[t] = successes[t] + (IF rec[t] = "success" THEN 1 ELSE 0)
        /\ failures'[t] = failures[t] + (IF rec[t] = "failure" THEN 1 ELSE 0)
    BY DEF Inserted
  <2>2. rec[t] \in {"none", "success", "failure"}
    BY DEF RecordState
  <2>3. attempts[t] = successes[t] + failures[t] + open(t)
    BY DEF EveryAttemptRecordedOnce
  <2>4. successes[t] \in Nat /\ failures[t] \in Nat /\ attempts'[t] = attempts[t]
    OBVIOUS
  <2>5. CASE rec[t] = "none"
    BY <2>1, <2>3, <2>4, <2>5
  <2>6. CASE rec[t] # "none"
    <3>1. Unrecorded(t) /\ ~Unrecorded(t)'
      BY <2>6
    <3> QED
      BY <2>1, <2>2, <2>3, <2>4, <2>6, <3>1
  <2> QED
    BY <2>5, <2>6
<1>3. CASE Launch
  <2> SUFFICES ASSUME NEW t \in Target
               PROVE  attempts'[t] = successes'[t] + failures'[t]
                                    + (IF Unrecorded(t)' THEN 1 ELSE 0)
    BY DEF EveryAttemptRecordedOnce
  <2>1. CASE t \in picked
    <3>1. /\ ~Unrecorded(t) /\ Unrecorded(t)'
          /\ attempts'[t] = attempts[t] + 1
          /\ UNCHANGED <<successes, failures>>
      BY <1>3, <2>1 DEF Launch, PickInv, StoreInv, Unrecorded, table, database
    <3> QED
      BY <3>1 DEF EveryAttemptRecordedOnce
  <2>2. CASE t \notin picked
    BY <1>3, <2>2 DEF Launch, Unrecorded, table, database, EveryAttemptRecordedOnce
  <2> QED
    BY <2>1, <2>2
<1>4. CASE Restart
  <2>1. \A t \in Target : ~Unrecorded(t)'
    BY <1>4 DEF Restart, InitializeDatabase, Unrecorded
  <2>2. TableType'
    BY TableTypeStep
  <2> QED
    BY <1>4, <2>1, <2>2 DEF Restart, InitializeDatabase, EveryAttemptRecordedOnce
<1>5. CancelledIsStored /\ ~InsertFails
  BY DEF CancelledIsStored, StoreCancelledFails, InsertFails
<1> QED
  BY <1>1, <1>2, <1>3, <1>4, <1>5, StepKinds

\* Outside a restart the code a client was given changes only to the code of
\* the rule below, and no success is ever removed.
LEMMA CollectAnswers ==
    ASSUME ControlInv, [Next]_vars, ~Restart, NEW t \in Polled
    PROVE  \/ code'[t] = code[t]
           \/ code'[t] = 404 /\ row[t] = "absent"
           \/ code'[t] = 425 /\ (task[t] # "none" \/ successes[t] = 0)
           \/ code'[t] = 200 /\ successes[t] > 0
           \/ code'[t] = 500
<1> USE DEF ControlInv, TypeOK, ApiType
<1>1. ASSUME NEW u \in Polled, CollectStep(u)
      PROVE  \/ code'[t] = code[t]
             \/ code'[t] = 404 /\ row[t] = "absent"
             \/ code'[t] = 425 /\ (task[t] # "none" \/ successes[t] = 0)
             \/ code'[t] = 200 /\ successes[t] > 0
             \/ code'[t] = 500
  <2>1. successes[u] \in Nat
    BY BrokerAssumption DEF TableType
  <2> QED
    BY <1>1, <2>1
       DEF CollectStep, CollectKnown, CollectRunning, CollectJob, CollectFails, Answer, Advance
<1>2. CASE UNCHANGED code
  BY <1>2
<1> QED
  BY <1>1, <1>2
     DEF Next, LoopStep, LoopFault, ClearStep, ClearFault, vars, poll, Scrape, Finish,
         StartUpdate, WakeUpdate, FinishUpdate, LoopDies, Discover, RetrieveTasks,
         InsertRecords, CommitRecords, InsertFails, GetTarget, Launch, NoBrowser,
         CycleAborts, DisableSuccessfulTargets, DisableUnsuccessfulTargets, ClearRequest,
         ClearWake, CancelTasks, StoreCancelled, CommitCancelled, StoreCancelledFails,
         KillBrowsers, RetireTargets, ClearStatementFails, ClearReply, Commit

\* A client is given the content only of a success that is in the table, and
\* nothing but a restart makes it one that was not given it.
LEMMA HeldGrows ==
    ASSUME ControlInv, [Next]_vars, ~Restart
    PROVE  held \subseteq held' /\ \A t \in held' \ held : successes[t] > 0
<1> USE DEF ControlInv, TypeOK, ApiType
<1>1. ASSUME NEW u \in Polled, CollectStep(u)
      PROVE  held \subseteq held' /\ \A t \in held' \ held : successes[t] > 0
  BY <1>1
     DEF CollectStep, CollectKnown, CollectRunning, CollectJob, CollectFails, Answer,
         Advance
<1>2. CASE UNCHANGED held
  BY <1>2
<1> QED
  BY <1>1, <1>2
     DEF Next, LoopStep, LoopFault, ClearStep, ClearFault, vars, poll,
         Scrape, Finish, StartUpdate, WakeUpdate, FinishUpdate, LoopDies, Discover,
         RetrieveTasks, InsertRecords, CommitRecords, InsertFails, GetTarget, Launch,
         NoBrowser, CycleAborts, DisableSuccessfulTargets, DisableUnsuccessfulTargets,
         ClearRequest, ClearWake, CancelTasks, StoreCancelled, CommitCancelled,
         StoreCancelledFails, KillBrowsers, RetireTargets, ClearStatementFails, ClearReply,
         Commit

\* Every step keeps CollectInv.
LEMMA CollectInvStep ==
    ASSUME ControlInv, CollectInv, [Next]_vars
    PROVE  CollectInv'
<1> SUFFICES ASSUME NEW t \in held'
             PROVE  successes'[t] > 0
  BY DEF CollectInv
<1>1. CASE Restart
  BY <1>1 DEF Restart
<1>2. CASE ~Restart
  <2>1. t \in Target
    BY ApiTypeStep, BrokerAssumption DEF ControlInv, TypeOK, ApiType
  <2>2. successes[t] > 0
    BY <1>2, HeldGrows DEF CollectInv
  <2>3. successes[t] \in Nat /\ successes'[t] \in Nat
    BY <2>1, TableTypeStep DEF ControlInv, TypeOK, TableType
  <2> QED
    BY <1>2, <2>1, <2>2, <2>3, CountsGrow DEF ControlInv
<1> QED
  BY <1>1, <1>2

\* a client whose content is committed keeps it, until the tables are dropped
CommittedIsKept ==
    \A t \in held : disk.successes[t] > 0 =>
        (t \in held' /\ successes'[t] > 0) \/ row'[t] = "absent"

\* Whatever fails, a client that was given the content of its target relies on a
\* success that is in the jobs table, and once that row is committed no later step,
\* a restart included, takes it away, unless the tables are dropped.
THEOREM Collected == Spec => []CollectInv /\ [][CommittedIsKept]_vars
<1>1. Init => CollectInv
  BY DEF Init, CollectInv
<1>2. ControlInv /\ CollectInv /\ [Next]_vars => CollectInv'
  BY CollectInvStep
<1>3. ASSUME ControlInv, CollectInv, [Next]_vars, NEW t \in held, disk.successes[t] > 0
      PROVE  (t \in held' /\ successes'[t] > 0) \/ row'[t] = "absent"
  <2>1. t \in Target
    BY <1>3, BrokerAssumption DEF ControlInv, TypeOK, ApiType
  <2>2. CASE Restart
    BY <1>3, <2>1, <2>2 DEF Restart, InitializeDatabase
  <2>3. CASE ~Restart
    BY <1>2, <1>3, <2>3, HeldGrows DEF CollectInv
  <2> QED
    BY <2>2, <2>3
<1>4. ControlInv /\ CollectInv /\ [Next]_vars => [CommittedIsKept]_vars
  BY <1>3 DEF CommittedIsKept
<1> QED
  BY Control, <1>1, <1>2, <1>4, PTL DEF Spec

\* When no job insert fails, the tasks, the pending records and the jobs table
\* always add up to the attempts that were started.
THEOREM LedgerHolds ==
    ASSUME "insert" \notin Faults
    PROVE  Spec => []LedgerInv
<1>1. Init => LedgerInv
  <2>1. Init => EveryAttemptRecordedOnce /\ RetryBound /\ CollectInv
    BY BrokerAssumption DEF Init, EveryAttemptRecordedOnce, RetryBound, CollectInv, Unrecorded
  <2> QED
    BY <2>1, InitControl DEF LedgerInv
<1>2. CancelledIsStored
  BY DEF CancelledIsStored, StoreCancelledFails
<1>3. LedgerInv /\ [Next]_vars => LedgerInv'
  BY <1>2, ControlStep, BalanceStep, BoundStep, CollectInvStep DEF LedgerInv
<1> QED
  BY <1>1, <1>3, PTL DEF Spec

\* When no job insert fails, every attempt is in flight or in the jobs table,
\* and never twice.
THEOREM Conservation ==
    ASSUME "insert" \notin Faults
    PROVE  Spec => []EveryAttemptRecordedOnce
<1>1. LedgerInv => EveryAttemptRecordedOnce
  BY DEF LedgerInv
<1> QED
  BY LedgerHolds, <1>1, PTL

\* The jobs table never holds more attempts of a target than its retries, nor a
\* success and an attempt after it, for any number of targets, clears and
\* restarts, and although the insert of the update loop may drop records: it is
\* enough that the insert of a /clear does not fail.
THEOREM BoundedIfStored == Spec /\ [][CancelledIsStored]_vars => []RetryBound
<1>1. Init => RetryBound
  BY BrokerAssumption DEF Init, RetryBound, Unrecorded
<1>2. ControlInv /\ RetryBound /\ [Next]_vars /\ [CancelledIsStored]_vars => RetryBound'
  <2>1. CASE CancelledIsStored
    BY <2>1, BoundStep
  <2>2. CASE UNCHANGED vars
    BY <2>2 DEF vars, table, database, memory, RetryBound, Unrecorded
  <2> QED
    BY <2>1, <2>2
<1> QED
  BY Control, <1>1, <1>2, PTL DEF Spec

\* A client that was given the content of its target is answered 425 or 404 never
\* again, on the same condition: it gets the content, or 500, unless the tables are
\* dropped or a restart comes before the commit of the row it was given.
THEOREM CollectableIfStored == Spec /\ [][CancelledIsStored]_vars => SuccessStaysCollectable
<1>1. ASSUME ControlInv, RetryBound, CollectInv, [Next]_vars,
             NEW t \in held, code'[t] # code[t]
      PROVE  code'[t] \in {200, 500} \/ row'[t] = "absent"
  <2>1. t \in Polled /\ t \in Target
    BY <1>1, BrokerAssumption DEF ControlInv, TypeOK, ApiType
  <2>2. successes[t] > 0 /\ successes[t] # 0
    BY <1>1 DEF CollectInv
  <2>3. row[t] # "absent" /\ task[t] = "none"
    BY <1>1, <2>1, <2>2 DEF ControlInv, UnknownInv, RetryBound, Unrecorded
  <2>4. CASE Restart
    <3>1. CASE ClearDbOnStartup
      BY <2>1, <2>4, <3>1 DEF Restart, InitializeDatabase
    <3>2. CASE ~ClearDbOnStartup
      BY <1>1, <2>4, <3>2 DEF Restart
    <3> QED
      BY <3>1, <3>2
  <2>5. CASE ~Restart
    BY <1>1, <2>1, <2>2, <2>3, <2>5, CollectAnswers
  <2> QED
    BY <2>4, <2>5
<1>2. ControlInv /\ RetryBound /\ CollectInv /\ [Next]_vars =>
        [\A t \in held : code'[t] # code[t] =>
            code'[t] \in {200, 500} \/ row'[t] = "absent"]_vars
  BY <1>1
<1> QED
  BY Control, BoundedIfStored, Collected, <1>2, PTL DEF Spec, SuccessStaysCollectable

\* When no job insert fails the condition is met.
LEMMA InsertsAreStored ==
    ASSUME "insert" \notin Faults
    PROVE  Spec => [][CancelledIsStored]_vars
<1>1. CancelledIsStored
  BY DEF CancelledIsStored, StoreCancelledFails
<1>2. [Next]_vars => [CancelledIsStored]_vars
  BY <1>1
<1> QED
  BY <1>2, PTL DEF Spec

\* When no job insert fails, no target exceeds its retries or is tried again
\* after a success, for any number of targets, clears and restarts.
THEOREM Bounded ==
    ASSUME "insert" \notin Faults
    PROVE  Spec => []RetryBound
BY InsertsAreStored, BoundedIfStored, PTL

\* When no job insert fails, a client that was given the content of its target is
\* given it again or gets 500, unless the tables are dropped or a restart comes
\* before the commit of its row.
THEOREM Collectable ==
    ASSUME "insert" \notin Faults
    PROVE  Spec => SuccessStaysCollectable
BY InsertsAreStored, CollectableIfStored, PTL

-----------------------------------------------------------------------------
(***************************************************************************)
(* The broker implements Ledger: the attempts that are not recorded are    *)
(* its open ones.                                                          *)
(***************************************************************************)
OpenAttempts == {t \in Target : Unrecorded(t)}

\* a step of the ledger, or none of its variables changes
LedgerStepOrStutter ==
    Promise!Next \/ UNCHANGED <<row, successes, failures, OpenAttempts, disk>>

\* A step of the broker that changes nothing else in the ledger saves it or changes
\* nothing in it.
LEMMA CommitSaves ==
    ASSUME UNCHANGED <<row, successes, failures, OpenAttempts>>, UNCHANGED disk \/ Commits
    PROVE  LedgerStepOrStutter
<1>1. CASE UNCHANGED disk
  BY <1>1 DEF LedgerStepOrStutter
<1>2. CASE Commits
  <2>1. Promise!Save
    BY <1>2 DEF Commits, Tables, Promise!Save, Promise!Written, OpenAttempts
  <2> QED
    BY <2>1 DEF Promise!Next, LedgerStepOrStutter
<1> QED
  BY <1>1, <1>2

\* The commits of the broker are what the ledger calls saving.
LEMMA CommitMaySave ==
    ASSUME UNCHANGED disk \/ Commits
    PROVE  Promise!MaySave
BY DEF Commits, Tables, Promise!MaySave, Promise!Written

\* Disabling some rows retires the enabled ones among them.
LEMMA DisablingRetires ==
    ASSUME TableType, NEW T, row' = Disabled(T),
           UNCHANGED <<successes, failures, OpenAttempts>>, UNCHANGED disk \/ Commits
    PROVE  LedgerStepOrStutter
<1> DEFINE S == {t \in Target : t \in T /\ row[t] = "enabled"}
<1>1. row' = [t \in Target |-> IF t \in S THEN "disabled" ELSE row[t]]
  BY DEF Disabled
<1>2. CASE S = {}
  <2>1. row' = row
    BY <1>1, <1>2 DEF TableType
  <2> QED
    BY <2>1, CommitSaves
<1>3. CASE S # {}
  <2>1. Promise!Retire(S)
    BY <1>1, <1>3, CommitMaySave DEF Promise!Retire, OpenAttempts
  <2>2. S \in SUBSET Target
    OBVIOUS
  <2> QED
    BY <2>1, <2>2 DEF Promise!Next, LedgerStepOrStutter
<1> QED
  BY <1>2, <1>3

\* Such an insert closes attempts of the ledger, or does nothing to it.
LEMMA RecordedCloses ==
    ASSUME TableType, Recorded, UNCHANGED disk \/ Commits
    PROVE  LedgerStepOrStutter
<1> PICK rec \in [Target -> RecordState] :
        /\ Inserted(rec) /\ UNCHANGED <<row, attempts>>
        /\ \A t \in Target : IF rec[t] = "none"
                             THEN Unrecorded(t)' <=> Unrecorded(t)
                             ELSE Unrecorded(t) /\ ~Unrecorded(t)'
  BY DEF Recorded
<1> DEFINE S == {t \in Target : rec[t] # "none"}
           W == {t \in Target : rec[t] = "success"}
<1>1. S \in SUBSET Target /\ W \in SUBSET S
  OBVIOUS
<1>2. OpenAttempts' = OpenAttempts \ S /\ S \subseteq OpenAttempts
  BY DEF OpenAttempts
<1>3. successes' = [t \in Target |-> successes[t] + (IF t \in W THEN 1 ELSE 0)]
  BY DEF Inserted
<1>4. failures' = [t \in Target |-> failures[t] + (IF t \in S \ W THEN 1 ELSE 0)]
  <2>1. \A t \in Target : t \in S \ W <=> rec[t] = "failure"
    BY DEF RecordState
  <2> QED
    BY <2>1 DEF Inserted
<1>5. CASE S = {}
  <2>1. successes' = successes /\ failures' = failures
    BY <1>1, <1>3, <1>4, <1>5 DEF TableType
  <2> QED
    BY <1>2, <1>5, <2>1, CommitSaves
<1>6. CASE S # {}
  <2>1. Promise!Close(S, W)
    BY <1>1, <1>2, <1>3, <1>4, <1>6, CommitMaySave DEF Promise!Close, OpenAttempts
  <2> QED
    BY <1>1, <2>1 DEF Promise!Next, LedgerStepOrStutter
<1> QED
  BY <1>5, <1>6

\* Launching a task opens an attempt of the ledger.
LEMMA LaunchOpens ==
    ASSUME ControlInv, Launch, UNCHANGED disk \/ Commits
    PROVE  LedgerStepOrStutter
<1> USE DEF ControlInv, TypeOK
<1>1. CASE picked = {}
  <2>1. UNCHANGED <<row, successes, failures, OpenAttempts>>
    BY <1>1 DEF Launch, MemoryType, Unrecorded, OpenAttempts, table, database
  <2> QED
    BY <2>1, CommitSaves
<1>2. CASE picked # {}
  <2> PICK t \in Target : picked = {t}
    BY <1>2 DEF PickInv, MemoryType
  <2>1. OpenAttempts' = OpenAttempts \cup {t}
    BY DEF Launch, OpenAttempts, Unrecorded
  <2>2. t \notin OpenAttempts
    BY DEF Launch, PickInv, StoreInv, OpenAttempts, Unrecorded
  <2>3. row[t] = "enabled" /\ successes[t] = 0 /\ failures[t] < Retries
    BY DEF Launch, PickInv, EligibleInv
  <2>4. Promise!Open(t)
    BY <2>1, <2>2, <2>3, CommitMaySave
       DEF Launch, Promise!Open, OpenAttempts, table, database
  <2> QED
    BY <2>4 DEF Promise!Next, LedgerStepOrStutter
<1> QED
  BY <1>1, <1>2

\* A restart of the broker takes the ledger back to what was saved.
LEMMA RestartForgets ==
    ASSUME ControlInv, Restart
    PROVE  LedgerStepOrStutter
<1>1. OpenAttempts' = {}
  BY DEF Restart, InitializeDatabase, OpenAttempts, Unrecorded
<1>2. Promise!Forget
  BY <1>1 DEF Restart, InitializeDatabase, Commits, Tables, Promise!Forget,
              Promise!Written, OpenAttempts
<1> QED
  BY <1>2 DEF Promise!Next, LedgerStepOrStutter

\* Each step of the broker is a step of the ledger or changes nothing in it.
LEMMA StepRefines ==
    ASSUME "insert" \notin Faults, ControlInv, [Next]_vars
    PROVE  LedgerStepOrStutter
<1> USE DEF ControlInv, TypeOK
<1>1. UNCHANGED disk \/ Commits
  BY DiskMoves
<1>2. CASE Kept
  <2>1. UNCHANGED <<successes, failures, OpenAttempts>>
    BY <1>2 DEF Kept, OpenAttempts
  <2>2. ASSUME UNCHANGED row
        PROVE  LedgerStepOrStutter
    BY <1>1, <2>1, <2>2, CommitSaves
  <2>3. ASSUME NEW S \in SUBSET Target, Scrape(S)
        PROVE  LedgerStepOrStutter
    <3>1. Promise!Register(S)
      BY <1>1, <2>1, <2>3, CommitMaySave DEF Scrape, Promise!Register, OpenAttempts
    <3> QED
      BY <3>1 DEF Promise!Next, LedgerStepOrStutter
  <2>4. ASSUME NEW T, row' = Disabled(T)
        PROVE  LedgerStepOrStutter
    BY <1>1, <2>1, <2>4, DisablingRetires
  <2>5. CASE LoopStep \/ LoopFault
    BY <1>1, <1>2, <2>2, <2>4, <2>5, LaunchOpens
       DEF LoopStep, LoopFault, StartUpdate, WakeUpdate, FinishUpdate, LoopDies, Discover,
           RetrieveTasks, InsertRecords, CommitRecords, InsertFails, GetTarget, Launch,
           NoBrowser, CycleAborts, DisableSuccessfulTargets, DisableUnsuccessfulTargets,
           table, database
  <2>6. ASSUME NEW c \in ClearReq, ClearStep(c) \/ ClearFault(c)
        PROVE  LedgerStepOrStutter
    BY <2>2, <2>4, <2>6
       DEF ClearStep, ClearFault, ClearWake, CancelTasks, StoreCancelled, CommitCancelled,
           StoreCancelledFails, KillBrowsers, RetireTargets, ClearStatementFails,
           ClearReply, table, database
  <2>7. CASE Restart
    BY <2>7, RestartForgets
  <2> QED
    BY <2>2, <2>3, <2>5, <2>6, <2>7
       DEF Next, CollectStep, vars, table, database, Finish, ClearRequest, CollectKnown,
           CollectRunning, CollectJob, Commit
<1>3. CancelledIsStored /\ ~InsertFails
  BY DEF CancelledIsStored, StoreCancelledFails, InsertFails
<1> QED
  BY <1>1, <1>2, <1>3, StepKinds, RecordedCloses, LaunchOpens, RestartForgets

\* When no job insert fails, the update loop, the locks, /clear and /collect
\* together implement the ledger, restarts included.
THEOREM Implements ==
    ASSUME "insert" \notin Faults
    PROVE  Spec => LedgerSpec
<1>1. Init => Promise!Init
  <2> SUFFICES ASSUME Init PROVE Promise!Init
    OBVIOUS
  <2>1. {t \in Target : Unrecorded(t)} = {}
    BY DEF Init, Unrecorded
  <2> QED
    BY <2>1 DEF Init, Tables, Promise!Init, Promise!Written
<1>2. ControlInv /\ [Next]_vars => [Promise!Next]_(Promise!vars)
  BY StepRefines DEF LedgerStepOrStutter, Promise!vars, OpenAttempts
<1> QED
  BY Control, <1>1, <1>2, PTL DEF Spec, LedgerSpec, Promise!Spec
=============================================================================
