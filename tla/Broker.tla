------------------------------- MODULE Broker -------------------------------
(***************************************************************************)
(* The job lifecycle of the broker (src/broker/core/Broker.py): targets    *)
(* are registered, an update loop hands them one at a time to a browser as *)
(* an asyncio task, retrieves the finished tasks, writes their records in  *)
(* the jobs table and disables the targets that are settled, while /clear  *)
(* requests cancel everything and /collect requests read the results.      *)
(*                                                                         *)
(* The broker is one event loop, so an action is the code between two      *)
(* suspension points: everything up to the next database call or HTTP call *)
(* that another coroutine can overtake.  All coroutines share one          *)
(* connection to the database: each of them sees the tables as the last    *)
(* statement left them, and a commit, whoever makes it, makes durable what *)
(* all of them have written.  What was committed survives a restart; the   *)
(* rest is the memory of the process.                                      *)
(***************************************************************************)
EXTENDS Naturals, Sequences, FiniteSets

CONSTANTS
    Target,             \* the uuids a target may be registered under
    Due,                \* expected_response_time of each target
    Polled,             \* the targets some client polls with /collect
    ClearReq,           \* the /clear handlers that may run at the same time
    Asked,              \* the flags a /clear may ask for: what to cancel, kill, retire
    Retries,            \* Config.RETRIES
    ClearDbOnStartup,   \* Config.BROKER_CLEAR_DB_ON_STARTUP
    Faults              \* the faults the environment may inject, see FaultKind

(***************************************************************************)
(* node: the discovery or the refresh of a node raises; transport: an HTTP *)
(* exchange with a scraper ends in an exception BrowserImage.get does not  *)
(* catch; statement: a SQL statement other than the job insert raises;     *)
(* insert: the job insert raises; restart: the broker process restarts.    *)
(* A statement or a commit that raises leaves the transaction open, as it  *)
(* does when another process holds the file: an error after which SQLite   *)
(* rolls the transaction back by itself is no fault here.                  *)
(***************************************************************************)
FaultKind == {"node", "transport", "statement", "insert", "restart"}

Flag == {"cancel", "kill", "retire"}

ASSUME BrokerAssumption ==
    /\ Due \in [Target -> Nat]
    /\ Polled \subseteq Target
    /\ Asked \subseteq SUBSET Flag
    /\ Retries \in Nat \ {0}
    /\ ClearDbOnStartup \in BOOLEAN
    /\ Faults \subseteq FaultKind
    /\ "update" \notin ClearReq

VARIABLES
    row,            \* targets table: no row, enabled = 1 or enabled = 0
    successes,      \* jobs table: rows of the target with success = TRUE
    failures,       \* jobs table: rows of the target with success = FALSE
    disk,           \* the two tables as they were last committed
    task,           \* __current_tasks: what the asyncio task of a target is at
    completed,      \* records out of __current_tasks and not yet inserted
    picked,         \* the target __distribute_task has selected, if any
    loop,           \* where background_update is
    locked,         \* __lock_hibernate.locked()
    waiters,        \* the FIFO of coroutines waiting for __lock_hibernate
    clear,          \* where each /clear handler is
    flags,          \* the flags of the request it serves
    collect,        \* where the /collect request of each polled target is
    code,           \* the last status code its client received, 0 for none
    held,           \* history: the clients that were given the content, see Restart
    attempts        \* history: tasks started, see Restart

table == <<row, successes, failures>>
database == <<table, disk>>
memory == <<task, completed, picked>>
hibernate == <<locked, waiters>>
api == <<clear, flags>>
poll == <<collect, code, held>>
vars == <<database, memory, loop, hibernate, api, poll, attempts>>

RowState == {"absent", "enabled", "disabled"}
TaskState == {"none", "running", "success", "failure", "raised"}
RecordState == {"none", "success", "failure"}
LoopInside == {"discover", "retrieve", "store", "commit", "disable_success",
               "disable_failure", "select", "assign", "finish"}
LoopState == LoopInside \cup {"asleep", "queued", "dead"}
ClearInside == {"cancel", "store", "commit", "kill", "retire", "reply"}
ClearState == ClearInside \cup {"idle", "queued"}
CollectState == {"idle", "running", "job"}

-----------------------------------------------------------------------------
Tables == [row |-> row, successes |-> successes, failures |-> failures]

Init ==
    /\ row = [t \in Target |-> "absent"]
    /\ successes = [t \in Target |-> 0]
    /\ failures = [t \in Target |-> 0]
    /\ disk = Tables
    /\ task = [t \in Target |-> "none"]
    /\ completed = [t \in Target |-> "none"]
    /\ picked = {}
    /\ loop = "asleep"
    /\ locked = FALSE
    /\ waiters = <<>>
    /\ clear = [c \in ClearReq |-> "idle"]
    /\ flags = [c \in ClearReq |-> {}]
    /\ collect = [t \in Polled |-> "idle"]
    /\ code = [t \in Polled |-> 0]
    /\ held = {}
    /\ attempts = [t \in Target |-> 0]

\* Acquire, Enqueue, Woken and Release of __lock_hibernate
INSTANCE AsyncLock

\* cancel_running_tasks holds __lock_current_tasks while it inserts
TasksLocked == \E c \in ClearReq : clear[c] \in {"store", "commit"}

Done(t) == task[t] \in {"success", "failure", "raised"}
Raised == \E t \in Target : task[t] = "raised"

\* a commit on the shared connection
Commits == disk' = Tables'

\* the commit of a log statement, or of a /scrape of some other target
Commit == UNCHANGED <<table, memory, loop, hibernate, api, poll, attempts>> /\ Commits

\* what a job insert adds to the two columns, for the records rec
Inserted(rec) ==
    /\ successes' = [t \in Target |->
                        successes[t] + (IF rec[t] = "success" THEN 1 ELSE 0)]
    /\ failures' = [t \in Target |->
                        failures[t] + (IF rec[t] = "failure" THEN 1 ELSE 0)]

\* a job insert that raises: executemany has got to some of the rows, or to none,
\* or to all and the commit has raised
InsertedInPart(rec) ==
    \E S \in SUBSET Target :
        Inserted([t \in Target |-> IF t \in S THEN rec[t] ELSE "none"])

Disabled(T) == [t \in Target |-> IF t \in T /\ row[t] = "enabled"
                                 THEN "disabled" ELSE row[t]]

-----------------------------------------------------------------------------
\* /scrape registers one url or a list of urls in one executemany; its commit may
\* still be under way, or raise: the client gets no uuid, but the rows are there
Scrape(S) ==
    /\ S # {} /\ \A t \in S : row[t] = "absent"
    /\ row' = [t \in Target |-> IF t \in S THEN "enabled" ELSE row[t]]
    /\ UNCHANGED <<successes, failures, memory, loop, hibernate, api, poll, attempts>>
    /\ Commits \/ UNCHANGED disk

-----------------------------------------------------------------------------
\* Mutant: the loop looks at the lock and does not take it.
StartsUnlocked ==
    /\ loop = "asleep" /\ ~locked /\ loop' = "discover"
    /\ UNCHANGED <<database, memory, hibernate, api, poll, attempts>>

(***************************************************************************)
(* background_update.  A cycle that finds __lock_hibernate taken is        *)
(* skipped: it changes nothing and is a stuttering step here.              *)
(***************************************************************************)
StartUpdate ==
    /\ loop = "asleep" /\ ~locked
    /\ \/ Acquire /\ loop' = "discover"
       \/ Enqueue("update") /\ loop' = "queued"
    /\ UNCHANGED <<database, memory, api, poll, attempts>>

WakeUpdate ==
    /\ loop = "queued" /\ Woken("update") /\ loop' = "discover"
    /\ UNCHANGED <<database, memory, api, poll, attempts>>

\* the log statement of the start, __update_available_nodes and __update_nodes
Discover ==
    /\ loop = "discover"
    /\ \/ loop' = "retrieve"
       \/ "node" \in Faults /\ loop' = "finish"
    /\ UNCHANGED <<table, memory, hibernate, api, poll, attempts>>
    /\ Commits

\* Mutant: the retrieved tasks are left in __current_tasks.
RetrievesAndKeeps ==
    /\ loop = "retrieve" /\ ~TasksLocked /\ ~Raised
    /\ loop' = IF \E t \in Target : Done(t) THEN "store" ELSE "disable_success"
    /\ completed' = [t \in Target |-> IF Done(t) THEN task[t] ELSE "none"]
    /\ UNCHANGED <<database, task, picked, hibernate, api, poll, attempts>>

\* Mutant: only the records of successful tasks are taken as completed.
RetrievesSuccesses ==
    /\ loop = "retrieve" /\ ~TasksLocked /\ ~Raised
    /\ loop' = IF \E t \in Target : task[t] = "success" THEN "store" ELSE "disable_success"
    /\ completed' = [t \in Target |-> IF task[t] = "success" THEN "success" ELSE "none"]
    /\ task' = [t \in Target |-> IF task[t] = "success" THEN "none" ELSE task[t]]
    /\ UNCHANGED <<database, picked, hibernate, api, poll, attempts>>

\* a task that raised makes gather raise, and none of the others is retrieved
RetrieveTasks ==
    /\ loop = "retrieve" /\ ~TasksLocked
    /\ \/ /\ Raised /\ loop' = "finish"
          /\ UNCHANGED <<task, completed>>
       \/ /\ ~Raised
          /\ loop' = IF \E t \in Target : Done(t) THEN "store" ELSE "disable_success"
          /\ completed' = [t \in Target |-> IF Done(t) THEN task[t] ELSE "none"]
          /\ task' = [t \in Target |-> IF Done(t) THEN "none" ELSE task[t]]
    /\ UNCHANGED <<database, picked, hibernate, api, poll, attempts>>

\* insert_job_records: executemany, then the commit
InsertRecords ==
    /\ loop = "store" /\ loop' = "commit"
    /\ Inserted(completed)
    /\ completed' = [t \in Target |-> "none"]
    /\ UNCHANGED <<row, disk, task, picked, hibernate, api, poll, attempts>>

CommitRecords ==
    /\ loop = "commit" /\ loop' = "disable_success"
    /\ UNCHANGED <<table, memory, hibernate, api, poll, attempts>>
    /\ Commits

\* insert_job_records raises: the local list of records is gone, and the rows that
\* were written become durable with the next commit, if one comes before a restart
InsertFails ==
    /\ "insert" \in Faults
    /\ loop = "store" /\ loop' = "finish"
    /\ InsertedInPart(completed)
    /\ completed' = [t \in Target |-> "none"]
    /\ UNCHANGED <<row, disk, task, picked, hibernate, api, poll, attempts>>

\* Mutant: the UPDATE finds no successful target.
DisablesNone ==
    /\ loop = "disable_success" /\ loop' = "disable_failure"
    /\ UNCHANGED <<database, memory, hibernate, api, poll, attempts>>

DisableSuccessfulTargets ==
    /\ loop = "disable_success" /\ loop' = "disable_failure"
    /\ row' = Disabled({t \in Target : successes[t] > 0})
    /\ UNCHANGED <<successes, failures, memory, hibernate, api, poll, attempts>>
    /\ Commits

\* Mutant: off by one in the number of retries.
DisablesAfterOneMore ==
    /\ loop = "disable_failure" /\ loop' = "select"
    /\ row' = Disabled({t \in Target : failures[t] > Retries})
    /\ UNCHANGED <<successes, failures, memory, hibernate, api, poll, attempts>>
    /\ Commits

DisableUnsuccessfulTargets ==
    /\ loop = "disable_failure" /\ loop' = "select"
    /\ row' = Disabled({t \in Target : failures[t] >= Retries})
    /\ UNCHANGED <<successes, failures, memory, hibernate, api, poll, attempts>>
    /\ Commits

Selectable == {t \in Target : row[t] = "enabled" /\ task[t] = "none"}

\* __get_target: the enabled target without a task that is due first
GetTarget ==
    /\ loop = "select" /\ ~TasksLocked
    /\ \/ /\ Selectable = {} /\ loop' = "finish"
          /\ UNCHANGED picked
       \/ \E t \in Selectable :
             /\ \A u \in Selectable : Due[t] <= Due[u]
             /\ picked' = {t} /\ loop' = "assign"
    /\ UNCHANGED <<database, task, completed, hibernate, api, poll, attempts>>

\* a browser was found: the end of __distribute_task
Launch ==
    /\ loop = "assign" /\ loop' = "finish" /\ ~TasksLocked
    /\ task' = [t \in Target |-> IF t \in picked THEN "running" ELSE task[t]]
    /\ attempts' = [t \in Target |-> IF t \in picked THEN attempts[t] + 1
                                     ELSE attempts[t]]
    /\ picked' = {}
    /\ UNCHANGED <<database, completed, hibernate, api, poll>>

NoBrowser ==
    /\ loop = "assign" /\ loop' = "finish"
    /\ picked' = {}
    /\ UNCHANGED <<database, task, completed, hibernate, api, poll, attempts>>

\* the log statement of the end
FinishUpdate ==
    /\ loop = "finish" /\ loop' = "asleep" /\ Release
    /\ UNCHANGED <<table, memory, api, poll, attempts>>
    /\ Commits

(***************************************************************************)
(* A statement raises inside the try block: the rest of the cycle is       *)
(* skipped.  The commit of an UPDATE may fail after the rows were changed. *)
(***************************************************************************)
CycleAborts ==
    /\ "statement" \in Faults
    /\ loop \in {"retrieve", "disable_success", "disable_failure", "select", "assign"}
    /\ loop = "retrieve" => \E t \in Target : task[t] = "failure"
    /\ loop' = "finish" /\ picked' = {}
    /\ row' \in {row} \cup
                (IF loop = "disable_success"
                 THEN {Disabled({t \in Target : successes[t] > 0})} ELSE {}) \cup
                (IF loop = "disable_failure"
                 THEN {Disabled({t \in Target : failures[t] >= Retries})} ELSE {})
    /\ UNCHANGED <<successes, failures, disk, task, completed, hibernate, api, poll, attempts>>

(***************************************************************************)
(* The log statements of __update are outside the try block (the skipped   *)
(* cycle and the start) or in its finally clause: a failure ends the       *)
(* background task.  async with releases the lock on the way out.          *)
(***************************************************************************)
LoopDies ==
    /\ "statement" \in Faults
    /\ loop' = "dead"
    /\ \/ loop = "asleep" /\ locked /\ UNCHANGED hibernate
       \/ loop \in {"discover", "finish"} /\ Release
    /\ UNCHANGED <<database, memory, api, poll, attempts>>

-----------------------------------------------------------------------------
\* what the coroutine BrowserImage.get of a task ends with
Outcome == {"success", "failure"} \cup
           (IF "transport" \in Faults THEN {"raised"} ELSE {})

Finish(t, o) ==
    /\ task[t] = "running"
    /\ task' = [task EXCEPT ![t] = o]
    /\ UNCHANGED <<database, completed, picked, loop, hibernate, api, poll, attempts>>

-----------------------------------------------------------------------------
(***************************************************************************)
(* /clear.  The handler holds __lock_hibernate over the stages its flags   *)
(* ask for.                                                                *)
(***************************************************************************)
AfterKill(f) == IF "retire" \in f THEN "retire" ELSE "reply"
AfterCancel(f) == IF "kill" \in f THEN "kill" ELSE AfterKill(f)
FirstStage(f) == IF "cancel" \in f THEN "cancel" ELSE AfterCancel(f)

\* Mutant: the handler does not wait for the lock.
ClearsUnlocked(c, f) ==
    /\ clear[c] = "idle"
    /\ flags' = [flags EXCEPT ![c] = f]
    /\ clear' = [clear EXCEPT ![c] = FirstStage(f)]
    /\ UNCHANGED <<database, memory, loop, hibernate, poll, attempts>>

ClearRequest(c, f) ==
    /\ clear[c] = "idle"
    /\ flags' = [flags EXCEPT ![c] = f]
    /\ \/ Acquire /\ clear' = [clear EXCEPT ![c] = FirstStage(f)]
       \/ Enqueue(c) /\ clear' = [clear EXCEPT ![c] = "queued"]
    /\ UNCHANGED <<database, memory, loop, poll, attempts>>

ClearWake(c) ==
    /\ clear[c] = "queued" /\ Woken(c)
    /\ clear' = [clear EXCEPT ![c] = FirstStage(flags[c])]
    /\ UNCHANGED <<database, memory, loop, flags, poll, attempts>>

\* Mutant: the lock is not released.
ClearEndsHolding(c) ==
    /\ clear' = [clear EXCEPT ![c] = "idle"]
    /\ flags' = [flags EXCEPT ![c] = {}]
    /\ UNCHANGED hibernate

\* the handler ends, with 204 or 500; async with releases the lock
ClearEnds(c) ==
    /\ clear' = [clear EXCEPT ![c] = "idle"]
    /\ flags' = [flags EXCEPT ![c] = {}]
    /\ Release

\* Mutant: the status of the record takes the place of its success flag.
CancelledAs == [t \in Target |-> IF task[t] = "running" THEN "aborted" ELSE task[t]]

Cancelled == [t \in Target |-> IF task[t] = "running" THEN "failure" ELSE task[t]]

\* Mutant: tasks that had already ended are taken for retrieved.
CancelsRunningOnly(c) ==
    /\ clear[c] = "cancel" /\ ~Raised
    /\ task' = Cancelled
    /\ clear' = [clear EXCEPT ![c] =
                    IF \E t \in Target : task[t] = "running"
                    THEN "store" ELSE AfterCancel(flags[c])]
    /\ UNCHANGED <<database, completed, picked, loop, hibernate, flags, poll, attempts>>

(***************************************************************************)
(* cancel_running_tasks: every task that still runs is cancelled and gives *)
(* an "aborted" record.  A task that raised makes gather raise: the        *)
(* cancelled tasks stay in __current_tasks.                                *)
(***************************************************************************)
CancelTasks(c) ==
    /\ clear[c] = "cancel"
    /\ task' = Cancelled
    /\ \/ /\ Raised /\ ClearEnds(c)
       \/ /\ ~Raised /\ UNCHANGED <<hibernate, flags>>
          /\ clear' = [clear EXCEPT ![c] =
                IF \E t \in Target : task[t] # "none"
                THEN "store" ELSE AfterCancel(flags[c])]
    /\ UNCHANGED <<database, completed, picked, loop, poll, attempts>>

\* Mutant: __current_tasks is not reset.
StoresAndKeeps(c) ==
    /\ clear[c] = "store" /\ clear' = [clear EXCEPT ![c] = "commit"]
    /\ Inserted(task)
    /\ UNCHANGED <<row, disk, memory, loop, hibernate, flags, poll, attempts>>

\* the insert of the cancelled records; __current_tasks is reset after its commit,
\* before its lock lets anybody see it
StoreCancelled(c) ==
    /\ clear[c] = "store" /\ clear' = [clear EXCEPT ![c] = "commit"]
    /\ Inserted(task)
    /\ task' = [t \in Target |-> "none"]
    /\ UNCHANGED <<row, disk, completed, picked, loop, hibernate, flags, poll, attempts>>

CommitCancelled(c) ==
    /\ clear[c] = "commit"
    /\ clear' = [clear EXCEPT ![c] = AfterCancel(flags[c])]
    /\ UNCHANGED <<table, memory, loop, hibernate, flags, poll, attempts>>
    /\ Commits

\* the insert of the cancelled records raises, and __current_tasks is not reset
StoreCancelledFails(c) ==
    /\ "insert" \in Faults
    /\ clear[c] = "store" /\ ClearEnds(c)
    /\ InsertedInPart(task)
    /\ UNCHANGED <<row, disk, memory, loop, poll, attempts>>

\* kill_browsers swallows every error; its effect is on the scrapers
KillBrowsers(c) ==
    /\ clear[c] = "kill"
    /\ clear' = [clear EXCEPT ![c] = AfterKill(flags[c])]
    /\ UNCHANGED <<database, memory, loop, hibernate, flags, poll, attempts>>

\* disable_unassigned_targets
RetireTargets(c) ==
    /\ clear[c] = "retire"
    /\ clear' = [clear EXCEPT ![c] = "reply"]
    /\ row' = Disabled(Target)
    /\ UNCHANGED <<successes, failures, memory, loop, hibernate, flags, poll, attempts>>
    /\ Commits

\* the log statement for a record that failed, or the UPDATE, raises
ClearStatementFails(c) ==
    /\ "statement" \in Faults
    /\ \/ /\ clear[c] = "cancel" /\ \E t \in Target : task[t] = "failure"
          /\ task' = Cancelled /\ UNCHANGED row
       \/ clear[c] = "retire" /\ row' \in {row, Disabled(Target)} /\ UNCHANGED task
    /\ ClearEnds(c)
    /\ UNCHANGED <<successes, failures, disk, completed, picked, loop, poll, attempts>>

ClearReply(c) ==
    /\ clear[c] = "reply" /\ ClearEnds(c)
    /\ UNCHANGED <<database, memory, loop, poll, attempts>>

-----------------------------------------------------------------------------
(***************************************************************************)
(* /collect reads the targets table, then __current_tasks under its lock,  *)
(* then the jobs table; the rest of the broker runs in between.  What      *)
(* raises in one of the three is answered with 500.                        *)
(***************************************************************************)
Answer(t, n) ==
    /\ collect' = [collect EXCEPT ![t] = "idle"]
    /\ code' = [code EXCEPT ![t] = n]
    /\ held' = IF n = 200 THEN held \cup {t} ELSE held

Advance(t, s) == collect' = [collect EXCEPT ![t] = s] /\ UNCHANGED <<code, held>>

CollectFails(t) == "statement" \in Faults /\ Answer(t, 500)

CollectKnown(t) ==
    /\ collect[t] = "idle"
    /\ \/ row[t] = "absent" /\ Answer(t, 404)
       \/ row[t] # "absent" /\ Advance(t, "running")
       \/ CollectFails(t)
    /\ UNCHANGED <<database, memory, loop, hibernate, api, attempts>>

CollectRunning(t) ==
    /\ collect[t] = "running" /\ ~TasksLocked
    /\ \/ task[t] # "none" /\ Answer(t, 425)
       \/ task[t] = "none" /\ Advance(t, "job")
       \/ CollectFails(t)
    /\ UNCHANGED <<database, memory, loop, hibernate, api, attempts>>

CollectJob(t) ==
    /\ collect[t] = "job"
    /\ Answer(t, IF successes[t] > 0 THEN 200 ELSE 425) \/ CollectFails(t)
    /\ UNCHANGED <<database, memory, loop, hibernate, api, attempts>>

-----------------------------------------------------------------------------
\* Mutant: the drop of the jobs table is forgotten.
DropsTargetsOnly ==
    /\ row' = IF ClearDbOnStartup THEN [t \in Target |-> "absent"] ELSE disk.row
    /\ successes' = disk.successes /\ failures' = disk.failures

\* the tables are dropped when configured to, and created when they are missing;
\* without a drop they are what was committed
InitializeDatabase ==
    IF ClearDbOnStartup
    THEN /\ row' = [t \in Target |-> "absent"]
         /\ successes' = [t \in Target |-> 0]
         /\ failures' = [t \in Target |-> 0]
    ELSE /\ row' = disk.row
         /\ successes' = disk.successes
         /\ failures' = disk.failures

(***************************************************************************)
(* The process stops at any point and starts again: the memory is gone and *)
(* every handler with it.  A client that is polling keeps its last answer  *)
(* unless the tables were dropped.  The histories forget the attempts      *)
(* whose record was not committed, and the clients whose content was not.  *)
(***************************************************************************)
Restart ==
    /\ "restart" \in Faults
    /\ InitializeDatabase /\ Commits
    /\ code' = IF ClearDbOnStartup THEN [t \in Polled |-> 0] ELSE code
    /\ task' = [t \in Target |-> "none"]
    /\ completed' = [t \in Target |-> "none"]
    /\ picked' = {}
    /\ loop' = "asleep"
    /\ locked' = FALSE
    /\ waiters' = <<>>
    /\ clear' = [c \in ClearReq |-> "idle"]
    /\ flags' = [c \in ClearReq |-> {}]
    /\ collect' = [t \in Polled |-> "idle"]
    /\ attempts' = [t \in Target |-> successes'[t] + failures'[t]]
    /\ held' = {t \in held : successes'[t] > 0}

-----------------------------------------------------------------------------
LoopStep ==
    \/ StartUpdate \/ WakeUpdate \/ Discover \/ RetrieveTasks \/ InsertRecords \/ CommitRecords
    \/ DisableSuccessfulTargets \/ DisableUnsuccessfulTargets \/ GetTarget
    \/ Launch \/ NoBrowser \/ FinishUpdate

LoopFault == InsertFails \/ CycleAborts \/ LoopDies

ClearStep(c) ==
    \/ ClearWake(c) \/ CancelTasks(c) \/ StoreCancelled(c) \/ CommitCancelled(c)
    \/ KillBrowsers(c) \/ RetireTargets(c) \/ ClearReply(c)

ClearFault(c) == StoreCancelledFails(c) \/ ClearStatementFails(c)

CollectStep(t) == CollectKnown(t) \/ CollectRunning(t) \/ CollectJob(t)

Next ==
    \/ \E S \in SUBSET Target : Scrape(S)
    \/ LoopStep
    \/ LoopFault
    \/ \E t \in Target : \E o \in Outcome : Finish(t, o)
    \/ \E c \in ClearReq : \E f \in Asked : ClearRequest(c, f)
    \/ \E c \in ClearReq : ClearStep(c) \/ ClearFault(c)
    \/ \E t \in Polled : CollectStep(t)
    \/ Commit
    \/ Restart

Spec == Init /\ [][Next]_vars

(***************************************************************************)
(* Fairness: the event loop runs every ready coroutine; every task ends,   *)
(* because its HTTP request has a timeout; and a fleet that is asked again *)
(* and again has a free browser at last (strong fairness of Launch).       *)
(***************************************************************************)
FairSpec ==
    /\ Spec
    /\ WF_vars(LoopStep) /\ SF_vars(Launch)
    /\ \A t \in Target : WF_vars(\E o \in Outcome : Finish(t, o))
    /\ \A c \in ClearReq : WF_vars(ClearStep(c))
-----------------------------------------------------------------------------
(***************************************************************************)
(* Properties.                                                             *)
(***************************************************************************)

TableType ==
    /\ row \in [Target -> RowState]
    /\ successes \in [Target -> Nat]
    /\ failures \in [Target -> Nat]
    /\ disk \in [row : [Target -> RowState], successes : [Target -> Nat],
                failures : [Target -> Nat]]
    /\ attempts \in [Target -> Nat]

MemoryType ==
    /\ task \in [Target -> TaskState]
    /\ completed \in [Target -> RecordState]
    /\ picked \in SUBSET Target

LoopType ==
    /\ loop \in LoopState
    /\ locked \in BOOLEAN
    /\ waiters \in Seq(ClearReq \cup {"update"})

ApiType ==
    /\ clear \in [ClearReq -> ClearState]
    /\ flags \in [ClearReq -> SUBSET Flag]
    /\ collect \in [Polled -> CollectState]
    /\ code \in [Polled -> {0, 200, 404, 425, 500}]
    /\ held \in SUBSET Polled

\* The type of every variable: the shape of the tables, of __current_tasks
\* and of the handlers.
TypeOK == TableType /\ MemoryType /\ LoopType /\ ApiType

\* An attempt of the target is in flight or its record is not in the table.
Unrecorded(t) == task[t] # "none" \/ completed[t] # "none"

\* __lock_hibernate does what its docstring asks: an update cycle and a
\* /clear never overlap, and two /clear never overlap, although each of them
\* suspends many times and waiters are woken one step after the release.
HibernateIsExclusive ==
    /\ \A c \in ClearReq : clear[c] \in ClearInside => loop \notin LoopInside
    /\ \A c, d \in ClearReq :
          clear[c] \in ClearInside /\ clear[d] \in ClearInside => c = d

\* No attempt is lost or written twice on its way from __current_tasks through
\* the list of completed records to the jobs table, whichever of the update
\* loop and /clear retrieves it.
EveryAttemptRecordedOnce ==
    \A t \in Target :
        attempts[t] = successes[t] + failures[t] + (IF Unrecorded(t) THEN 1 ELSE 0)

\* A target is never tried more than Config.RETRIES times, nor again once it
\* has succeeded, across cancellations, restarts and attempts in flight.
RetryBound ==
    \A t \in Target :
        /\ successes[t] + failures[t] + (IF Unrecorded(t) THEN 1 ELSE 0) <= Retries
        /\ successes[t] <= 1
        /\ Unrecorded(t) => successes[t] = 0

\* A /clear that was asked to cancel finds no task and no pending record once
\* it is past cancel_running_tasks, until it answers.
ClearLeavesNoTask ==
    \A c \in ClearReq :
        "cancel" \in flags[c] /\ clear[c] \in {"kill", "retire", "reply"}
            => \A t \in Target : ~Unrecorded(t)

\* A task is started only for an enabled target that has no attempt in flight,
\* has not succeeded, has retries left, and while no /clear is at work, although
\* the target was selected several suspension points earlier.
StartOnlyEligible ==
    [][\A t \in Target : task[t] = "none" /\ task'[t] = "running" =>
          /\ row[t] = "enabled" /\ completed[t] = "none"
          /\ successes[t] = 0 /\ failures[t] < Retries
          /\ \A c \in ClearReq : clear[c] \notin ClearInside]_vars

\* A client that was given the content of its target is given it again, at any
\* later time and after any restart that keeps the tables, although a request of its
\* may fail in between (500): the one exception is a restart that comes before the
\* commit of the row it was given.
SuccessStaysCollectable ==
    [][\A t \in held : code'[t] # code[t] =>
          code'[t] \in {200, 500} \/ row'[t] = "absent"]_vars

\* Cycles get through to the selection again and again and select a target when
\* there is one, clients send no more /clear, and no exchange ended in an exception.
Recovers ==
    /\ []<>(loop = "select") /\ []<>(loop = "assign" \/ Selectable = {})
    /\ <>[](~Raised /\ \A c \in ClearReq : clear[c] = "idle")

\* Every registered target is settled at last, disabled by a success, by Retries
\* failures or by a /clear, whatever cycles were aborted and whatever was
\* cancelled before, if the broker recovers from it.
EveryTargetSettles ==
    Recovers => \A t \in Target : row[t] = "enabled" ~> row[t] = "disabled"

\* A task that has ended is retrieved and its record reaches the jobs table.
FinishedTaskIsRecorded ==
    \A t \in Target : Done(t) ~> ~Unrecorded(t)

\* Every /clear is answered, even when cycles abort or the loop dies.
ClearAnswered ==
    \A c \in ClearReq : clear[c] # "idle" ~> clear[c] = "idle"
-----------------------------------------------------------------------------
(***************************************************************************)
(* What the properties rest on: an inductive invariant in named parts.     *)
(* ControlInv and CollectInv hold under every fault; the other two parts   *)
(* of LedgerInv need a job insert that does not fail.                      *)
(***************************************************************************)
LockInv ==
    /\ locked <=> loop \in LoopInside \/ \E c \in ClearReq : clear[c] \in ClearInside
    /\ HibernateIsExclusive

\* records wait for their insert only in the store stages, apart from the task
StoreInv ==
    /\ \A t \in Target : completed[t] # "none" => loop = "store" /\ task[t] = "none"
    /\ \A c \in ClearReq, t \in Target :
          /\ clear[c] = "store" => task[t] \in {"none", "success", "failure"}
          /\ clear[c] = "commit" => task[t] = "none"

\* what is committed is a part of what is written, and whole in itself
DiskInv ==
    \A t \in Target :
        /\ disk.successes[t] <= successes[t] /\ disk.failures[t] <= failures[t]
        /\ disk.row[t] = "absent" => disk.successes[t] = 0 /\ disk.failures[t] = 0

UnknownInv ==
    \A t \in Target : row[t] = "absent" =>
        successes[t] = 0 /\ failures[t] = 0 /\ ~Unrecorded(t)

\* what the two disable statements have established when a target is selected
EligibleInv ==
    \A t \in Target : row[t] = "enabled" =>
        /\ loop \in {"disable_failure", "select", "assign"} => successes[t] = 0
        /\ loop \in {"select", "assign"} => failures[t] < Retries

PickInv ==
    /\ picked # {} => loop = "assign"
    /\ \A t \in picked : row[t] = "enabled" /\ task[t] = "none"
    /\ \A t, u \in picked : t = u

ControlInv ==
    /\ TypeOK /\ LockInv /\ StoreInv /\ DiskInv /\ UnknownInv /\ EligibleInv /\ PickInv
    /\ ClearLeavesNoTask

CollectInv == \A t \in held : successes[t] > 0

LedgerInv == ControlInv /\ EveryAttemptRecordedOnce /\ RetryBound /\ CollectInv

-----------------------------------------------------------------------------
(***************************************************************************)
(* What the broker promises about a target, whatever its machinery.        *)
(***************************************************************************)
Promise == INSTANCE Ledger WITH open <- {t \in Target : Unrecorded(t)}, saved <- disk

\* The broker implements the ledger of targets and attempts.
LedgerSpec == Promise!Spec
=============================================================================
