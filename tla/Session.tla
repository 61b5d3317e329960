------------------------------ MODULE Session ------------------------------
(***************************************************************************)
(* One Browser object of a scraper (src/scraper/core/Browser.py): the      *)
(* processes it starts, the requests that share its only tab, and its      *)
(* kill.  A step of a request runs from one suspension point to the next.  *)
(*                                                                         *)
(* Most waits go through asyncio.wait_for of Python 3.10, which swallows a *)
(* cancellation that finds the awaited step ended.                         *)
(***************************************************************************)
EXTENDS Naturals, Sequences, FiniteSets

CONSTANTS
    Get,        \* /get requests on this browser
    Lazy,       \* those with flag_lazy_loading
    TheId,      \* the instance id of the browser
    TheBrowser, \* the name of this object
    NoBrowser

ASSUME SessionAssumption == Lazy \subseteq Get /\ TheBrowser # NoBrowser

VARIABLES
    life,       \* what the object is at
    running,    \* the processes and the thread of the browser that are alive
    parts,      \* the parts of Browser.kill that have not returned
    insisted,   \* kill has cancelled the tasks for the second time
    at,         \* where the task of each request is
    ended,      \* requests whose awaited step has ended
    cancelled,  \* requests with a cancellation still to be delivered
    swallowed,  \* history: how many cancellations each request has swallowed
    record,     \* the status of the BrowsingRecord of each request
    locked,     \* __get_lock.locked()
    waiters,    \* the FIFO of requests waiting for __get_lock
    recovering, \* recovery_period > now
    spotted     \* spotted

process == <<running, parts>>
task == <<at, ended, cancelled, swallowed, record>>
lock == <<locked, waiters>>
tab == <<recovering, spotted>>
vars == <<life, process, insisted, task, lock, tab>>

INSTANCE AsyncLock

Stage == {"load", "settle", "search", "resolve", "check", "lazy", "content"}
\* smart_wait and check_cf_blocking_content have no time-out
Timed == Stage \ {"settle", "check"}
Status == {"success", "failed", "blocked", "aborted", "raised"}
KillPart == {"driver", "unpacker", "streamer", "display"}

TypeOK ==
    /\ life \in {"unborn", "creating", "live", "stopping", "closing", "gone"}
    /\ running \in SUBSET {"Xvfb", "chrome", "ffmpeg", "thread"}
    /\ parts \in SUBSET KillPart
    /\ insisted \in BOOLEAN
    /\ at \in [Get -> {"away", "scheduled", "queued", "resting", "done"} \cup Stage]
    /\ ended \in SUBSET Get /\ cancelled \in SUBSET Get
    /\ swallowed \in [Get -> 0 .. 2]
    /\ record \in [Get -> Status \cup {"none"}]
    /\ locked \in BOOLEAN /\ waiters \in Seq(Get)
    /\ recovering \in BOOLEAN /\ spotted \in BOOLEAN

Init ==
    /\ life = "unborn" /\ running = {} /\ parts = {} /\ insisted = FALSE
    /\ at = [g \in Get |-> "away"]
    /\ ended = {} /\ cancelled = {}
    /\ swallowed = [g \in Get |-> 0]
    /\ record = [g \in Get |-> "none"]
    /\ locked = FALSE /\ waiters = <<>>
    /\ recovering = FALSE /\ spotted = FALSE

\* the requests whose task has not ended: __browser_active_tasks
Active == {g \in Get : at[g] \notin {"away", "done"}}

-----------------------------------------------------------------------------
(***************************************************************************)
(* Creation: the display, then Chrome, then ffmpeg and the thread at once. *)
(***************************************************************************)
CreateDisplay ==
    /\ life = "unborn" /\ life' = "creating"
    /\ running' = running \cup {"Xvfb"}
    /\ UNCHANGED <<parts, insisted, task, lock, tab>>

FinishCreation ==
    /\ life = "creating" /\ life' = "live"
    /\ running' = running \cup {"chrome", "ffmpeg", "thread"}
    /\ UNCHANGED <<parts, insisted, task, lock, tab>>

\* Driver.create or Streamer raises; what runs already is left running
CreationFails ==
    /\ life = "creating" /\ life' = "gone"
    /\ running' \in {running, running \cup {"chrome"}}
    /\ UNCHANGED <<parts, insisted, task, lock, tab>>

-----------------------------------------------------------------------------
(***************************************************************************)
(* get_or_abort: the lock, the recovery period, the stages of get.         *)
(***************************************************************************)
Go(g, place) == at' = [at EXCEPT ![g] = place]

\* the task has __get_lock: it rests or goes on at once
Enter(g) == Go(g, IF recovering THEN "resting" ELSE "load")

\* the task leaves a record; the recovery period follows a get that has returned
Finish(g, status) ==
    /\ Go(g, "done") /\ record' = [record EXCEPT ![g] = status]
    /\ Release
    /\ recovering' = (recovering \/ status \in {"success", "failed", "blocked"})
    /\ spotted' = (spotted \/ status = "blocked")

\* Scraper.get creates the task
Admit(g) ==
    /\ life = "live" /\ at[g] = "away" /\ Go(g, "scheduled")
    /\ UNCHANGED <<life, process, insisted, ended, cancelled, swallowed, record, lock, tab>>

\* Mutant: the lock is not taken.
StartsAnyway(g) ==
    /\ at[g] = "scheduled" /\ g \notin cancelled /\ Enter(g)
    /\ UNCHANGED <<life, process, insisted, ended, cancelled, swallowed, record, lock, tab>>

Start(g) ==
    /\ at[g] = "scheduled" /\ g \notin cancelled
    /\ \/ Acquire /\ Enter(g)
       \/ Enqueue(g) /\ Go(g, "queued")
    /\ UNCHANGED <<life, process, insisted, ended, cancelled, swallowed, record, tab>>

\* Mutant: the recovery period is not looked at.
TurnsAtOnce(g) ==
    /\ at[g] = "queued" /\ g \notin cancelled /\ Woken(g) /\ Go(g, "load")
    /\ UNCHANGED <<life, process, insisted, ended, cancelled, swallowed, record, tab>>

\* the first waiter takes the lock
Turn(g) ==
    /\ at[g] = "queued" /\ g \notin cancelled /\ Woken(g) /\ Enter(g)
    /\ UNCHANGED <<life, process, insisted, ended, cancelled, swallowed, record, tab>>

RecoveryEnds ==
    /\ recovering /\ recovering' = FALSE
    /\ UNCHANGED <<life, process, insisted, task, lock, spotted>>

Rested(g) ==
    /\ at[g] = "resting" /\ g \notin cancelled /\ ~recovering /\ Go(g, "load")
    /\ UNCHANGED <<life, process, insisted, ended, cancelled, swallowed, record, lock, tab>>

\* the step a stage awaits ends: Chrome answers, or the connection breaks
StepEnds(g) ==
    /\ at[g] \in Stage /\ g \notin ended /\ ended' = ended \cup {g}
    /\ UNCHANGED <<life, process, insisted, at, cancelled, swallowed, record, lock, tab>>

\* where a stage leads: the next one, or the status of the record
Answers(g) ==
    CASE at[g] = "load"    -> {"settle"}
      [] at[g] = "settle"  -> {"search"}
      [] at[g] = "search"  -> {"resolve", "check"}
      [] at[g] = "resolve" -> {"check"}
      [] at[g] = "check"   -> {"blocked", IF g \in Lazy /\ ~spotted THEN "lazy" ELSE "content"}
      [] at[g] = "lazy"    -> {}
      [] at[g] = "content" -> {"success"}

\* Mutant: a page that does not load in time counts as aborted.
TimesOutAsAborted(g) ==
    CASE at[g] = "load"                  -> "aborted"
      [] at[g] = "content"               -> "failed"
      [] at[g] \in {"search", "resolve"} -> "check"
      [] at[g] = "lazy"                  -> "content"

OnTimeout(g) ==
    CASE at[g] \in {"load", "content"}   -> "failed"
      [] at[g] \in {"search", "resolve"} -> "check"
      [] at[g] = "lazy"                  -> "content"

GoOn(g, next) ==
    \/ next \in Stage /\ Go(g, next) /\ UNCHANGED <<record, lock, tab>>
    \/ next \in Status /\ Finish(g, next)

(***************************************************************************)
(* The task takes the result of the step, or its exception.  A pending     *)
(* cancellation is swallowed by wait_for, not by the untimed stages.       *)
(***************************************************************************)
Resume(g) ==
    /\ at[g] \in Stage /\ g \in ended /\ (g \in cancelled => at[g] \in Timed)
    /\ ended' = ended \ {g} /\ cancelled' = cancelled \ {g}
    /\ swallowed' = IF g \in cancelled THEN [swallowed EXCEPT ![g] = @ + 1] ELSE swallowed
    /\ \E next \in Answers(g) \cup {"raised"} : GoOn(g, next)
    /\ UNCHANGED <<life, process, insisted>>

TimeOut(g) ==
    /\ at[g] \in Timed /\ g \notin ended \cup cancelled
    /\ GoOn(g, OnTimeout(g))
    /\ UNCHANGED <<life, process, insisted, ended, cancelled, swallowed>>

-----------------------------------------------------------------------------
\* CancelledError is raised in a task that holds the lock or waits for it
Abort(g) ==
    /\ g \in cancelled
    /\ \/ at[g] = "queued" /\ Withdraw(g)
       \/ /\ at[g] = "resting" \/ (at[g] \in Stage /\ (g \in ended => at[g] \notin Timed))
          /\ Release
    /\ Go(g, "done") /\ record' = [record EXCEPT ![g] = "aborted"]
    /\ ended' = ended \ {g} /\ cancelled' = cancelled \ {g}
    /\ UNCHANGED <<life, process, insisted, swallowed, tab>>

\* a task cancelled before its first step leaves no record
Drop(g) ==
    /\ at[g] = "scheduled" /\ g \in cancelled
    /\ Go(g, "done") /\ cancelled' = cancelled \ {g}
    /\ UNCHANGED <<life, process, insisted, ended, swallowed, record, lock, tab>>

\* Mutant: only the tasks that are not in the queue are cancelled.
KillsHolderOnly ==
    /\ life = "live" /\ life' = "stopping"
    /\ cancelled' = {g \in Active : at[g] # "queued"}
    /\ UNCHANGED <<process, insisted, at, ended, swallowed, record, lock, tab>>

\* Scraper.kill: the tasks of the browser are cancelled
Kill ==
    /\ life = "live" /\ life' = "stopping" /\ cancelled' = Active
    /\ UNCHANGED <<process, insisted, at, ended, swallowed, record, lock, tab>>

\* Mutant: the tasks are cancelled again and again.
InsistsForever ==
    /\ life = "stopping" /\ Active # {} /\ cancelled = {}
    /\ insisted' = TRUE /\ cancelled' = Active
    /\ UNCHANGED <<life, process, at, ended, swallowed, record, lock, tab>>

\* Mutant: the tasks are not cancelled again.
WaitsOn ==
    /\ life = "stopping" /\ ~insisted /\ Active # {} /\ cancelled = {}
    /\ insisted' = TRUE
    /\ UNCHANGED <<life, process, at, ended, cancelled, swallowed, record, lock, tab>>

\* after 2 s the time-out of wait_for cancels them again, and waits on; the event
\* loop has delivered the first cancellations before
Insist ==
    /\ life = "stopping" /\ ~insisted /\ Active # {} /\ cancelled = {}
    /\ insisted' = TRUE /\ cancelled' = Active
    /\ UNCHANGED <<life, process, at, ended, swallowed, record, lock, tab>>

\* Mutant: kill does not wait for the tasks it has cancelled.
ClosesAtOnce ==
    /\ life = "stopping"
    /\ life' = "closing" /\ parts' = KillPart
    /\ UNCHANGED <<running, insisted, task, lock, tab>>

\* Mutant: the streamer is not killed.
ClosesWithoutStreamer ==
    /\ life = "stopping" /\ Active = {}
    /\ life' = "closing" /\ parts' = KillPart \ {"streamer"}
    /\ UNCHANGED <<running, insisted, task, lock, tab>>

Close ==
    /\ life = "stopping" /\ Active = {}
    /\ life' = "closing" /\ parts' = KillPart
    /\ UNCHANGED <<running, insisted, task, lock, tab>>

\* Driver.kill: Chrome stops, or does not within 5 s, or stop raises
StopDriver ==
    /\ "driver" \in parts /\ parts' = parts \ {"driver"}
    /\ running' \in {running, running \ {"chrome"}}
    /\ life' \in {life, "gone"}
    /\ UNCHANGED <<insisted, task, lock, tab>>

\* Streamer.kill and Display.kill: SIGTERM, after 6 s SIGKILL
StopProcess(part, p) ==
    /\ part \in parts /\ parts' = parts \ {part}
    /\ running' = running \ {p}
    /\ UNCHANGED <<life, insisted, task, lock, tab>>

\* FrameUnpacker.kill: the thread has ended, or has not within 6 s
Join ==
    /\ "unpacker" \in parts /\ parts' = parts \ {"unpacker"}
    /\ UNCHANGED <<life, running, insisted, task, lock, tab>>

\* the thread reads the end of the pipe
ThreadEnds ==
    /\ "thread" \in running /\ "ffmpeg" \notin running
    /\ running' = running \ {"thread"}
    /\ UNCHANGED <<life, parts, insisted, task, lock, tab>>

\* Browser.kill returns
Closed ==
    /\ life = "closing" /\ parts = {} /\ life' = "gone"
    /\ UNCHANGED <<process, insisted, task, lock, tab>>

-----------------------------------------------------------------------------
TaskStep(g) == Start(g) \/ Turn(g) \/ Rested(g) \/ Resume(g) \/ TimeOut(g)
               \/ Abort(g) \/ Drop(g)
KillStep == Close \/ StopDriver \/ StopProcess("streamer", "ffmpeg")
            \/ StopProcess("display", "Xvfb") \/ Join \/ ThreadEnds \/ Closed

Next ==
    \/ CreateDisplay \/ FinishCreation \/ CreationFails
    \/ \E g \in Get : Admit(g) \/ StepEnds(g) \/ TaskStep(g)
    \/ RecoveryEnds \/ Kill \/ Insist \/ KillStep

Spec == Init /\ [][Next]_vars

(***************************************************************************)
(* Fairness: the event loop runs every ready task, time passes (time-outs, *)
(* the recovery period, the patience of kill), a process that is sent      *)
(* SIGKILL ends.  Chrome may never answer.                                 *)
(***************************************************************************)
FairSpec ==
    /\ Spec
    /\ \A g \in Get : WF_vars(TaskStep(g))
    /\ WF_vars(RecoveryEnds) /\ WF_vars(Insist)
    /\ WF_vars(Close) /\ WF_vars(StopDriver) /\ WF_vars(Join) /\ WF_vars(Closed)
    /\ WF_vars(StopProcess("streamer", "ffmpeg")) /\ WF_vars(StopProcess("display", "Xvfb"))
    /\ WF_vars(ThreadEnds)
-----------------------------------------------------------------------------
(***************************************************************************)
(* Properties.                                                             *)
(***************************************************************************)

\* What get.py announces: requests may be sent at any rate and are executed one
\* after the other.  One task at most is between its lock and its record.
TabIsExclusive ==
    \A g, h \in Get : {at[g], at[h]} \subseteq Stage \cup {"resting"} => g = h

\* No page is loaded before the recovery period of the last one is over, even
\* when a request queued long before it began.
RestsBetweenPages ==
    [][\A g \in Get : at[g] # "load" /\ at'[g] = "load" => ~recovering]_vars

\* A record is aborted, or missing, only if the browser was killed under the
\* request, and a blocked one leaves the browser spotted.
RecordIsHonest ==
    \A g \in Get :
        /\ record[g] = "aborted" \/ (at[g] = "done" /\ record[g] = "none") =>
               life \notin {"unborn", "creating", "live"}
        /\ record[g] = "blocked" => spotted

\* Once kill has begun no request opens its page, the waiter to which the lock
\* had just been passed included.
KillStartsNoPage ==
    [][life # "live" => \A g \in Get : at'[g] = "load" => at[g] = "load"]_vars

\* kill gets past the tasks it has cancelled even if Chrome never answers, unless
\* a task has swallowed both its cancellations.
KillEnds ==
    life = "stopping" ~> life # "stopping" \/ \E g \in Get : swallowed[g] = 2

\* Once Browser.kill has started, ffmpeg, Xvfb and the thread end, even when
\* Chrome does not stop or its stop raises and kill returns early.
ProcessesEnd == life = "closing" ~> running \subseteq {"chrome"}

(***************************************************************************)
(* Seen from the registry, where a request is waiting, browsing, aborting  *)
(* or dropped.                                                             *)
(***************************************************************************)
RegistryView(g) ==
    IF g \notin Active THEN "idle"
    ELSE IF life = "live"
         THEN CASE at[g] = "scheduled" -> "scheduled"
                [] at[g] = "queued"    -> "waiting"
                [] OTHER               -> "browsing"
         ELSE IF at[g] = "scheduled" THEN "dropped" ELSE "aborting"

Registry == INSTANCE Scraper WITH
    Id <- {TheId}, Creation <- {TheBrowser}, Wants <- [b \in {TheBrowser} |-> TheId],
    Asks <- [g \in Get |-> TheId], ApiKill <- {TheId}, Terminator <- {}, MaxInstances <- 0,
    browsers <- [i \in {TheId} |-> IF life = "live" THEN TheBrowser ELSE NoBrowser],
    active <- [i \in {TheId} |-> IF life = "live" THEN Active ELSE {}],
    life <- [b \in {TheBrowser} |-> IF life = "gone" THEN "unborn" ELSE life],
    expired <- {},
    waitsFor <- [b \in {TheBrowser} |-> IF life = "stopping" THEN Active ELSE {}],
    get <- [g \in Get |-> RegistryView(g)],
    on <- [g \in Get |-> IF g \in Active THEN TheBrowser ELSE NoBrowser],
    updater <- "asleep", terminate <- [k \in {} |-> "idle"], busy <- FALSE,
    locked <- FALSE, waiters <- <<>>,
    todo <- {}, killing <- {}, missing <- FALSE, raised <- FALSE, alone <- {},
    service <- "up"

\* With its stages, time-outs and swallowed cancellations a Browser does what the
\* registry assumes of it: in particular it is closed only once the last of its
\* tasks has ended.
ImplementsRegistry == Registry!Spec
=============================================================================
