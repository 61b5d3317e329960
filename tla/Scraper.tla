------------------------------ MODULE Scraper ------------------------------
(***************************************************************************)
(* The browser registry of a scraper node (src/scraper/core/Scraper.py and *)
(* its routes): browsers are created, serve /get requests as asyncio       *)
(* tasks, and are killed by /kill, by the background update once they have *)
(* expired, or by /terminate.                                              *)
(*                                                                         *)
(* Scraper.__lock is never held over a suspension point, so it is always   *)
(* free and the handlers run from their first check to their first real    *)
(* await without interruption: they are single actions.  A request that a  *)
(* handler refuses (423, 409, 406) changes nothing and is a stuttering     *)
(* step, so a refusal is the negation of a guard.                          *)
(***************************************************************************)
EXTENDS Naturals, Sequences, FiniteSets

CONSTANTS
    Id,             \* instance ids
    Creation,       \* /new-instance requests, each the name of its Browser object
    Wants,          \* the instance id each of them asks for
    Get,            \* /get requests
    Asks,           \* the instance id each of them asks for
    ApiKill,        \* the instance ids some client sends to /kill
    Terminator,     \* /terminate requests
    MaxInstances,   \* Config.MAX_INSTANCES_PER_SCRAPER
    NoBrowser       \* stands for an instance id that is not in the dict

ASSUME ScraperAssumption ==
    /\ Wants \in [Creation -> Id]
    /\ Asks \in [Get -> Id]
    /\ ApiKill \subseteq Id
    /\ MaxInstances \in Nat
    /\ NoBrowser \notin Creation
    /\ "update" \notin Terminator

VARIABLES
    browsers,       \* browsers: instance id -> Browser object
    active,         \* __browser_active_tasks: instance id -> tasks
    life,           \* what each Browser object is at
    expired,        \* the objects whose expires_at has passed
    waitsFor,       \* the tasks kill waits for before it closes the object
    get,            \* what the task of each /get request is at
    on,             \* the object that task runs on
    updater,        \* where background_update is
    terminate,      \* where each /terminate handler is
    busy,           \* busy
    locked,         \* __lock_terminate.locked()
    waiters,        \* the FIFO of coroutines waiting for __lock_terminate
    todo,           \* ids whose kill is scheduled by the holder of that lock
    killing,        \* objects whose kill the holder awaits
    missing,        \* a scheduled kill found no such id (KeyError)
    raised,         \* a Browser.kill the holder awaits has raised
    alone,          \* objects whose kill goes on although gather has raised
    service         \* the lifespan of the process

registry == <<browsers, active>>
object == <<life, expired, waitsFor>>
request == <<get, on>>
lock == <<locked, waiters>>
batch == <<todo, killing, missing, raised, alone>>
vars == <<registry, object, request, updater, terminate, busy, lock, batch, service>>

INSTANCE AsyncLock

LifeState == {"unborn", "creating", "live", "stopping", "closing"}
GetState == {"idle", "scheduled", "waiting", "browsing", "aborting", "dropped"}

TypeOK ==
    /\ browsers \in [Id -> Creation \cup {NoBrowser}]
    /\ active \in [Id -> SUBSET Get]
    /\ life \in [Creation -> LifeState]
    /\ expired \in SUBSET Creation
    /\ waitsFor \in [Creation -> SUBSET Get]
    /\ get \in [Get -> GetState]
    /\ on \in [Get -> Creation \cup {NoBrowser}]
    /\ updater \in {"asleep", "queued", "inside", "dead", "ended"}
    /\ terminate \in [Terminator -> {"idle", "queued", "inside"}]
    /\ busy \in BOOLEAN
    /\ locked \in BOOLEAN
    /\ waiters \in Seq(Terminator \cup {"update"})
    /\ todo \in SUBSET Id
    /\ killing \in SUBSET Creation
    /\ missing \in BOOLEAN /\ raised \in BOOLEAN
    /\ alone \in SUBSET Creation
    /\ service \in {"up", "stopping", "terminating", "down"}

Init ==
    /\ browsers = [i \in Id |-> NoBrowser]
    /\ active = [i \in Id |-> {}]
    /\ life = [b \in Creation |-> "unborn"]
    /\ expired = {}
    /\ waitsFor = [b \in Creation |-> {}]
    /\ get = [g \in Get |-> "idle"]
    /\ on = [g \in Get |-> NoBrowser]
    /\ updater = "asleep"
    /\ terminate = [k \in Terminator |-> "idle"]
    /\ busy = FALSE
    /\ locked = FALSE
    /\ waiters = <<>>
    /\ todo = {} /\ killing = {} /\ missing = FALSE /\ raised = FALSE /\ alone = {}
    /\ service = "up"

\* uvicorn takes requests, and the handlers let them through
Serving == service = "up" /\ ~busy

Registered == {i \in Id : browsers[i] # NoBrowser}

Expired == {i \in Registered : browsers[i] \in expired}

-----------------------------------------------------------------------------
(***************************************************************************)
(* /new-instance: the checks, then a creation that takes seconds, then the *)
(* registration.  What was checked is not checked again.                   *)
(***************************************************************************)
NewInstance(b) ==
    /\ Serving
    /\ browsers[Wants[b]] = NoBrowser
    /\ ~(Cardinality(Registered) > MaxInstances)
    /\ life[b] = "unborn" /\ life' = [life EXCEPT ![b] = "creating"]
    /\ UNCHANGED <<registry, expired, waitsFor, request, updater, terminate, busy, lock, batch, service>>

Register(b) ==
    /\ life[b] = "creating" /\ life' = [life EXCEPT ![b] = "live"]
    /\ browsers' = [browsers EXCEPT ![Wants[b]] = b]
    /\ active' = [active EXCEPT ![Wants[b]] = {}]
    /\ UNCHANGED <<expired, waitsFor, request, updater, terminate, busy, lock, batch, service>>

\* Display.create or Driver.create raises
CreationFails(b) ==
    /\ life[b] = "creating" /\ life' = [life EXCEPT ![b] = "unborn"]
    /\ UNCHANGED <<registry, expired, waitsFor, request, updater, terminate, busy, lock, batch, service>>

\* the lifespan of the browser runs out
Expire(b) ==
    /\ service # "down" /\ life[b] = "live" /\ b \notin expired
    /\ expired' = expired \cup {b}
    /\ UNCHANGED <<registry, life, waitsFor, request, updater, terminate, busy, lock, batch, service>>

-----------------------------------------------------------------------------
\* Mutant: busy is not looked at.
AdmitsWhenBusy(g) ==
    /\ service = "up" /\ get[g] = "idle"
    /\ Asks[g] \in Registered \ Expired
    /\ get' = [get EXCEPT ![g] = "scheduled"]
    /\ on' = [on EXCEPT ![g] = browsers[Asks[g]]]
    /\ active' = [active EXCEPT ![Asks[g]] = @ \cup {g}]
    /\ UNCHANGED <<browsers, object, updater, terminate, busy, lock, batch, service>>

(***************************************************************************)
(* /get.  An expired browser is refused (406), one about to expire may be. *)
(***************************************************************************)
Admit(g) ==
    /\ Serving /\ get[g] = "idle"
    /\ Asks[g] \in Registered \ Expired
    /\ get' = [get EXCEPT ![g] = "scheduled"]
    /\ on' = [on EXCEPT ![g] = browsers[Asks[g]]]
    /\ active' = [active EXCEPT ![Asks[g]] = @ \cup {g}]
    /\ UNCHANGED <<browsers, object, updater, terminate, busy, lock, batch, service>>

Others(g, states) == {h \in Get \ {g} : on[h] = on[g] /\ get[h] \in states}

\* the first step of get_or_abort: it takes __get_lock, or queues for it
Start(g) ==
    /\ get[g] = "scheduled"
    /\ get' = [get EXCEPT ![g] =
           IF Others(g, {"waiting", "browsing"}) = {} THEN "browsing" ELSE "waiting"]
    /\ UNCHANGED <<registry, object, on, updater, terminate, busy, lock, batch, service>>

\* a waiter has __get_lock, sleeps for the recovery period and browses
Browse(g) ==
    /\ get[g] = "waiting" /\ get' = [get EXCEPT ![g] = "browsing"]
    /\ Others(g, {"browsing"}) = {}
    /\ UNCHANGED <<registry, object, on, updater, terminate, busy, lock, batch, service>>

\* Mutant: a task cancelled before its first step gives no answer.
AnswersStarted(g) ==
    /\ get[g] \in {"browsing", "aborting"}
    /\ get' = [get EXCEPT ![g] = "idle"]
    /\ on' = [on EXCEPT ![g] = NoBrowser]
    /\ active' = [active EXCEPT ![Asks[g]] = @ \ {g}]
    /\ waitsFor' = [b \in Creation |-> waitsFor[b] \ {g}]
    /\ UNCHANGED <<browsers, life, expired, updater, terminate, busy, lock, batch, service>>

(***************************************************************************)
(* The task ends: a record (aborted if it was cancelled), an exception     *)
(* (500), or, cancelled before its first step, CancelledError (503).  The  *)
(* handler discards it if its id is still, or again, in the dict.          *)
(***************************************************************************)
Answer(g) ==
    /\ get[g] \in {"browsing", "aborting", "dropped"}
    /\ get' = [get EXCEPT ![g] = "idle"]
    /\ on' = [on EXCEPT ![g] = NoBrowser]
    /\ active' = [active EXCEPT ![Asks[g]] = @ \ {g}]
    /\ waitsFor' = [b \in Creation |-> waitsFor[b] \ {g}]
    /\ UNCHANGED <<browsers, life, expired, updater, terminate, busy, lock, batch, service>>

-----------------------------------------------------------------------------
\* Mutant: the status of a record takes the place of the state of the task.
CancelledAs(state) == "aborted"

Cancelled(state) ==
    CASE state = "scheduled" -> "dropped"
      [] state \in {"waiting", "browsing"} -> "aborting"
      [] OTHER -> state

\* Mutant: the entry of the browser is not popped.
PopsTasksOnly(i) ==
    /\ browsers[i] # NoBrowser
    /\ active' = [active EXCEPT ![i] = {}]
    /\ life' = [life EXCEPT ![browsers[i]] = "stopping"]
    /\ waitsFor' = [waitsFor EXCEPT ![browsers[i]] = active[i]]
    /\ get' = [g \in Get |-> IF g \in active[i] THEN Cancelled(get[g]) ELSE get[g]]
    /\ UNCHANGED <<browsers, expired, on>>

\* kill up to its first await: the browser leaves the dict, its tasks are cancelled
Pop(i) ==
    /\ browsers[i] # NoBrowser
    /\ browsers' = [browsers EXCEPT ![i] = NoBrowser]
    /\ active' = [active EXCEPT ![i] = {}]
    /\ life' = [life EXCEPT ![browsers[i]] = "stopping"]
    /\ waitsFor' = [waitsFor EXCEPT ![browsers[i]] = active[i]]
    /\ get' = [g \in Get |-> IF g \in active[i] THEN Cancelled(get[g]) ELSE get[g]]
    /\ UNCHANGED <<expired, on>>

\* Mutant: kill does not wait for the tasks it has cancelled.
ClosesAtOnce(b) ==
    /\ life[b] = "stopping"
    /\ life' = [life EXCEPT ![b] = "closing"]
    /\ UNCHANGED <<registry, expired, waitsFor, request, updater, terminate, busy, lock, batch, service>>

\* in Python 3.10 wait_for returns only when every cancelled task has ended
Close(b) ==
    /\ service # "down" /\ life[b] = "stopping" /\ waitsFor[b] = {}
    /\ life' = [life EXCEPT ![b] = "closing"]
    /\ UNCHANGED <<registry, expired, waitsFor, request, updater, terminate, busy, lock, batch, service>>

\* Browser.kill returns, or raises because driver.stop does; the coroutine that
\* awaited this kill goes on
Closed(b) ==
    /\ service # "down" /\ life[b] = "closing"
    /\ life' = [life EXCEPT ![b] = "unborn"]
    /\ expired' = expired \ {b}
    /\ killing' = killing \ {b} /\ alone' = alone \ {b}
    /\ raised' \in {raised, raised \/ b \in killing}
    /\ UNCHANGED <<registry, waitsFor, request, updater, terminate, busy, lock, todo, missing, service>>

\* Mutant: busy is not looked at.
KillsWhenBusy(i) ==
    /\ service = "up" /\ Pop(i)
    /\ UNCHANGED <<updater, terminate, busy, lock, batch, service>>

\* /kill
KillRequest(i) ==
    /\ Serving /\ Pop(i)
    /\ UNCHANGED <<updater, terminate, busy, lock, batch, service>>

-----------------------------------------------------------------------------
\* a waiter takes __lock_terminate, finds nothing to kill and releases it at once
PassOn(who) == Scheduled(who) /\ waiters' = Tail(waiters) /\ locked' = FALSE

\* the holder of __lock_terminate schedules the kills of ids; those the last gather
\* has left behind go on alone
Schedule(ids) ==
    /\ todo' = ids /\ killing' = {} /\ missing' = FALSE /\ raised' = FALSE
    /\ alone' = alone \cup killing

\* gather is over: every kill has returned, or one has raised.  All of them have
\* taken their first step before, in the order they were scheduled.
Failed == missing \/ raised
Gathered == todo = {} /\ (Failed \/ killing = {})

\* a scheduled kill takes its first step: pop raises KeyError on a missing id
KillScheduled(i) ==
    /\ i \in todo /\ todo' = todo \ {i}
    /\ \/ /\ Pop(i)
          /\ killing' = killing \cup {browsers[i]} /\ UNCHANGED missing
       \/ /\ browsers[i] = NoBrowser
          /\ missing' = TRUE /\ UNCHANGED <<killing, registry, object, request>>
    /\ UNCHANGED <<raised, alone, updater, terminate, busy, lock, service>>

\* Mutant: the update does not take __lock_terminate.
UpdatesUnlocked ==
    /\ updater = "asleep"
    /\ Expired # {} /\ Schedule(Expired)
    /\ updater' = "inside"
    /\ UNCHANGED <<registry, object, request, terminate, busy, lock, service>>

\* background_update; a cycle that finds the lock free and nothing expired stutters
Update ==
    /\ updater = "asleep"
    /\ \/ /\ Acquire /\ Expired # {} /\ Schedule(Expired)
          /\ updater' = "inside"
       \/ /\ Enqueue("update") /\ UNCHANGED batch
          /\ updater' = "queued"
    /\ UNCHANGED <<registry, object, request, terminate, busy, service>>

UpdateWakes ==
    /\ updater = "queued"
    /\ \/ /\ Expired # {} /\ Woken("update") /\ Schedule(Expired)
          /\ updater' = "inside"
       \/ /\ Expired = {} /\ PassOn("update") /\ UNCHANGED batch
          /\ updater' = "asleep"
    /\ UNCHANGED <<registry, object, request, terminate, busy, service>>

\* Mutant: the lock is not released.
UpdateEndsHolding ==
    /\ updater = "inside" /\ Gathered
    /\ updater' = IF Failed THEN "dead" ELSE IF service = "up" THEN "asleep" ELSE "ended"
    /\ Schedule({})
    /\ UNCHANGED <<registry, object, request, terminate, busy, lock, service>>

\* gather raises as soon as one kill has raised, and nothing catches it
UpdateEnds ==
    /\ updater = "inside" /\ Gathered
    /\ updater' = IF Failed THEN "dead" ELSE IF service = "up" THEN "asleep" ELSE "ended"
    /\ Schedule({}) /\ Release
    /\ UNCHANGED <<registry, object, request, terminate, busy, service>>

\* /terminate; with no browser to kill it answers without a suspension point
Terminate(k) ==
    /\ Serving /\ terminate[k] = "idle"
    /\ \/ /\ Registered # {} /\ Acquire /\ Schedule(Registered) /\ busy' = TRUE
          /\ terminate' = [terminate EXCEPT ![k] = "inside"]
       \/ /\ Enqueue(k) /\ UNCHANGED <<batch, busy>>
          /\ terminate' = [terminate EXCEPT ![k] = "queued"]
    /\ UNCHANGED <<registry, object, request, updater, service>>

TerminateWakes(k) ==
    /\ terminate[k] = "queued"
    /\ \/ /\ Registered # {} /\ Woken(k) /\ Schedule(Registered) /\ busy' = TRUE
          /\ terminate' = [terminate EXCEPT ![k] = "inside"]
       \/ /\ Registered = {} /\ PassOn(k) /\ UNCHANGED <<batch, busy>>
          /\ terminate' = [terminate EXCEPT ![k] = "idle"]
    /\ UNCHANGED <<registry, object, request, updater, service>>

\* Mutant: the lock is not released.
TerminateEndsHolding(k) ==
    /\ terminate[k] = "inside" /\ Gathered
    /\ terminate' = [terminate EXCEPT ![k] = "idle"]
    /\ busy' = FALSE
    /\ Schedule({})
    /\ UNCHANGED <<registry, object, request, updater, lock, service>>

TerminateEnds(k) ==
    /\ terminate[k] = "inside" /\ Gathered
    /\ terminate' = [terminate EXCEPT ![k] = "idle"]
    /\ busy' = FALSE
    /\ Schedule({}) /\ Release
    /\ UNCHANGED <<registry, object, request, updater, service>>

-----------------------------------------------------------------------------
(***************************************************************************)
(* The end of the process (main.py).  uvicorn waits until every handler    *)
(* has answered; then the background update is cancelled and terminate is  *)
(* called.                                                                 *)
(***************************************************************************)
Quiet ==
    /\ \A g \in Get : get[g] = "idle"
    /\ \A k \in Terminator : terminate[k] = "idle"
    /\ \A b \in Creation : life[b] \in {"unborn", "live"} \/ b \in killing \cup alone

\* Mutant: terminate is not called.
EndsAtOnce ==
    /\ service = "up" /\ Quiet
    /\ service' = "down"
    /\ updater' = IF updater = "dead" THEN "dead" ELSE "ended"
    /\ UNCHANGED <<registry, object, request, terminate, busy, lock, batch>>

\* the kills the update awaits at its Browser.kill
Halfway == {b \in killing : life[b] = "closing"}

(***************************************************************************)
(* The cancellation reaches every kill that the update awaits.  One that   *)
(* has not begun never will, and its browser stays in the dict; one at its *)
(* Browser.kill is given up there; one that waits for its tasks, which     *)
(* have all ended, swallows it in wait_for and goes on.                    *)
(***************************************************************************)
CancelKills ==
    /\ updater' = "ended" /\ Release
    /\ todo' = {} /\ killing' = {} /\ missing' = FALSE /\ raised' = FALSE
    /\ \/ Failed /\ alone' = alone \cup killing /\ UNCHANGED object
       \/ /\ ~Failed /\ alone' = alone \cup (killing \ Halfway)
          /\ life' = [b \in Creation |-> IF b \in Halfway THEN "unborn" ELSE life[b]]
          /\ expired' = expired \ Halfway
          /\ UNCHANGED waitsFor

\* the update is cancelled: asleep, in the queue, at a gather one of whose kills is
\* cancelled or that has raised, or at one whose kills all go on
ShutDown ==
    /\ service = "up" /\ Quiet /\ service' = "stopping"
    /\ \/ updater = "dead" /\ UNCHANGED <<updater, lock, batch, object>>
       \/ updater = "asleep" /\ updater' = "ended" /\ UNCHANGED <<lock, batch, object>>
       \/ /\ updater = "queued" /\ updater' = "ended" /\ Withdraw("update")
          /\ UNCHANGED <<batch, object>>
       \/ updater = "inside" /\ (Failed \/ todo \cup Halfway # {}) /\ CancelKills
       \/ /\ updater = "inside" /\ ~Failed /\ todo \cup Halfway = {}
          /\ UNCHANGED <<updater, lock, batch, object>>
    /\ UNCHANGED <<registry, request, terminate, busy>>

\* a background update that has raised raises here again: terminate is not reached
ShutDownGoesOn ==
    /\ service = "stopping"
    /\ \/ updater = "dead" /\ service' = "down" /\ UNCHANGED <<busy, lock, batch>>
       \/ /\ updater = "ended" /\ service' = "terminating"
          /\ Acquire /\ Schedule(Registered) /\ busy' = TRUE
    /\ UNCHANGED <<registry, object, request, updater, terminate>>

ShutDownEnds ==
    /\ service = "terminating" /\ Gathered
    /\ service' = "down" /\ busy' = FALSE /\ Schedule({}) /\ Release
    /\ UNCHANGED <<registry, object, request, updater, terminate>>

\* the process is over; the next one starts from Init
Ended == service = "down" /\ UNCHANGED vars

-----------------------------------------------------------------------------
BrowserStep(b) == NewInstance(b) \/ Register(b) \/ CreationFails(b) \/ Expire(b)
                  \/ Close(b) \/ Closed(b)
GetStep(g) == Admit(g) \/ Start(g) \/ Browse(g) \/ Answer(g)
UpdateStep == Update \/ UpdateWakes \/ UpdateEnds
TerminateStep(k) == Terminate(k) \/ TerminateWakes(k) \/ TerminateEnds(k)

Next ==
    \/ \E b \in Creation : BrowserStep(b)
    \/ \E g \in Get : GetStep(g)
    \/ \E i \in ApiKill : KillRequest(i)
    \/ \E i \in Id : KillScheduled(i)
    \/ UpdateStep
    \/ \E k \in Terminator : TerminateStep(k)
    \/ ShutDown \/ ShutDownGoesOn \/ ShutDownEnds \/ Ended

Spec == Init /\ [][Next]_vars

(***************************************************************************)
(* Fairness: the event loop runs every ready coroutine, __get_lock is FIFO *)
(* (strong fairness of Browse), every DevTools call and every browser.kill *)
(* returns or raises; a shut-down that has begun goes on.                  *)
(***************************************************************************)
FairSpec ==
    /\ Spec
    /\ \A b \in Creation : WF_vars(Register(b)) /\ WF_vars(Close(b)) /\ WF_vars(Closed(b))
    /\ \A g \in Get : WF_vars(Start(g)) /\ SF_vars(Browse(g)) /\ WF_vars(Answer(g))
    /\ \A i \in Id : WF_vars(KillScheduled(i))
    /\ WF_vars(UpdateStep) /\ WF_vars(ShutDownGoesOn)
    /\ \A k \in Terminator : WF_vars(TerminateWakes(k)) /\ WF_vars(TerminateEnds(k))
-----------------------------------------------------------------------------
(***************************************************************************)
(* Properties.                                                             *)
(***************************************************************************)

\* Whatever kills it, a browser is closed only when no request is using it any
\* more: every task that was started on it has ended, a task that a concurrent
\* /get started just before the kill included.
NoRequestOnClosedBrowser ==
    \A g \in Get : get[g] # "idle" => life[on[g]] \in {"live", "stopping"}

\* An id in the dict leads to a running browser created for that id.
RegisteredIsLive ==
    \A i \in Registered : life[browsers[i]] = "live" /\ Wants[browsers[i]] = i

\* Every running browser can be reached through its id, so it can be killed.
NoOrphan ==
    \A b \in Creation : life[b] = "live" => browsers[Wants[b]] = b

\* /terminate never finds that another kill was faster: no KeyError, although
\* its kills start after it has taken the list of ids.
TerminateKeepsItsIds ==
    \A k \in Terminator : terminate[k] = "inside" =>
        ~missing /\ todo \subseteq Registered

\* While a /terminate is at work, no other /terminate and no update is.
TerminateIsExclusive ==
    \A k \in Terminator : terminate[k] = "inside" =>
        /\ busy /\ locked /\ updater # "inside"
        /\ \A j \in Terminator : terminate[j] = "inside" => j = k

\* When a /terminate is over, no request is at work on a browser of the dict: a
\* browser it has not seen, registered meanwhile, serves nobody yet.
TerminateStopsServing ==
    [][busy /\ ~busy' => \A g \in Get : get[g] # "idle" => on[g] # browsers[Asks[g]]]_vars

\* The process does not end with a browser in the dict, whatever was being killed
\* when it was told to stop and whichever kills were cancelled, unless the
\* background update has raised.  Chrome may be left running all the same.
ShutDownLeavesNone == service = "down" /\ updater # "dead" => Registered = {}

\* Every /get is answered, whatever is killed meanwhile.
GetAnswered == \A g \in Get : get[g] # "idle" ~> get[g] = "idle"

\* Every /terminate is answered.
TerminateAnswered ==
    \A k \in Terminator : terminate[k] # "idle" ~> terminate[k] = "idle"

\* As long as the update lives, an expired browser leaves the dict, whatever
\* /terminate and /kill do meanwhile.
UpdateDropsExpired ==
    [](updater # "dead") =>
        \A i \in Id, b \in Creation :
            browsers[i] = b /\ b \in expired ~> browsers[i] # b

\* What __update says of itself: "The only purpose of update is to drop expired
\* browsers."  Even when no Browser.kill raises.
ExpiredIsDropped ==
    []~raised =>
        \A i \in Id, b \in Creation :
            browsers[i] = b /\ b \in expired ~> browsers[i] # b
=============================================================================
