# Proxypi in TLA+

Proxypi scrapes web pages from a fleet of Raspberry Pis. One **broker** keeps a table of target
urls and hands them, one per cycle, to browsers that run on **scraper** nodes behind a WireGuard
VPN. Both are FastAPI services, each a single asyncio event loop under Python 3.10. This directory
holds TLA+ models of the two services, their TLC instances, and TLAPS proofs.

    tlc -config Broker_attempts.cfg MCBroker     # any run: <cfg> with the module PROJECT.json names
    tlapm BrokerProofs.tla                       # any module of proofs: under a second to 90 s

Source lines are quoted by file name below; `PROJECT.json` maps every definition to its lines.

## Inventory

| Component | State | Operations | Hard behaviour | What makes it correct |
|---|---|---|---|---|
| Job lifecycle: `broker/core/Broker.py`, `DatabaseHandler.py`, `BrowserImage.py`, routes `scrape`, `collect`, `clear` | tables `targets`, `jobs` (sqlite, one shared connection); `__current_tasks`; `__lock_hibernate`, `__lock_current_tasks` | `scrape`; the update cycle (discover, retrieve, insert, disable twice, select, assign); `clear` in up to three stages; `collect` in three reads | every database and HTTP call is a suspension point; a statement or a commit may fail anywhere; the process restarts and loses what was not committed; two locks taken in order | an attempt is recorded exactly once; retries are bounded; nothing is started during a `/clear`; every target settles |
| Registry of browsers: `scraper/core/Scraper.py`, routes `new_instance`, `get`, `kill`, `terminate` | `browsers`, `__browser_active_tasks`, `busy`, `__lock`, `__lock_terminate` | create, get, kill, background update, terminate | creation takes seconds between check and registration; kills run as tasks after the list was taken; cancellation | the dict leads to live browsers only; no live browser is unreachable; a browser is not closed under a request; every request is answered |
| Browser session: `Browser.py`, `Driver.py`, `Display.py`, `Streamer.py`, `engine/` | `__get_lock`, `recovery_period`, `spotted`, history, Xvfb, Chrome and ffmpeg processes | initialise, `get` in seven stages, `get_or_abort`, `kill` | time-outs, cancellation inside `wait_for`, failures half-way through initialisation or kill | one page at a time, with a rest in between; honest records; a kill that gets through and leaves no process |
| Frame stream: `FrameUnpacker.py`, `Streamer.py`, route `stream` | byte buffer of a thread, latest frame, an `asyncio.Event` | unpack, wait, clear | a thread against the event loop; markers split between chunks; many clients, one event | frames are whole, none is lost that need not be; a frame that is announced is shown |
| Fleet: `NodeIdentifier.py`, `ScraperImage.py`, `Broker.__create_browser` | `reachable_nodes`, `scrapers`, the image of each node, `__next_refresh_timestamp` | ping, create, update, new_instance, kill_browsers | stale images, back-off of 180 s, time-outs after which the request goes on remotely | a task goes to a node that is reachable and to a browser not known to be at work; a target finds a browser once the trouble is over |
| Lifespans: `broker/main.py`, `scraper/main.py` | background task | start, stop | cancellation of the background task, kills it awaits included | no browser is left in the dict at the end, unless the update has raised |
| Dashboard state, IP filter, `proxypi` command line, provisioning scripts, layout | none that other parts rely on | | | |

How they interact: a client calls the broker over HTTP (`/scrape`, `/collect`, `/clear`). The update
loop of the broker calls each scraper (`/get_scraper_state`, `/new-instance`), and each task in
`__current_tasks` is one long `/get` on a scraper; `/clear` cancels those tasks and sends `/kill`.
The only shared memory is inside each event loop, the only shared store the sqlite file.

What is hard to test is listed, with its lines, under `hazards` in `PROJECT.json`.

## Modules

| Module | Role |
|---|---|
| `AsyncLock` | `asyncio.Lock` of Python 3.10 (external): fast path, FIFO queue, and a release that only *schedules* the next waiter |
| `Ledger` | abstract specification: what the broker promises about a target |
| `Broker` | the job lifecycle of the broker; refines `Ledger` |
| `Scraper` | the browser registry of a scraper node, and the end of its process |
| `Session` | one browser of a node: its processes, its requests, its kill; refines `Scraper` for that browser |
| `FrameStream` | the video stream of a browser: a thread, an `asyncio.Event`, many clients |
| `Fleet` | the broker's view of the nodes, and the nodes: what is behind `Launch` and `NoBrowser` of `Broker` |
| `MCBroker`, `MCScraper`, `MCSession`, `MCFrameStream`, `MCFleet` | instances for TLC |
| `BrokerProofs`, `LedgerProofs`, `ScraperProofs`, `SessionProofs`, `FrameProofs`, `FleetProofs` | theorems about the module of that name (`FrameStream` for `FrameProofs`) and their proofs |

Definitions marked `Mutant` are plausible bugs of the definition they precede. They are used by no
specification: each shows that a property notices that bug when it takes the definition's place.

### Broker

One action is the code between two suspension points another coroutine can use.

* `row`, `successes`, `failures` are the two tables, seen per target, as every coroutine sees them on
  the shared connection; `disk` is what of them was last committed, by whichever coroutine (`Commits`).
  Only `disk` survives `Restart`. The job inserts commit in a stage of their own (`commit`), because
  other coroutines run between `executemany` and the commit; `Commit` is the commit of a log statement
  or of a `/scrape` of a target that is not modelled. `task` is `__current_tasks` with what each asyncio
  task is at; `completed` is the local list of `__retrieve_tasks` between the deletion of the tasks and
  the insert; `picked` is the target that `__distribute_task` holds while it looks for a browser.
* `loop` is the place of `background_update`, from `discover` to `finish`; a skipped cycle is a
  stuttering step. `clear` and `flags` are the place and the flags of each `/clear` handler, `collect`
  and `code` those of the polling clients.
* `__lock_hibernate` is `locked` and `waiters`. `__lock_current_tasks` needs no variable: of its
  holders only `cancel_running_tasks` changes what others see while it keeps the lock over an insert
  (`TasksLocked`). The cancellation of running tasks and the gathering of their records is one step,
  because `BrowserImage.get` turns the cancellation into a record in its next step.
* Discovery and refresh of nodes are one step that succeeds or raises (`Discover`); whether a browser is
  found is a choice between `Launch` and `NoBrowser` (`Fleet` has the details). A request for a new
  browser that raises is `CycleAborts`. A task ends as success, as failure, or with an exception
  (`Outcome`).
* `Faults` names what the environment may do: `node`, `transport`, `statement`, `insert`, `restart`.
  A statement whose commit fails may have changed its rows, and a job insert that raises may have
  written some of its rows, all or none (`InsertedInPart`); the next commit on the shared connection
  makes them durable. That is the case of a file another process holds (`SQLITE_BUSY`): errors after
  which SQLite rolls the transaction back by itself are no fault here. The three log statements outside
  the try block end the loop (`LoopDies`). Each of the three reads of `/collect` may raise, which
  answers 500 (`CollectFails`); for the second, which is no statement, that errs on the safe side.
* `attempts` and `held` are history variables: the tasks started, and the clients that were given the
  content. `Restart` sets the first to the number of recorded attempts, because what was in flight
  never reaches the table, and takes from the second the clients whose row was not committed.
* `Asked` are the flags a `/clear` may come with, to choose what a run explores.

### Ledger

Per target: registered, attempts opened and closed, retired. What is written is saved by the same step
or a later one (`MaySave`, `Save`); a restart (`Forget`) falls back to what is saved, or drops the
tables. `Broker!Promise` maps `open` to the targets with a task or a pending record, `saved` to `disk`
and the tables to themselves. `SettledIsFinal` and `AttemptsBounded` are what a client relies on: the
first has an exception for a restart that comes before a settled target was saved.

### Scraper

* `browsers` and `active` are the two dicts; `life` says what each Browser object is at, also after
  it left the dict (`stopping`: kill waits for its tasks; `closing`: `Browser.kill` runs).
* `Scraper.__lock` is never held over a suspension point, so it is always free, and a handler runs
  from its first check to its first real wait as one action. A refusal is a stuttering step.
* `get[g]` follows the task of a request: `scheduled` (not yet run), `waiting` for `__get_lock`,
  `browsing`, `aborting` (cancelled, a record is produced), `dropped` (cancelled before its first
  step: `CancelledError`, 503).
* `todo` are kills that `gather` has scheduled and that have not run: `/kill` and a registration may
  still come first. A kill that finds no id raises `KeyError` (`missing`), and `Browser.kill` may raise
  because `driver.stop` does (`raised`). `gather` raises with the first of them, which ends the update
  loop and makes `/terminate` answer 500, with `busy` reset; the other kills go on (`alone`).
* `waitsFor`: on time-out `wait_for` cancels the gather again and, in Python 3.10, waits for it, so
  kill goes on only when all its tasks have ended.
* `service` is the lifespan in `main.py`. uvicorn lets the handlers answer first (`Quiet`); then the
  update is cancelled (`ShutDown`), and `terminate` runs when it has ended (`ShutDownGoesOn`). An update
  that has died raises here once more, and `terminate` is not reached.
* `CancelKills`: the cancellation reaches the kills the update awaits. One that has not begun never
  runs, and `terminate` finds its browser in the dict; one at its `Browser.kill` is given up there, with
  whatever of the browser still runs; one that waits for its tasks, which have ended by then, loses
  the cancellation in `wait_for` of Python 3.10 and goes on, and when all of them do, so does the update.

### Session

* `at[g]` is where the task of a request is: in the queue of `__get_lock`, in the sleep for the
  recovery period (`resting`), or in one of the seven stages of `get`. A stage awaits one step of
  DevTools, which may end (`StepEnds`), time out (`TimeOut`, not in `settle` and `check`), or never
  end. `Answers` and `OnTimeout` are the branches of `get`.
* A cancellation is requested (`cancelled`) and delivered later. Delivered to a task that rests, queues
  or awaits a step, it is `Abort`. If the awaited step has ended by then, `wait_for` of Python 3.10
  returns its result and the cancellation is lost (`Resume`, `swallowed`). `Insist` is the second
  cancellation, which the time-out of `wait_for` in `Scraper.kill` sends after 2 s; the event loop has
  delivered the first ones long before.
* `Browser.kill` runs four parts at once (`parts`). `driver.stop` may not end in 5 s, or raise, upon
  which `gather` raises and the kill is over for its caller while the threads go on.
* `running` are the processes. A creation that fails half-way leaves what it has started.
* `Registry` is the refinement mapping to `Scraper` with one id and one browser.

### FrameStream

* A frame is the pair of the places of its first and its last byte in `stream`; `buffer` is the
  interval `base + 1 .. pos`. The thread reads a chunk, cuts frames one by one, and sets the event
  after each; ffmpeg may be killed at any time. What it has written by then lies in the pipe and is
  still read, so `Kill` ends the stream at any byte from the last one read on.
* `asyncio.Event` is not made for threads. Its methods run in two threads here, so each statement of
  `wait` and `set` that touches the flag or the queue of waiters is an action: `Check`, `Enlist`,
  `Return` for the client, `Set`, `Wake`, `WakeEnds` for the thread. A client that joins or leaves the
  queue while `set` iterates over it makes the deque raise, and the thread dies (`mutated`). A wait that
  finds the event set returns at once and never was in the queue; `Clear` leaves the queue alone.
* A client may stop reading for ever (`sending`), or leave wherever its generator is suspended.

### Fleet

* `reach`, `known`, `online`, `available`, `seen` and `idle` are what the broker holds; `up`, `browser`
  and the requests with state `arrived` or `holding` are what is true. A refresh copies the second to
  the first; everything else lets them drift apart.
* `loop` is the part of the update cycle in `__update_available_nodes`, `__update_nodes` and
  `__distribute_task`. `Stale` is a refresh that changes nothing: not due, backing off for 180 s,
  timed out, refused with 423. `Skip` ends a cycle, normally or by an exception.
* A request is `arrived` until it has `__get_lock` and `holding` until it is answered. `status()` asks
  `locked()`, which is true as long as some request holds the lock and false before a new task has run
  and while the lock passes from one request to the next; so `IsIdle` speaks of the holder alone. A
  request that raises leaves no recovery period behind it, and an image taken in that window reads idle
  although others queue: the broker may send one more, and `noted` keeps only what was seen holding.
* After a request, `resting` stands for the recovery period and for a score over the threshold, until it
  cools; `spotted` stays. A request the broker has given up on goes on at its node, and one on its way
  may still arrive.
* The answer to `/new-instance` does not change the images, so the second look for a browser in
  `get_available_browser` finds none: `Created` ends the cycle.

## Runs

All runs are exhaustive.

| Run | Shows |
|---|---|
| `broker_attempts` | two targets, one `/clear`, one polling client, two retries, cycles, exchanges and statements that fail, restarts that lose what was not committed: `EveryAttemptRecordedOnce`, `RetryBound`, the inductive `LedgerInv`, `SuccessStaysCollectable`, and `LedgerSpec`: the broker implements the ledger |
| `broker_clear` | two concurrent `/clear` against the loop under all faults, with a database that is cleared at start: `HibernateIsExclusive`, `ClearLeavesNoTask`, the inductive `ControlInv`, and `StartOnlyEligible` |
| `broker_progress` | failing nodes, exchanges and statements: `ClearAnswered` (the lock is always given back) and `EveryTargetSettles` |
| `scraper_registry` | three creations, two of them for one id, two requests, `/kill`, update, two `/terminate`, kills that raise, shutdown: `NoRequestOnClosedBrowser`, `RegisteredIsLive`, `TerminateKeepsItsIds`, `TerminateIsExclusive`, `TerminateStopsServing`, `ShutDownLeavesNone` |
| `scraper_progress` | `GetAnswered`, `TerminateAnswered`, `UpdateDropsExpired` |
| `session` | three requests, one of them lazy, and a kill at any moment: `TabIsExclusive`, `RestsBetweenPages`, `RecordIsHonest`, `KillStartsNoPage`, `KillEnds`, `ProcessesEnd`, and `ImplementsRegistry`: a Browser does what `Scraper` assumes of it |
| `frames` | 16 streams, each cut by a kill at any byte, two clients: `FramesAreWhole`, `OnlyCutFramesAreLost`, `LatestIsAnnounced`, `OnlyARaceStalls`, `FrameIsShown` |
| `fleet_assign` | two nodes, two requests, every fault: `TasksGoToReachable`, `NoSecondOnKnownBusy` |
| `fleet_progress` | two nodes, one request: `BrowserIsFound` |

`EveryTargetSettles` has a premise, `Recovers`: cycles get through to the selection again and again,
clients stop sending `/clear`, and no task holds an exception. A fault that returns in every cycle
stops the broker, and so does the last of the three for good (`broker_transport`). What the run shows
is that nothing else does: whatever was aborted or cancelled before leaves a state from which every
target is settled.

`BrowserIsFound` has a premise as well: from some time on, none of the steps in `Trouble` happens and
some node is up. It does not depend on what the trouble left behind: nodes that are gone but
`available`, images of browsers that no longer exist, a creation the broker has given up on. It is what
`EveryTargetSettles` assumes of the fleet (strong fairness of `Launch`).

`SuccessStaysCollectable` has two exceptions. A client that holds its page may be answered 500 when a
read raises; and a `/collect` can answer with a row that is written and not yet committed, which a
restart at that moment takes away (`Restart` takes such a client out of `held`).

`NoSecondOnKnownBusy` is about requests that were seen to hold the tab of their browser. A request that
only queues for it may be invisible to a refresh (see `IsIdle` above), and the broker may then send a
second one; it waits in the same queue.

`ShutDownLeavesNone` is about the dict. The Chrome of a browser whose kill was given up, or whose kill
has raised, may still run when the process is over.

`FrameIsShown` assumes of its client that it goes on reading what it is sent (`[]<>(client # "sending")`),
and nothing of the others. `ExpiredIsDropped` assumes that no `Browser.kill` raises: the update
dies by a `KeyError` as well.

`KillEnds` has an exception in its conclusion: a task that has swallowed both its cancellations. It
then awaits the next step of DevTools, and if this step has no time-out and Chrome does not answer,
the kill waits for ever.

Three runs end in a counterexample. Each checks one sentence of the repository that the code does not
keep; `findings` quotes it.

| Run | The code does |
|---|---|
| `broker_transport` | a `/get` that ends in an exception other than a time-out stops all retrieval for good |
| `scraper_orphan` | two overlapping creations of one id leave a browser that nothing can reach |
| `scraper_update_dies` | a `/kill` one event-loop iteration after the update took its list ends the update |

Other places where the code and its words differ. The models have the code's behaviour; no run is
spent on them.

* `/collect` answers 425, which `collect.py:28` explains as "is being processed or has yet to be
  processed", for every target that was disabled without a success (`collect.py:74`).
* `disable_unassigned_targets` says "that have no reference in requests" (`DatabaseHandler.py:163`);
  its UPDATE has no WHERE clause.
* `/new-instance` refuses only when there are more than `MAX_INSTANCES_PER_SCRAPER` browsers
  (`new_instance.py:45`); `Scraper.to_model` reports room when there are fewer (`Scraper.py:46`).
* `/terminate` ("Kill all the instances", `terminate.py:16`) misses a browser whose creation was
  admitted before `busy` was set.
* `__create_browser` "returns true if successfully creates a browser" (`Broker.py:150`); it does not
  look at the result of `new_instance`, so a refused creation counts as one (`Created`, `Create`).
* `kill_browsers` reaches only the browsers in the last images of nodes that are online.

### Bounds

* Two targets give the choice of the target that is due first and a task beside a selected target;
  the tasks are otherwise independent. `Retries = 2` (3 in the code) has a target before, at and after
  its last try. Two `/clear` handlers and the loop give a queue with a scheduled waiter and a newcomer.
  The theorems remove these bounds for the safety properties.
* `JobsBounded` (in `broker_clear` only, a CONSTRAINT) cuts states in which a target has more than
  `MaxJobs = 3` attempts or rows: a failing insert may be repeated without end.
* `JobsBounded` is the only constraint; the other bounds are the sizes of the constant sets. The `/clear`
  of `broker_attempts` cancels, retires or does both (`MainRequests`): the kills change nothing in
  the broker. The other runs have every set of flags.
* Scraper: two browser objects with two requests on the id of the first, and in `scraper_registry` a
  third object for that id. `MaxInstances = 1` admits two browsers because the guard is off by one. A closed
  object may be created again, so every history is unbounded.
* Session: three requests are a holder of the lock, the waiter it wakes, and one behind. Each is sent
  once; one of them has `flag_lazy_loading`, so both branches meet.
* FrameStream: a chunk of 5 bytes (16384 in the code) against pieces of 4, 6 and 7 bytes ends at every
  place of a frame, and holds the end of one with the start of the next. A stream is two pieces and one
  more frame of the smallest size: three frames at most, or what is left of one whose start was lost.
  Two clients: one can clear the event the other waits for.
* Fleet: two nodes, of which one can leave, be stale or be full while the other works, and one instance
  id per node (`Names`), so that a killed browser comes back under its id. `MaxInstances = 1`. With one
  id a node is never `Full` (the guard asks for more than one browser): the refusal by a full node is in
  `Scraper`. Nodes and requests are interchangeable (`SYMMETRY`, in the safety run only).

### Fairness

* Weak fairness of the loop's steps, of each `/clear` step, of each step of a kill, of an update and
  of `/terminate`: asyncio runs every coroutine that is ready, and its queue is FIFO.
* Weak fairness of `Finish`: each `/get` of the broker has a time-out (`TIMEOUT_HTTP_SCRAPING`).
* Strong fairness of `Launch` of `Broker`: a target selected again and again meets a free browser in
  the end. It is used by `EveryTargetSettles` only, and `BrowserIsFound` of `Fleet` is its reason.
* Strong fairness of `Browse`: `__get_lock` is FIFO, which the model does not keep as a queue.
* Weak fairness of `ShutDownGoesOn`: a shut-down that has begun goes on.
* Weak fairness of `Answer`, `Register`, `Closed` of `Scraper`: the stages of a session have time-outs,
  except the DevTools calls of `smart_wait` and of `check_cf_blocking_content`, which are assumed to
  return; `Browser.kill` has a time-out in each part, and returns or raises. `Session` assumes nothing
  of DevTools: there is no fairness of `StepEnds`. Its `Insist`, `TimeOut` and `RecoveryEnds` are
  timers.
* `FrameStream`: the thread runs, and a client whose future is resolved goes on. A future resolved by
  another thread does not wake the event loop; the timer of `background_update`, every 10 ms, does. There
  is no fairness of `Sent`: a client may leave its frame untaken for ever.
* `Fleet`: the loop, the nodes and every time-out; weak fairness of `Begin(r) \/ Serve(r)` for each
  request at a node, as for `Answer` of `Scraper`; strong fairness of `AskNew(b)`, because
  `random.choice` leaves out no available node for ever.
* No client has to send, connect, read or leave, and no fault has to happen or stop, but for what the
  premises of `EveryTargetSettles`, `FrameIsShown`, `BrowserIsFound`, `UpdateDropsExpired` and
  `ExpiredIsDropped` say. Expiry is assumed only in `Fleet`, where it is what makes
  room for a new browser after one was spotted.

## Proofs

Every invariant, every action property and both refinements that a passing run checks are also
theorems, for all values of the constants that satisfy the module's assumption. Those of `Broker` that
speak of the jobs table have one premise more, about its insert, stated below.

**Broker.** The theorems of `BrokerProofs` hold for any sets of targets, polled targets and `/clear` handlers
(finite or not), any `Retries > 0`, either value of `ClearDbOnStartup`, under `BrokerAssumption`.

* `TypeCorrect`, `Exclusive`, `ClearIdle`, `EligibleStart` hold under every fault. They follow from
  `ControlInv` (theorem `Control`). None of the three properties is inductive alone. Exclusion needs
  `LockInv`: the lock is held exactly when the loop or a handler is inside. That a cancelling `/clear`
  finds no pending record needs `StoreInv`: records wait only in a store stage, which exclusion keeps
  away. Eligibility needs `EligibleInv`, what the two disable statements have established by the time a
  target is selected, and `PickInv`, that the selected target keeps its row and gets no task.
  `DiskInv`, that what is committed is a part of what is written, carries the rest over a restart.
* `Collected` holds under every fault too. A client with its page has a success row (`CollectInv`), and
  once that row is committed nothing but dropping the tables takes it away (`CommittedIsKept`): the rows
  of a target only grow (`CountsGrow`), and `disk` moves only to what is written (`DiskMoves`).
* `BoundedIfStored` and `CollectableIfStored` let the insert of the update loop fail. It drops records
  that have left `__current_tasks` already, so a target may be tried more often than the table says, but
  the table never holds more rows of a target than its retries, or a row after a success, and a client
  with its page is answered the page or 500, up to a restart before the commit of its row. What they
  exclude, as `[][CancelledIsStored]_vars`, is that the insert of a `/clear` fails: the tasks stay in
  `__current_tasks`, their rows may be written again by the next cycle, and until then a finished task
  answers 425 for a target that was collected.
* `Conservation`, `Implements`, and `Bounded` and `Collectable` in the form the runs check, assume that
  no job insert fails (`"insert" \notin Faults`). The first two need it: a dropped record is an attempt
  neither open nor recorded. They follow from `LedgerInv` (theorem `LedgerHolds`), which adds to
  `ControlInv` the balance of attempts, the bound and `CollectInv`. The step proofs (`BoundStep`,
  `BalanceStep`) sort the actions into kinds (`StepKinds`): steps that leave the ledger alone, that
  record, that start, that restart, and the insert of the loop that drops.
* `Implements`: the first four kinds map to a stutter or `Register` or `Retire`, to `Close`, to `Open`,
  and to `Forget`; a commit is `Save` or comes with the step it ends (`CommitSaves`,
  `CommitMaySave`). `LedgerProofs` proves what the ledger gives: `AttemptsAreBounded`, `SettledForGood`.

**Scraper.** The theorems of `ScraperProofs` hold for any sets of ids, creations, requests and `/terminate`
handlers and any `MaxInstances`, under `ScraperAssumption`. Every safety property of `Scraper` that a
run checks is among them. They follow from `RegistryInv` (theorem `RegistryHolds`), whose parts need
one another:

* `RequestInv`: the browser of a request is live, or being killed by someone who waits for that very
  request. `NoRequestOnClosedBrowser` is not inductive without it: nothing else says that the set a
  kill waits for has every request in it. It needs `RegisteredIsLive`, because a kill takes over what
  the dict shows at that moment.
* `HolderInv`: the lock is held exactly when `busy` is set or the update is inside, and `busy` is set
  exactly by a `/terminate` at work or the shutdown. It contains `TerminateIsExclusive`.
* `KillInv`: while `busy` is set every listed id is still in the dict, and a kill is awaited by the
  holder or goes on alone after a `gather` that has raised, never both. `HolderInv` keeps the update
  away, and `busy` turns `/kill` away. With `HolderInv` it gives `TerminateKeepsItsIds`.
* `ServiceInv`: once the server has drained, no request, handler or creation is left, so the terminate
  of the shutdown lists every browser in the dict, those of cancelled kills included.
* `StopInv`: a browser with a request is one the `/terminate` at work has still to kill, so that at the
  end none is left. It uses `RequestInv` for a browser that is registered after the ids were listed.

**Session.** The theorems of `SessionProofs` hold for any set of requests, any of them lazy, under
`SessionAssumption`. They follow from `SessionInv` (theorem `SessionHolds`):

* `QueueInv`: the queue of `__get_lock` holds the queued requests, each once. A waiter leaves it when
  its turn comes (`Woken`) or when it is cancelled (`Withdraw`), from any place. Without it a woken task
  could be one that is already in a stage.
* `LockInv`: `locked()` says whether some task is between the lock and its record. `TabIsExclusive` is
  not inductive without it: the fast path looks at nothing else.
* `CancelInv`: a task is cancelled by `kill` and once more by the time-out of its `wait_for`, the
  second time only when nothing is pending, so no task swallows three cancellations.
* `PendingInv`: in a kill, whatever has not reached its first stage has its cancellation before it. It
  gives `KillStartsNoPage`: a task can lose its cancellation only in a stage. `RestsBetweenPages` needs
  no more than the types.
* `IdleInv` and `PartsInv`: a browser has tasks only between registration and close, and its parts are
  killed after them. The refinement rests on these two.

`Implements` maps each action to a step of `Scraper` with one id and one browser (`CreationImplements`,
`AdmitImplements`, `GoesOnImplements`, `EndImplements`, `KillImplements`, `CloseImplements`), or to a
stutter. Only safety is claimed; `Scraper`'s fairness of `Answer` and `Closed` is what `KillEnds` checks.

**FrameStream.** The theorems of `FrameProofs` hold for any set of streams over `Byte`, any chunk size
and any set of clients, under `FrameAssumption`. They follow from `FrameInv` (theorem `FramesHold`):

* `OrderInv`: the frames are whole and lie one behind the other in front of the buffer. It gives
  `FramesAreWhole`, and the types when a kill cuts the stream short: no frame reaches beyond `pos`.
* `ScanInv`: when a chunk is read, the buffer holds no start marker with an end marker behind it.
* `ChunkInv`: what has been read is a multiple of the chunk size, or the whole stream.
* `DropInv`: a start marker that has left the buffer lies in a frame, or a chunk ended inside it. When a
  buffer without a frame is cleared, only its last two bytes can begin a marker; by `ChunkInv` that
  marker is cut, unless the stream ends there and the marker never gets its third byte.
* `LatestIsAnnounced` and `OnlyARaceStalls` are inductive with the types.

`LostAreCut` compares the frames with those of the same bytes read in one piece, which `InOnePiece`
defines by a recursive function. `LeastNat` (a set of natural numbers has a least one, from the
library's well-founded induction) takes the place of induction: `PiecesExist` shows that the function
exists, by continuing it downwards from the end of the bytes, and `PiecesInduction` that what is kept
from one frame to the next holds of all of them. What is kept is that the search begins at a place
inside no frame that was cut (`BehindAFrame`); from such a place `FrameIsFound` shows that the next
frame was cut from the chunks too, or has a split marker.

`ChunksAreExact` is the converse with it: if no chunk ends inside a start marker, the frames cut from
the chunks are exactly those of the bytes read in one piece. A frame that was cut is the first one from
the place behind its predecessor (`NextFrame`); if some frame were not among those of one piece, the
first such one would follow a frame that is, or begin the stream, and so be among them after all.

**Fleet.** The theorems of `FleetProofs` hold for any sets of nodes, ids and requests and any
`MaxInstances` (`FleetAssumption` is not needed). They follow from `FleetInv` (theorem `FleetHolds`):

* `OnlineInv`: from `Mark` to the choice of a browser, the online images are those of reachable nodes. A
  cycle that is aborted leaves the flags as they are, but also its place, so the next choice comes after
  another `Mark`. It gives `TasksGoToReachable`.
* `NotedInv`: no image shows a browser idle whose tab a noted request holds. A refresh that notes a
  request finds it holding the tab and reads the browser as busy; a request keeps the tab until it ends,
  so a later refresh that reads the browser idle finds it gone. Nothing else makes a browser idle in an
  image. It gives `NoSecondOnKnownBusy`.

Only model-checked: the liveness properties (`EveryTargetSettles`, `ClearAnswered`, `GetAnswered`,
`TerminateAnswered`, `UpdateDropsExpired`, `KillEnds`, `ProcessesEnd`, `FrameIsShown`, `BrowserIsFound`),
because fairness and ENABLED are out of the prover's reach.

## Not modelled, and the plan

Next, all of it proof:

* the safety half of the liveness properties: what each wait for a lock or a kill needs to end;
* what the ledger keeps of an attempt when the insert of a `/clear` fails and its rows are written
  twice.

Left out, with the reason:

* the dashboard and its read of the state: it changes nothing, and a failure is a 500 to one request;
* the shutdown of the broker: `await bg_task` raises, so `terminate` is never reached
  (`broker/main.py:36`), but all it would do is close HTTP clients of a process that ends;
* the IP filter, a pure test of an address against constants;
* the `proxypi` command line and the provisioning scripts: text on a host's shell and its files;
* terminal layout, logging other than its failures, names, memory figures, the content of pages;
* `Mesh`, the composition of `Broker`, `Fleet` and `Scraper` in one module: its state space is out of
  reach, and the three meet at interfaces that are modelled on both sides (`Launch`, `Session` as a
  refinement of `Scraper`, and the nodes inside `Fleet`).
