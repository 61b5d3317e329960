------------------------------ MODULE AsyncLock ------------------------------
(***************************************************************************)
(* asyncio.Lock of Python 3.10, the interpreter of both images, as the     *)
(* operations its users make on it.  The fast path needs a free lock and   *)
(* an empty queue; release frees the lock and schedules the first waiter,  *)
(* which takes it only when it runs: in between the lock reads as free,    *)
(* and a newcomer queues behind the waiter.                                *)
(***************************************************************************)
EXTENDS Naturals, Sequences

VARIABLES
    locked,     \* locked()
    waiters     \* the coroutines that wait, first come first served

LockFree == ~locked /\ waiters = <<>>

Acquire == LockFree /\ locked' = TRUE /\ UNCHANGED waiters

Enqueue(who) == ~LockFree /\ waiters' = Append(waiters, who) /\ UNCHANGED locked

Scheduled(who) == ~locked /\ waiters # <<>> /\ Head(waiters) = who

Woken(who) == Scheduled(who) /\ locked' = TRUE /\ waiters' = Tail(waiters)

\* a cancelled waiter takes its future out of the queue
Withdraw(who) ==
    /\ \E i \in 1 .. Len(waiters) :
           /\ waiters[i] = who
           /\ waiters' = SubSeq(waiters, 1, i - 1) \o SubSeq(waiters, i + 1, Len(waiters))
    /\ UNCHANGED locked

Release == locked' = FALSE /\ UNCHANGED waiters
=============================================================================
