---------------------------- MODULE FrameStream ----------------------------
(***************************************************************************)
(* The video stream of a browser (src/scraper/core/FrameUnpacker.py): a    *)
(* thread reads the JPEG stream of ffmpeg in chunks, cuts frames out of it *)
(* and leaves the latest one for the stream clients, which are coroutines  *)
(* of the event loop and wait for it on one asyncio.Event.                 *)
(*                                                                         *)
(* The event is not made for threads: the unpacking thread and the event   *)
(* loop interleave inside Event.wait and Event.set (Python 3.10), so each  *)
(* of their statements that touches shared state is an action.             *)
(***************************************************************************)
EXTENDS Naturals, Sequences, FiniteSets

CONSTANTS
    Streams,    \* what ffmpeg may write
    ChunkSize,  \* STREAM_CHUNK_SIZE: read blocks until it has this many bytes
    Client      \* GET /stream requests on the browser

Byte == {"ff", "d8", "d9", "other"}

ASSUME FrameAssumption ==
    /\ Streams \subseteq Seq(Byte)
    /\ ChunkSize \in Nat \ {0}

VARIABLES
    stream,     \* what ffmpeg writes until it is killed
    pos,        \* the number of bytes read
    base,       \* the number of bytes dropped: buffer is base + 1 .. pos
    thread,     \* where the unpacking thread is
    frames,     \* history: the frames cut so far, the last one is __latest_frame
    flag,       \* __new_frame_available.is_set()
    mutated,    \* the waiters of the event have changed since set iterates over them
    client,     \* where the generator of each client is
    given,      \* history: the latest frame some client has read
    raced       \* history: clients that queued on an event that was set already

bytes == <<stream, pos, base, frames>>
event == <<flag, mutated>>
reader == <<client, given, raced>>
vars == <<bytes, thread, event, reader>>

TypeOK ==
    /\ stream \in Seq(Byte)
    /\ pos \in 0 .. Len(stream) /\ base \in 0 .. pos
    /\ thread \in {"read", "scan", "set", "wake", "done", "dead"}
    /\ frames \in Seq((1 .. Len(stream)) \X (1 .. Len(stream)))
    /\ flag \in BOOLEAN /\ mutated \in BOOLEAN
    /\ client \in [Client -> {"away", "ready", "checked", "waiting", "woken", "returned",
                          "take", "sending"}]
    /\ given \in 0 .. Len(frames)
    /\ raced \in SUBSET Client

Init ==
    /\ stream \in Streams
    /\ pos = 0 /\ base = 0 /\ frames = <<>>
    /\ thread = "read"
    /\ flag = FALSE /\ mutated = FALSE
    /\ client = [c \in Client |-> "away"]
    /\ given = 0 /\ raced = {}

-----------------------------------------------------------------------------
(***************************************************************************)
(* Markers and frames of the bytes lo .. hi of the stream.  As in          *)
(* bytearray.find, the end marker is searched from the start marker on and *)
(* may share its first byte with it.                                       *)
(***************************************************************************)
Starts(lo, hi) == {i \in lo .. hi - 2 :
                      stream[i] = "ff" /\ stream[i + 1] = "d8" /\ stream[i + 2] = "ff"}
Ends(lo, hi) == {i \in lo .. hi - 1 : stream[i] = "ff" /\ stream[i + 1] = "d9"}
First(S) == CHOOSE i \in S : \A j \in S : i <= j

\* Mutant: the whole of the buffer is searched for the end marker.
FrameFromAnyEnd(lo, hi) ==
    {f \in (lo .. hi) \X (lo .. hi) :
        /\ Starts(lo, hi) # {} /\ f[1] = First(Starts(lo, hi))
        /\ Ends(lo, hi) # {} /\ f[2] = First(Ends(lo, hi)) + 1}

\* the first frame of lo .. hi: the empty set, or its first and its last byte
FirstFrame(lo, hi) ==
    {f \in (lo .. hi) \X (lo .. hi) :
        /\ Starts(lo, hi) # {} /\ f[1] = First(Starts(lo, hi))
        /\ Ends(f[1], hi) # {} /\ f[2] = First(Ends(f[1], hi)) + 1}

\* the bytes dropped when the buffer holds no whole frame
Dropped == IF Starts(base + 1, pos) = {} THEN pos ELSE First(Starts(base + 1, pos)) - 1

-----------------------------------------------------------------------------
\* Mutant: a last chunk that is short counts as a whole one.
ReadsPast ==
    /\ thread = "read"
    /\ \/ pos < Len(stream) /\ thread' = "scan" /\ pos' = pos + ChunkSize
       \/ pos = Len(stream) /\ thread' = "done" /\ UNCHANGED pos
    /\ UNCHANGED <<stream, base, frames, event, reader>>

\* the thread reads a chunk, or finds the end of the stream
Read ==
    /\ thread = "read"
    /\ \/ /\ pos < Len(stream) /\ thread' = "scan"
          /\ pos' = IF pos + ChunkSize <= Len(stream) THEN pos + ChunkSize ELSE Len(stream)
       \/ pos = Len(stream) /\ thread' = "done" /\ UNCHANGED pos
    /\ UNCHANGED <<stream, base, frames, event, reader>>

\* Mutant: the buffer is cleared whenever it holds no whole frame.
ScanForgets ==
    /\ thread = "scan"
    /\ \/ /\ FirstFrame(base + 1, pos) = {}
          /\ base' = pos /\ thread' = "read" /\ UNCHANGED frames
       \/ \E f \in FirstFrame(base + 1, pos) :
             base' = f[2] /\ frames' = Append(frames, f) /\ thread' = "set"
    /\ UNCHANGED <<stream, pos, event, reader>>

\* a frame is cut and becomes __latest_frame, or the buffer holds none
Scan ==
    /\ thread = "scan"
    /\ \/ /\ FirstFrame(base + 1, pos) = {}
          /\ base' = Dropped /\ thread' = "read" /\ UNCHANGED frames
       \/ \E f \in FirstFrame(base + 1, pos) :
             base' = f[2] /\ frames' = Append(frames, f) /\ thread' = "set"
    /\ UNCHANGED <<stream, pos, event, reader>>

\* Mutant: the flag of the event is set, its waiters are not resolved.
SetsFlagOnly ==
    /\ thread = "set"
    /\ flag' = TRUE /\ mutated' = FALSE
    /\ thread' = "scan"
    /\ UNCHANGED <<bytes, reader>>

\* Event.set: it does nothing when the event is set already
Set ==
    /\ thread = "set"
    /\ flag' = TRUE /\ mutated' = FALSE
    /\ thread' = IF flag THEN "scan" ELSE "wake"
    /\ UNCHANGED <<bytes, reader>>

\* Event.set resolves the futures of its waiters
Wake(c) ==
    /\ thread = "wake" /\ ~mutated
    /\ client[c] = "waiting" /\ client' = [client EXCEPT ![c] = "woken"]
    /\ UNCHANGED <<bytes, thread, event, given, raced>>

\* the iteration ends; a deque that has changed meanwhile raises RuntimeError
WakeEnds ==
    /\ thread = "wake"
    /\ \/ mutated /\ thread' = "dead"
       \/ ~mutated /\ thread' = "scan" /\ \A c \in Client : client[c] # "waiting"
    /\ UNCHANGED <<bytes, event, reader>>

\* Streamer.kill: ffmpeg writes no more; what it has written is still read
Kill ==
    /\ \E n \in pos .. Len(stream) : n < Len(stream) /\ stream' = SubSeq(stream, 1, n)
    /\ UNCHANGED <<pos, base, frames, thread, event, reader>>

-----------------------------------------------------------------------------
Go(c, s) == client' = [client EXCEPT ![c] = s]
\* the waiters change; the iteration of set, if it is under way, will notice
Mutates == mutated' = (mutated \/ thread = "wake")

Connect(c) ==
    /\ client[c] = "away" /\ Go(c, "ready")
    /\ UNCHANGED <<bytes, thread, event, given, raced>>

\* Mutant: the test of the event clears it.
ChecksAndClears(c) ==
    /\ client[c] = "ready"
    /\ Go(c, IF flag THEN "returned" ELSE "checked")
    /\ flag' = FALSE
    /\ UNCHANGED <<bytes, thread, mutated, given, raced>>

\* Event.wait: returns at once when the event is set
Check(c) ==
    /\ client[c] = "ready"
    /\ Go(c, IF flag THEN "returned" ELSE "checked")
    /\ UNCHANGED <<bytes, thread, event, given, raced>>

\* Event.wait: the future joins the waiters, although set may have run meanwhile
Enlist(c) ==
    /\ client[c] = "checked" /\ Go(c, "waiting") /\ Mutates
    /\ raced' = IF flag THEN raced \cup {c} ELSE raced
    /\ UNCHANGED <<bytes, thread, flag, given>>

\* Event.wait takes the resolved future out of the waiters and returns
Return(c) ==
    /\ client[c] = "woken" /\ Go(c, "returned") /\ Mutates
    /\ UNCHANGED <<bytes, thread, flag, given, raced>>

\* Mutant: the event is not cleared.
LeavesSet(c) ==
    /\ client[c] = "returned" /\ Go(c, "take")
    /\ UNCHANGED <<bytes, thread, event, given, raced>>

\* the client clears the event
Clear(c) ==
    /\ client[c] = "returned" /\ Go(c, "take")
    /\ flag' = FALSE /\ raced' = {}
    /\ UNCHANGED <<bytes, thread, mutated, given>>

\* it reads __latest_frame and yields it
Take(c) ==
    /\ client[c] = "take" /\ Go(c, "sending")
    /\ given' = Len(frames)
    /\ UNCHANGED <<bytes, thread, event, raced>>

Sent(c) ==
    /\ client[c] = "sending" /\ Go(c, "ready")
    /\ UNCHANGED <<bytes, thread, event, given, raced>>

\* the client disconnects: the generator ends where it is suspended
Leave(c) ==
    /\ client[c] \in {"waiting", "woken", "sending"} /\ Go(c, "away")
    /\ IF client[c] = "sending" THEN UNCHANGED mutated ELSE Mutates
    /\ raced' = raced \ {c}
    /\ UNCHANGED <<bytes, thread, flag, given>>

-----------------------------------------------------------------------------
ThreadStep == Read \/ Scan \/ Set \/ WakeEnds \/ \E c \in Client : Wake(c)
ClientStep(c) == Check(c) \/ Enlist(c) \/ Return(c) \/ Clear(c) \/ Take(c)

Next ==
    \/ ThreadStep \/ Kill
    \/ \E c \in Client : Connect(c) \/ ClientStep(c) \/ Sent(c) \/ Leave(c)

Spec == Init /\ [][Next]_vars

(***************************************************************************)
(* Fairness: the thread runs, and the event loop runs every client whose   *)
(* future is resolved.  Resolving it from a thread does not wake the event *)
(* loop; the timer of Scraper.background_update does, every 10 ms.  No     *)
(* client is assumed to take the frame it is sent: the generator may stay  *)
(* at its yield for ever.                                                  *)
(***************************************************************************)
FairSpec ==
    /\ Spec
    /\ WF_vars(ThreadStep)
    /\ \A c \in Client : WF_vars(ClientStep(c))
-----------------------------------------------------------------------------
(***************************************************************************)
(* Properties.                                                             *)
(***************************************************************************)

\* Every frame that is handed over is one whole image: it begins with a start
\* marker, ends with the first end marker after it, and begins after the end of
\* the frame before, however the chunks fall.
FramesAreWhole ==
    \A k \in 1 .. Len(frames) :
        LET a == frames[k][1]  b == frames[k][2] IN
        /\ a < b
        /\ stream[a] = "ff" /\ stream[a + 1] = "d8" /\ stream[a + 2] = "ff"
        /\ stream[b - 1] = "ff" /\ stream[b] = "d9"
        /\ \A i \in a .. b - 2 : ~(stream[i] = "ff" /\ stream[i + 1] = "d9")
        /\ k > 1 => frames[k - 1][2] < a

\* the frames of the bytes lo .. hi when they are read in one piece
InOnePiece(hi) ==
    LET from[lo \in 1 .. hi + 1] ==
            UNION {{f} \cup from[f[2] + 1] : f \in FirstFrame(lo, hi)}
    IN from[1]

\* a chunk ends inside the start marker of f
IsCut(f) == \E i \in f[1] .. f[1] + 1 : i % ChunkSize = 0

\* Cutting the stream in chunks loses no frame except one whose start marker is
\* split between two chunks: the first part of such a marker is dropped with the
\* buffer.
OnlyCutFramesAreLost ==
    thread = "read" =>
        \A f \in InOnePiece(pos) : IsCut(f) \/ \E k \in 1 .. Len(frames) : frames[k] = f

\* The latest frame is announced by the event, about to be, or has been read by
\* a client: clearing the event never hides a frame nobody has seen.
LatestIsAnnounced ==
    frames # <<>> /\ thread # "set" /\ ~flag =>
        given = Len(frames) \/ \E c \in Client : client[c] = "take"

\* Once set has returned, a client is left waiting on an event that is set only
\* if set ran between its test of the event and its queueing.
OnlyARaceStalls ==
    \A c \in Client :
        client[c] = "waiting" /\ flag /\ thread \notin {"wake", "dead"} => c \in raced

\* A frame that is announced is taken as long as a client is connected that goes
\* on reading what it is sent and did not lose that race, whatever the other
\* clients do: they may come and go, or stop reading.
FrameIsShown ==
    \A c \in Client :
        []<>(client[c] # "sending") =>
            (flag /\ client[c] # "away" ~>
                ~flag \/ client[c] = "away" \/ c \in raced \/ thread = "dead")
=============================================================================
