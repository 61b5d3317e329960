----------------------------- MODULE FrameProofs -----------------------------
(***************************************************************************)
(* Theorems about FrameStream, for every stream, every chunk size and any  *)
(* number of clients: the frames are whole however the chunks fall, only   *)
(* those with a split start marker are lost, and the event never hides the *)
(* latest one.                                                             *)
(***************************************************************************)
EXTENDS FrameStream, Integers, SequenceTheorems, WellFoundedInduction, TLAPS

\* the byte i begins a start marker, or an end marker
Opens(i) == stream[i] = "ff" /\ stream[i + 1] = "d8" /\ stream[i + 2] = "ff"
Closes(i) == stream[i] = "ff" /\ stream[i + 1] = "d9"

-----------------------------------------------------------------------------
(***************************************************************************)
(* Numbers.                                                                *)
(***************************************************************************)
\* A set of natural numbers has a least one: all the induction that is needed.
LEMMA LeastNat ==
    ASSUME NEW T \in SUBSET Nat, T # {}
    PROVE  \E x \in T : \A y \in T : x <= y
<1> DEFINE Less == OpToRel(<, Nat)
<1>1. IsWellFoundedOn(Less, Nat)
  BY NatLessThanWellFounded
<1>2. \A x, y \in Nat : <<y, x>> \in Less <=> y < x
  BY DEF OpToRel
<1> HIDE DEF Less
<1>3. PICK x \in T : \A y \in T : ~(<<y, x>> \in Less)
  BY <1>1, WFMin
<1>4. \A y \in T : ~(y < x)
  BY <1>2, <1>3
<1> QED
  BY <1>4

\* First finds it.
LEMMA FirstIsLeast ==
    ASSUME NEW S \in SUBSET Nat, S # {}
    PROVE  First(S) \in S /\ \A j \in S : First(S) <= j
BY LeastNat DEF First

\* A multiple of the chunk size leaves no remainder.
LEMMA NoRemainder ==
    ASSUME NEW c \in Nat \ {0}, NEW q \in Nat
    PROVE  (c * q) % c = 0
<1> DEFINE x == c * q
<1>1. x \in Nat
  OBVIOUS
<1>2. PICK p \in Int : x = c * p + (x % c) /\ x % c \in 0 .. c - 1
  <2>1. x = c * (x \div c) + (x % c) /\ x \div c \in Int /\ x % c \in 0 .. c - 1
    BY <1>1
  <2> QED
    BY <2>1
<1>3. c * (q - p) = x % c
  <2>1. c * (q - p) = c * q - c * p
    OBVIOUS
  <2>2. c * q \in Int /\ c * p \in Int
    OBVIOUS
  <2> QED
    BY <1>2, <2>1, <2>2
<1> HIDE DEF x
<1>4. q - p <= 0
  <2> SUFFICES ASSUME q - p >= 1 PROVE FALSE
    BY <1>2
  <2>1. c * (q - p) >= c
    BY <1>2
  <2> QED
    BY <1>2, <1>3, <2>1
<1>5. x % c <= 0
  BY <1>2, <1>3, <1>4
<1> QED
  BY <1>2, <1>5 DEF x

-----------------------------------------------------------------------------
(***************************************************************************)
(* What bytearray.find cuts out.                                           *)
(***************************************************************************)
\* A frame begins at the first start marker and ends with the first end marker
\* behind it.
LEMMA FrameShape ==
    ASSUME NEW lo \in Nat, NEW hi \in Nat, NEW f \in FirstFrame(lo, hi)
    PROVE  /\ f = <<f[1], f[2]>> /\ f[1] \in lo .. hi /\ f[2] \in lo .. hi
           /\ f[1] + 2 < f[2]
           /\ Opens(f[1]) /\ Closes(f[2] - 1)
           /\ \A s \in lo .. f[1] - 1 : ~Opens(s)
           /\ \A e \in f[1] .. f[2] - 2 : ~Closes(e)
<1> DEFINE S == Starts(lo, hi)
           E == Ends(f[1], hi)
<1>1. /\ f \in (lo .. hi) \X (lo .. hi)
      /\ S # {} /\ f[1] = First(S) /\ E # {} /\ f[2] = First(E) + 1
  BY DEF FirstFrame
<1>2. S \subseteq Nat /\ E \subseteq Nat
  BY <1>1 DEF Starts, Ends
<1> HIDE DEF S, E
<1>3. f[1] \in S /\ \A s \in S : f[1] <= s
  BY <1>1, <1>2, FirstIsLeast
<1>4. f[2] - 1 \in E /\ \A e \in E : f[2] - 1 <= e
  <2>1. First(E) \in E /\ \A e \in E : First(E) <= e
    BY <1>1, <1>2, FirstIsLeast
  <2>2. First(E) \in Nat /\ f[2] - 1 = First(E)
    <3>1. First(E) \in Nat
      BY <1>2, <2>1
    <3> QED
      BY <1>1, <3>1
  <2> QED
    BY <2>1, <2>2
<1>5. f[1] \in lo .. hi - 2 /\ Opens(f[1])
  BY <1>3 DEF S, Starts, Opens
<1>6. f[2] - 1 \in f[1] .. hi - 1 /\ Closes(f[2] - 1)
  BY <1>4 DEF E, Ends, Closes
<1>7. f[1] \in Nat /\ f[2] \in Nat
  BY <1>1
<1>8. ASSUME NEW s \in lo .. f[1] - 1, Opens(s) PROVE FALSE
  <2>1. s \in S
    BY <1>5, <1>7, <1>8 DEF S, Starts, Opens
  <2> QED
    BY <1>3, <1>7, <2>1
<1>9. ASSUME NEW e \in f[1] .. f[2] - 2, Closes(e) PROVE FALSE
  <2>1. e \in E
    BY <1>6, <1>7, <1>9 DEF E, Ends, Closes
  <2> QED
    BY <1>4, <1>7, <2>1
<1>10. f[1] + 2 < f[2]
  <2>1. f[2] - 1 # f[1] /\ f[2] - 1 # f[1] + 1
    BY <1>5, <1>6, <1>7 DEF Opens, Closes
  <2> QED
    BY <1>6, <1>7, <2>1
<1> QED
  BY <1>1, <1>5, <1>6, <1>8, <1>9, <1>10

\* There is one where a start marker is followed by an end marker.
LEMMA FrameExists ==
    ASSUME NEW lo \in Nat, NEW hi \in Nat,
           NEW s \in lo .. hi - 2, Opens(s), NEW e \in s .. hi - 1, Closes(e)
    PROVE  FirstFrame(lo, hi) # {}
<1> DEFINE S == Starts(lo, hi)
           a == First(S)
           E == Ends(a, hi)
           b == First(E)
<1>1. s \in S /\ S \subseteq Nat
  BY DEF Starts, Opens
<1> HIDE DEF S
<1>2. a \in S /\ a <= s
  BY <1>1, FirstIsLeast
<1>3. a \in lo .. hi - 2 /\ a \in Nat
  BY <1>2 DEF S, Starts
<1> HIDE DEF a
<1>4. e \in E /\ E \subseteq Nat
  BY <1>2, <1>3 DEF Ends, Closes
<1> HIDE DEF E
<1>5. b \in E /\ b <= e
  BY <1>4, FirstIsLeast
<1>6. b \in a .. hi - 1
  BY <1>5 DEF E, Ends
<1> HIDE DEF b
<1>7. a \in lo .. hi /\ b + 1 \in lo .. hi
  BY <1>3, <1>6
<1>8. <<a, b + 1>> \in FirstFrame(lo, hi)
  BY <1>2, <1>5, <1>7 DEF FirstFrame, S, E, a, b
<1> QED
  BY <1>8

-----------------------------------------------------------------------------
(***************************************************************************)
(* The frames of a stream that is read in one piece.                       *)
(***************************************************************************)
\* the recursive function of InOnePiece
Pieces(hi) == CHOOSE from : from = [lo \in 1 .. hi + 1 |->
                                      UNION {{f} \cup from[f[2] + 1] : f \in FirstFrame(lo, hi)}]

\* A frame ends behind the place from which it is searched.
LEMMA FrameAdvances ==
    ASSUME NEW hi \in Nat, NEW lo \in 1 .. hi + 1, NEW f \in FirstFrame(lo, hi)
    PROVE  f[2] \in Nat /\ lo <= f[2] /\ f[2] <= hi
BY DEF FirstFrame

\* There is such a function: it can be continued downwards, place by place.
LEMMA PiecesExist ==
    ASSUME NEW hi \in Nat
    PROVE  \E from : from = [lo \in 1 .. hi + 1 |->
                                UNION {{f} \cup from[f[2] + 1] : f \in FirstFrame(lo, hi)}]
<1> DEFINE Is(g, m) == g = [lo \in hi + 1 - m .. hi + 1 |->
                              UNION {{f} \cup g[f[2] + 1] : f \in FirstFrame(lo, hi)}]
           Bad == {m \in Nat : m <= hi /\ ~\E g : Is(g, m)}
<1>1. \E g : Is(g, 0)
  <2> DEFINE g == [lo \in hi + 1 .. hi + 1 |-> {}]
  <2>1. \A lo \in hi + 1 .. hi + 1 : FirstFrame(lo, hi) = {}
    BY FrameAdvances
  <2>2. g = [lo \in hi + 1 .. hi + 1 |->
                UNION {{f} \cup g[f[2] + 1] : f \in FirstFrame(lo, hi)}]
    BY <2>1
  <2>3. hi + 1 - 0 = hi + 1
    OBVIOUS
  <2> QED
    BY <2>2, <2>3
<1>2. ASSUME NEW m \in Nat, m + 1 <= hi, NEW g, Is(g, m)
      PROVE  \E h : Is(h, m + 1)
  <2> DEFINE h == [lo \in hi + 1 - (m + 1) .. hi + 1 |->
                      UNION {{f} \cup g[f[2] + 1] : f \in FirstFrame(lo, hi)}]
  <2>1. ASSUME NEW lo \in hi + 1 - (m + 1) .. hi + 1, NEW f \in FirstFrame(lo, hi)
        PROVE  h[f[2] + 1] = g[f[2] + 1]
    <3>1. lo \in 1 .. hi + 1
      BY <1>2
    <3>2. f[2] + 1 \in hi + 1 - m .. hi + 1 /\ f[2] + 1 \in hi + 1 - (m + 1) .. hi + 1
      BY <1>2, <3>1, FrameAdvances
    <3> DEFINE k == f[2] + 1
    <3>3. k \in hi + 1 - m .. hi + 1 /\ k \in hi + 1 - (m + 1) .. hi + 1
      BY <3>2
    <3> HIDE DEF k
    <3>4. g[k] = UNION {{p} \cup g[p[2] + 1] : p \in FirstFrame(k, hi)}
      BY <1>2, <3>3
    <3>5. h[k] = UNION {{p} \cup g[p[2] + 1] : p \in FirstFrame(k, hi)}
      BY <3>3
    <3> QED
      BY <3>4, <3>5 DEF k
  <2>2. \A lo \in hi + 1 - (m + 1) .. hi + 1 :
           UNION {{f} \cup h[f[2] + 1] : f \in FirstFrame(lo, hi)}
         = UNION {{f} \cup g[f[2] + 1] : f \in FirstFrame(lo, hi)}
    <3> HIDE DEF h
    <3> QED
      BY <2>1
  <2>3. Is(h, m + 1)
    <3>1. h = [lo \in hi + 1 - (m + 1) .. hi + 1 |->
                      UNION {{f} \cup g[f[2] + 1] : f \in FirstFrame(lo, hi)}]
      OBVIOUS
    <3> HIDE DEF h
    <3> QED
      BY <2>2, <3>1
  <2> QED
    BY <2>3
<1> HIDE DEF Is
<1>3. Bad = {}
  <2> SUFFICES ASSUME Bad # {} PROVE FALSE
    OBVIOUS
  <2>1. PICK m \in Bad : \A n \in Bad : m <= n
    BY LeastNat
  <2>2. m \in Nat /\ m # 0
    BY <1>1
  <2>3. m - 1 \in Nat /\ m - 1 <= hi /\ m - 1 \notin Bad /\ m - 1 + 1 = m /\ m <= hi
    BY <2>1, <2>2
  <2>4. PICK g : Is(g, m - 1)
    BY <2>3
  <2>5. \E h : Is(h, m - 1 + 1)
    BY <1>2, <2>3, <2>4
  <2> QED
    BY <2>3, <2>5
<1>4. PICK g : Is(g, hi)
  BY <1>3
<1>5. hi + 1 - hi = 1
  OBVIOUS
<1> QED
  BY <1>4, <1>5 DEF Is

\* Reading in one piece: the first frame from here, and those behind it.
LEMMA PiecesEquation ==
    ASSUME NEW hi \in Nat
    PROVE  /\ InOnePiece(hi) = Pieces(hi)[1]
           /\ \A lo \in 1 .. hi + 1 :
                 Pieces(hi)[lo] = UNION {{f} \cup Pieces(hi)[f[2] + 1] : f \in FirstFrame(lo, hi)}
<1>1. InOnePiece(hi) = Pieces(hi)[1]
  BY DEF InOnePiece, Pieces
<1>2. Pieces(hi) = [lo \in 1 .. hi + 1 |->
                      UNION {{f} \cup Pieces(hi)[f[2] + 1] : f \in FirstFrame(lo, hi)}]
  BY PiecesExist, Zenon DEF Pieces
<1> QED
  BY <1>1, <1>2

\* What every frame has in common when it is searched from a place of G, each
\* frame leading to another place of G, all the frames have.
LEMMA PiecesInduction ==
    ASSUME NEW hi \in Nat, NEW G \in SUBSET (1 .. hi + 1), 1 \in G, NEW T,
           \A lo \in G : \A f \in FirstFrame(lo, hi) : f \in T /\ f[2] + 1 \in G
    PROVE  InOnePiece(hi) \subseteq T
<1> DEFINE P == Pieces(hi)
           Bad == {m \in Nat : m <= hi /\ hi + 1 - m \in G /\ ~(P[hi + 1 - m] \subseteq T)}
<1>1. \A lo \in 1 .. hi + 1 : P[lo] = UNION {{f} \cup P[f[2] + 1] : f \in FirstFrame(lo, hi)}
  BY PiecesEquation
<1> HIDE DEF P
<1>2. Bad = {}
  <2> SUFFICES ASSUME Bad # {} PROVE FALSE
    OBVIOUS
  <2>1. PICK m \in Bad : \A n \in Bad : m <= n
    BY LeastNat
  <2> DEFINE lo == hi + 1 - m
  <2>2. lo \in 1 .. hi + 1 /\ lo \in G /\ ~(P[lo] \subseteq T)
    OBVIOUS
  <2>3. m = hi + 1 - lo
    OBVIOUS
  <2> HIDE DEF lo
  <2>4. ASSUME NEW f \in FirstFrame(lo, hi) PROVE f \in T /\ P[f[2] + 1] \subseteq T
    <3>1. f \in T /\ f[2] + 1 \in G
      BY <2>2
    <3>2. f[2] \in Nat /\ lo <= f[2] /\ f[2] <= hi
      BY <2>2, FrameAdvances
    <3>3. hi - f[2] \in Nat /\ hi - f[2] < m /\ hi - f[2] <= hi /\ hi + 1 - (hi - f[2]) = f[2] + 1
      BY <2>2, <2>3, <3>2
    <3>4. hi - f[2] \notin Bad
      BY <2>1, <3>3
    <3> QED
      BY <3>1, <3>3, <3>4
  <2>5. P[lo] = UNION {{f} \cup P[f[2] + 1] : f \in FirstFrame(lo, hi)}
    BY <1>1, <2>2
  <2>6. P[lo] \subseteq T
    BY <2>4, <2>5
  <2> QED
    BY <2>2, <2>6
<1>3. hi \in Nat /\ hi <= hi /\ hi + 1 - hi = 1 /\ hi \notin Bad
  BY <1>2
<1>4. P[1] \subseteq T
  BY <1>3
<1> QED
  BY <1>4, PiecesEquation DEF P

-----------------------------------------------------------------------------
(***************************************************************************)
(* The inductive invariant, in named parts.                                *)
(***************************************************************************)
IsWhole(f) ==
    /\ f[1] + 2 < f[2] /\ Opens(f[1]) /\ Closes(f[2] - 1)
    /\ \A e \in f[1] .. f[2] - 2 : ~Closes(e)

\* the frames lie one behind the other in what has left the buffer
OrderInv ==
    /\ \A k \in 1 .. Len(frames) : IsWhole(frames[k]) /\ frames[k][2] <= base
    /\ \A j, k \in 1 .. Len(frames) : j < k => frames[j][2] < frames[k][1]

\* the buffer holds no whole frame when the next chunk is read
ScanInv ==
    thread = "read" =>
        \A s \in base + 1 .. pos - 2 : \A e \in s .. pos - 1 : ~(Opens(s) /\ Closes(e))

\* the bytes read are whole chunks, up to the end of the stream
ChunkInv == pos = Len(stream) \/ \E q \in Nat : pos = ChunkSize * q

\* a chunk ends inside the start marker at s
CutAt(s) == \E i \in s .. s + 1 : i % ChunkSize = 0

\* a start marker that has left the buffer is in a frame, or was cut
DropInv ==
    \A s \in 1 .. base :
        s + 2 <= Len(stream) /\ Opens(s) /\ ~CutAt(s) =>
            \E k \in 1 .. Len(frames) : frames[k][1] <= s /\ s <= frames[k][2]

\* the types of the bytes and of the frames cut from them
BytesType ==
    /\ stream \in Seq(Byte)
    /\ pos \in 0 .. Len(stream) /\ base \in 0 .. pos
    /\ frames \in Seq((1 .. Len(stream)) \X (1 .. Len(stream)))

\* the part of the invariant that is about the bytes
BytesInv == BytesType /\ OrderInv /\ ScanInv /\ ChunkInv /\ DropInv

\* the types of the event and of the clients
EventType ==
    /\ thread \in {"read", "scan", "set", "wake", "done", "dead"}
    /\ flag \in BOOLEAN /\ mutated \in BOOLEAN
    /\ client \in [Client -> {"away", "ready", "checked", "waiting", "woken", "returned",
                          "take", "sending"}]
    /\ given \in 0 .. Len(frames)
    /\ raced \in SUBSET Client

\* the inductive invariant
FrameInv == BytesInv /\ EventType /\ LatestIsAnnounced /\ OnlyARaceStalls

-----------------------------------------------------------------------------
(***************************************************************************)
(* The steps on the bytes.                                                 *)
(***************************************************************************)
\* Every number here is a natural one.
LEMMA BytesNumbers ==
    ASSUME BytesType
    PROVE  /\ Len(stream) \in Nat /\ pos \in Nat /\ base \in Nat
           /\ base <= pos /\ pos <= Len(stream) /\ Len(frames) \in Nat
           /\ \A k \in 1 .. Len(frames) :
                 /\ frames[k][1] \in Nat /\ frames[k][1] >= 1 /\ frames[k][2] \in Nat
                 /\ frames[k] = <<frames[k][1], frames[k][2]>>
<1>1. Len(stream) \in Nat /\ Len(frames) \in Nat
  BY DEF BytesType
<1>2. \A k \in 1 .. Len(frames) : frames[k] \in (1 .. Len(stream)) \X (1 .. Len(stream))
  BY DEF BytesType
<1> QED
  BY <1>1, <1>2 DEF BytesType

\* A chunk is a whole one unless the stream ends in it.
LEMMA ReadKeeps ==
    ASSUME BytesInv, Read
    PROVE  BytesInv'
<1>1. UNCHANGED <<stream, base, frames>> /\ thread' # "read"
  BY DEF Read
<1>2. pos' \in Nat /\ pos <= pos' /\ pos' <= Len(stream)
  BY FrameAssumption, BytesNumbers DEF BytesInv, Read
<1>3. BytesType'
  <2>1. base \in 0 .. pos'
    BY <1>2, BytesNumbers DEF BytesInv
  <2> QED
    BY <1>1, <1>2, <2>1 DEF BytesInv, BytesType
<1>4. ChunkInv'
  <2>1. CASE pos' = Len(stream)
    BY <1>1, <2>1 DEF ChunkInv
  <2>2. CASE pos' # Len(stream)
    <3>1. pos' = pos + ChunkSize /\ pos # Len(stream)
      BY <2>2 DEF Read
    <3>2. PICK q \in Nat : pos = ChunkSize * q
      BY <3>1 DEF BytesInv, ChunkInv
    <3>3. ChunkSize * (q + 1) = ChunkSize * q + ChunkSize /\ q + 1 \in Nat
      BY FrameAssumption
    <3> QED
      BY <3>1, <3>2, <3>3 DEF ChunkInv
  <2> QED
    BY <2>1, <2>2
<1>5. OrderInv'
  BY <1>1 DEF BytesInv, OrderInv, IsWhole, Opens, Closes
<1>6. DropInv'
  BY <1>1 DEF BytesInv, DropInv, CutAt, Opens
<1> QED
  BY <1>1, <1>3, <1>4, <1>5, <1>6 DEF BytesInv, ScanInv

\* When the stream is cut short, what has been read stays as it was.
LEMMA KillKeeps ==
    ASSUME BytesInv, Kill
    PROVE  BytesInv'
<1>0. /\ Len(stream) \in Nat /\ pos \in Nat /\ base \in Nat
      /\ base <= pos /\ pos < Len(stream) /\ Len(frames) \in Nat
      /\ \A k \in 1 .. Len(frames) :
            /\ frames[k][1] \in Nat /\ frames[k][1] >= 1 /\ frames[k][2] \in Nat
            /\ frames[k] = <<frames[k][1], frames[k][2]>>
  BY BytesNumbers DEF BytesInv, Kill
<1>1. UNCHANGED <<pos, base, frames, thread>>
  BY DEF Kill
<1>2. PICK n \in pos .. Len(stream) : stream' = SubSeq(stream, 1, n)
  BY DEF Kill
<1>2a. n \in Nat /\ pos <= n /\ n <= Len(stream)
  BY <1>0
<1>2b. stream' \in Seq(Byte) /\ Len(stream') = n /\ \A i \in 1 .. n : stream'[i] = stream[i]
  <2>1. \A i \in 1 .. n : stream[i] \in Byte
    BY <1>0, <1>2a DEF BytesInv, BytesType
  <2>2. /\ SubSeq(stream, 1, n) \in Seq(Byte)
        /\ Len(SubSeq(stream, 1, n)) = IF 1 <= n THEN n - 1 + 1 ELSE 0
        /\ \A i \in 1 .. n - 1 + 1 : SubSeq(stream, 1, n)[i] = stream[1 + i - 1]
    BY <1>0, <1>2a, <2>1, SubSeqProperties
  <2>3. n - 1 + 1 = n /\ \A i \in 1 .. n : 1 + i - 1 = i
    BY <1>0, <1>2a
  <2> QED
    BY <1>2, <1>2a, <2>2, <2>3
<1>3. \A s \in 1 .. n - 2 : Opens(s)' <=> Opens(s)
  <2> TAKE s \in 1 .. n - 2
  <2>1. s \in 1 .. n /\ s + 1 \in 1 .. n /\ s + 2 \in 1 .. n
    BY <1>2a
  <2> QED
    BY <1>2b, <2>1 DEF Opens
<1>4. \A e \in 1 .. n - 1 : Closes(e)' <=> Closes(e)
  <2> TAKE e \in 1 .. n - 1
  <2>1. e \in 1 .. n /\ e + 1 \in 1 .. n
    BY <1>2a
  <2> QED
    BY <1>2b, <2>1 DEF Closes
<1>5. \A k \in 1 .. Len(frames) : IsWhole(frames[k]) /\ frames[k][2] <= base
  BY DEF BytesInv, OrderInv
<1>6. BytesType'
  <2>1. \A k \in 1 .. Len(frames) : frames[k] \in (1 .. n) \X (1 .. n)
    <3> TAKE k \in 1 .. Len(frames)
    <3>1. frames[k][1] \in 1 .. n /\ frames[k][2] \in 1 .. n
      BY <1>0, <1>2a, <1>5 DEF IsWhole
    <3>2. frames[k] = <<frames[k][1], frames[k][2]>>
      BY <1>0
    <3> QED
      BY <3>1, <3>2
  <2>2. frames \in [1 .. Len(frames) -> (1 .. n) \X (1 .. n)]
    BY <2>1 DEF BytesInv, BytesType
  <2>3. frames \in Seq((1 .. n) \X (1 .. n))
    BY <1>0, <2>2, SeqDef
  <2> QED
    BY <1>0, <1>1, <1>2a, <1>2b, <2>3 DEF BytesInv, BytesType
<1>7. OrderInv'
  <2>1. ASSUME NEW k \in 1 .. Len(frames) PROVE IsWhole(frames[k])'
    <3> DEFINE a == frames[k][1]
               b == frames[k][2]
    <3>1. a \in Nat /\ 1 <= a /\ b \in Nat /\ a + 2 < b /\ b <= pos
      BY <1>0, <1>5 DEF IsWhole
    <3>2. Opens(a) /\ Closes(b - 1) /\ \A e \in a .. b - 2 : ~Closes(e)
      BY <1>5 DEF IsWhole
    <3>3. a' = a /\ b' = b
      BY <1>1
    <3> HIDE DEF a, b
    <3>4. Opens(a)' /\ Closes(b - 1)' /\ \A e \in a .. b - 2 : ~Closes(e)'
      <4>1. a \in 1 .. n - 2 /\ b - 1 \in 1 .. n - 1 /\ \A e \in a .. b - 2 : e \in 1 .. n - 1
        BY <1>0, <1>2a, <3>1
      <4> QED
        BY <1>3, <1>4, <3>2, <3>3, <4>1
    <3> QED
      BY <1>1, <3>1, <3>3, <3>4 DEF IsWhole, a, b
  <2> QED
    BY <1>1, <2>1 DEF BytesInv, OrderInv
<1>8. ScanInv'
  <2> SUFFICES ASSUME thread = "read", NEW s \in base + 1 .. pos - 2, NEW e \in s .. pos - 1
               PROVE  ~(Opens(s)' /\ Closes(e)')
    BY <1>1 DEF ScanInv
  <2>1. s \in 1 .. n - 2 /\ e \in 1 .. n - 1
    BY <1>0, <1>2a
  <2> QED
    BY <1>3, <1>4, <2>1 DEF BytesInv, ScanInv
<1>9. ChunkInv'
  <2>1. pos = Len(stream) => Len(stream') = pos
    BY <1>2a, <1>2b
  <2> QED
    BY <1>1, <2>1 DEF BytesInv, ChunkInv
<1>10. DropInv'
  <2> SUFFICES ASSUME NEW s \in 1 .. base, s + 2 <= n, Opens(s)', ~CutAt(s)
               PROVE  \E k \in 1 .. Len(frames) : frames[k][1] <= s /\ s <= frames[k][2]
    BY <1>1, <1>2b DEF DropInv, CutAt
  <2>1. s \in 1 .. n - 2 /\ s + 2 <= Len(stream)
    BY <1>0, <1>2a
  <2> QED
    BY <1>3, <2>1 DEF BytesInv, DropInv
<1> QED
  BY <1>6, <1>7, <1>8, <1>9, <1>10 DEF BytesInv

\* What is dropped without a frame holds no start marker but a cut one.
LEMMA DroppedShape ==
    ASSUME BytesType
    PROVE  /\ Dropped \in Nat /\ base <= Dropped /\ Dropped <= pos
           /\ \A s \in base + 1 .. Dropped : Opens(s) => s > pos - 2 /\ s <= pos
<1> DEFINE S == Starts(base + 1, pos)
<1>0. base \in Nat /\ pos \in Nat /\ base <= pos
  BY BytesNumbers
<1>1. \A s \in base + 1 .. pos - 2 : Opens(s) => s \in S
  BY DEF Starts, Opens
<1>2. S \subseteq base + 1 .. pos - 2
  BY DEF Starts
<1>3. Dropped = IF S = {} THEN pos ELSE First(S) - 1
  BY DEF Dropped
<1> HIDE DEF S
<1>4. CASE S = {}
  BY <1>0, <1>1, <1>3, <1>4
<1>5. CASE S # {}
  <2>1. S \in SUBSET Nat
    BY <1>0, <1>2
  <2>2. First(S) \in S /\ \A s \in S : First(S) <= s
    BY <1>5, <2>1, FirstIsLeast
  <2>3. First(S) \in base + 1 .. pos - 2
    BY <1>2, <2>2
  <2>4. ASSUME NEW s \in base + 1 .. First(S) - 1, Opens(s) PROVE FALSE
    <3>1. s \in base + 1 .. pos - 2
      BY <1>0, <2>3
    <3>2. s \in S
      BY <1>1, <2>4, <3>1
    <3> QED
      BY <1>0, <2>2, <2>3, <3>2
  <2> QED
    BY <1>0, <1>3, <1>5, <2>3, <2>4
<1> QED
  BY <1>4, <1>5

\* A marker that does not end with the chunk is cut, unless the stream ends there.
LEMMA EndOfChunkCuts ==
    ASSUME BytesInv, NEW s \in Nat, s > pos - 2, s <= pos, s + 2 <= Len(stream)
    PROVE  CutAt(s)
<1>1. pos \in Nat /\ Len(stream) \in Nat
  BY BytesNumbers DEF BytesInv
<1>2. pos # Len(stream)
  BY <1>1
<1>3. PICK q \in Nat : pos = ChunkSize * q
  BY <1>2 DEF BytesInv, ChunkInv
<1>4. pos % ChunkSize = 0
  BY <1>3, NoRemainder, FrameAssumption
<1>5. pos \in s .. s + 1
  BY <1>1
<1> QED
  BY <1>4, <1>5 DEF CutAt

\* The buffer holds no frame: it is cleared, or starts with a start marker now.
LEMMA DropKeeps ==
    ASSUME BytesInv, FirstFrame(base + 1, pos) = {}, base' = Dropped,
           UNCHANGED <<stream, pos, frames>>
    PROVE  BytesInv'
<1>0. /\ Len(stream) \in Nat /\ pos \in Nat /\ base \in Nat
      /\ base <= pos /\ pos <= Len(stream) /\ Len(frames) \in Nat
  BY BytesNumbers DEF BytesInv
<1>1. /\ base' \in Nat /\ base <= base' /\ base' <= pos
      /\ \A s \in base + 1 .. base' : Opens(s) => s > pos - 2 /\ s <= pos
  BY DroppedShape DEF BytesInv
<1>2. BytesType'
  BY <1>0, <1>1 DEF BytesInv, BytesType
<1>3. OrderInv'
  <2>1. \A k \in 1 .. Len(frames) : frames[k][2] <= base'
    BY <1>0, <1>1, BytesNumbers DEF BytesInv, OrderInv
  <2> QED
    BY <2>1 DEF BytesInv, OrderInv, IsWhole, Opens, Closes
<1>4. ScanInv'
  <2> SUFFICES ASSUME NEW s \in base' + 1 .. pos - 2, NEW e \in s .. pos - 1, Opens(s), Closes(e)
               PROVE  FALSE
    BY DEF ScanInv, Opens, Closes
  <2>1. s \in base + 1 .. pos - 2
    BY <1>0, <1>1
  <2>2. base + 1 \in Nat
    BY <1>0
  <2> QED
    BY <1>0, <2>1, <2>2, FrameExists
<1>5. ChunkInv'
  BY DEF BytesInv, ChunkInv
<1>6. DropInv'
  <2> SUFFICES ASSUME NEW s \in 1 .. base', s + 2 <= Len(stream), Opens(s), ~CutAt(s)
               PROVE  \E k \in 1 .. Len(frames) : frames[k][1] <= s /\ s <= frames[k][2]
    BY DEF DropInv, CutAt, Opens
  <2>1. CASE s <= base
    BY <1>0, <2>1 DEF BytesInv, DropInv
  <2>2. CASE s > base
    <3>1. s \in base + 1 .. base' /\ s \in Nat
      BY <1>0, <1>1, <2>2
    <3> QED
      BY <1>1, <3>1, EndOfChunkCuts
  <2> QED
    BY <1>0, <1>1, <2>1, <2>2
<1> QED
  BY <1>2, <1>3, <1>4, <1>5, <1>6 DEF BytesInv

\* The first frame of the buffer is cut: it is behind all others, and no start
\* marker lies between.
LEMMA CutKeeps ==
    ASSUME BytesInv, NEW f \in FirstFrame(base + 1, pos),
           base' = f[2], frames' = Append(frames, f), thread' # "read",
           UNCHANGED <<stream, pos>>
    PROVE  BytesInv'
<1>0. /\ Len(stream) \in Nat /\ pos \in Nat /\ base \in Nat
      /\ base <= pos /\ pos <= Len(stream) /\ Len(frames) \in Nat
      /\ \A k \in 1 .. Len(frames) : frames[k][1] \in Nat /\ frames[k][2] \in Nat
  BY BytesNumbers DEF BytesInv
<1>1. /\ f = <<f[1], f[2]>> /\ f[1] \in base + 1 .. pos /\ f[2] \in base + 1 .. pos
      /\ IsWhole(f) /\ \A s \in base + 1 .. f[1] - 1 : ~Opens(s)
  <2>1. base + 1 \in Nat
    BY <1>0
  <2> QED
    BY <1>0, <2>1, FrameShape DEF IsWhole
<1>2. f[1] \in Nat /\ f[2] \in Nat /\ base < f[1] /\ f[1] < f[2] /\ f[2] <= pos
  BY <1>0, <1>1 DEF IsWhole
<1>3. f \in (1 .. Len(stream)) \X (1 .. Len(stream))
  <2>1. f[1] \in 1 .. Len(stream) /\ f[2] \in 1 .. Len(stream)
    BY <1>0, <1>2
  <2>2. f = <<f[1], f[2]>>
    BY <1>1
  <2> QED
    BY <2>1, <2>2
<1>4. /\ frames' \in Seq((1 .. Len(stream)) \X (1 .. Len(stream)))
      /\ Len(frames') = Len(frames) + 1
      /\ \A k \in 1 .. Len(frames) : frames'[k] = frames[k]
      /\ frames'[Len(frames) + 1] = f
  BY <1>3 DEF BytesInv, BytesType
<1>5. BytesType'
  BY <1>0, <1>2, <1>4 DEF BytesInv, BytesType
<1>6. \A k \in 1 .. Len(frames) : IsWhole(frames[k]) /\ frames[k][2] <= base
  BY DEF BytesInv, OrderInv
<1>7. OrderInv'
  <2>1. ASSUME NEW k \in 1 .. Len(frames')
        PROVE  IsWhole(frames'[k]) /\ frames'[k][2] <= f[2]
    <3>1. CASE k \in 1 .. Len(frames)
      <4>1. frames'[k] = frames[k] /\ IsWhole(frames[k]) /\ frames[k][2] <= base
        BY <1>4, <1>6, <3>1
      <4>2. frames[k][2] \in Nat
        BY <1>0, <3>1
      <4> QED
        BY <1>0, <1>2, <4>1, <4>2
    <3>2. CASE k = Len(frames) + 1
      BY <1>1, <1>2, <1>4, <3>2
    <3> QED
      BY <1>0, <1>4, <3>1, <3>2
  <2>2. ASSUME NEW j \in 1 .. Len(frames'), NEW k \in 1 .. Len(frames'), j < k
        PROVE  frames'[j][2] < frames'[k][1]
    <3>1. j \in 1 .. Len(frames) /\ frames'[j] = frames[j]
      BY <1>0, <1>4, <2>2
    <3>2. CASE k \in 1 .. Len(frames)
      BY <1>4, <2>2, <3>1, <3>2 DEF BytesInv, OrderInv
    <3>3. CASE k = Len(frames) + 1
      <4>1. frames'[k] = f /\ frames[j][2] <= base /\ frames[j][2] \in Nat
        BY <1>0, <1>4, <1>6, <3>1, <3>3
      <4> QED
        BY <1>0, <1>2, <3>1, <4>1
    <3> QED
      BY <1>0, <1>4, <3>2, <3>3
  <2>3. ASSUME NEW k \in 1 .. Len(frames') PROVE IsWhole(frames[k])'
    <3>1. IsWhole(frames'[k])
      BY <2>1
    <3> QED
      BY <3>1 DEF IsWhole, Opens, Closes
  <2> QED
    BY <2>1, <2>2, <2>3 DEF OrderInv
<1>8. DropInv'
  <2> SUFFICES ASSUME NEW s \in 1 .. f[2], s + 2 <= Len(stream), Opens(s), ~CutAt(s)
               PROVE  \E k \in 1 .. Len(frames') : frames'[k][1] <= s /\ s <= frames'[k][2]
    BY DEF DropInv, CutAt, Opens
  <2>1. CASE s <= base
    <3> PICK k \in 1 .. Len(frames) : frames[k][1] <= s /\ s <= frames[k][2]
      BY <1>0, <2>1 DEF BytesInv, DropInv
    <3>1. frames'[k] = frames[k] /\ k \in 1 .. Len(frames')
      BY <1>0, <1>4
    <3> QED
      BY <3>1
  <2>2. CASE s > base
    <3>1. f[1] <= s
      <4> SUFFICES ASSUME s < f[1] PROVE FALSE
        BY <1>2
      <4>1. s \in base + 1 .. f[1] - 1
        BY <1>0, <1>2, <2>2
      <4> QED
        BY <1>1, <4>1
    <3>2. Len(frames) + 1 \in 1 .. Len(frames') /\ frames'[Len(frames) + 1] = f /\ s <= f[2]
      BY <1>0, <1>2, <1>4
    <3> QED
      BY <3>1, <3>2
  <2> QED
    BY <1>0, <2>1, <2>2
<1> QED
  BY <1>5, <1>7, <1>8 DEF BytesInv, ScanInv, ChunkInv

\* The scan of a buffer does one or the other.
LEMMA ScanKeeps ==
    ASSUME BytesInv, Scan
    PROVE  BytesInv'
<1>1. CASE FirstFrame(base + 1, pos) = {} /\ base' = Dropped /\ UNCHANGED frames
  BY <1>1, DropKeeps DEF Scan
<1>2. ASSUME NEW f \in FirstFrame(base + 1, pos),
             base' = f[2], frames' = Append(frames, f), thread' = "set"
      PROVE  BytesInv'
  BY <1>2, CutKeeps DEF Scan
<1> QED
  BY <1>1, <1>2 DEF Scan

\* Nothing else touches the bytes, or begins to read.
LEMMA OtherStepsKeep ==
    ASSUME [Next]_vars, ~Read, ~Scan, ~Kill
    PROVE  UNCHANGED bytes /\ (thread' = "read" => thread = "read")
<1>1. CASE Set \/ WakeEnds \/ \E c \in Client : Wake(c)
  BY <1>1 DEF Set, WakeEnds, Wake
<1>2. ASSUME NEW c \in Client, Connect(c) \/ ClientStep(c) \/ Sent(c) \/ Leave(c)
      PROVE  UNCHANGED <<bytes, thread>>
  BY <1>2 DEF Connect, ClientStep, Check, Enlist, Return, Clear, Take, Sent, Leave
<1>3. CASE UNCHANGED vars
  BY <1>3 DEF vars
<1> QED
  BY <1>1, <1>2, <1>3 DEF Next, ThreadStep

\* Every step keeps what is known of the bytes.
LEMMA BytesStep == BytesInv /\ [Next]_vars => BytesInv'
<1> SUFFICES ASSUME BytesInv, [Next]_vars PROVE BytesInv'
  OBVIOUS
<1>1. CASE ~Read /\ ~Scan /\ ~Kill
  <2>1. UNCHANGED <<stream, pos, base, frames>> /\ (thread' = "read" => thread = "read")
    BY <1>1, OtherStepsKeep DEF bytes
  <2>2. BytesType' /\ ScanInv' /\ ChunkInv'
    BY <2>1 DEF BytesInv, BytesType, ScanInv, ChunkInv, Opens, Closes
  <2>3. OrderInv' /\ DropInv'
    BY <2>1 DEF BytesInv, OrderInv, DropInv, IsWhole, CutAt, Opens, Closes
  <2> QED
    BY <2>2, <2>3 DEF BytesInv
<1> QED
  BY <1>1, ReadKeeps, ScanKeeps, KillKeeps

-----------------------------------------------------------------------------
(***************************************************************************)
(* The steps on the event.                                                 *)
(***************************************************************************)
\* What a step of a client may change, and where it leads.
LEMMA EventStep == BytesType /\ EventType /\ [Next]_vars => EventType'
<1> SUFFICES ASSUME BytesType, EventType, [Next]_vars PROVE EventType'
  OBVIOUS
<1>0. Len(frames) \in Nat
  BY DEF BytesType
<1>1. CASE Read \/ Set \/ WakeEnds \/ Kill
  BY <1>1 DEF EventType, Read, Set, WakeEnds, Kill, bytes, event, reader
<1>2. CASE Scan
  <2>1. CASE UNCHANGED frames
    BY <1>2, <2>1 DEF EventType, Scan, event, reader
  <2>2. ASSUME NEW f \in FirstFrame(base + 1, pos), frames' = Append(frames, f)
        PROVE  EventType'
    <3>1. Len(frames') = Len(frames) + 1
      BY <2>2 DEF BytesType
    <3>2. given' \in 0 .. Len(frames')
      BY <1>0, <1>2, <3>1 DEF EventType, Scan, reader
    <3> QED
      BY <1>2, <3>2 DEF EventType, Scan, event, reader
  <2> QED
    BY <1>2, <2>1, <2>2 DEF Scan
<1>3. ASSUME NEW c \in Client, Wake(c) \/ Connect(c) \/ ClientStep(c) \/ Sent(c) \/ Leave(c)
      PROVE  EventType'
  <2>1. mutated' \in BOOLEAN
    BY <1>3 DEF EventType, Wake, Connect, ClientStep, Check, Enlist, Return, Clear, Take,
                Sent, Leave, Mutates, event
  <2>2. client' \in [Client -> {"away", "ready", "checked", "waiting", "woken", "returned",
                          "take", "sending"}]
    BY <1>3 DEF EventType, Wake, Connect, ClientStep, Check, Enlist, Return, Clear, Take,
                Sent, Leave, Go
  <2>3. raced' \in SUBSET Client /\ flag' \in BOOLEAN
    BY <1>3 DEF EventType, Wake, Connect, ClientStep, Check, Enlist, Return, Clear, Take,
                Sent, Leave, event
  <2>4. UNCHANGED <<thread, frames>> /\ given' \in 0 .. Len(frames)
    BY <1>0, <1>3 DEF EventType, Wake, Connect, ClientStep, Check, Enlist, Return, Clear, Take,
                      Sent, Leave, bytes
  <2> QED
    BY <2>1, <2>2, <2>3, <2>4 DEF EventType
<1>4. CASE UNCHANGED vars
  BY <1>4 DEF EventType, vars, bytes, event, reader
<1> QED
  BY <1>1, <1>2, <1>3, <1>4 DEF Next, ThreadStep

\* Only a client that is about to take the frame clears the event, and it stays
\* about to until it has taken the latest.
LEMMA AnnouncedStep == BytesType /\ EventType /\ LatestIsAnnounced /\ [Next]_vars => LatestIsAnnounced'
<1> SUFFICES ASSUME BytesType, EventType, LatestIsAnnounced, [Next]_vars PROVE LatestIsAnnounced'
  OBVIOUS
<1> USE DEF EventType, LatestIsAnnounced
<1>1. CASE Scan
  <2>1. CASE UNCHANGED frames /\ thread' = "read"
    BY <1>1, <2>1 DEF Scan, event, reader
  <2>2. CASE thread' = "set"
    BY <2>2
  <2> QED
    BY <1>1, <2>1, <2>2 DEF Scan
<1>2. CASE Read \/ Set \/ WakeEnds \/ Kill
  BY <1>2 DEF Read, Set, WakeEnds, Kill, bytes, event, reader
<1>3. ASSUME NEW c \in Client, Take(c) \/ Clear(c) PROVE LatestIsAnnounced'
  BY <1>3 DEF Take, Clear, Go, bytes
<1>4. ASSUME NEW c \in Client,
             Wake(c) \/ Connect(c) \/ Check(c) \/ Enlist(c) \/ Return(c) \/ Sent(c) \/ Leave(c)
      PROVE  LatestIsAnnounced'
  <2>1. \A d \in Client : client[d] = "take" => client'[d] = "take"
    BY <1>4 DEF Wake, Connect, Check, Enlist, Return, Sent, Leave, Go
  <2> QED
    BY <1>4, <2>1 DEF Wake, Connect, Check, Enlist, Return, Sent, Leave, bytes, event
<1>5. CASE UNCHANGED vars
  BY <1>5 DEF vars, bytes, event, reader
<1> QED
  BY <1>1, <1>2, <1>3, <1>4, <1>5 DEF Next, ThreadStep, ClientStep

\* Set resolves every waiter before it returns; who joins later, with the event
\* still set, has raced.
LEMMA RaceStep == EventType /\ OnlyARaceStalls /\ [Next]_vars => OnlyARaceStalls'
<1> SUFFICES ASSUME EventType, OnlyARaceStalls, [Next]_vars PROVE OnlyARaceStalls'
  OBVIOUS
<1> USE DEF EventType, OnlyARaceStalls
<1>1. CASE Read \/ Scan \/ Set \/ WakeEnds \/ Kill
  BY <1>1 DEF Read, Scan, Set, WakeEnds, Kill, bytes, event, reader
<1>2. ASSUME NEW c \in Client,
             Wake(c) \/ Connect(c) \/ Check(c) \/ Enlist(c) \/ Return(c)
             \/ Clear(c) \/ Take(c) \/ Sent(c) \/ Leave(c)
      PROVE  OnlyARaceStalls'
  BY <1>2 DEF Wake, Connect, Check, Enlist, Return, Clear, Take, Sent, Leave, Go, event
<1>3. CASE UNCHANGED vars
  BY <1>3 DEF vars, event, reader
<1> QED
  BY <1>1, <1>2, <1>3 DEF Next, ThreadStep, ClientStep

-----------------------------------------------------------------------------
(***************************************************************************)
(* The theorems.                                                           *)
(***************************************************************************)
\* Nothing is read, and the event is clear.
LEMMA InitFrames == Init => FrameInv
<1> SUFFICES ASSUME Init PROVE FrameInv
  OBVIOUS
<1>1. stream \in Seq(Byte) /\ Len(stream) \in Nat
  BY FrameAssumption DEF Init
<1>2. frames = <<>> /\ Len(frames) = 0
  BY DEF Init
<1>3. frames \in Seq((1 .. Len(stream)) \X (1 .. Len(stream)))
  BY <1>2
<1>4. BytesType
  BY <1>1, <1>3 DEF Init, BytesType
<1>5. EventType
  <2>1. given \in 0 .. Len(frames)
    BY <1>2 DEF Init
  <2> QED
    BY <2>1 DEF Init, EventType
<1>6. ChunkInv
  <2>1. ChunkSize * 0 = 0 /\ 0 \in Nat
    BY FrameAssumption
  <2> QED
    BY <2>1 DEF Init, ChunkInv
<1>7. OrderInv /\ ScanInv /\ DropInv
  BY <1>2 DEF Init, OrderInv, ScanInv, DropInv
<1>8. LatestIsAnnounced /\ OnlyARaceStalls
  BY <1>2 DEF Init, LatestIsAnnounced, OnlyARaceStalls
<1> QED
  BY <1>4, <1>5, <1>6, <1>7, <1>8 DEF FrameInv, BytesInv

\* The inductive invariant of the stream.
THEOREM FramesHold == Spec => []FrameInv
<1>1. FrameInv /\ [Next]_vars => FrameInv'
  BY BytesStep, EventStep, AnnouncedStep, RaceStep DEF FrameInv, BytesInv
<1> QED
  BY <1>1, InitFrames, PTL DEF Spec

\* Every variable keeps its type: no frame reaches beyond the stream, though a
\* kill may have cut it short.
THEOREM TypeCorrect == Spec => []TypeOK
<1>1. FrameInv => TypeOK
  BY DEF FrameInv, BytesInv, BytesType, EventType, TypeOK
<1> QED
  BY <1>1, FramesHold, PTL

\* Every frame that is handed over is one whole image, however the chunks fall.
THEOREM WholeFrames == Spec => []FramesAreWhole
<1>1. FrameInv => FramesAreWhole
  <2> SUFFICES ASSUME FrameInv, NEW k \in 1 .. Len(frames)
               PROVE  LET a == frames[k][1]  b == frames[k][2] IN
                      /\ a < b
                      /\ stream[a] = "ff" /\ stream[a + 1] = "d8" /\ stream[a + 2] = "ff"
                      /\ stream[b - 1] = "ff" /\ stream[b] = "d9"
                      /\ \A i \in a .. b - 2 : ~(stream[i] = "ff" /\ stream[i + 1] = "d9")
                      /\ k > 1 => frames[k - 1][2] < a
    BY DEF FramesAreWhole
  <2> DEFINE a == frames[k][1]
             b == frames[k][2]
  <2>1. IsWhole(frames[k])
    BY DEF FrameInv, BytesInv, OrderInv
  <2>2. a \in Nat /\ b \in Nat
    BY BytesNumbers DEF FrameInv, BytesInv
  <2>3. k > 1 => frames[k - 1][2] < a
    BY BytesNumbers DEF FrameInv, BytesInv, OrderInv
  <2>4. a + 2 < b /\ Opens(a) /\ Closes(b - 1) /\ \A i \in a .. b - 2 : ~Closes(i)
    BY <2>1 DEF IsWhole
  <2> HIDE DEF a, b
  <2>5. b - 1 + 1 = b /\ a < b
    BY <2>2, <2>4
  <2>6. stream[b - 1] = "ff" /\ stream[b] = "d9"
    BY <2>4, <2>5 DEF Closes
  <2>7. \A i \in a .. b - 2 : ~(stream[i] = "ff" /\ stream[i + 1] = "d9")
    BY <2>4 DEF Closes
  <2>8. stream[a] = "ff" /\ stream[a + 1] = "d8" /\ stream[a + 2] = "ff"
    BY <2>4 DEF Opens
  <2> QED
    BY <2>3, <2>5, <2>6, <2>7, <2>8 DEF a, b
<1> QED
  BY <1>1, FramesHold, PTL

\* The frame that is cut first from lo is cut from the chunks too, unless lo is
\* inside a frame, or a chunk ends inside the frame's start marker.
LEMMA FrameIsFound ==
    ASSUME FrameInv, thread = "read", NEW lo \in 1 .. pos + 1,
           \A k \in 1 .. Len(frames) : ~(frames[k][1] < lo /\ lo <= frames[k][2]),
           NEW f \in FirstFrame(lo, pos), ~IsCut(f)
    PROVE  \E k \in 1 .. Len(frames) : frames[k] = f
<1> DEFINE s == f[1]
           e == f[2] - 1
<1>0. /\ Len(stream) \in Nat /\ pos \in Nat /\ base \in Nat /\ lo \in Nat
      /\ base <= pos /\ pos <= Len(stream) /\ Len(frames) \in Nat
  BY BytesNumbers DEF FrameInv, BytesInv
<1>1. /\ f = <<f[1], f[2]>> /\ f[1] \in lo .. pos /\ f[2] \in lo .. pos /\ f[1] + 2 < f[2]
      /\ Opens(f[1]) /\ Closes(f[2] - 1)
      /\ \A i \in lo .. f[1] - 1 : ~Opens(i)
      /\ \A i \in f[1] .. f[2] - 2 : ~Closes(i)
  BY <1>0, FrameShape
<1>2. f[2] = e + 1 /\ s \in Nat /\ e \in Nat /\ lo <= s /\ s + 2 <= e /\ e + 1 <= pos
  BY <1>0, <1>1
<1>3. /\ Opens(s) /\ Closes(e)
      /\ \A i \in lo .. s - 1 : ~Opens(i)
      /\ \A i \in s .. e - 1 : ~Closes(i)
  <2>1. f[2] - 2 = e - 1
    BY <1>1
  <2> QED
    BY <1>1, <2>1
<1>4. ~CutAt(s)
  BY DEF IsCut, CutAt
<1>5. f = <<s, e + 1>>
  BY <1>1, <1>2
<1> HIDE DEF s, e
<1>6. s <= base
  <2> SUFFICES ASSUME s > base PROVE FALSE
    BY <1>0, <1>2
  <2>1. s \in base + 1 .. pos - 2 /\ e \in s .. pos - 1
    BY <1>0, <1>2
  <2> QED
    BY <1>3, <2>1 DEF FrameInv, BytesInv, ScanInv
<1>7. PICK k \in 1 .. Len(frames) : frames[k][1] <= s /\ s <= frames[k][2]
  <2>1. s \in 1 .. base /\ s + 2 <= Len(stream)
    BY <1>0, <1>2, <1>6
  <2> QED
    BY <1>3, <1>4, <2>1 DEF FrameInv, BytesInv, DropInv
<1> DEFINE a == frames[k][1]
           b == frames[k][2]
<1>8. a \in Nat /\ b \in Nat /\ a <= s /\ s <= b /\ ~(a < lo /\ lo <= b) /\ frames[k] = <<a, b>>
  BY <1>7, BytesNumbers DEF FrameInv, BytesInv
<1>9. a + 2 < b /\ Opens(a) /\ Closes(b - 1) /\ \A i \in a .. b - 2 : ~Closes(i)
  BY DEF FrameInv, BytesInv, OrderInv, IsWhole
<1> HIDE DEF a, b
<1>10. a = s
  <2> SUFFICES ASSUME a < s PROVE FALSE
    BY <1>2, <1>8
  <2>1. a \in lo .. s - 1
    BY <1>0, <1>2, <1>8
  <2> QED
    BY <1>3, <1>9, <2>1
<1>11. b = e + 1
  <2>1. ~(b - 1 < e)
    <3> SUFFICES ASSUME b - 1 < e PROVE FALSE
      OBVIOUS
    <3>1. b - 1 \in s .. e - 1
      BY <1>2, <1>8, <1>9, <1>10
    <3> QED
      BY <1>3, <1>9, <3>1
  <2>2. ~(e < b - 1)
    <3> SUFFICES ASSUME e < b - 1 PROVE FALSE
      OBVIOUS
    <3>1. e \in a .. b - 2
      BY <1>2, <1>8, <1>10
    <3> QED
      BY <1>3, <1>9, <3>1
  <2> QED
    BY <1>2, <1>8, <2>1, <2>2
<1> QED
  BY <1>5, <1>7, <1>8, <1>10, <1>11

\* No frame is left in the middle: the place behind any frame of the stream is
\* inside none that was cut from the chunks.
LEMMA BehindAFrame ==
    ASSUME FrameInv, NEW lo \in 1 .. pos + 1, NEW f \in FirstFrame(lo, pos),
           NEW k \in 1 .. Len(frames)
    PROVE  ~(frames[k][1] < f[2] + 1 /\ f[2] + 1 <= frames[k][2])
<1> SUFFICES ASSUME frames[k][1] < f[2] + 1, f[2] + 1 <= frames[k][2]
             PROVE  FALSE
  OBVIOUS
<1> DEFINE e == f[2] - 1
           a == frames[k][1]
           b == frames[k][2]
<1>0. pos \in Nat /\ lo \in Nat
  BY BytesNumbers DEF FrameInv, BytesInv
<1>1. f[2] \in Nat /\ lo <= f[2] /\ Closes(e) /\ f[1] \in Nat /\ f[1] + 2 < f[2]
  BY <1>0, FrameShape
<1>2. e \in Nat /\ f[2] = e + 1
  BY <1>1
<1>3. a \in Nat /\ b \in Nat
  BY BytesNumbers DEF FrameInv, BytesInv
<1>4. a + 2 < b /\ Opens(a) /\ Closes(b - 1) /\ \A i \in a .. b - 2 : ~Closes(i)
  BY DEF FrameInv, BytesInv, OrderInv, IsWhole
<1>5. a < e + 2 /\ e + 2 <= b
  BY <1>2
<1> HIDE DEF e, a, b
<1>6. a # e /\ a # e + 1
  <2>1. stream[e + 1] = "d9" /\ stream[a] = "ff" /\ stream[a + 1] = "d8"
    BY <1>1, <1>4 DEF Opens, Closes
  <2> QED
    BY <2>1
<1>7. e \in a .. b - 2
  BY <1>2, <1>3, <1>5, <1>6
<1> QED
  BY <1>1, <1>4, <1>7

\* Cutting the stream in chunks loses no frame but one whose start marker is
\* split between two chunks.
THEOREM LostAreCut == Spec => []OnlyCutFramesAreLost
<1>1. FrameInv => OnlyCutFramesAreLost
  <2> SUFFICES ASSUME FrameInv, thread = "read"
               PROVE  \A f \in InOnePiece(pos) : IsCut(f) \/ \E k \in 1 .. Len(frames) : frames[k] = f
    BY DEF OnlyCutFramesAreLost
  <2> DEFINE G == {lo \in 1 .. pos + 1 :
                      \A k \in 1 .. Len(frames) : ~(frames[k][1] < lo /\ lo <= frames[k][2])}
             T == {f \in (1 .. pos) \X (1 .. pos) :
                      IsCut(f) \/ \E k \in 1 .. Len(frames) : frames[k] = f}
  <2>1. pos \in Nat /\ \A k \in 1 .. Len(frames) : frames[k][1] \in Nat /\ frames[k][1] >= 1
    BY BytesNumbers DEF FrameInv, BytesInv
  <2>2. 1 \in G
    BY <2>1
  <2>3. ASSUME NEW lo \in G, NEW f \in FirstFrame(lo, pos)
        PROVE  f \in T /\ f[2] + 1 \in G
    <3>1. f \in (lo .. pos) \X (lo .. pos)
      BY DEF FirstFrame
    <3>2. f \in (1 .. pos) \X (1 .. pos) /\ f[2] + 1 \in 1 .. pos + 1
      BY <2>1, <3>1
    <3>3. IsCut(f) \/ \E k \in 1 .. Len(frames) : frames[k] = f
      BY FrameIsFound
    <3>4. \A k \in 1 .. Len(frames) : ~(frames[k][1] < f[2] + 1 /\ f[2] + 1 <= frames[k][2])
      BY BehindAFrame
    <3> QED
      BY <3>2, <3>3, <3>4
  <2>4. G \in SUBSET (1 .. pos + 1)
    OBVIOUS
  <2> HIDE DEF G
  <2>5. InOnePiece(pos) \subseteq T
    <3> HIDE DEF T
    <3> QED
      BY <2>1, <2>2, <2>3, <2>4, PiecesInduction
  <2> QED
    BY <2>5
<1> QED
  BY <1>1, FramesHold, PTL

\* Clearing the event never hides a frame that no client has read.
THEOREM LatestAnnounced == Spec => []LatestIsAnnounced
<1>1. FrameInv => LatestIsAnnounced
  BY DEF FrameInv
<1> QED
  BY <1>1, FramesHold, PTL

\* Once set has returned, only a client that queued while it ran is left waiting
\* on an event that is set.
THEOREM OnlyRacersStall == Spec => []OnlyARaceStalls
<1>1. FrameInv => OnlyARaceStalls
  BY DEF FrameInv
<1> QED
  BY <1>1, FramesHold, PTL

-----------------------------------------------------------------------------
(***************************************************************************)
(* When no chunk ends inside a start marker, the chunks do not matter.     *)
(***************************************************************************)
NoMarkerCut == \A s \in 1 .. Len(stream) - 2 : Opens(s) => ~CutAt(s)

\* the frames cut so far are those of the same bytes read in one piece
ChunksDontMatter ==
    thread = "read" /\ NoMarkerCut => InOnePiece(pos) = {frames[k] : k \in 1 .. Len(frames)}

\* A frame of the bytes read is cut only if its marker is.
LEMMA NotCut ==
    ASSUME FrameInv, NoMarkerCut, NEW lo \in 1 .. pos + 1, NEW f \in FirstFrame(lo, pos)
    PROVE  ~IsCut(f)
<1>1. lo \in Nat /\ pos \in Nat /\ Len(stream) \in Nat /\ pos <= Len(stream)
  BY BytesNumbers DEF FrameInv, BytesInv
<1>2. f[1] \in lo .. pos /\ f[2] \in lo .. pos /\ f[1] + 2 < f[2] /\ Opens(f[1])
  BY <1>1, FrameShape
<1>3. f[1] \in 1 .. Len(stream) - 2
  BY <1>1, <1>2
<1> QED
  BY <1>2, <1>3 DEF NoMarkerCut, IsCut, CutAt

\* From a place behind the frames before it, a frame is the first one.
LEMMA NextFrame ==
    ASSUME FrameInv, thread = "read", NoMarkerCut, NEW k \in 1 .. Len(frames),
           NEW lo \in 1 .. pos + 1, lo <= frames[k][1],
           \A j \in 1 .. Len(frames) : j < k => frames[j][2] < lo
    PROVE  frames[k] \in FirstFrame(lo, pos)
<1>0. /\ pos \in Nat /\ base \in Nat /\ lo \in Nat /\ base <= pos /\ Len(frames) \in Nat
      /\ \A j \in 1 .. Len(frames) : frames[j][1] \in Nat /\ frames[j][2] \in Nat
  BY BytesNumbers DEF FrameInv, BytesInv
<1>1. \A i, j \in 1 .. Len(frames) : i < j => frames[i][2] < frames[j][1]
  BY DEF FrameInv, BytesInv, OrderInv
<1>2. \A j \in 1 .. Len(frames) : frames[j][1] + 2 < frames[j][2] /\ frames[j][2] <= base
  BY DEF FrameInv, BytesInv, OrderInv, IsWhole
<1>3. \A j \in 1 .. Len(frames) : ~(frames[j][1] < lo /\ lo <= frames[j][2])
  <2> SUFFICES ASSUME NEW j \in 1 .. Len(frames), frames[j][1] < lo, lo <= frames[j][2]
               PROVE  FALSE
    OBVIOUS
  <2>1. ~(j < k)
    BY <1>0
  <2>2. j # k
    BY <1>0
  <2>3. k < j
    BY <1>0, <2>1, <2>2
  <2>4. frames[k][2] < frames[j][1]
    BY <1>1, <2>3
  <2> QED
    BY <1>0, <1>2, <2>4
<1> DEFINE a == frames[k][1]
           b == frames[k][2]
<1>4. a \in Nat /\ b \in Nat /\ a + 2 < b /\ b <= pos /\ lo <= a
  BY <1>0, <1>2
<1>5. Opens(a) /\ Closes(b - 1)
  BY DEF FrameInv, BytesInv, OrderInv, IsWhole
<1> HIDE DEF a, b
<1>6. PICK f \in FirstFrame(lo, pos) : TRUE
  <2>1. a \in lo .. pos - 2 /\ b - 1 \in a .. pos - 1
    BY <1>0, <1>4
  <2> QED
    BY <1>0, <1>5, <2>1, FrameExists
<1>7. PICK j \in 1 .. Len(frames) : frames[j] = f
  BY <1>3, NotCut, FrameIsFound
<1>8. f[1] \in lo .. pos /\ \A s \in lo .. f[1] - 1 : ~Opens(s)
  BY <1>0, FrameShape
<1>9. frames[j][1] <= a
  <2> SUFFICES ASSUME a < f[1] PROVE FALSE
    BY <1>0, <1>4, <1>7
  <2>1. a \in lo .. f[1] - 1
    BY <1>0, <1>4, <1>8
  <2> QED
    BY <1>5, <1>8, <2>1
<1>10. ~(k < j)
  <2> SUFFICES ASSUME k < j PROVE FALSE
    OBVIOUS
  <2>1. b < frames[j][1]
    BY <1>1 DEF b
  <2> QED
    BY <1>0, <1>4, <1>9, <2>1
<1>11. ~(j < k)
  <2> SUFFICES ASSUME j < k PROVE FALSE
    OBVIOUS
  <2>1. frames[j][2] < lo /\ lo <= frames[j][1]
    BY <1>7, <1>8
  <2> QED
    BY <1>0, <1>2, <2>1
<1>12. j = k
  BY <1>0, <1>10, <1>11
<1> QED
  BY <1>7, <1>12

\* Reading in chunks neither loses a frame nor makes one up, as long as no chunk
\* ends inside a start marker.
THEOREM ChunksAreExact == Spec => []ChunksDontMatter
<1>1. FrameInv => ChunksDontMatter
  <2> SUFFICES ASSUME FrameInv, thread = "read", NoMarkerCut
               PROVE  InOnePiece(pos) = {frames[k] : k \in 1 .. Len(frames)}
    BY DEF ChunksDontMatter
  <2>0. /\ pos \in Nat /\ base \in Nat /\ base <= pos /\ Len(frames) \in Nat
        /\ \A k \in 1 .. Len(frames) :
              frames[k][1] \in Nat /\ frames[k][1] >= 1 /\ frames[k][2] \in Nat
    BY BytesNumbers DEF FrameInv, BytesInv
  <2> DEFINE T == {frames[k] : k \in 1 .. Len(frames)}
             G == {lo \in 1 .. pos + 1 :
                      \A k \in 1 .. Len(frames) : ~(frames[k][1] < lo /\ lo <= frames[k][2])}
             P == Pieces(pos)
             Bad == {k \in 1 .. Len(frames) :
                        ~(frames[k] \in P[1] /\ P[frames[k][2] + 1] \subseteq P[1])}
  <2>1. InOnePiece(pos) \subseteq T
    <3>1. 1 \in G /\ G \in SUBSET (1 .. pos + 1)
      BY <2>0
    <3>2. ASSUME NEW lo \in G, NEW f \in FirstFrame(lo, pos)
          PROVE  f \in T /\ f[2] + 1 \in G
      <4>1. f \in T
        BY NotCut, FrameIsFound
      <4>2. f[2] + 1 \in 1 .. pos + 1
        BY <2>0, FrameAdvances
      <4>3. \A k \in 1 .. Len(frames) : ~(frames[k][1] < f[2] + 1 /\ f[2] + 1 <= frames[k][2])
        BY BehindAFrame
      <4> QED
        BY <4>1, <4>2, <4>3
    <3> HIDE DEF T, G
    <3> QED
      BY <2>0, <3>1, <3>2, PiecesInduction
  <2>2. \A lo \in 1 .. pos + 1 : P[lo] = UNION {{f} \cup P[f[2] + 1] : f \in FirstFrame(lo, pos)}
    BY <2>0, PiecesEquation
  <2>3. InOnePiece(pos) = P[1]
    BY <2>0, PiecesEquation
  <2> HIDE DEF P
  <2>4. ASSUME NEW lo \in 1 .. pos + 1, P[lo] \subseteq P[1],
               NEW k \in 1 .. Len(frames), frames[k] \in FirstFrame(lo, pos)
        PROVE  k \notin Bad
    BY <2>2, <2>4
  <2>5. Bad = {}
    <3> SUFFICES ASSUME Bad # {} PROVE FALSE
      OBVIOUS
    <3>1. PICK m \in Bad : \A k \in Bad : m <= k
      <4>1. Bad \in SUBSET Nat
        BY <2>0
      <4> QED
        BY <4>1, LeastNat
    <3>2. m \in 1 .. Len(frames)
      OBVIOUS
    <3>3. CASE m = 1
      <4>1. frames[1] \in FirstFrame(1, pos)
        <5>1. 1 \in 1 .. pos + 1 /\ 1 <= frames[1][1] /\ 1 \in 1 .. Len(frames)
          BY <2>0, <3>2, <3>3
        <5>2. \A j \in 1 .. Len(frames) : ~(j < 1)
          BY <2>0
        <5> QED
          BY <5>1, <5>2, NextFrame
      <4> QED
        BY <2>0, <2>4, <3>3, <4>1
    <3>4. CASE m # 1
      <4>0. PICK n \in Int : n = m - 1
        BY <2>0, <3>2
      <4> DEFINE lo == frames[n][2] + 1
      <4>1. n \in 1 .. Len(frames) /\ n < m /\ n \notin Bad
        BY <2>0, <3>1, <3>2, <3>4, <4>0
      <4>2. P[lo] \subseteq P[1]
        BY <4>1
      <4>3. /\ frames[n][2] <= base /\ frames[n][2] < frames[m][1]
            /\ \A j \in 1 .. Len(frames) : j < n => frames[j][2] < frames[n][1]
            /\ frames[n][1] + 2 < frames[n][2]
        BY <3>2, <4>1 DEF FrameInv, BytesInv, OrderInv, IsWhole
      <4>4. lo \in 1 .. pos + 1 /\ lo <= frames[m][1]
        <5>1. /\ frames[n][2] \in Nat /\ frames[m][1] \in Nat
              /\ frames[n][2] <= base /\ frames[n][2] < frames[m][1]
          BY <2>0, <3>2, <4>1, <4>3
        <5> HIDE DEF T, G, Bad
        <5> QED
          BY <2>0, <5>1
      <4>5. \A j \in 1 .. Len(frames) : j < m => frames[j][2] < lo
        <5> SUFFICES ASSUME NEW j \in 1 .. Len(frames), j < m PROVE frames[j][2] < lo
          OBVIOUS
        <5>1. CASE j = n
          BY <2>0, <5>1
        <5>2. CASE j < n
          <6>1. frames[j][2] < frames[n][1] /\ frames[n][1] + 2 < frames[n][2]
            BY <4>3, <5>2
          <6>2. frames[n][1] \in Nat /\ frames[n][2] \in Nat /\ frames[j][2] \in Nat
            BY <2>0, <4>1
          <6> HIDE DEF T, G, Bad, lo
          <6>3. frames[j][2] < frames[n][2] + 1
            BY <6>1, <6>2
          <6> QED
            BY <6>3 DEF lo
        <5> QED
          BY <2>0, <3>2, <4>0, <5>1, <5>2
      <4> HIDE DEF lo
      <4>6. frames[m] \in FirstFrame(lo, pos)
        BY <3>2, <4>4, <4>5, NextFrame
      <4> QED
        BY <2>4, <3>2, <4>2, <4>4, <4>6
    <3> QED
      BY <3>3, <3>4
  <2>6. T \subseteq InOnePiece(pos)
    BY <2>3, <2>5
  <2> QED
    BY <2>1, <2>6
<1> QED
  BY <1>1, FramesHold, PTL
=============================================================================
