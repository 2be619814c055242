--------------------------- MODULE DerpConnProofs ---------------------------
(***************************************************************************)
(* Proofs about DerpConn, for any header and buffer sizes, any frames, any *)
(* cutting of the stream and any packets to send.                          *)
(***************************************************************************)
EXTENDS DerpConn, FiniteSetTheorems, SequenceTheorems, TLAPS

Size(k) == HEADER_LEN + frames[k].length

\* The last byte of the frame that byte b belongs to.
EndOf(b) == b - stream[b].at + Size(stream[b].frame)

\* A frame ends with byte b, or none has started.
Boundary(b) == b = 0 \/ b = EndOf(b)

(***************************************************************************)
(* The relay's stream: whole frames one after the other, byte by byte.     *)
(***************************************************************************)
StreamType ==
  /\ frames \in Seq(Frames)
  /\ stream \in Seq([frame : Nat, at : Nat])

StreamPlaces ==
  \A b \in 1 .. Len(stream) :
     /\ stream[b].frame \in 1 .. Len(frames)
     /\ stream[b].at \in 1 .. Size(stream[b].frame)
     /\ stream[b].at <= b
     /\ EndOf(b) <= Len(stream)

StreamOrder ==
  \A b, c \in 1 .. Len(stream) : b < c =>
     IF c <= EndOf(b)
     THEN stream[c].frame = stream[b].frame /\ stream[c].at = stream[b].at + (c - b)
     ELSE stream[c].frame > stream[b].frame

StreamStarts ==
  \A b \in 0 .. Len(stream) - 1 : Boundary(b) => stream[b + 1].at = 1

StreamInv == StreamType /\ StreamPlaces /\ StreamOrder /\ StreamStarts

(***************************************************************************)
(* The reader: where it stands in the stream, and what it holds of the     *)
(* header or of the control frame it is in.                                *)
(***************************************************************************)
ReaderType ==
  /\ reader \in [state : {"Header", "Buffering", "Draining", "Streaming"}, header : Seq(Nat),
                 current : Nat, remaining : Nat, control : Seq(Nat)]
  /\ read \in 0 .. Len(stream) /\ fed \in 0 .. read
  /\ assembled \in Seq(Nat)

InHeader ==
  reader.state = "Header" =>
     /\ Len(reader.header) < HEADER_LEN /\ Len(reader.header) <= fed
     /\ \A i \in 1 .. Len(reader.header) : reader.header[i] = fed - Len(reader.header) + i
     /\ Boundary(fed - Len(reader.header))

InFrame ==
  reader.state # "Header" =>
     /\ reader.header = <<>>
     /\ fed >= 1 /\ reader.current = stream[fed].frame
     /\ reader.remaining \in 1 .. frames[reader.current].length
     /\ stream[fed].at = Size(reader.current) - reader.remaining
     /\ frames[reader.current].length <= MAX_FRAME_LEN
     /\ reader.state = "Streaming" <=> ~is_control(frames[reader.current].kind)

InControl ==
  reader.state \in {"Buffering", "Draining"} =>
     LET had == frames[reader.current].length - reader.remaining
     IN  /\ \A j \in 1 .. Len(reader.control) : reader.control[j] = fed - had + j
         /\ reader.state = "Buffering" =>
               Len(reader.control) = had /\ had < CONTROL_FRAME_MAX
         /\ reader.state = "Draining" =>
               Len(reader.control) = CONTROL_FRAME_MAX /\ CONTROL_FRAME_MAX <= had

ReaderInv == ReaderType /\ InHeader /\ InFrame /\ InControl

(***************************************************************************)
(* What the loop gathers of a streamed payload: its start, up to the size  *)
(* of the buffer, whatever cancelled the read, unless a tick dropped it.   *)
(***************************************************************************)
Buffer == IF program = "host" THEN MAX_FRAME_LEN ELSE ASSEMBLED

\* p is what a buffer keeps of n bytes, the first of which is byte `before` + 1.
Keeps(p, n, before) ==
  /\ p \in Seq(Nat) /\ Len(p) <= n /\ Len(p) <= Buffer /\ (Len(p) = n \/ Len(p) = Buffer)
  /\ \A j \in 1 .. Len(p) : p[j] = before + j

InAssembly ==
  ~torn =>
     IF reader.state = "Streaming"
     THEN LET had == frames[reader.current].length - reader.remaining
          IN  Keeps(assembled, had, fed - had)
     ELSE assembled = <<>>

(***************************************************************************)
(* The frames given to the loop.                                           *)
(***************************************************************************)
SeenInv == seen \in Seq([frame : Nat, payload : Seq(Nat)]) /\ (~torn => FramesExact(Buffer))

(***************************************************************************)
(* The loop: a packet was passed over only if its next turn is to send.    *)
(***************************************************************************)
LoopInv ==
  /\ program \in {"fw", "host"}
  /\ torn \in BOOLEAN /\ (program = "fw" => ~torn)
  /\ out \in Nat /\ bypass \in {0, 1}
  /\ program = "host" => out = 0
  /\ bypass = 1 =>
        /\ program = "fw" /\ at = "drain"
        /\ phase \in {"relaying", "failed"} /\ peer_known

IInv ==
  /\ StreamInv /\ ReaderType /\ SeenInv /\ LoopInv
  /\ phase # "failed" => InHeader /\ InFrame /\ InControl /\ InAssembly

-----------------------------------------------------------------------------
(* Lemmas about numbers and sequences.                                     *)

(***************************************************************************)
(* The least of two and of three numbers.                                  *)
(***************************************************************************)
LEMMA MinTwo ==
  ASSUME NEW a \in Nat, NEW b \in Nat
  PROVE  /\ Min({a, b}) \in Nat /\ Min({a, b}) <= a /\ Min({a, b}) <= b
         /\ Min({a, b}) = a \/ Min({a, b}) = b
<1>1. \E x \in {a, b} : \A y \in {a, b} : x <= y
  OBVIOUS
<1>2. Min({a, b}) \in {a, b} /\ \A y \in {a, b} : Min({a, b}) <= y
  BY <1>1, Zenon DEF Min
<1> QED
  BY <1>2

LEMMA MinThree ==
  ASSUME NEW a \in Nat, NEW b \in Nat, NEW c \in Nat
  PROVE  LET m == Min({a, b, c})
         IN  m \in Nat /\ m <= a /\ m <= b /\ m <= c /\ (m = a \/ m = b \/ m = c)
<1>1. \E x \in {a, b, c} : \A y \in {a, b, c} : x <= y
  OBVIOUS
<1>2. Min({a, b, c}) \in {a, b, c} /\ \A y \in {a, b, c} : Min({a, b, c}) <= y
  BY <1>1, Zenon DEF Min
<1> QED
  BY <1>2

(***************************************************************************)
(* A sequence with one more element has one more in its range.             *)
(***************************************************************************)
LEMMA RangeAppend ==
  ASSUME NEW T, NEW s \in Seq(T), NEW x \in T
  PROVE  Range(Append(s, x)) = Range(s) \cup {x}
<1> DEFINE u == Append(s, x)
           m == Len(s)
<1>1. /\ m \in Nat /\ DOMAIN s = 1 .. m /\ DOMAIN u = 1 .. (m + 1)
      /\ u[m + 1] = x /\ \A i \in 1 .. m : u[i] = s[i]
  OBVIOUS
<1> HIDE DEF u, m
<1>2. 1 .. (m + 1) = (1 .. m) \cup {m + 1}
  BY <1>1
<1>3. Range(u) = Range(s) \cup {x}
  BY <1>1, <1>2 DEF Range
<1> QED
  BY <1>3 DEF u


-----------------------------------------------------------------------------
(* Lemmas about the stream and the bytes a turn of the reader uses.        *)

(***************************************************************************)
(* The next n bytes are of frame k, after its first a bytes.               *)
(***************************************************************************)
Run(n, k, a) == \A i \in 1 .. n : stream[fed + i].frame = k /\ stream[fed + i].at = a + i

(***************************************************************************)
(* What the stream says of a frame and of its bytes.                       *)
(***************************************************************************)
LEMMA FrameTypes ==
  ASSUME StreamType, NEW k \in 1 .. Len(frames)
  PROVE  /\ frames[k].length \in Nat /\ Size(k) \in Nat /\ Size(k) >= HEADER_LEN
         /\ HEADER_LEN \in Nat /\ HEADER_LEN >= 1
<1>1. frames[k] \in Frames
  BY DEF StreamType
<1>2. frames[k].length \in Nat
  BY <1>1, DerpAssumption
<1> QED
  BY <1>2, DerpAssumption DEF Size

LEMMA ByteTypes ==
  ASSUME StreamInv, NEW b \in 1 .. Len(stream)
  PROVE  /\ stream[b].frame \in 1 .. Len(frames) /\ stream[b].frame \in Nat
         /\ stream[b].at \in Nat /\ stream[b].at >= 1
         /\ stream[b].at <= Size(stream[b].frame) /\ stream[b].at <= b
         /\ Size(stream[b].frame) \in Nat /\ EndOf(b) \in Nat /\ EndOf(b) <= Len(stream)
         /\ EndOf(b) = b - stream[b].at + Size(stream[b].frame)
         /\ Len(stream) \in Nat /\ Len(frames) \in Nat
<1>1. Len(stream) \in Nat /\ Len(frames) \in Nat
  BY DEF StreamInv, StreamType
<1>2. /\ stream[b].frame \in 1 .. Len(frames)
      /\ stream[b].at \in 1 .. Size(stream[b].frame)
      /\ stream[b].at <= b
      /\ EndOf(b) <= Len(stream)
  BY DEF StreamInv, StreamPlaces
<1>3. Size(stream[b].frame) \in Nat
  BY <1>2, FrameTypes DEF StreamInv
<1> QED
  BY <1>1, <1>2, <1>3 DEF EndOf

LEMMA ReaderTypes ==
  ASSUME StreamType, ReaderType
  PROVE  /\ reader.header \in Seq(Nat) /\ Len(reader.header) \in Nat
         /\ reader.control \in Seq(Nat) /\ Len(reader.control) \in Nat
         /\ reader.current \in Nat /\ reader.remaining \in Nat
         /\ assembled \in Seq(Nat) /\ Len(assembled) \in Nat
         /\ fed \in Nat /\ read \in Nat /\ fed <= read /\ read <= Len(stream)
         /\ Len(stream) \in Nat /\ Len(frames) \in Nat
         /\ HEADER_LEN \in Nat /\ HEADER_LEN >= 1
         /\ CONTROL_FRAME_MAX \in Nat /\ CONTROL_FRAME_MAX >= 1
         /\ Buffer \in Nat /\ MAX_FRAME_LEN \in Nat /\ ASSEMBLED \in Nat
<1>1. Len(stream) \in Nat /\ Len(frames) \in Nat
  BY DEF StreamType
<1>2. reader.header \in Seq(Nat) /\ reader.control \in Seq(Nat) /\ assembled \in Seq(Nat)
  BY DEF ReaderType
<1>3. Len(reader.header) \in Nat /\ Len(reader.control) \in Nat /\ Len(assembled) \in Nat
  BY <1>2
<1>4. reader.current \in Nat /\ reader.remaining \in Nat
  BY DEF ReaderType
<1>5. fed \in Nat /\ read \in Nat /\ fed <= read /\ read <= Len(stream)
  BY <1>1 DEF ReaderType
<1>6. /\ HEADER_LEN \in Nat /\ HEADER_LEN >= 1
      /\ CONTROL_FRAME_MAX \in Nat /\ CONTROL_FRAME_MAX >= 1
      /\ Buffer \in Nat /\ MAX_FRAME_LEN \in Nat /\ ASSEMBLED \in Nat
  BY DerpAssumption DEF Buffer
<1> QED
  BY <1>1, <1>2, <1>3, <1>4, <1>5, <1>6

LEMMA HeaderRun ==
  ASSUME StreamInv, ReaderInv, reader.state = "Header", NEW n \in Nat \ {0},
         Len(reader.header) + n <= HEADER_LEN, fed + n <= Len(stream),
         NEW k, k = stream[fed - Len(reader.header) + 1].frame
  PROVE  k \in 1 .. Len(frames) /\ Run(n, k, Len(reader.header))
<1> DEFINE h == Len(reader.header)
           c == fed - h + 1
<1>0. StreamType /\ ReaderType /\ InHeader
  BY DEF StreamInv, ReaderInv
<1>1. /\ h \in Nat /\ fed \in Nat /\ h <= fed /\ Boundary(fed - h)
      /\ Len(stream) \in Nat /\ HEADER_LEN \in Nat
  BY <1>0, ReaderTypes DEF InHeader
<1>a. h + n <= HEADER_LEN
  OBVIOUS
<1> HIDE DEF h
<1>2. c \in 1 .. Len(stream) /\ c - 1 \in 0 .. Len(stream) - 1 /\ c - 1 = fed - h
      /\ c - 1 + 1 = c /\ c <= fed + 1
  BY <1>1
<1>3. stream[c].at = 1
  BY <1>1, <1>2 DEF StreamInv, StreamStarts
<1>4. k = stream[c].frame /\ k \in 1 .. Len(frames) /\ EndOf(c) = c - 1 + Size(k)
      /\ Size(k) \in Nat
  BY <1>2, <1>3, ByteTypes DEF h
<1>5. Size(k) >= HEADER_LEN
  BY <1>4, FrameTypes DEF StreamInv
<1> HIDE DEF c
<1>6. ASSUME NEW i \in 1 .. n
      PROVE  stream[fed + i].frame = k /\ stream[fed + i].at = h + i
  <2>1. fed + i \in 1 .. Len(stream) /\ fed + i <= EndOf(c) /\ fed + i >= c
        /\ fed + i - c = h + i - 1 /\ fed + i \in Nat /\ c \in Nat
    BY <1>1, <1>2, <1>4, <1>5, <1>a
  <2>2. CASE fed + i = c
    BY <1>1, <1>2, <1>3, <1>4, <2>1, <2>2
  <2>3. CASE fed + i > c
    <3>1. stream[fed + i].frame = stream[c].frame
          /\ stream[fed + i].at = stream[c].at + (fed + i - c)
      <4> DEFINE d == fed + i
      <4>1. c \in 1 .. Len(stream) /\ d \in 1 .. Len(stream) /\ c < d /\ d <= EndOf(c)
        BY <1>2, <2>1, <2>3
      <4> HIDE DEF d
      <4>2. stream[d].frame = stream[c].frame /\ stream[d].at = stream[c].at + (d - c)
        BY <4>1 DEF StreamInv, StreamOrder
      <4> QED
        BY <1>1, <2>1, <4>2 DEF d
    <3> QED
      BY <1>1, <1>3, <1>4, <2>1, <3>1, SMTT(30)
  <2> QED
    BY <2>1, <2>2, <2>3
<1> QED
  BY <1>4, <1>6 DEF Run, h

LEMMA FrameRun ==
  ASSUME StreamInv, ReaderInv, reader.state # "Header",
         NEW n \in 1 .. reader.remaining, fed + n <= Len(stream)
  PROVE  /\ reader.current \in 1 .. Len(frames)
         /\ Run(n, reader.current, Size(reader.current) - reader.remaining)
<1> DEFINE k == reader.current
           r == reader.remaining
<1>0. StreamType /\ ReaderType /\ InFrame
  BY DEF StreamInv, ReaderInv
<1>1. /\ fed \in 1 .. Len(stream) /\ k = stream[fed].frame /\ r \in Nat /\ fed \in Nat
      /\ stream[fed].at = Size(k) - r /\ Len(stream) \in Nat
  BY <1>0, ReaderTypes DEF InFrame
<1>2. k \in 1 .. Len(frames) /\ Size(k) \in Nat /\ EndOf(fed) = fed - stream[fed].at + Size(k)
  BY <1>1, ByteTypes
<1>3. EndOf(fed) = fed + r
  BY <1>1, <1>2
<1> HIDE DEF k, r
<1>4. ASSUME NEW i \in 1 .. n
      PROVE  stream[fed + i].frame = k /\ stream[fed + i].at = Size(k) - r + i
  <2>1. fed + i \in 1 .. Len(stream) /\ fed + i <= EndOf(fed) /\ fed < fed + i
        /\ fed + i - fed = i
    BY <1>1, <1>3 DEF r
  <2>2. stream[fed + i].frame = stream[fed].frame
        /\ stream[fed + i].at = stream[fed].at + (fed + i - fed)
    BY <1>1, <2>1 DEF StreamInv, StreamOrder
  <2> QED
    BY <1>1, <1>2, <2>1, <2>2
<1> QED
  BY <1>2, <1>4 DEF Run, k, r

-----------------------------------------------------------------------------
(* The four actions of the reader are one: a turn uses n bytes of frame k, *)
(* after its first a bytes, and either says nothing, or produces the       *)
(* control frame that ends there, or hands the bytes on.                   *)
(* The four actions of the reader are one: a turn uses n bytes of frame k, *)
(* after its first a bytes, and either says nothing or gives the frame     *)
(* that ends there to the loop.                                            *)

Quiet(n, k, a) == UNCHANGED seen /\ a + n < Size(k)

Completes(n, k, a) ==
  /\ a + n = Size(k) /\ frames[k].length <= MAX_FRAME_LEN
  /\ \E p \in Seq(Nat) : /\ seen' = Append(seen, [frame |-> k, payload |-> p])
                         /\ ~torn => p = FrameAt(fed + n, Buffer).payload

Uses(n, k, a) ==
  /\ n \in Nat \ {0} /\ k \in 1 .. Len(frames) /\ a \in Nat
  /\ a + n <= Size(k)
  /\ Run(n, k, a)
  /\ fed + n <= read /\ fed' = fed + n
  /\ UNCHANGED <<program, frames, stream, read, torn>>

FeedStep(n, k, a) == Uses(n, k, a) /\ (Quiet(n, k, a) \/ Completes(n, k, a))

LEMMA ChunkIs ==
  ASSUME fed \in Nat, NEW n \in Nat
  PROVE  /\ Chunk(n) \in Seq(Nat) /\ Len(Chunk(n)) = n
         /\ \A i \in 1 .. n : Chunk(n)[i] = fed + i
BY DEF Chunk

(***************************************************************************)
(* Numbers that follow each other, with the next n of the input.           *)
(***************************************************************************)
LEMMA ChunkFollows ==
  ASSUME fed \in Nat, NEW n \in Nat, NEW s \in Seq(Nat), NEW d \in Int,
         \A i \in 1 .. Len(s) : s[i] = d + i, d + Len(s) = fed
  PROVE  /\ s \o Chunk(n) \in Seq(Nat) /\ Len(s \o Chunk(n)) = Len(s) + n
         /\ \A i \in 1 .. Len(s) + n : (s \o Chunk(n))[i] = d + i
<1> DEFINE t == Chunk(n)
           u == s \o t
           m == Len(s)
<1>1. t \in Seq(Nat) /\ Len(t) = n /\ \A i \in 1 .. n : t[i] = fed + i
  BY ChunkIs
<1>2. m \in Nat /\ (\A i \in 1 .. m : s[i] = d + i) /\ d + m = fed
  OBVIOUS
<1> HIDE DEF t
<1>3. u \in Seq(Nat) /\ Len(u) = m + n
  BY <1>1, ConcatProperties
<1>4. /\ \A i \in 1 .. m : u[i] = s[i]
      /\ \A i \in 1 .. n : u[m + i] = t[i]
  BY <1>1
<1> HIDE DEF u, m
<1>5. ASSUME NEW i \in 1 .. m + n
      PROVE  u[i] = d + i
  <2>1. CASE i <= m
    BY <1>2, <1>4, <2>1
  <2>2. CASE i > m
    <3> DEFINE j == i - m
    <3>1. j \in 1 .. n /\ m + j = i /\ fed + j = d + i
      BY <1>2, <2>2
    <3> HIDE DEF j
    <3>2. u[m + j] = t[j] /\ t[j] = fed + j
      BY <1>1, <1>4, <3>1
    <3> QED
      BY <3>1, <3>2
  <2> QED
    BY <1>2, <2>1, <2>2
<1>6. u \in Seq(Nat) /\ Len(u) = m + n /\ \A i \in 1 .. m + n : u[i] = d + i
  BY <1>3, <1>5
<1> QED
  BY <1>6 DEF t, u, m

(***************************************************************************)
(* The payload of the frame that ends with byte b.                         *)
(***************************************************************************)
LEMMA PayloadIs ==
  ASSUME NEW b \in Nat, NEW n \in Nat, n <= b, Frame(b).length = n, NEW limit \in Nat,
         limit = IF is_control(Frame(b).kind) THEN CONTROL_FRAME_MAX ELSE Buffer,
         NEW p \in Seq(Nat), Len(p) <= n, Len(p) <= limit, Len(p) = n \/ Len(p) = limit,
         \A j \in 1 .. Len(p) : p[j] = b - n + j
  PROVE  FrameAt(b, Buffer).payload = p
<1> DEFINE m == Min({n, limit})
           q == [j \in 1 .. m |-> b - n + j]
<1>1. FrameAt(b, Buffer).payload = q
  BY DEF FrameAt
<1>2. m \in Nat /\ m = Len(p)
  <2>1. Len(p) \in Nat
    OBVIOUS
  <2> QED
    BY <2>1, MinTwo
<1> HIDE DEF m
<1>3. q \in Seq(Nat) /\ Len(q) = m /\ \A j \in 1 .. m : q[j] = b - n + j
  BY <1>2
<1> HIDE DEF q
<1>4. q = p
  BY <1>2, <1>3, SeqEqual, SMTT(30)
<1> QED
  BY <1>1, <1>4

(***************************************************************************)
(* A turn in the header leaves the reader in the header, or where the      *)
(* header says; a frame without payload is complete, and one that is too   *)
(* long fails the connection.                                              *)
(***************************************************************************)
LEMMA HeaderStep ==
  ASSUME StreamInv, ReaderInv, InAssembly, FeedHeader
  PROVE  /\ ReaderType'
         /\ phase' # "failed" => (InHeader /\ InFrame /\ InControl /\ InAssembly)'
         /\ \E n, k, a : FeedStep(n, k, a)
<1> DEFINE h == Len(reader.header)
           take == Min({HEADER_LEN - h, read - fed})
           header == reader.header \o Chunk(take)
           k == stream[Head(header)].frame
<1>0. StreamType /\ ReaderType /\ InHeader
  BY DEF StreamInv, ReaderInv
<1>1. /\ reader.header \in Seq(Nat) /\ h \in Nat /\ fed \in Nat /\ read \in Nat
      /\ fed <= read /\ read <= Len(stream) /\ Len(stream) \in Nat
      /\ HEADER_LEN \in Nat /\ HEADER_LEN >= 1 /\ CONTROL_FRAME_MAX \in Nat
      /\ CONTROL_FRAME_MAX >= 1 /\ Buffer \in Nat /\ MAX_FRAME_LEN \in Nat
  BY <1>0, ReaderTypes, SMTT(30)
<1>2. /\ reader.state = "Header" /\ fed < read /\ fed' = fed + take
      /\ UNCHANGED <<program, frames, stream, read, torn, assembled>>
  BY DEF FeedHeader, Feeds, relayVars
<1>3. /\ h < HEADER_LEN /\ h <= fed /\ Boundary(fed - h)
      /\ \A i \in 1 .. h : reader.header[i] = fed - h + i
  BY <1>0, <1>2 DEF InHeader
<1>a. ~torn => assembled = <<>>
  BY <1>2, Zenon DEF InAssembly
<1>4. take \in Nat \ {0} /\ h + take <= HEADER_LEN /\ fed + take <= read
  <2> DEFINE x == HEADER_LEN - h
             y == read - fed
  <2>1. x \in Nat \ {0} /\ y \in Nat \ {0} /\ h + x = HEADER_LEN /\ fed + y = read
    BY <1>1, <1>2, <1>3
  <2> HIDE DEF x, y
  <2>2. Min({x, y}) \in Nat \ {0} /\ Min({x, y}) <= x /\ Min({x, y}) <= y
    BY <2>1, MinTwo
  <2>3. take = Min({x, y})
    BY DEF x, y
  <2> HIDE DEF take, h
  <2> QED
    BY <1>1, <2>1, <2>2, <2>3
<1>5. /\ header \in Seq(Nat) /\ Len(header) = h + take
      /\ \A i \in 1 .. h + take : header[i] = fed - h + i
  <2>1. fed - h \in Int /\ fed - h + h = fed
    BY <1>1
  <2> QED
    BY <1>1, <1>3, <1>4, <2>1, ChunkFollows, ZenonT(60)
<1>6. Head(header) = fed - h + 1
  <2> HIDE DEF header, h, take
  <2>1. Head(header) = header[1] /\ 1 \in 1 .. h + take
    BY <1>1, <1>4, <1>5
  <2> QED
    BY <1>5, <2>1
<1>7. /\ k = stream[fed - h + 1].frame /\ k \in 1 .. Len(frames) /\ Run(take, k, h)
  <2>1. k = stream[fed - h + 1].frame
    BY <1>6
  <2> HIDE DEF take, header, k
  <2>2. fed + take <= Len(stream)
    BY <1>1, <1>4
  <2> QED
    BY <1>2, <1>4, <2>1, <2>2, HeaderRun
<1>8. Size(k) \in Nat /\ frames[k].length \in Nat /\ Size(k) = HEADER_LEN + frames[k].length
  BY <1>0, <1>7, FrameTypes, SMTT(30) DEF Size
<1> DEFINE Part == /\ Len(header) < HEADER_LEN
                   /\ reader' = [reader EXCEPT !.header = header]
                   /\ Continue
           Refused == /\ Len(header) = HEADER_LEN
                      /\ frames[k].length > MAX_FRAME_LEN
                      /\ reader' = [reader EXCEPT !.header = <<>>]
                      /\ phase' = "failed"
                      /\ UNCHANGED <<frame, seen, at>>
           Whole == /\ Len(header) = HEADER_LEN
                    /\ frames[k].length <= MAX_FRAME_LEN
                    /\ reader' = [reader EXCEPT !.header = <<>>, !.current = k, !.control = <<>>,
                                     !.remaining = frames[k].length,
                                     !.state = AfterHeader(frames[k])]
                    /\ IF AfterHeader(frames[k]) = "Header"
                       THEN Emit(k, <<>>) /\ UNCHANGED phase
                       ELSE Continue
<1>9. Part \/ Refused \/ Whole
  BY DEF FeedHeader
<1> HIDE DEF h, take, header, k
<1>11. Uses(take, k, h)
  <2>1. h + take <= Size(k)
    BY <1>1, <1>4, <1>8
  <2> QED
    BY <1>1, <1>2, <1>4, <1>7, <2>1, Zenon DEF Uses
<1>12. /\ stream[fed + take].frame = k /\ stream[fed + take].at = h + take
  BY <1>4, <1>7 DEF Run
<1>b. fed' \in 0 .. read' /\ read' \in 0 .. Len(stream)'
  BY <1>1, <1>2, <1>4
<1>13. CASE Part
  <2>1. /\ reader'.header = header /\ reader'.state = "Header"
    BY <1>0, <1>2, <1>13 DEF ReaderType
  <2>2. ReaderType'
    BY <1>0, <1>2, <1>5, <1>13, <1>b DEF ReaderType
  <2>3. InHeader'
    <3>1. (fed - Len(reader.header))' = fed - h
      <4>1. fed' = fed + take /\ Len(reader'.header) = h + take
        BY <1>2, <1>5, <2>1, Zenon
      <4> QED
        BY <1>1, <1>4, <4>1
    <3>2. Boundary(fed - Len(reader.header))'
      BY <1>2, <1>3, <3>1 DEF Boundary, EndOf, Size
    <3>3. \A i \in 1 .. Len(reader'.header) : reader'.header[i] = fed - h + i
      BY <1>5, <2>1
    <3>4. \A i \in 1 .. Len(reader'.header) : reader'.header[i] = fed' - Len(reader'.header) + i
      BY <3>1, <3>3
    <3>5. Len(reader'.header) < HEADER_LEN /\ Len(reader'.header) <= fed'
      BY <1>1, <1>2, <1>3, <1>4, <1>5, <1>13, <2>1
    <3> QED
      BY <3>2, <3>4, <3>5 DEF InHeader
  <2>4. InFrame' /\ InControl'
    BY <2>1 DEF InFrame, InControl
  <2>5. InAssembly'
    BY <1>2, <1>a, <2>1 DEF InAssembly
  <2>6. FeedStep(take, k, h)
    <3>1. h + take < Size(k)
      BY <1>1, <1>4, <1>5, <1>8, <1>13, SMTT(30)
    <3>2. Quiet(take, k, h)
      BY <1>13, <3>1, Zenon DEF Quiet, Continue
    <3> QED
      BY <1>11, <3>2, Zenon DEF FeedStep
  <2> QED
    BY <2>2, <2>3, <2>4, <2>5, <2>6
<1>14. CASE Refused
  <2>0. <<>> \in Seq(Nat)
    OBVIOUS
  <2>1. ReaderType'
    BY <1>0, <1>2, <1>14, <1>b, <2>0 DEF ReaderType
  <2>2. h + take < Size(k)
    BY <1>1, <1>4, <1>5, <1>8, <1>14, SMTT(30)
  <2>3. FeedStep(take, k, h)
    BY <1>11, <1>14, <2>2, Zenon DEF FeedStep, Quiet
  <2> QED
    BY <1>14, <2>1, <2>3
<1>15. CASE Whole
  <2>1. /\ reader'.header = <<>> /\ reader'.current = k /\ reader'.control = <<>>
        /\ reader'.remaining = frames[k].length
        /\ reader'.state = IF frames[k].length = 0 THEN "Header"
                           ELSE IF is_control(frames[k].kind) THEN "Buffering" ELSE "Streaming"
    BY <1>0, <1>15 DEF ReaderType, AfterHeader
  <2>2. h + take = HEADER_LEN
    BY <1>5, <1>15
  <2>3. ReaderType'
    <3>1. k \in Nat /\ <<>> \in Seq(Nat)
      BY <1>7
    <3>2. AfterHeader(frames[k]) \in {"Header", "Buffering", "Draining", "Streaming"}
      BY DEF AfterHeader
    <3> QED
      BY <1>0, <1>2, <1>8, <1>15, <1>b, <3>1, <3>2 DEF ReaderType
  <2>4. InHeader'
    <3> SUFFICES ASSUME reader'.state = "Header" PROVE InHeader'
      BY DEF InHeader
    <3>1. frames[k].length = 0
      BY <2>1
    <3>2. Len(reader'.header) = 0 /\ fed' - Len(reader'.header) = fed + take
      BY <1>1, <1>2, <1>4, <2>1
    <3>3. EndOf(fed + take) = fed + take
      BY <1>1, <1>4, <1>8, <1>12, <2>2, <3>1 DEF EndOf
    <3>4. Boundary(fed - Len(reader.header))'
      BY <1>2, <3>2, <3>3 DEF Boundary, EndOf, Size
    <3> QED
      BY <1>1, <1>2, <1>4, <3>2, <3>4 DEF InHeader
  <2>5. InFrame'
    <3> SUFFICES ASSUME reader'.state # "Header" PROVE InFrame'
      BY DEF InFrame
    <3>1. frames[k].length >= 1
      BY <1>8, <2>1
    <3>2. fed' >= 1 /\ k = stream[fed'].frame /\ stream[fed'].at = HEADER_LEN
      BY <1>1, <1>2, <1>4, <1>12, <2>2
    <3>3. Size(k) - frames[k].length = HEADER_LEN
      BY <1>1, <1>8
    <3>4. reader'.state = "Streaming" <=> ~is_control(frames[k].kind)
      BY <2>1
    <3> QED
      BY <1>2, <1>8, <1>15, <2>1, <3>1, <3>2, <3>3, <3>4 DEF InFrame, Size
  <2>6. InControl'
    BY <1>1, <1>2, <1>8, <2>1 DEF InControl
  <2>7. InAssembly'
    <3>1. CASE torn
      BY <1>2, <3>1 DEF InAssembly
    <3>2. CASE ~torn
      <4>1. assembled' = <<>> /\ ~torn'
        BY <1>2, <1>a, <3>2
      <4>2. frames'[reader'.current].length - reader'.remaining = 0
        BY <1>2, <1>8, <2>1
      <4> DEFINE p == <<>>
      <4>3. \A d : Keeps(p, 0, d)'
        BY <1>1, <1>2 DEF Keeps, Buffer
      <4> QED
        BY <4>1, <4>2, <4>3 DEF InAssembly
    <3> QED
      BY <3>1, <3>2
  <2>8. FeedStep(take, k, h)
    <3>1. CASE frames[k].length > 0
      <4>1. h + take < Size(k)
        BY <1>1, <1>8, <2>2, <3>1
      <4>2. AfterHeader(frames[k]) # "Header"
        BY <1>8, <3>1 DEF AfterHeader
      <4>3. Quiet(take, k, h)
        BY <1>15, <4>1, <4>2, Zenon DEF Quiet, Continue
      <4> QED
        BY <1>11, <4>3, Zenon DEF FeedStep
    <3>2. CASE frames[k].length = 0
      <4>0. AfterHeader(frames[k]) = "Header"
        BY <3>2 DEF AfterHeader
      <4>1. Emit(k, <<>>)
        BY <1>15, <4>0, Zenon
      <4>2. FrameAt(fed + take, Buffer).payload = <<>>
        <5> DEFINE p == <<>>
                   b == fed + take
                   n == frames[k].length
                   limit == IF is_control(Frame(b).kind) THEN CONTROL_FRAME_MAX ELSE Buffer
        <5>1. Frame(b).length = n
          BY <1>12 DEF Frame
        <5>2. /\ b \in Nat /\ n \in Nat /\ n <= b /\ limit \in Nat
              /\ p \in Seq(Nat) /\ Len(p) <= n /\ Len(p) <= limit /\ Len(p) = n
              /\ \A j \in 1 .. Len(p) : p[j] = b - n + j
          BY <1>1, <1>4, <1>8, <3>2
        <5>3. limit = IF is_control(Frame(b).kind) THEN CONTROL_FRAME_MAX ELSE Buffer
          OBVIOUS
        <5> HIDE DEF p, b, n, limit
        <5>4. FrameAt(b, Buffer).payload = p
          BY <5>1, <5>2, <5>3, PayloadIs
        <5> QED
          BY <5>4 DEF p, b
      <4>3. h + take = Size(k)
        BY <1>1, <1>8, <2>2, <3>2
      <4>4. seen' = Append(seen, [frame |-> k, payload |-> <<>>]) /\ <<>> \in Seq(Nat)
        BY <4>1 DEF Emit
      <4>5. Completes(take, k, h)
        BY <1>15, <4>2, <4>3, <4>4, Zenon DEF Completes
      <4> QED
        BY <1>11, <4>5, Zenon DEF FeedStep
    <3> QED
      BY <1>8, <3>1, <3>2
  <2> QED
    BY <2>3, <2>4, <2>5, <2>6, <2>7, <2>8
<1> QED
  BY <1>9, <1>13, <1>14, <1>15

(***************************************************************************)
(* A turn in the payload uses the next bytes of the frame, and leaves the  *)
(* reader further in it or at its end.                                     *)
(***************************************************************************)
LEMMA FrameUses ==
  ASSUME StreamInv, ReaderInv, NEW st, st # "Header", NEW n \in 1 .. reader.remaining,
         fed + n <= read, Feeds(st, n),
         NEW k, k = reader.current, NEW a, a = Size(k) - reader.remaining
  PROVE  /\ Uses(n, k, a)
         /\ a \in Nat /\ a >= HEADER_LEN /\ n \in Nat
         /\ Size(k) \in Nat /\ frames[k].length \in Nat
         /\ Size(k) = HEADER_LEN + frames[k].length
         /\ a + n = Size(k) <=> reader.remaining = n
         /\ fed' \in 0 .. read' /\ read' \in 0 .. Len(stream)'
         /\ UNCHANGED <<program, frames, stream, torn>> /\ fed' = fed + n
<1>0. StreamType /\ ReaderType /\ InFrame
  BY DEF StreamInv, ReaderInv
<1>1. /\ fed \in Nat /\ read \in Nat /\ read <= Len(stream) /\ Len(stream) \in Nat
      /\ HEADER_LEN \in Nat /\ reader.remaining \in Nat
  BY <1>0, ReaderTypes
<1>2. /\ reader.state = st /\ fed' = fed + n
      /\ UNCHANGED <<program, frames, stream, read, torn>>
  BY DEF Feeds, relayVars
<1>3. reader.remaining \in 1 .. frames[k].length
  BY <1>0, <1>2 DEF InFrame
<1>4. fed + n <= Len(stream) /\ n \in Nat \ {0}
  BY <1>1
<1>5. k \in 1 .. Len(frames) /\ Run(n, k, a)
  BY <1>2, <1>4, FrameRun
<1>6. Size(k) \in Nat /\ frames[k].length \in Nat /\ Size(k) = HEADER_LEN + frames[k].length
  BY <1>0, <1>5, FrameTypes DEF Size
<1>7. /\ a \in Nat /\ a >= HEADER_LEN /\ a + n <= Size(k)
      /\ a + n = Size(k) <=> reader.remaining = n
  <2> DEFINE r == reader.remaining
             z == Size(k)
             l == frames[k].length
  <2>1. /\ r \in Nat /\ l \in Nat /\ z = HEADER_LEN + l /\ 1 <= r /\ r <= l
        /\ n \in Nat /\ n <= r /\ a = z - r
    BY <1>1, <1>3, <1>4, <1>6
  <2> HIDE DEF r, z, l
  <2>2. a \in Nat /\ a >= HEADER_LEN /\ a + n <= z /\ (a + n = z <=> r = n)
    BY <1>1, <2>1
  <2> QED
    BY <2>2 DEF r, z, l
<1>8. Uses(n, k, a)
  BY <1>2, <1>4, <1>5, <1>7, Zenon DEF Uses
<1>9. fed' \in 0 .. read' /\ read' \in 0 .. Len(stream)'
  BY <1>1, <1>2, <1>4
<1> QED
  BY <1>2, <1>4, <1>6, <1>7, <1>8, <1>9

LEMMA FrameAdvance ==
  ASSUME StreamInv, ReaderInv, reader.state # "Header", NEW n \in 1 .. reader.remaining,
         fed + n <= read, UNCHANGED <<frames, stream>>, fed' = fed + n,
         reader'.header = reader.header, reader'.current = reader.current,
         reader'.remaining = reader.remaining - n,
         reader'.state = "Header" <=> reader.remaining = n,
         reader.remaining # n =>
            (reader'.state = "Streaming" <=> reader.state = "Streaming")
  PROVE  InHeader' /\ InFrame'
<1> DEFINE k == reader.current
           r == reader.remaining
<1>0. StreamType /\ ReaderType /\ InFrame
  BY DEF StreamInv, ReaderInv
<1>1. /\ fed \in Nat /\ read \in Nat /\ read <= Len(stream) /\ Len(stream) \in Nat
      /\ HEADER_LEN \in Nat /\ HEADER_LEN >= 1 /\ r \in Nat
  BY <1>0, ReaderTypes
<1>2. /\ r \in 1 .. frames[k].length /\ reader.header = <<>>
      /\ frames[k].length <= MAX_FRAME_LEN
      /\ reader.state = "Streaming" <=> ~is_control(frames[k].kind)
  BY <1>0 DEF InFrame
<1>3. fed + n <= Len(stream) /\ n \in Nat \ {0} /\ n <= r
  BY <1>1
<1>4. k \in 1 .. Len(frames) /\ Run(n, k, Size(k) - r)
  BY <1>3, FrameRun
<1>5. Size(k) \in Nat /\ frames[k].length \in Nat
  BY <1>0, <1>4, FrameTypes
<1>6. stream[fed + n].frame = k /\ stream[fed + n].at = Size(k) - r + n
  BY <1>3, <1>4 DEF Run
<1>7. UNCHANGED <<frames, stream>> /\ reader'.header = <<>> /\ reader'.current = k
      /\ reader'.remaining = r - n
  BY <1>2
<1> HIDE DEF k, r
<1>8. InHeader'
  <2> SUFFICES ASSUME reader'.state = "Header" PROVE InHeader'
    BY DEF InHeader
  <2>1. r = n
    BY DEF r
  <2>2. Len(reader'.header) = 0 /\ fed' - Len(reader'.header) = fed + n
    BY <1>1, <1>3, <1>7
  <2>3. EndOf(fed + n) = fed + n
    BY <1>1, <1>3, <1>5, <1>6, <2>1 DEF EndOf
  <2>4. Boundary(fed - Len(reader.header))'
    BY <1>7, <2>2, <2>3 DEF Boundary, EndOf, Size
  <2> QED
    BY <1>1, <1>3, <2>2, <2>4 DEF InHeader
<1>9. InFrame'
  <2> SUFFICES ASSUME reader'.state # "Header" PROVE InFrame'
    BY DEF InFrame
  <2>1. r # n
    BY DEF r
  <2>2. r - n \in 1 .. frames[k].length /\ fed + n >= 1
        /\ Size(k) - r + n = Size(k) - (r - n)
    BY <1>1, <1>2, <1>3, <1>5, <2>1, SMTT(30)
  <2>3. reader'.state = "Streaming" <=> ~is_control(frames[k].kind)
    BY <1>2, <2>1 DEF r
  <2> QED
    BY <1>2, <1>6, <1>7, <2>2, <2>3 DEF InFrame, Size
<1> QED
  BY <1>8, <1>9

(***************************************************************************)
(* The frame that ends with the turn, when the loop holds its payload.     *)
(***************************************************************************)
LEMMA LastTurn ==
  ASSUME StreamInv, ReaderInv, reader.state # "Header", NEW n \in Nat,
         n = reader.remaining, fed + n <= Len(stream), NEW p \in Seq(Nat), NEW limit \in Nat,
         limit = IF is_control(frames[reader.current].kind) THEN CONTROL_FRAME_MAX ELSE Buffer,
         Len(p) <= frames[reader.current].length, Len(p) <= limit,
         Len(p) = frames[reader.current].length \/ Len(p) = limit,
         \A j \in 1 .. Len(p) : p[j] = (fed + n) - frames[reader.current].length + j
  PROVE  FrameAt(fed + n, Buffer).payload = p
<1> DEFINE k == reader.current
           b == fed + n
           l == frames[k].length
<1>0. StreamType /\ ReaderType /\ InFrame
  BY DEF StreamInv, ReaderInv
<1>a. reader.remaining \in 1 .. l
  BY <1>0, Zenon DEF InFrame
<1>1. /\ fed \in Nat /\ Len(stream) \in Nat /\ HEADER_LEN \in Nat /\ n \in 1 .. reader.remaining
  <2>1. fed \in Nat /\ Len(stream) \in Nat /\ HEADER_LEN \in Nat
    BY <1>0, ReaderTypes
  <2>2. n \in 1 .. n
    BY <1>a
  <2> QED
    BY <2>1, <2>2
<1>2. k \in 1 .. Len(frames) /\ Run(n, k, Size(k) - n)
  BY <1>1, FrameRun
<1>3. l \in Nat /\ Size(k) = HEADER_LEN + l /\ Size(k) \in Nat
  BY <1>0, <1>2, FrameTypes DEF Size
<1>4. stream[b].frame = k /\ stream[b].at = Size(k)
  <2> DEFINE z == Size(k)
  <2>1. n \in 1 .. n
    BY <1>1
  <2>2. stream[b].frame = k /\ stream[b].at = z - n + n
    BY <1>2, <2>1, Zenon DEF Run
  <2>3. z \in Nat
    BY <1>3
  <2> HIDE DEF z, b, k, l
  <2>4. z - n + n = z
    BY <2>3
  <2> QED
    BY <2>2, <2>4 DEF z
<1>5. b \in 1 .. Len(stream)
  BY <1>1
<1>6. Frame(b) = frames[k] /\ l <= b /\ b \in Nat
  <2>1. stream[b].at <= b /\ b \in Nat
    BY <1>5, ByteTypes
  <2> HIDE DEF b
  <2> QED
    BY <1>1, <1>3, <1>4, <2>1 DEF Frame
<1>7. /\ Len(p) <= l /\ (Len(p) = l \/ Len(p) = limit)
      /\ \A j \in 1 .. Len(p) : p[j] = b - l + j
      /\ limit = IF is_control(Frame(b).kind) THEN CONTROL_FRAME_MAX ELSE Buffer
  BY <1>6, Zenon
<1>8. Frame(b).length = l
  BY <1>6
<1> HIDE DEF b, l
<1>9. FrameAt(b, Buffer).payload = p
  BY <1>3, <1>6, <1>7, <1>8, PayloadIs
<1> QED
  BY <1>9 DEF b

LEMMA DrainingStep ==
  ASSUME StreamInv, ReaderInv, InAssembly, FeedDraining
  PROVE  (ReaderInv /\ InAssembly)' /\ \E n, k, a : FeedStep(n, k, a)
<1> DEFINE take == Min({reader.remaining, read - fed})
           k == reader.current
           a == Size(k) - reader.remaining
<1>0. StreamType /\ ReaderType /\ InFrame /\ InControl
  BY DEF StreamInv, ReaderInv
<1>1. /\ fed \in Nat /\ read \in Nat /\ reader.remaining \in Nat
      /\ reader.control \in Seq(Nat) /\ CONTROL_FRAME_MAX \in Nat /\ read <= Len(stream)
      /\ Len(stream) \in Nat
  BY <1>0, ReaderTypes
<1>2. Feeds("Draining", take) /\ reader.state = "Draining" /\ fed < read
  BY DEF FeedDraining, Feeds
<1>3. /\ reader.remaining >= 1 /\ is_control(frames[k].kind)
      /\ reader.remaining <= frames[k].length /\ frames[k].length <= MAX_FRAME_LEN
  BY <1>0, <1>1, <1>2 DEF InFrame
<1>4. take \in 1 .. reader.remaining /\ fed + take <= read
  <2> DEFINE y == read - fed
  <2>1. y \in Nat \ {0} /\ fed + y = read
    BY <1>1, <1>2
  <2> HIDE DEF y
  <2>2. /\ Min({reader.remaining, y}) \in Nat \ {0}
        /\ Min({reader.remaining, y}) <= reader.remaining /\ Min({reader.remaining, y}) <= y
    BY <1>1, <1>3, <2>1, MinTwo
  <2>3. take = Min({reader.remaining, y})
    BY DEF y
  <2> HIDE DEF take
  <2> QED
    BY <1>1, <2>1, <2>2, <2>3
<1>5. reader' = [reader EXCEPT !.remaining = reader.remaining - take,
                     !.state = IF reader.remaining = take THEN "Header" ELSE "Draining"]
  BY DEF FeedDraining
<1>6. /\ IF reader.remaining = take THEN Emit(k, reader.control) ELSE Continue
      /\ UNCHANGED assembled
  BY DEF FeedDraining
<1> HIDE DEF take
<1>7. /\ Uses(take, k, a) /\ a >= HEADER_LEN /\ a \in Nat
      /\ a + take = Size(k) <=> reader.remaining = take
      /\ fed' \in 0 .. read' /\ read' \in 0 .. Len(stream)'
      /\ Size(k) \in Nat /\ frames[k].length \in Nat /\ Size(k) = HEADER_LEN + frames[k].length
      /\ UNCHANGED <<program, frames, stream, torn>> /\ fed' = fed + take
  BY <1>2, <1>4, FrameUses
<1>8. /\ reader'.header = reader.header /\ reader'.current = reader.current
      /\ reader'.remaining = reader.remaining - take /\ reader'.control = reader.control
      /\ reader'.state = IF reader.remaining = take THEN "Header" ELSE "Draining"
  BY <1>0, <1>5 DEF ReaderType
<1>9. a + take <= Size(k)
  BY <1>7, Zenon DEF Uses
<1>10. InHeader' /\ InFrame'
  BY <1>2, <1>4, <1>7, <1>8, FrameAdvance
<1> DEFINE c == reader.control
           l == frames[k].length
           r == reader.remaining
<1>11. /\ Len(c) = CONTROL_FRAME_MAX /\ CONTROL_FRAME_MAX <= l - r
       /\ \A j \in 1 .. Len(c) : c[j] = fed - (l - r) + j
  BY <1>0, <1>2 DEF InControl
<1>12. l \in Nat /\ r \in Nat /\ take \in Nat /\ take <= r /\ r <= l
  BY <1>1, <1>3, <1>4, <1>7
<1>13. InControl'
  <2> SUFFICES ASSUME reader'.state = "Draining" PROVE InControl'
    BY <1>8 DEF InControl
  <2>1. fed' - (l - (r - take)) = fed - (l - r) /\ CONTROL_FRAME_MAX <= l - (r - take)
    <3> HIDE DEF l, r, c, k
    <3> QED
      BY <1>1, <1>7, <1>11, <1>12
  <2>2. /\ frames'[reader'.current].length - reader'.remaining = l - (r - take)
        /\ reader'.control = c
    BY <1>7, <1>8
  <2>3. \A j \in 1 .. Len(c) : c[j] = fed' - (l - (r - take)) + j
    BY <1>11, <2>1
  <2> QED
    BY <1>11, <2>1, <2>2, <2>3 DEF InControl
<1>14. ReaderType'
  <2>1. reader.remaining - take \in Nat
    BY <1>1, <1>4
  <2> QED
    BY <1>0, <1>5, <1>6, <1>7, <2>1 DEF ReaderType
<1>15. InAssembly'
  <2>1. ~torn => assembled = <<>>
    BY <1>2 DEF InAssembly
  <2>2. reader'.state # "Streaming"
    BY <1>8
  <2> QED
    BY <1>6, <1>7, <2>1, <2>2 DEF InAssembly
<1>16. FeedStep(take, k, a)
  <2>3. CASE reader.remaining = take
    <3>1. \A j \in 1 .. Len(c) : c[j] = (fed + take) - l + j
      <4>1. fed - (l - r) = (fed + take) - l
        <5> HIDE DEF l, c, k
        <5> QED
          BY <1>1, <1>12, <2>3
      <4> QED
        BY <1>11, <4>1
    <3>2. /\ c \in Seq(Nat) /\ Len(c) <= l
          /\ Len(c) = CONTROL_FRAME_MAX /\ Len(c) <= CONTROL_FRAME_MAX /\ CONTROL_FRAME_MAX \in Nat
      <4>1. Len(c) <= l
        <5> HIDE DEF l, r, c, k
        <5> QED
          BY <1>1, <1>11, <1>12
      <4> QED
        BY <1>1, <1>4, <1>11, <1>12, <4>1
    <3>3. fed + take <= Len(stream) /\ take \in Nat /\ reader.state # "Header"
      BY <1>1, <1>2, <1>4
    <3>a. CONTROL_FRAME_MAX = IF is_control(frames[k].kind) THEN CONTROL_FRAME_MAX ELSE Buffer
      BY <1>3
    <3> HIDE DEF c
    <3>4. FrameAt(fed + take, Buffer).payload = c
      BY <2>3, <3>1, <3>2, <3>3, <3>a, LastTurn, Zenon
    <3>5. seen' = Append(seen, [frame |-> k, payload |-> c])
      BY <1>6, <2>3, Zenon DEF Emit, c
    <3>6. Completes(take, k, a)
      BY <1>3, <1>7, <2>3, <3>2, <3>4, <3>5, Zenon DEF Completes
    <3> QED
      BY <1>7, <3>6, Zenon DEF FeedStep
  <2>4. CASE reader.remaining # take
    <3>1. a + take < Size(k)
      BY <1>4, <1>7, <1>9, <2>4
    <3>2. Quiet(take, k, a)
      BY <1>6, <2>4, <3>1, Zenon DEF Quiet, Continue
    <3> QED
      BY <1>7, <3>2, Zenon DEF FeedStep
  <2> QED
    BY <2>3, <2>4
<1> QED
  BY <1>10, <1>13, <1>14, <1>15, <1>16 DEF ReaderInv

LEMMA BufferingStep ==
  ASSUME StreamInv, ReaderInv, InAssembly, FeedBuffering
  PROVE  (ReaderInv /\ InAssembly)' /\ \E n, k, a : FeedStep(n, k, a)
<1> DEFINE take == Min({reader.remaining, read - fed, CONTROL_FRAME_MAX - Len(reader.control)})
           c == reader.control \o Chunk(take)
           k == reader.current
           a == Size(k) - reader.remaining
           l == frames[k].length
           r == reader.remaining
           had == Len(reader.control)
<1>0. StreamType /\ ReaderType /\ InFrame /\ InControl
  BY DEF StreamInv, ReaderInv
<1>1. /\ fed \in Nat /\ read \in Nat /\ r \in Nat
      /\ reader.control \in Seq(Nat) /\ had \in Nat /\ CONTROL_FRAME_MAX \in Nat
      /\ read <= Len(stream) /\ Len(stream) \in Nat
  BY <1>0, ReaderTypes
<1>2. Feeds("Buffering", take) /\ reader.state = "Buffering" /\ fed < read
  BY DEF FeedBuffering, Feeds
<1>3. /\ r >= 1 /\ is_control(frames[k].kind) /\ r <= l /\ l <= MAX_FRAME_LEN
  BY <1>0, <1>1, <1>2 DEF InFrame
<1>4. /\ had = l - r /\ had < CONTROL_FRAME_MAX
      /\ \A j \in 1 .. Len(reader.control) : reader.control[j] = fed - (l - r) + j
  BY <1>0, <1>2 DEF InControl
<1>5. take \in 1 .. r /\ fed + take <= read /\ had + take <= CONTROL_FRAME_MAX
  <2> DEFINE y == read - fed
             z == CONTROL_FRAME_MAX - had
  <2>1. /\ y \in Nat \ {0} /\ fed + y = read
        /\ z \in Nat \ {0} /\ had + z = CONTROL_FRAME_MAX
    BY <1>1, <1>2, <1>4, SMTT(30)
  <2>2. take = Min({r, y, z})
    OBVIOUS
  <2> HIDE DEF y, z, take, r, had
  <2>3. take \in Nat \ {0} /\ take <= r /\ take <= y /\ take <= z
    BY <1>1, <1>3, <2>1, <2>2, MinThree
  <2> QED
    BY <1>1, <2>1, <2>3
<1>6. /\ reader' = [reader EXCEPT !.control = c, !.remaining = reader.remaining - take,
                     !.state = IF reader.remaining = take THEN "Header"
                               ELSE IF Len(c) = CONTROL_FRAME_MAX THEN "Draining"
                               ELSE "Buffering"]
  BY DEF FeedBuffering
<1>7. /\ IF reader.remaining = take THEN Emit(k, c) ELSE Continue
      /\ UNCHANGED assembled
  BY DEF FeedBuffering
<1>8. c \in Seq(Nat) /\ Len(c) = had + take
      /\ \A j \in 1 .. had + take : c[j] = fed - had + j
  <2>1. fed - had \in Int /\ fed - had + had = fed /\ take \in Nat
    BY <1>1, <1>5
  <2>2. \A j \in 1 .. Len(reader.control) : reader.control[j] = fed - had + j
    BY <1>4
  <2> HIDE DEF take
  <2> QED
    BY <1>1, <2>1, <2>2, ChunkFollows
<1> HIDE DEF take, c
<1>9. /\ Uses(take, k, a) /\ a >= HEADER_LEN /\ a \in Nat
      /\ a + take = Size(k) <=> reader.remaining = take
      /\ fed' \in 0 .. read' /\ read' \in 0 .. Len(stream)'
      /\ Size(k) \in Nat /\ frames[k].length \in Nat /\ Size(k) = HEADER_LEN + frames[k].length
      /\ UNCHANGED <<program, frames, stream, torn>> /\ fed' = fed + take
  BY <1>2, <1>5, FrameUses
<1>10. /\ reader'.header = reader.header /\ reader'.current = reader.current
       /\ reader'.remaining = reader.remaining - take /\ reader'.control = c
       /\ reader'.state = IF reader.remaining = take THEN "Header"
                          ELSE IF Len(c) = CONTROL_FRAME_MAX THEN "Draining" ELSE "Buffering"
  BY <1>0, <1>6 DEF ReaderType
<1>11. a + take <= Size(k)
  BY <1>9, Zenon DEF Uses
<1>12. InHeader' /\ InFrame'
  BY <1>2, <1>5, <1>9, <1>10, FrameAdvance
<1>13. l \in Nat /\ r \in Nat /\ take \in Nat /\ take <= r /\ r <= l
  BY <1>1, <1>3, <1>5, <1>9
<1>14. InControl'
  <2>1. /\ fed' - (l - (r - take)) = fed - had /\ l - (r - take) = had + take
        /\ had + take <= CONTROL_FRAME_MAX
    <3> HIDE DEF l, r, had, k
    <3> QED
      BY <1>1, <1>4, <1>5, <1>9, <1>13
  <2>2. frames'[reader'.current].length - reader'.remaining = l - (r - take)
    BY <1>9, <1>10
  <2>3. \A j \in 1 .. Len(c) : c[j] = fed' - (l - (r - take)) + j
    BY <1>8, <2>1
  <2>4. /\ reader'.state = "Buffering" => had + take < CONTROL_FRAME_MAX
        /\ reader'.state = "Draining" => had + take = CONTROL_FRAME_MAX
    <3> HIDE DEF l, r, had, k
    <3> QED
      BY <1>1, <1>5, <1>8, <1>10
  <2> HIDE DEF l, r, had, k
  <2> QED
    BY <1>8, <1>10, <2>1, <2>2, <2>3, <2>4 DEF InControl
<1>15. ReaderType'
  <2>1. reader.remaining - take \in Nat
    BY <1>1, <1>5
  <2> QED
    BY <1>0, <1>6, <1>7, <1>8, <1>9, <2>1 DEF ReaderType
<1>16. InAssembly'
  <2>1. ~torn => assembled = <<>>
    BY <1>2 DEF InAssembly
  <2>2. reader'.state # "Streaming"
    BY <1>10
  <2> QED
    BY <1>7, <1>9, <2>1, <2>2 DEF InAssembly
<1>17. FeedStep(take, k, a)
  <2>3. CASE reader.remaining = take
    <3>1. /\ Len(c) = l /\ fed - had = (fed + take) - l /\ l \in Nat
          /\ c \in Seq(Nat) /\ Len(c) <= l /\ Len(c) <= CONTROL_FRAME_MAX
      <4>1. /\ had = l - r /\ r = take /\ Len(c) = had + take /\ c \in Seq(Nat)
            /\ had + take <= CONTROL_FRAME_MAX
        BY <1>4, <1>5, <1>8, <2>3
      <4> HIDE DEF l, had, k, r
      <4> QED
        BY <1>1, <1>13, <4>1
    <3>2. \A j \in 1 .. Len(c) : c[j] = (fed + take) - l + j
      BY <1>8, <3>1
    <3>3. fed + take <= Len(stream) /\ take \in Nat /\ reader.state # "Header"
      BY <1>1, <1>2, <1>5
    <3>a. CONTROL_FRAME_MAX = IF is_control(frames[k].kind) THEN CONTROL_FRAME_MAX ELSE Buffer
      BY <1>3
    <3>4. FrameAt(fed + take, Buffer).payload = c
      BY <1>1, <2>3, <3>1, <3>2, <3>3, <3>a, LastTurn, Zenon
    <3>5. seen' = Append(seen, [frame |-> k, payload |-> c])
      BY <1>7, <2>3, Zenon DEF Emit
    <3>6. Completes(take, k, a)
      BY <1>3, <1>9, <2>3, <3>1, <3>4, <3>5, Zenon DEF Completes
    <3> QED
      BY <1>9, <3>6, Zenon DEF FeedStep
  <2>4. CASE reader.remaining # take
    <3>1. a + take < Size(k)
      BY <1>5, <1>9, <1>11, <2>4
    <3>2. Quiet(take, k, a)
      BY <1>7, <2>4, <3>1, Zenon DEF Quiet, Continue
    <3> QED
      BY <1>9, <3>2, Zenon DEF FeedStep
  <2> QED
    BY <2>3, <2>4
<1> QED
  BY <1>12, <1>14, <1>15, <1>16, <1>17 DEF ReaderInv

(***************************************************************************)
(* What is gathered of a payload when one more chunk of it arrives.        *)
(***************************************************************************)
LEMMA ChunkPart ==
  ASSUME fed \in Nat, NEW n \in Nat, NEW m \in 0 .. n
  PROVE  SubSeq(Chunk(n), 1, m) = Chunk(m)
<1> DEFINE s == Chunk(n)
           t == Chunk(m)
           u == SubSeq(s, 1, m)
<1>1. /\ s \in Seq(Nat) /\ Len(s) = n /\ \A i \in 1 .. n : s[i] = fed + i
  BY ChunkIs
<1>2. /\ t \in Seq(Nat) /\ Len(t) = m /\ \A i \in 1 .. m : t[i] = fed + i
  BY ChunkIs
<1> HIDE DEF s, t
<1>3. u \in Seq(Nat) /\ Len(u) = m /\ \A i \in 1 .. m : u[i] = s[i]
  BY <1>1
<1> HIDE DEF u
<1>4. u = t
  BY <1>1, <1>2, <1>3, SeqEqual, SMTT(30)
<1> QED
  BY <1>4 DEF u, s, t

LEMMA GatheredIs ==
  ASSUME fed \in Nat, Buffer \in Nat, NEW had \in Nat, NEW n \in Nat,
         program \in {"fw", "host"}, program = "host" => had + n <= MAX_FRAME_LEN,
         had <= fed, Keeps(assembled, had, fed - had)
  PROVE  Keeps(Gathered(Chunk(n)), had + n, fed - had)
<1> DEFINE m == Len(assembled)
           d == fed - had
<1>1. /\ assembled \in Seq(Nat) /\ m \in Nat /\ m <= had /\ m <= Buffer
      /\ m = had \/ m = Buffer
      /\ \A j \in 1 .. m : assembled[j] = d + j
  BY DEF Keeps
<1>2. d \in Nat /\ d + had = fed
  OBVIOUS
<1> HIDE DEF d
<1>3. CASE m = had
  <2>1. \A i \in Nat : /\ assembled \o Chunk(i) \in Seq(Nat)
                       /\ Len(assembled \o Chunk(i)) = m + i
                       /\ \A j \in 1 .. m + i : (assembled \o Chunk(i))[j] = d + j
    <3>1. d \in Int /\ d + m = fed
      BY <1>2, <1>3
    <3> QED
      BY <1>1, <3>1, ChunkFollows, Zenon
  <2>2. CASE program = "host"
    <3>1. Gathered(Chunk(n)) = assembled \o Chunk(n) /\ Buffer = MAX_FRAME_LEN
      BY <2>2 DEF Gathered, Buffer
    <3> DEFINE g == assembled \o Chunk(n)
    <3>2. g \in Seq(Nat) /\ Len(g) = m + n /\ \A j \in 1 .. Len(g) : g[j] = d + j
      BY <2>1
    <3> HIDE DEF g, m
    <3>3. Len(g) <= had + n /\ Len(g) <= Buffer /\ Len(g) = had + n
      BY <1>3, <2>2, <3>1, <3>2
    <3>4. Keeps(g, had + n, fed - had)
      BY <3>2, <3>3, Zenon DEF Keeps, d
    <3> QED
      BY <3>1, <3>4 DEF g
  <2>3. CASE program = "fw"
    <3> DEFINE room == Min({n, ASSEMBLED - m})
               g == assembled \o Chunk(room)
    <3>0. Buffer = ASSEMBLED
      BY <2>3 DEF Buffer
    <3>1. /\ room \in Nat /\ room <= n /\ m + room <= Buffer
          /\ room = n \/ m + room = Buffer
      <4> DEFINE z == ASSEMBLED - m
      <4>1. z \in Nat /\ m + z = Buffer
        BY <1>1, <3>0
      <4> HIDE DEF z
      <4>2. /\ Min({n, z}) \in Nat /\ Min({n, z}) <= n /\ Min({n, z}) <= z
            /\ Min({n, z}) = n \/ Min({n, z}) = z
        BY <4>1, MinTwo
      <4>3. room = Min({n, z})
        BY DEF z
      <4> HIDE DEF room, m
      <4> QED
        BY <1>1, <4>1, <4>2, <4>3
    <3>2. Gathered(Chunk(n)) = g
      <4>1. Len(Chunk(n)) = n
        BY ChunkIs
      <4>2. Gathered(Chunk(n)) = assembled \o SubSeq(Chunk(n), 1, room)
        BY <2>3, <4>1 DEF Gathered
      <4> HIDE DEF room
      <4>3. room \in 0 .. n
        BY <3>1
      <4>4. SubSeq(Chunk(n), 1, room) = Chunk(room)
        BY <4>3, ChunkPart
      <4> QED
        BY <4>2, <4>4
    <3> HIDE DEF room
    <3>3. g \in Seq(Nat) /\ Len(g) = m + room /\ \A j \in 1 .. Len(g) : g[j] = d + j
      BY <2>1, <3>1
    <3> HIDE DEF g, m
    <3>4. Len(g) <= had + n /\ Len(g) <= Buffer /\ (Len(g) = had + n \/ Len(g) = Buffer)
      BY <1>3, <3>1, <3>3
    <3>5. Keeps(g, had + n, fed - had)
      BY <3>3, <3>4, Zenon DEF Keeps, d
    <3> QED
      BY <3>2, <3>5
  <2> QED
    BY <2>2, <2>3
<1>4. CASE m # had
  <2>1. m = Buffer /\ m < had
    BY <1>1, <1>4
  <2>2. program = "fw" /\ ASSEMBLED = m
    <3>1. program # "host"
      <4> HIDE DEF m
      <4>1. SUFFICES ASSUME program = "host" PROVE FALSE
        OBVIOUS
      <4>2. Buffer = MAX_FRAME_LEN
        BY <4>1 DEF Buffer
      <4> QED
        BY <1>1, <2>1, <4>1, <4>2
    <3> QED
      BY <2>1, <3>1 DEF Buffer
  <2>3. Gathered(Chunk(n)) = assembled
    <3>1. Chunk(n) \in Seq(Nat) /\ Len(Chunk(n)) = n
      BY ChunkIs
    <3> DEFINE z == ASSEMBLED - m
               room == Min({n, z})
               s == SubSeq(Chunk(n), 1, room)
    <3>2. z = 0
      BY <1>1, <2>2
    <3> HIDE DEF z
    <3>3. room = 0
      BY <3>2, MinTwo
    <3>4. Gathered(Chunk(n)) = assembled \o s
      BY <2>2, <3>1 DEF Gathered, z
    <3> HIDE DEF room
    <3>5. s = <<>>
      BY <3>1, <3>3
    <3> HIDE DEF s
    <3> QED
      BY <1>1, <3>4, <3>5
  <2>4. /\ m <= had + n /\ m <= Buffer
    BY <1>1
  <2> QED
    BY <1>1, <2>1, <2>3, <2>4, Zenon DEF Keeps, d
<1> QED
  BY <1>3, <1>4

LEMMA StreamingStep ==
  ASSUME StreamInv, ReaderInv, InAssembly, LoopInv, FeedStreaming
  PROVE  (ReaderInv /\ InAssembly)' /\ \E n, k, a : FeedStep(n, k, a)
<1> DEFINE take == Min({reader.remaining, read - fed})
           g == Gathered(Chunk(take))
           k == reader.current
           a == Size(k) - reader.remaining
           l == frames[k].length
           r == reader.remaining
           had == l - r
<1>0. StreamType /\ ReaderType /\ InFrame
  BY DEF StreamInv, ReaderInv
<1>1. /\ fed \in Nat /\ read \in Nat /\ r \in Nat /\ assembled \in Seq(Nat)
      /\ Buffer \in Nat /\ MAX_FRAME_LEN \in Nat
      /\ read <= Len(stream) /\ Len(stream) \in Nat
  BY <1>0, ReaderTypes
<1>2. Feeds("Streaming", take) /\ reader.state = "Streaming" /\ fed < read
  BY DEF FeedStreaming, Feeds
<1>3. /\ r >= 1 /\ ~is_control(frames[k].kind) /\ r <= l /\ l <= MAX_FRAME_LEN
      /\ stream[fed].at = Size(k) - r /\ fed >= 1
  BY <1>0, <1>1, <1>2 DEF InFrame
<1>4. take \in 1 .. r /\ fed + take <= read
  <2> DEFINE y == read - fed
  <2>1. y \in Nat \ {0} /\ fed + y = read
    BY <1>1, <1>2
  <2> HIDE DEF y
  <2>2. /\ Min({reader.remaining, y}) \in Nat \ {0}
        /\ Min({reader.remaining, y}) <= reader.remaining /\ Min({reader.remaining, y}) <= y
    BY <1>1, <1>3, <2>1, MinTwo
  <2>3. take = Min({reader.remaining, y})
    BY DEF y
  <2> HIDE DEF take
  <2> QED
    BY <1>1, <2>1, <2>2, <2>3
<1>5. reader' = [reader EXCEPT !.remaining = reader.remaining - take,
                     !.state = IF reader.remaining = take THEN "Header" ELSE "Streaming"]
  BY DEF FeedStreaming
<1>6. IF reader.remaining = take
      THEN Emit(k, g) /\ assembled' = <<>> ELSE Continue /\ assembled' = g
  BY DEF FeedStreaming
<1> HIDE DEF take
<1>7. /\ Uses(take, k, a) /\ a >= HEADER_LEN /\ a \in Nat
      /\ a + take = Size(k) <=> reader.remaining = take
      /\ fed' \in 0 .. read' /\ read' \in 0 .. Len(stream)'
      /\ Size(k) \in Nat /\ frames[k].length \in Nat /\ Size(k) = HEADER_LEN + frames[k].length
      /\ UNCHANGED <<program, frames, stream, torn>> /\ fed' = fed + take
  BY <1>2, <1>4, FrameUses
<1>8. /\ reader'.header = reader.header /\ reader'.current = reader.current
      /\ reader'.remaining = reader.remaining - take /\ reader'.control = reader.control
      /\ reader'.state = IF reader.remaining = take THEN "Header" ELSE "Streaming"
  BY <1>0, <1>5 DEF ReaderType
<1>9. a + take <= Size(k)
  BY <1>7, Zenon DEF Uses
<1>10. InHeader' /\ InFrame'
  BY <1>2, <1>4, <1>7, <1>8, FrameAdvance
<1>11. InControl'
  BY <1>8 DEF InControl
<1>12. /\ l \in Nat /\ take \in Nat /\ take >= 1 /\ take <= r /\ had \in Nat /\ had <= fed
       /\ had + take <= MAX_FRAME_LEN
  <2>1. stream[fed].at <= fed
    <3>1. fed \in 1 .. Len(stream)
      BY <1>1, <1>2, <1>3
    <3> QED
      BY <3>1, ByteTypes
  <2> HIDE DEF k, l, r
  <2>2. Size(k) = HEADER_LEN + l /\ HEADER_LEN \in Nat /\ l \in Nat
    BY <1>7, DerpAssumption DEF l
  <2> QED
    BY <1>1, <1>3, <1>4, <2>1, <2>2
<1>13. ~torn => Keeps(g, had + take, fed - had)
  <2> SUFFICES ASSUME ~torn PROVE Keeps(g, had + take, fed - had)
    OBVIOUS
  <2>1. Keeps(assembled, had, fed - had)
    BY <1>2, Zenon DEF InAssembly
  <2>2. program \in {"fw", "host"}
    BY DEF LoopInv
  <2> HIDE DEF had
  <2> QED
    BY <1>1, <1>12, <2>1, <2>2, GatheredIs
<1>14. g \in Seq(Nat)
  <2>1. CASE ~torn
    BY <1>13, <2>1 DEF Keeps
  <2>2. CASE torn
    <3>1. g = assembled \o Chunk(take)
      BY <2>2 DEF LoopInv, Gathered
    <3>2. Chunk(take) \in Seq(Nat)
      BY <1>1, <1>12, ChunkIs
    <3> QED
      BY <1>1, <3>1, <3>2, ConcatProperties, Zenon
  <2> QED
    BY <2>1, <2>2
<1> HIDE DEF g
<1>15. ReaderType'
  <2>1. reader.remaining - take \in Nat /\ <<>> \in Seq(Nat)
    BY <1>1, <1>4
  <2>2. assembled' \in Seq(Nat)
    BY <1>6, <1>14, <2>1, Zenon
  <2> QED
    BY <1>0, <1>5, <1>7, <2>1, <2>2 DEF ReaderType
<1>16. InAssembly'
  <2> SUFFICES ASSUME ~torn PROVE InAssembly'
    BY <1>7 DEF InAssembly
  <2>1. CASE reader.remaining = take
    <3>1. reader'.state = "Header" /\ assembled' = <<>>
      BY <1>6, <1>8, <2>1
    <3> QED
      BY <3>1 DEF InAssembly
  <2>2. CASE reader.remaining # take
    <3>1. reader'.state = "Streaming" /\ assembled' = g
      BY <1>6, <1>8, <2>2
    <3> DEFINE had2 == l - (r - take)
    <3>2. had2 = had + take /\ fed' - had2 = fed - had
      <4>1. l \in Nat /\ r \in Nat /\ take \in Nat /\ fed \in Nat /\ fed' = fed + take
        BY <1>1, <1>7, <1>12
      <4> HIDE DEF l, r, k
      <4> QED
        BY <4>1
    <3>3. (frames[reader.current].length - reader.remaining)' = had2
      BY <1>7, <1>8
    <3>4. Keeps(g, had + take, fed - had)
      BY <1>13
    <3>5. Buffer' = Buffer
      BY <1>7 DEF Buffer
    <3> HIDE DEF had, had2
    <3>6. Keeps(assembled, frames[reader.current].length - reader.remaining,
                fed - (frames[reader.current].length - reader.remaining))'
      BY <3>1, <3>2, <3>3, <3>4, <3>5 DEF Keeps
    <3> QED
      BY <3>1, <3>6 DEF InAssembly
  <2> QED
    BY <2>1, <2>2
<1>17. FeedStep(take, k, a)
  <2>3. CASE reader.remaining = take
    <3>1. seen' = Append(seen, [frame |-> k, payload |-> g])
      BY <1>6, <2>3, Zenon DEF Emit
    <3>2. ~torn => FrameAt(fed + take, Buffer).payload = g
      <4> SUFFICES ASSUME ~torn PROVE FrameAt(fed + take, Buffer).payload = g
        OBVIOUS
      <4>1. had + take = l /\ fed - had = (fed + take) - l
        <5>1. l \in Nat /\ r = take /\ take \in Nat /\ fed \in Nat
          BY <1>1, <1>12, <2>3
        <5> HIDE DEF l, r, k
        <5> QED
          BY <5>1
      <4>2. Keeps(g, l, (fed + take) - l)
        BY <1>13, <4>1
      <4>3. /\ Len(g) <= l /\ Len(g) <= Buffer /\ (Len(g) = l \/ Len(g) = Buffer)
            /\ \A j \in 1 .. Len(g) : g[j] = (fed + take) - l + j
        BY <4>2, Zenon DEF Keeps
      <4>4. fed + take <= Len(stream) /\ take \in Nat /\ reader.state # "Header"
        BY <1>1, <1>2, <1>4
      <4>5. Buffer = IF is_control(frames[k].kind) THEN CONTROL_FRAME_MAX ELSE Buffer
        BY <1>3
      <4> QED
        BY <1>1, <1>14, <2>3, <4>3, <4>4, <4>5, LastTurn, Zenon
    <3>3. Completes(take, k, a)
      BY <1>3, <1>7, <1>14, <2>3, <3>1, <3>2, Zenon DEF Completes
    <3> QED
      BY <1>7, <3>3, Zenon DEF FeedStep
  <2>4. CASE reader.remaining # take
    <3>1. a + take < Size(k)
      BY <1>4, <1>7, <1>9, <2>4
    <3>2. Quiet(take, k, a)
      BY <1>6, <2>4, <3>1, Zenon DEF Quiet, Continue
    <3> QED
      BY <1>7, <3>2, Zenon DEF FeedStep
  <2> QED
    BY <2>3, <2>4
<1> QED
  BY <1>10, <1>11, <1>15, <1>16, <1>17 DEF ReaderInv

(***************************************************************************)
(* Every turn of the reader is such a step and keeps its invariant.        *)
(***************************************************************************)
LEMMA FeedIsStep ==
  ASSUME StreamInv, ReaderInv, InAssembly, LoopInv, Feed
  PROVE  /\ ReaderType'
         /\ phase' # "failed" => (InHeader /\ InFrame /\ InControl /\ InAssembly)'
         /\ \E n, k, a : FeedStep(n, k, a)
<1>1. CASE FeedHeader
  BY <1>1, HeaderStep, Zenon
<1>2. CASE FeedBuffering
  BY <1>2, BufferingStep, Zenon DEF ReaderInv
<1>3. CASE FeedDraining
  BY <1>3, DrainingStep, Zenon DEF ReaderInv
<1>4. CASE FeedStreaming
  BY <1>4, StreamingStep, Zenon DEF ReaderInv
<1> QED
  BY <1>1, <1>2, <1>3, <1>4, Zenon DEF Feed

-----------------------------------------------------------------------------
(* What such a step does to the bytes counted as fed and to the frames     *)
(* given to the loop.                                                      *)

LEMMA UsesTypes ==
  ASSUME StreamInv, ReaderType, NEW n, NEW k, NEW a, Uses(n, k, a)
  PROVE  /\ n \in Nat /\ n >= 1 /\ a \in Nat /\ k \in 1 .. Len(frames) /\ k \in Nat
         /\ fed \in Nat /\ Len(stream) \in Nat /\ fed + n <= Len(stream)
         /\ HEADER_LEN \in Nat /\ Size(k) \in Nat /\ a + n <= Size(k)
         /\ frames[k].length \in Nat /\ Size(k) = HEADER_LEN + frames[k].length
         /\ UNCHANGED <<program, frames, stream, torn>> /\ fed' = fed + n
<1>0. StreamType
  BY DEF StreamInv
<1>1. /\ n \in Nat \ {0} /\ a \in Nat /\ k \in 1 .. Len(frames) /\ fed + n <= read
      /\ a + n <= Size(k)
      /\ fed' = fed + n
  BY Zenon DEF Uses
<1>2. UNCHANGED <<program, frames, stream, torn>>
  BY DEF Uses
<1>3. fed \in Nat /\ read \in Nat /\ read <= Len(stream) /\ Len(stream) \in Nat
      /\ HEADER_LEN \in Nat
  BY <1>0, ReaderTypes
<1>4. frames[k].length \in Nat /\ Size(k) \in Nat /\ Size(k) = HEADER_LEN + frames[k].length
  BY <1>0, <1>1, FrameTypes DEF Size
<1>5. n \in Nat /\ n >= 1 /\ k \in Nat /\ fed + n <= Len(stream)
  BY <1>1, <1>3
<1> QED
  BY <1>1, <1>2, <1>3, <1>4, <1>5

(***************************************************************************)
(* The bytes of a step, apart from those before them.                      *)
(***************************************************************************)
LEMMA UsesBytes ==
  ASSUME StreamInv, ReaderType, NEW n, NEW k, NEW a, Uses(n, k, a)
  PROVE  /\ 1 .. (fed + n) = (1 .. fed) \cup ((fed + 1) .. (fed + n))
         /\ \A b \in (fed + 1) .. (fed + n) :
               /\ stream[b].frame = k
               /\ stream[b].at = Size(k) <=> (b = fed + n /\ a + n = Size(k))
<1>1. /\ n \in Nat /\ a \in Nat /\ fed \in Nat /\ Size(k) \in Nat /\ a + n <= Size(k)
  BY UsesTypes
<1>2. 1 .. (fed + n) = (1 .. fed) \cup ((fed + 1) .. (fed + n))
  BY <1>1
<1>3. ASSUME NEW b \in (fed + 1) .. (fed + n)
      PROVE  /\ stream[b].frame = k
             /\ stream[b].at = Size(k) <=> (b = fed + n /\ a + n = Size(k))
  <2> DEFINE i == b - fed
             z == Size(k)
  <2>1. i \in 1 .. n /\ b = fed + i /\ i \in Nat /\ 1 <= i /\ i <= n
    BY <1>1
  <2> HIDE DEF i
  <2>2. stream[fed + i].frame = k /\ stream[fed + i].at = a + i
    BY <2>1 DEF Uses, Run
  <2> HIDE DEF z
  <2>3. a + i = z <=> (fed + i = fed + n /\ a + n = z)
    BY <1>1, <2>1 DEF z
  <2> QED
    BY <2>1, <2>2, <2>3 DEF i, z
<1> QED
  BY <1>2, <1>3

(***************************************************************************)
(* The frames that have ended, with the one that ends now.                 *)
(***************************************************************************)
Accepted(n, k, a) == a + n = Size(k) /\ frames[k].length <= MAX_FRAME_LEN

LEMMA EndsStep ==
  ASSUME StreamInv, ReaderType, NEW n, NEW k, NEW a, Uses(n, k, a)
  PROVE  Ends' = IF Accepted(n, k, a) THEN Ends \cup {fed + n} ELSE Ends
<1> DEFINE P(b) == /\ stream[b].at = HEADER_LEN + frames[stream[b].frame].length
                   /\ frames[stream[b].frame].length <= MAX_FRAME_LEN
           new == (fed + 1) .. (fed + n)
           last == fed + n
<1>1. Ends' = {b \in 1 .. (fed + n) : P(b)} /\ Ends = {b \in 1 .. fed : P(b)}
  <2>1. fed' = fed + n /\ UNCHANGED <<frames, stream>>
    BY UsesTypes
  <2> QED
    BY <2>1 DEF Ends, Frame
<1>2. 1 .. (fed + n) = (1 .. fed) \cup new
  BY UsesBytes
<1>3. \A b \in new : P(b) <=> (b = last /\ Accepted(n, k, a))
  BY UsesBytes DEF Size, Accepted
<1>4. last \in new
  BY UsesTypes
<1> HIDE DEF P, new, last
<1>5. {b \in 1 .. (fed + n) : P(b)} = {b \in 1 .. fed : P(b)} \cup {b \in new : P(b)}
  BY <1>2
<1>6. {b \in new : P(b)} = IF Accepted(n, k, a) THEN {last} ELSE {}
  BY <1>3, <1>4
<1> QED
  BY <1>1, <1>5, <1>6 DEF last

(***************************************************************************)
(* The end of a frame, and the frames of the bytes after it.               *)
(***************************************************************************)
LEMMA AfterEnd ==
  ASSUME StreamInv, NEW b \in 1 .. Len(stream), stream[b].at = Size(stream[b].frame),
         NEW c \in 1 .. Len(stream), b < c
  PROVE  stream[b].frame < stream[c].frame
<1>1. /\ EndOf(b) = b - stream[b].at + Size(stream[b].frame) /\ b \in Nat /\ c \in Nat
      /\ stream[b].at \in Nat /\ stream[b].frame \in Nat /\ stream[c].frame \in Nat
  BY ByteTypes
<1>2. EndOf(b) = b
  BY <1>1
<1>3. stream[c].frame > stream[b].frame
  BY <1>1, <1>2 DEF StreamInv, StreamOrder
<1> QED
  BY <1>1, <1>3

LEMMA LastByte ==
  ASSUME StreamInv, ReaderType, NEW n, NEW k, NEW a, Uses(n, k, a), a + n = Size(k)
  PROVE  /\ fed + n \in 1 .. Len(stream)
         /\ stream[fed + n].frame = k /\ stream[fed + n].at = Size(k)
<1> DEFINE b == fed + n
<1>1. /\ n \in Nat /\ n >= 1 /\ fed \in Nat /\ Len(stream) \in Nat /\ b <= Len(stream)
      /\ a \in Nat
  BY UsesTypes
<1>2. b \in (fed + 1) .. (fed + n) /\ b \in 1 .. Len(stream)
  BY <1>1
<1>3. stream[b].frame = k /\ stream[b].at = Size(k)
  BY <1>2, UsesBytes
<1> QED
  BY <1>2, <1>3

LEMMA FrameAtType ==
  ASSUME StreamInv, Buffer \in Nat, NEW b \in 1 .. Len(stream),
         stream[b].at = Size(stream[b].frame)
  PROVE  /\ FrameAt(b, Buffer) \in [frame : Nat, payload : Seq(Nat)]
         /\ FrameAt(b, Buffer).frame = stream[b].frame
         /\ FrameAt(b, Buffer) =
              [frame |-> stream[b].frame, payload |-> FrameAt(b, Buffer).payload]
<1> DEFINE l == frames[stream[b].frame].length
           limit == IF is_control(Frame(b).kind) THEN CONTROL_FRAME_MAX ELSE Buffer
           m == Min({l, limit})
           p == [j \in 1 .. m |-> b - l + j]
<1>1. FrameAt(b, Buffer) = [frame |-> stream[b].frame, payload |-> p]
  BY DEF FrameAt, Frame
<1>2. stream[b].frame \in Nat /\ l \in Nat /\ stream[b].at = HEADER_LEN + l /\ b \in Nat
      /\ stream[b].at <= b /\ HEADER_LEN \in Nat
  <2>1. stream[b].frame \in 1 .. Len(frames) /\ stream[b].frame \in Nat /\ stream[b].at <= b
    BY ByteTypes, Zenon
  <2>2. b \in Nat
    OBVIOUS
  <2> QED
    BY <2>1, <2>2, FrameTypes DEF StreamInv, Size
<1> HIDE DEF l
<1>3. l <= b
  BY <1>2
<1>a. limit \in Nat
  BY DerpAssumption
<1> HIDE DEF limit
<1>4. m \in Nat
  BY <1>2, <1>a, MinTwo
<1> HIDE DEF m
<1>5. p \in Seq(Nat)
  <2>1. \A j \in 1 .. m : b - l + j \in Nat
    BY <1>2, <1>3, <1>4
  <2> QED
    BY <1>4, <2>1
<1> HIDE DEF p
<1> QED
  BY <1>1, <1>2, <1>5

(***************************************************************************)
(* The frames given to the loop are those that ended, so a frame that ends *)
(* now is later than all of them.                                          *)
(***************************************************************************)
LEMMA LaterThanSeen ==
  ASSUME StreamInv, ReaderType, SeenInv, ~torn, NEW n, NEW k, NEW a, Uses(n, k, a),
         Accepted(n, k, a)
  PROVE  \A c \in Range(seen) : c.frame \in Nat /\ c.frame < k
<1>1. /\ fed + n \in 1 .. Len(stream) /\ stream[fed + n].frame = k
  BY LastByte DEF Accepted
<1>2. fed \in Nat /\ n \in Nat /\ n >= 1 /\ Len(stream) \in Nat /\ fed + n <= Len(stream)
      /\ Buffer \in Nat
  BY UsesTypes, ReaderTypes DEF StreamInv
<1> SUFFICES ASSUME NEW c \in Range(seen) PROVE c.frame \in Nat /\ c.frame < k
  OBVIOUS
<1>3. PICK b \in Ends : c = FrameAt(b, Buffer)
  BY DEF SeenInv, FramesExact
<1>4. b \in 1 .. fed /\ stream[b].at = Size(stream[b].frame)
  BY DEF Ends, Frame, Size
<1>5. b \in 1 .. Len(stream) /\ b < fed + n
  BY <1>2, <1>4
<1>6. stream[b].frame < stream[fed + n].frame
  <2> DEFINE d == fed + n
  <2>1. d \in 1 .. Len(stream) /\ b < d
    BY <1>1, <1>5
  <2> HIDE DEF d
  <2>2. stream[b].frame < stream[d].frame
    BY <1>4, <1>5, <2>1, AfterEnd
  <2> QED
    BY <2>2 DEF d
<1>7. c.frame = stream[b].frame /\ stream[b].frame \in Nat
  BY <1>2, <1>3, <1>4, <1>5, FrameAtType, ByteTypes
<1> QED
  BY <1>1, <1>6, <1>7

LEMMA SeenStep ==
  ASSUME StreamInv, ReaderType, SeenInv, NEW n, NEW k, NEW a, FeedStep(n, k, a)
  PROVE  SeenInv'
<1> DEFINE Rec == [frame : Nat, payload : Seq(Nat)]
           b == fed + n
           x == FrameAt(b, Buffer)
<1>1. Uses(n, k, a)
  BY Zenon DEF FeedStep
<1>2. /\ n \in Nat /\ fed \in Nat /\ UNCHANGED <<program, frames, stream, torn>>
      /\ Size(k) \in Nat /\ k \in Nat /\ a \in Nat
  BY <1>1, UsesTypes
<1>3. Ends' = IF Accepted(n, k, a) THEN Ends \cup {b} ELSE Ends
  BY <1>1, EndsStep
<1>a. Buffer' = Buffer /\ Buffer \in Nat
  BY <1>2, ReaderTypes DEF Buffer, StreamInv
<1>4. \A c : FrameAt(c, Buffer)' = FrameAt(c, Buffer)
  BY <1>2, <1>a DEF FrameAt, Frame
<1>5. seen \in Seq(Rec)
  BY DEF SeenInv
<1>6. CASE Completes(n, k, a)
  <2>1. Accepted(n, k, a)
    BY <1>6, Zenon DEF Completes, Accepted
  <2>2. PICK p \in Seq(Nat) : /\ seen' = Append(seen, [frame |-> k, payload |-> p])
                              /\ ~torn => p = FrameAt(b, Buffer).payload
    BY <1>6, Zenon DEF Completes
  <2>3. [frame |-> k, payload |-> p] \in Rec
    BY <1>2
  <2>4. seen' \in Seq(Rec)
    BY <1>5, <2>2, <2>3
  <2>5. ASSUME ~torn PROVE FramesExact(Buffer)'
    <3>1. /\ b \in 1 .. Len(stream) /\ stream[b].frame = k /\ stream[b].at = Size(k)
      BY <1>1, <2>1, LastByte DEF Accepted
    <3> HIDE DEF b
    <3>2. x \in Rec /\ x.frame = k /\ x = [frame |-> k, payload |-> x.payload]
      BY <1>a, <3>1, FrameAtType
    <3>3. seen' = Append(seen, x)
      BY <2>2, <2>5, <3>2, Zenon
    <3>4. \A c \in Range(seen) : c.frame \in Nat /\ c.frame < k
      BY <1>1, <2>1, <2>5, LaterThanSeen
    <3>5. /\ Range(seen) = {FrameAt(c, Buffer) : c \in Ends}
          /\ \A i, j \in DOMAIN seen : i < j => seen[i].frame < seen[j].frame
      BY <2>5 DEF SeenInv, FramesExact
    <3> HIDE DEF x, Rec
    <3>6. Range(seen') = Range(seen) \cup {x}
      BY <1>5, <3>2, <3>3, RangeAppend
    <3>7. \A i, j \in DOMAIN seen' : i < j => seen'[i].frame < seen'[j].frame
      <4> DEFINE m == Len(seen)
      <4>1. /\ m \in Nat /\ DOMAIN seen = 1 .. m /\ DOMAIN seen' = 1 .. (m + 1)
            /\ seen'[m + 1] = x /\ \A i \in 1 .. m : seen'[i] = seen[i]
        BY <1>5, <3>2, <3>3
      <4>2. \A i \in 1 .. m : seen[i] \in Range(seen)
        BY <4>1 DEF Range
      <4> HIDE DEF m
      <4> SUFFICES ASSUME NEW i \in 1 .. (m + 1), NEW j \in 1 .. (m + 1), i < j
                   PROVE  seen'[i].frame < seen'[j].frame
        BY <4>1
      <4>3. i \in 1 .. m
        BY <4>1
      <4>4. CASE j = m + 1
        BY <3>2, <3>4, <4>1, <4>2, <4>3, <4>4
      <4>5. CASE j \in 1 .. m
        BY <3>5, <4>1, <4>3, <4>5
      <4> QED
        BY <4>1, <4>4, <4>5
    <3>8. Range(seen') = {FrameAt(c, Buffer)' : c \in Ends'}
      <4> DEFINE A(c) == FrameAt(c, Buffer)
      <4>1. {FrameAt(c, Buffer)' : c \in Ends'} = {A(c) : c \in Ends \cup {b}}
        BY <1>3, <1>4, <2>1
      <4>2. Range(seen) = {A(c) : c \in Ends} /\ x = A(b)
        BY <3>5 DEF x
      <4> HIDE DEF A
      <4> QED
        BY <3>6, <4>1, <4>2
    <3> QED
      BY <3>7, <3>8, Zenon DEF FramesExact, Range
  <2> QED
    BY <1>2, <2>4, <2>5 DEF SeenInv
<1>7. CASE Quiet(n, k, a)
  <2>0. ~Accepted(n, k, a)
    BY <1>2, <1>7 DEF Quiet, Accepted
  <2>1. seen' = seen /\ Ends' = Ends
    BY <1>3, <1>7, <2>0 DEF Quiet
  <2>2. {FrameAt(c, Buffer)' : c \in Ends'} = {FrameAt(c, Buffer) : c \in Ends}
    BY <1>4, <2>1
  <2>3. ~torn => FramesExact(Buffer)
    BY DEF SeenInv
  <2>4. FramesExact(Buffer) => FramesExact(Buffer)'
    BY <2>1, <2>2, Zenon DEF FramesExact, Range
  <2> QED
    BY <1>2, <1>5, <2>1, <2>3, <2>4 DEF SeenInv
<1> QED
  BY <1>6, <1>7, Zenon DEF FeedStep

-----------------------------------------------------------------------------
(* The relay sends another frame.                                          *)

LEMMA SendFacts ==
  ASSUME StreamInv, NEW f \in Frames, RelaySend(f)
  PROVE  /\ f.length \in Nat /\ HEADER_LEN \in Nat /\ HEADER_LEN >= 1
         /\ Len(stream) \in Nat /\ Len(frames) \in Nat
         /\ frames' \in Seq(Frames) /\ stream' \in Seq([frame : Nat, at : Nat])
         /\ Len(frames') = Len(frames) + 1
         /\ Len(stream') = Len(stream) + (HEADER_LEN + f.length)
         /\ \A b \in 1 .. Len(stream) : stream'[b] = stream[b]
         /\ \A j \in 1 .. (HEADER_LEN + f.length) :
               /\ stream'[Len(stream) + j].frame = Len(frames) + 1
               /\ stream'[Len(stream) + j].at = j
         /\ \A k \in 1 .. Len(frames) : frames'[k] = frames[k]
         /\ frames'[Len(frames) + 1] = f
<1> DEFINE m == HEADER_LEN + f.length
           K == Len(frames) + 1
           t == [j \in 1 .. m |-> [frame |-> K, at |-> j]]
           Place == [frame : Nat, at : Nat]
<1>1. HEADER_LEN \in Nat /\ HEADER_LEN >= 1
  BY DerpAssumption
<1>2. f.length \in Nat
  BY DerpAssumption
<1>3. frames \in Seq(Frames) /\ stream \in Seq(Place)
  BY DEF StreamInv, StreamType
<1>4. frames' = Append(frames, f) /\ stream' = stream \o t
  BY Zenon DEF RelaySend
<1>5. m \in Nat /\ K \in Nat
  BY <1>1, <1>2, <1>3
<1>6. /\ frames' \in Seq(Frames) /\ Len(frames') = Len(frames) + 1
      /\ \A k \in 1 .. Len(frames) : frames'[k] = frames[k]
      /\ frames'[Len(frames) + 1] = f /\ Len(frames) \in Nat
  BY <1>3, <1>4
<1> HIDE DEF m, K
<1>7. /\ \A j \in 1 .. m : [frame |-> K, at |-> j] \in Place
  BY <1>5
<1> HIDE DEF Place
<1>8. /\ t \in Seq(Place) /\ Len(t) = m
      /\ \A j \in 1 .. m : t[j] = [frame |-> K, at |-> j]
  BY <1>5, <1>7
<1> HIDE DEF t
<1>9. /\ stream' \in Seq(Place) /\ Len(stream') = Len(stream) + m /\ Len(stream) \in Nat
      /\ \A b \in 1 .. Len(stream) : stream'[b] = stream[b]
      /\ \A j \in 1 .. m : stream'[Len(stream) + j] = t[j]
  BY <1>3, <1>4, <1>8
<1>10. \A j \in 1 .. m : /\ stream'[Len(stream) + j].frame = K
                         /\ stream'[Len(stream) + j].at = j
  BY <1>8, <1>9
<1> QED
  BY <1>1, <1>2, <1>6, <1>9, <1>10 DEF Place, m, K

(***************************************************************************)
(* The same by position: what was there stays, and the new bytes are of    *)
(* the new frame.                                                          *)
(***************************************************************************)
LEMMA SendBytes ==
  ASSUME StreamInv, NEW f \in Frames, RelaySend(f)
  PROVE  /\ \A b \in 1 .. Len(stream) :
               /\ stream'[b] = stream[b]
               /\ frames'[stream[b].frame] = frames[stream[b].frame]
               /\ EndOf(b)' = EndOf(b)
         /\ \A b \in (Len(stream) + 1) .. Len(stream') :
               /\ stream'[b].frame = Len(frames) + 1 /\ stream'[b].at = b - Len(stream)
               /\ frames'[stream'[b].frame] = f
               /\ EndOf(b)' = Len(stream')
<1> DEFINE L == Len(stream)
           K == Len(frames) + 1
           m == HEADER_LEN + f.length
<1>1. /\ f.length \in Nat /\ HEADER_LEN \in Nat /\ L \in Nat /\ Len(frames) \in Nat
      /\ Len(stream') = L + m /\ m \in Nat
      /\ \A b \in 1 .. L : stream'[b] = stream[b]
      /\ \A j \in 1 .. m : stream'[L + j].frame = K /\ stream'[L + j].at = j
      /\ \A k \in 1 .. Len(frames) : frames'[k] = frames[k]
      /\ frames'[K] = f
  <2> HIDE DEF L
  <2>1. /\ f.length \in Nat /\ HEADER_LEN \in Nat /\ L \in Nat /\ Len(frames) \in Nat
        /\ Len(stream') = L + m
        /\ \A b \in 1 .. L : stream'[b] = stream[b]
        /\ \A j \in 1 .. m : stream'[L + j].frame = K /\ stream'[L + j].at = j
        /\ \A k \in 1 .. Len(frames) : frames'[k] = frames[k]
        /\ frames'[K] = f
    BY SendFacts, Zenon DEF L
  <2> QED
    BY <2>1
<1>3. ASSUME NEW b \in 1 .. L
      PROVE  /\ stream'[b] = stream[b]
             /\ frames'[stream[b].frame] = frames[stream[b].frame]
             /\ EndOf(b)' = EndOf(b)
  <2>1. stream[b].frame \in 1 .. Len(frames)
    BY ByteTypes
  <2>2. stream'[b] = stream[b] /\ frames'[stream[b].frame] = frames[stream[b].frame]
    BY <1>1, <2>1
  <2> QED
    BY <2>2 DEF EndOf, Size
<1>4. ASSUME NEW b \in (L + 1) .. Len(stream')
      PROVE  /\ stream'[b].frame = K /\ stream'[b].at = b - L
             /\ frames'[stream'[b].frame] = f
             /\ EndOf(b)' = Len(stream')
  <2> DEFINE j == b - L
  <2> HIDE DEF L, m
  <2>1. j \in 1 .. m /\ L + j = b /\ b \in Nat /\ j \in Nat
    BY <1>1
  <2> HIDE DEF j
  <2>2. stream'[b].frame = K /\ stream'[b].at = j
    BY <1>1, <2>1
  <2>3. EndOf(b)' = b - j + m
    BY <1>1, <2>2 DEF EndOf, Size, m
  <2> HIDE DEF K
  <2>4. b - j + m = L + m
    BY <1>1, <2>1
  <2> QED
    BY <1>1, <2>2, <2>3, <2>4 DEF j, L
<1> QED
  BY <1>3, <1>4

LEMMA SendStream ==
  ASSUME StreamInv, NEW f \in Frames, RelaySend(f)
  PROVE  StreamInv'
<1> DEFINE L == Len(stream)
           N == Len(stream')
           F == Len(frames)
<1>1. /\ f.length \in Nat /\ HEADER_LEN \in Nat /\ HEADER_LEN >= 1
      /\ L \in Nat /\ F \in Nat /\ N = L + (HEADER_LEN + f.length)
      /\ Len(frames') = F + 1
      /\ frames' \in Seq(Frames) /\ stream' \in Seq([frame : Nat, at : Nat])
      /\ \A k \in 1 .. F : frames'[k] = frames[k]
      /\ frames'[F + 1] = f
  BY SendFacts
<1>2. /\ \A b \in 1 .. L :
            /\ stream'[b] = stream[b] /\ EndOf(b)' = EndOf(b)
            /\ frames'[stream[b].frame] = frames[stream[b].frame]
      /\ \A b \in (L + 1) .. N :
            /\ stream'[b].frame = F + 1 /\ stream'[b].at = b - L
            /\ frames'[stream'[b].frame] = f
            /\ EndOf(b)' = N
  BY SendBytes
<1>3. \A b \in 1 .. L :
        /\ stream[b].frame \in 1 .. F /\ stream[b].frame \in Nat
        /\ stream[b].at \in Nat /\ stream[b].at >= 1
        /\ stream[b].at <= Size(stream[b].frame) /\ stream[b].at <= b
        /\ Size(stream[b].frame) \in Nat /\ EndOf(b) \in Nat /\ EndOf(b) <= L
  BY ByteTypes
<1>4. N \in Nat /\ L < N
  BY <1>1
<1> HIDE DEF L, N, F
<1>5. StreamType'
  BY <1>1 DEF StreamType
<1>6. StreamPlaces'
  <2>1. ASSUME NEW b \in 1 .. N
        PROVE  /\ stream'[b].frame \in 1 .. (F + 1)
               /\ stream'[b].at \in 1 .. (HEADER_LEN + frames'[stream'[b].frame].length)
               /\ stream'[b].at <= b
               /\ EndOf(b)' <= N
    <3>1. CASE b \in 1 .. L
      <4> DEFINE z == Size(stream[b].frame)
      <4>1. stream'[b] = stream[b] /\ EndOf(b)' = EndOf(b)
            /\ HEADER_LEN + frames'[stream'[b].frame].length = z
        BY <1>2, <3>1 DEF Size
      <4>2. stream[b].at \in Nat /\ stream[b].at >= 1 /\ stream[b].at <= z /\ z \in Nat
            /\ stream[b].at <= b /\ stream[b].frame \in 1 .. F /\ EndOf(b) \in Nat /\ EndOf(b) <= L
        BY <1>3, <3>1
      <4> HIDE DEF z
      <4>3. stream[b].at \in 1 .. z /\ stream[b].frame \in 1 .. (F + 1) /\ EndOf(b) <= N
        BY <1>1, <1>4, <4>2, SMTT(30)
      <4> QED
        BY <4>1, <4>2, <4>3
    <3>2. CASE b \in (L + 1) .. N
      <4>1. stream'[b].frame = F + 1 /\ stream'[b].at = b - L /\ EndOf(b)' = N
            /\ frames'[stream'[b].frame] = f
        BY <1>2, <3>2
      <4>2. b - L \in 1 .. (HEADER_LEN + f.length) /\ b - L <= b /\ N <= N
            /\ F + 1 \in 1 .. (F + 1)
        BY <1>1, <1>4, <3>2
      <4> QED
        BY <4>1, <4>2
    <3> QED
      BY <1>1, <1>4, <3>1, <3>2
  <2>2. /\ Len(frames') = F + 1 /\ N = Len(stream')
    BY <1>1 DEF N
  <2> QED
    BY <2>1, <2>2, Zenon DEF StreamPlaces, Size
<1>7. StreamOrder'
  <2>1. ASSUME NEW b \in 1 .. N, NEW c \in 1 .. N, b < c
        PROVE  IF c <= EndOf(b)'
               THEN stream'[c].frame = stream'[b].frame /\ stream'[c].at = stream'[b].at + (c - b)
               ELSE stream'[c].frame > stream'[b].frame
    <3>1. CASE c \in 1 .. L
      <4>1. b \in 1 .. L
        BY <1>1, <2>1, <3>1
      <4>2. stream'[b] = stream[b] /\ EndOf(b)' = EndOf(b) /\ stream'[c] = stream[c]
        BY <1>2, <3>1, <4>1
      <4>3. IF c <= EndOf(b)
            THEN stream[c].frame = stream[b].frame /\ stream[c].at = stream[b].at + (c - b)
            ELSE stream[c].frame > stream[b].frame
        BY <2>1, <3>1, <4>1 DEF StreamInv, StreamOrder, L
      <4> QED
        BY <4>2, <4>3
    <3>2. CASE c \in (L + 1) .. N
      <4>1. stream'[c].frame = F + 1 /\ stream'[c].at = c - L
        BY <1>2, <3>2
      <4>2. CASE b \in 1 .. L
        <5>1. stream'[b] = stream[b] /\ EndOf(b)' = EndOf(b)
          BY <1>2, <4>2
        <5>0. stream[b].frame \in 1 .. F /\ EndOf(b) \in Nat /\ EndOf(b) <= L
          BY <1>3, <4>2, Zenon
        <5>2. stream[b].frame < F + 1 /\ ~(c <= EndOf(b))
          BY <1>1, <3>2, <5>0
        <5> QED
          BY <1>1, <1>3, <4>1, <4>2, <5>1, <5>2
      <4>3. CASE b \in (L + 1) .. N
        <5>1. stream'[b].frame = F + 1 /\ stream'[b].at = b - L /\ EndOf(b)' = N
          BY <1>2, <4>3
        <5>2. c <= N /\ c - L = b - L + (c - b)
          BY <1>1, <1>4
        <5> QED
          BY <4>1, <5>1, <5>2
      <4> QED
        BY <1>1, <1>4, <4>2, <4>3
    <3> QED
      BY <1>1, <1>4, <3>1, <3>2
  <2> QED
    BY <2>1 DEF StreamOrder, N
<1>8. StreamStarts'
  <2>1. ASSUME NEW b \in 0 .. N - 1, Boundary(b)'
        PROVE  stream'[b + 1].at = 1
    <3>1. CASE b < L
      <4>0. b + 1 \in 1 .. L /\ b \in 0 .. L - 1
        BY <1>1, <1>4, <3>1
      <4>1. stream'[b + 1] = stream[b + 1] /\ b \in 0 .. L - 1
        BY <1>2, <4>0, Zenon
      <4>2. Boundary(b)
        <5>1. b = 0 \/ b = EndOf(b)'
          BY <2>1 DEF Boundary
        <5>2. CASE b # 0
          <6>0. b \in 1 .. L
            BY <1>1, <3>1, <5>2
          <6>1. EndOf(b)' = EndOf(b)
            BY <1>2, <6>0, Zenon
          <6> QED
            BY <5>1, <6>1 DEF Boundary
        <5> QED
          BY <5>2 DEF Boundary
      <4> QED
        BY <4>1, <4>2 DEF StreamInv, StreamStarts, L
    <3>2. CASE b = L
      <4>1. L + 1 \in (L + 1) .. N /\ L + 1 - L = 1
        BY <1>1, <1>4
      <4> QED
        BY <1>2, <3>2, <4>1
    <3>3. CASE b > L
      <4>1. b # 0 /\ b \in (L + 1) .. N /\ b < N
        BY <1>1, <1>4, <3>3
      <4>2. EndOf(b)' = N
        BY <1>2, <4>1
      <4>3. b = 0 \/ b = EndOf(b)'
        BY <2>1 DEF Boundary
      <4> QED
        BY <1>4, <4>1, <4>2, <4>3
    <3> QED
      BY <1>1, <1>4, <3>1, <3>2, <3>3
  <2> QED
    BY <2>1 DEF StreamStarts, N
<1> QED
  BY <1>5, <1>6, <1>7, <1>8 DEF StreamInv

(***************************************************************************)
(* The reader stands where it stood, in bytes that have not changed.       *)
(***************************************************************************)
LEMMA SendReader ==
  ASSUME StreamInv, ReaderType, NEW f \in Frames, RelaySend(f)
  PROVE  /\ ReaderType'
         /\ UNCHANGED <<program, fed, read, reader, assembled, seen, torn, phase, at, peer_known,
                        out, bypass>>
         /\ InHeader => InHeader'
         /\ InFrame => InFrame'
         /\ InFrame /\ InControl => InControl'
         /\ InFrame /\ InAssembly => InAssembly'
<1>0. StreamType
  BY DEF StreamInv
<1>1. /\ f.length \in Nat /\ HEADER_LEN \in Nat /\ Len(stream) \in Nat
      /\ Len(stream') = Len(stream) + (HEADER_LEN + f.length)
  BY SendFacts
<1>2. /\ fed' = fed /\ reader' = reader /\ read' = read /\ assembled' = assembled
      /\ program' = program /\ torn' = torn /\ seen' = seen
      /\ UNCHANGED <<phase, at, peer_known, out, bypass>>
  BY DEF RelaySend, readerVars, loopVars, outVars
<1>3. fed \in Nat /\ read \in Nat /\ fed <= read /\ read <= Len(stream)
      /\ Len(reader.header) \in Nat
  BY <1>0, ReaderTypes
<1>4. \A b \in 1 .. Len(stream) :
        /\ stream'[b] = stream[b] /\ frames'[stream[b].frame] = frames[stream[b].frame]
        /\ EndOf(b)' = EndOf(b)
  BY SendBytes
<1>5. ReaderType'
  <2>1. read \in 0 .. Len(stream')
    BY <1>1, <1>3
  <2> QED
    BY <1>2, <2>1 DEF ReaderType
<1>6. ASSUME InHeader PROVE InHeader'
  <2> SUFFICES ASSUME reader.state = "Header" PROVE InHeader'
    BY <1>2 DEF InHeader
  <2> DEFINE b == fed - Len(reader.header)
  <2>1. InHeader /\ Len(reader.header) <= fed /\ Boundary(b)
    BY <1>6 DEF InHeader
  <2>2. Boundary(b)'
    <3>1. b \in 0 .. Len(stream)
      BY <1>1, <1>3, <2>1
    <3>2. CASE b # 0
      BY <1>2, <1>4, <2>1, <3>1, <3>2 DEF Boundary, EndOf, Size
    <3>3. CASE b = 0
      BY <1>2, <3>3 DEF Boundary
    <3> QED
      BY <3>2, <3>3
  <2> QED
    BY <1>2, <2>1, <2>2 DEF InHeader
<1>7. ASSUME InFrame, reader.state # "Header"
      PROVE  stream'[fed'] = stream[fed] /\ frames'[reader'.current] = frames[reader.current]
  <2>1. fed >= 1 /\ reader.current = stream[fed].frame
    BY <1>7 DEF InFrame
  <2>2. fed \in 1 .. Len(stream)
    BY <1>1, <1>3, <2>1
  <2> QED
    BY <1>2, <1>4, <2>1, <2>2
<1>8. ASSUME InFrame PROVE InFrame' /\ (InControl => InControl') /\ (InAssembly => InAssembly')
  <2>1. CASE reader.state = "Header"
    BY <1>2, <2>1 DEF InFrame, InControl, InAssembly
  <2>2. CASE reader.state # "Header"
    <3>1. stream'[fed'] = stream[fed] /\ frames'[reader'.current] = frames[reader.current]
      BY <1>7, <1>8, <2>2
    <3>2. InFrame'
      BY <1>2, <1>8, <2>2, <3>1 DEF InFrame, Size
    <3>3. InControl => InControl'
      BY <1>2, <2>2, <3>1 DEF InControl
    <3>4. InAssembly => InAssembly'
      BY <1>2, <3>1, Zenon DEF InAssembly, Keeps, Buffer
    <3> QED
      BY <3>2, <3>3, <3>4
  <2> QED
    BY <2>1, <2>2
<1> QED
  BY <1>2, <1>5, <1>6, <1>8, Zenon

LEMMA SendSeen ==
  ASSUME StreamInv, ReaderType, SeenInv, NEW f \in Frames, RelaySend(f)
  PROVE  SeenInv'
<1>1. \A b \in 1 .. Len(stream) :
        stream'[b] = stream[b] /\ frames'[stream[b].frame] = frames[stream[b].frame]
  BY SendBytes
<1>2. fed' = fed /\ seen' = seen /\ torn' = torn /\ program' = program
  BY SendReader
<1>3. \A b \in 1 .. fed : b \in 1 .. Len(stream)
  BY ReaderTypes DEF StreamInv
<1>4. Ends' = Ends
  BY <1>1, <1>2, <1>3 DEF Ends, Frame
<1>5. \A b \in Ends : FrameAt(b, Buffer)' = FrameAt(b, Buffer)
  BY <1>1, <1>2, <1>3 DEF Ends, FrameAt, Frame, Buffer
<1>6. {FrameAt(b, Buffer)' : b \in Ends'} = {FrameAt(b, Buffer) : b \in Ends}
  BY <1>4, <1>5
<1>7. FramesExact(Buffer) => FramesExact(Buffer)'
  BY <1>2, <1>6, Zenon DEF FramesExact, Range
<1> QED
  BY <1>2, <1>7, Zenon DEF SeenInv

LEMMA SendKeeps ==
  ASSUME IInv, NEW f \in Frames, RelaySend(f)
  PROVE  IInv'
<1>1. StreamInv /\ ReaderType /\ SeenInv /\ LoopInv /\ InHeader /\ InFrame /\ InControl
      /\ InAssembly
  BY Zenon DEF IInv, RelaySend
<1>2. StreamInv' /\ SeenInv'
  BY <1>1, SendStream, SendSeen
<1>3. (ReaderType /\ InHeader /\ InFrame /\ InControl /\ InAssembly)'
  BY <1>1, SendReader, Zenon
<1>4. LoopInv'
  BY <1>1, SendReader DEF LoopInv
<1> QED
  BY <1>2, <1>3, <1>4, Zenon DEF IInv

-----------------------------------------------------------------------------
(* The other steps leave the stream and the reader alone.                  *)

LEMMA SameStream ==
  ASSUME UNCHANGED <<frames, stream>>, StreamInv
  PROVE  StreamInv'
<1>1. frames' = frames /\ stream' = stream
  OBVIOUS
<1> QED
  BY <1>1 DEF StreamInv, StreamType, StreamPlaces, StreamOrder, StreamStarts, EndOf, Size,
             Boundary

LEMMA SameReader ==
  ASSUME UNCHANGED <<frames, stream, fed, reader, assembled, program, torn, seen>>,
         read' \in 0 .. Len(stream), fed <= read'
  PROVE  /\ ReaderType => ReaderType'
         /\ InHeader => InHeader'
         /\ InFrame => InFrame'
         /\ InControl => InControl'
         /\ InAssembly => InAssembly'
         /\ SeenInv => SeenInv'
<1>1. frames' = frames /\ stream' = stream /\ fed' = fed /\ reader' = reader
      /\ assembled' = assembled /\ program' = program /\ torn' = torn /\ seen' = seen
  OBVIOUS
<1>2. ReaderType => ReaderType'
  BY <1>1 DEF ReaderType
<1>3. InHeader => InHeader'
  BY <1>1, Zenon DEF InHeader, Boundary, EndOf, Size
<1>4. InFrame => InFrame'
  BY <1>1 DEF InFrame, Size
<1>5. InControl => InControl'
  BY <1>1, Zenon DEF InControl
<1>6. InAssembly => InAssembly'
  BY <1>1 DEF InAssembly, Keeps, Buffer
<1>7. SeenInv => SeenInv'
  <2>1. Ends' = Ends
    BY <1>1 DEF Ends, Frame
  <2>2. {FrameAt(b, Buffer)' : b \in Ends'} = {FrameAt(b, Buffer) : b \in Ends}
    <3>1. \A b : FrameAt(b, Buffer)' = FrameAt(b, Buffer)
      BY <1>1 DEF FrameAt, Frame, Buffer
    <3> QED
      BY <2>1, <3>1
  <2>3. FramesExact(Buffer) => FramesExact(Buffer)'
    BY <1>1, <2>2, Zenon DEF FramesExact, Range
  <2> SUFFICES ASSUME SeenInv PROVE SeenInv'
    OBVIOUS
  <2>4. seen' \in Seq([frame : Nat, payload : Seq(Nat)])
    BY <1>1, Zenon DEF SeenInv
  <2>5. ASSUME ~torn' PROVE FramesExact(Buffer)'
    <3>1. torn' = torn
      BY <1>1, Zenon
    <3>2. ~torn
      BY <2>5, <3>1
    <3> QED
      BY <2>3, <3>2, Zenon DEF SeenInv
  <2> QED
    BY <2>4, <2>5, Zenon DEF SeenInv
<1> QED
  BY <1>2, <1>3, <1>4, <1>5, <1>6, <1>7, Zenon

\* Only the loop moves.
Turns == UNCHANGED <<program, relayVars, readerVars, read>> /\ (phase' # "failed" => phase # "failed")

LEMMA TurnKeeps ==
  ASSUME IInv, Turns, LoopInv'
  PROVE  IInv'
<1>1. UNCHANGED <<frames, stream, fed, reader, assembled, program, torn, seen>> /\ read' = read
  BY DEF Turns, relayVars, readerVars
<1>2. StreamInv /\ ReaderType /\ SeenInv
  BY DEF IInv
<1>3. read' \in 0 .. Len(stream) /\ fed <= read'
  BY <1>1, <1>2, ReaderTypes DEF StreamInv
<1>4. StreamInv' /\ ReaderType' /\ SeenInv'
  BY <1>1, <1>2, <1>3, SameStream, SameReader
<1>5. phase' # "failed" => phase # "failed"
  BY DEF Turns
<1>6. phase' # "failed" => (InHeader /\ InFrame /\ InControl /\ InAssembly)'
  BY <1>1, <1>3, <1>5, SameReader DEF IInv
<1> QED
  BY <1>4, <1>6, Zenon DEF IInv

LEMMA ReadKeeps ==
  ASSUME IInv, NEW n \in 1 .. Len(stream) - read, Read(n)
  PROVE  IInv'
<1>0. StreamInv /\ ReaderType /\ SeenInv /\ LoopInv
  BY DEF IInv
<1>1. /\ UNCHANGED <<frames, stream, fed, reader, assembled, program, torn, seen, phase>>
      /\ UNCHANGED <<peer_known, out, bypass>>
      /\ read' = read + n /\ at = "wait" /\ read + n <= Len(stream)
  BY DEF Read, Waits, readerVars, relayVars, outVars
<1>2. fed \in Nat /\ read \in Nat /\ fed <= read /\ Len(stream) \in Nat
  BY <1>0, ReaderTypes DEF StreamInv
<1>3. read' \in 0 .. Len(stream) /\ fed <= read'
  BY <1>1, <1>2
<1>4. StreamInv' /\ ReaderType' /\ SeenInv'
  BY <1>0, <1>1, <1>3, SameStream, SameReader
<1>5. phase' # "failed" => (InHeader /\ InFrame /\ InControl /\ InAssembly)'
  BY <1>1, <1>3, SameReader DEF IInv
<1>6. LoopInv'
  BY <1>0, <1>1 DEF LoopInv
<1> QED
  BY <1>4, <1>5, <1>6, Zenon DEF IInv

LEMMA TickKeeps ==
  ASSUME IInv, Tick
  PROVE  IInv'
<1>0. StreamInv /\ ReaderType /\ SeenInv /\ LoopInv /\ InHeader /\ InFrame /\ InControl
      /\ InAssembly
  BY Zenon DEF IInv, Tick, Waits
<1>1. /\ UNCHANGED <<frames, stream, fed, reader, program, seen, read, at, phase, peer_known>>
      /\ UNCHANGED <<out, bypass>>
      /\ assembled' = <<>> /\ torn' = (torn \/ assembled # <<>>) /\ program = "host"
  BY DEF Tick, Waits, relayVars, outVars
<1>2. read' \in 0 .. Len(stream) /\ fed <= read'
  BY <1>0, <1>1, ReaderTypes DEF StreamInv
<1>3. LoopInv'
  BY <1>0, <1>1 DEF LoopInv
<1>4. CASE torn' = torn /\ assembled' = assembled
  <2>1. StreamInv' /\ (ReaderType /\ SeenInv /\ InHeader /\ InFrame /\ InControl /\ InAssembly)'
    BY <1>0, <1>1, <1>2, <1>4, SameStream, SameReader
  <2> QED
    BY <1>3, <2>1, Zenon DEF IInv
<1>5. CASE torn'
  <2>1. StreamInv'
    BY <1>0, <1>1, SameStream
  <2>2. ReaderType'
    <3>1. <<>> \in Seq(Nat)
      OBVIOUS
    <3> QED
      BY <1>0, <1>1, <3>1 DEF ReaderType
  <2>3. InHeader' /\ InFrame' /\ InControl'
    <3>1. frames' = frames /\ stream' = stream /\ fed' = fed /\ reader' = reader
      BY <1>1
    <3> QED
      BY <1>0, <3>1, Zenon DEF InHeader, InFrame, InControl, Boundary, EndOf, Size
  <2>4. InAssembly' /\ SeenInv'
    BY <1>0, <1>1, <1>5 DEF InAssembly, SeenInv
  <2> QED
    BY <1>3, <2>1, <2>2, <2>3, <2>4, Zenon DEF IInv
<1>6. torn' \/ (torn' = torn /\ assembled' = assembled)
  BY <1>0, <1>1 DEF LoopInv
<1> QED
  BY <1>4, <1>5, <1>6

LEMMA FeedKeeps ==
  ASSUME IInv, Feed
  PROVE  IInv'
<1>0. StreamInv /\ ReaderType /\ SeenInv /\ LoopInv /\ InHeader /\ InFrame /\ InControl
      /\ InAssembly
  BY Zenon DEF IInv, Feed
<1>1. /\ ReaderType'
      /\ phase' # "failed" => (InHeader /\ InFrame /\ InControl /\ InAssembly)'
      /\ \E n, k, a : FeedStep(n, k, a)
  BY <1>0, FeedIsStep, Zenon DEF ReaderInv
<1>2. PICK n, k, a : FeedStep(n, k, a)
  BY <1>1, Zenon
<1>3. SeenInv'
  BY <1>0, <1>2, SeenStep, Zenon
<1>4. /\ at = "parse" /\ UNCHANGED <<frames, stream, program, torn, out, bypass, peer_known>>
  BY DEF Feed, FeedHeader, FeedBuffering, FeedDraining, FeedStreaming, Feeds, relayVars, outVars
<1>5. StreamInv'
  BY <1>0, <1>4, SameStream
<1>6. LoopInv'
  BY <1>0, <1>4 DEF LoopInv
<1> QED
  BY <1>1, <1>3, <1>5, <1>6, Zenon DEF IInv

-----------------------------------------------------------------------------
(* The loop.                                                               *)

LEMMA HandlesTurns ==
  ASSUME LoopInv, NEW to, Handles(to), to = "relaying" \/ phase # "relaying",
         peer_known => peer_known'
  PROVE  Turns /\ LoopInv'
<1>1. /\ at = "handle" /\ phase # "failed" /\ phase' = to /\ at' = Next_turn
      /\ bypass' = IF phase = "relaying" /\ peer_known /\ out > 0 THEN bypass + 1 ELSE 0
      /\ UNCHANGED <<program, relayVars, readerVars, read, out>>
  BY DEF Handles
<1>2. Turns
  BY <1>1 DEF Turns
<1>3. bypass = 0 /\ out \in Nat /\ program \in {"fw", "host"}
  BY <1>1 DEF LoopInv
<1>4. torn' = torn /\ program' = program /\ out' = out
  BY <1>1 DEF readerVars
<1>5. bypass' \in {0, 1}
  BY <1>1, <1>3
<1>6. ASSUME bypass' = 1
      PROVE  program' = "fw" /\ at' = "drain" /\ phase' = "relaying" /\ peer_known'
  <2>1. phase = "relaying" /\ peer_known /\ out > 0
    BY <1>1, <1>6
  <2>2. program = "fw"
    BY <1>3, <2>1 DEF LoopInv
  <2> QED
    BY <1>1, <1>4, <2>1, <2>2 DEF Next_turn
<1> QED
  BY <1>2, <1>3, <1>4, <1>5, <1>6 DEF LoopInv

LEMMA HandleKeeps ==
  ASSUME IInv, Handle
  PROVE  IInv'
<1>1. LoopInv
  BY DEF IInv
<1>2. CASE HandleLogin
  <2>1. PICK to : Handles(to)
    BY <1>2 DEF HandleLogin
  <2>2. phase # "relaying" /\ peer_known' = peer_known
    BY <1>2 DEF HandleLogin
  <2>3. Turns /\ LoopInv'
    BY <1>1, <2>1, <2>2, HandlesTurns
  <2> QED
    BY <2>3, TurnKeeps
<1>3. CASE HandleRelayed
  <2>1. Handles("relaying") /\ (peer_known => peer_known')
    BY <1>3 DEF HandleRelayed
  <2>2. Turns /\ LoopInv'
    BY <1>1, <2>1, HandlesTurns
  <2> QED
    BY <2>2, TurnKeeps
<1> QED
  BY <1>2, <1>3 DEF Handle

LEMMA LoopKeeps ==
  ASSUME IInv,
         \/ ParsedAll \/ DrainOutbound \/ SendQueued \/ ConnectionLost \/ Enqueue
         \/ UNCHANGED vars
  PROVE  IInv'
<1>1. LoopInv
  BY DEF IInv
<1>2. ParsedAll => Turns /\ LoopInv'
  BY <1>1 DEF ParsedAll, Turns, LoopInv, readerVars, outVars
<1>3. DrainOutbound => Turns /\ LoopInv'
  BY <1>1 DEF DrainOutbound, Turns, LoopInv, readerVars, outVars
<1>4. SendQueued => Turns /\ LoopInv'
  BY <1>1 DEF SendQueued, Waits, Next_turn, Turns, LoopInv, readerVars
<1>5. ConnectionLost => Turns /\ LoopInv'
  BY <1>1 DEF ConnectionLost, Turns, LoopInv, readerVars, outVars
<1>6. Enqueue => Turns /\ LoopInv'
  <2> SUFFICES ASSUME Enqueue PROVE Turns /\ LoopInv'
    OBVIOUS
  <2>1. out + 1 \in Nat /\ OUT_SLOTS \in Nat
    BY <1>1, DerpAssumption DEF LoopInv
  <2>2. Min({out + 1, OUT_SLOTS}) \in Nat
    BY <2>1, MinTwo
  <2> QED
    BY <1>1, <2>2 DEF Enqueue, Turns, LoopInv, readerVars, loopVars
<1>7. UNCHANGED vars => Turns /\ LoopInv'
  BY <1>1 DEF vars, Turns, LoopInv, relayVars, readerVars, loopVars, outVars
<1> QED
  BY <1>2, <1>3, <1>4, <1>5, <1>6, <1>7, TurnKeeps

LEMMA NextKeeps ==
  ASSUME IInv, [Next]_vars
  PROVE  IInv'
<1>1. CASE Feed
  BY <1>1, FeedKeeps
<1>2. CASE Handle
  BY <1>2, HandleKeeps
<1>3. CASE Tick
  BY <1>3, TickKeeps
<1>4. ASSUME NEW n \in 1 .. Len(stream) - read, Read(n) PROVE IInv'
  BY <1>4, ReadKeeps
<1>5. ASSUME NEW f \in Frames, RelaySend(f) PROVE IInv'
  BY <1>5, SendKeeps
<1>6. CASE \/ ParsedAll \/ DrainOutbound \/ SendQueued \/ ConnectionLost \/ Enqueue
           \/ UNCHANGED vars
  BY <1>6, LoopKeeps, Zenon
<1> QED
  BY <1>1, <1>2, <1>3, <1>4, <1>5, <1>6, Zenon DEF Next

-----------------------------------------------------------------------------
(* The invariant, from the start on.                                       *)

LEMMA EmptySequence ==
  /\ Len(<<>>) = 0 /\ DOMAIN <<>> = {} /\ Range(<<>>) = {}
  /\ (\A T : <<>> \in Seq(T)) /\ (\A i : i \notin 1 .. 0) /\ 0 \in Nat
<1>1. Len(<<>>) = 0 /\ DOMAIN <<>> = {} /\ (\A i : i \notin 1 .. 0) /\ 0 \in Nat
  OBVIOUS
<1>2. \A T : <<>> \in Seq(T)
  OBVIOUS
<1>3. Range(<<>>) = {}
  BY <1>1, Zenon DEF Range
<1> QED
  BY <1>1, <1>2, <1>3, Zenon

LEMMA Initially ==
  ASSUME Init
  PROVE  IInv
<1>1. /\ frames = <<>> /\ stream = <<>> /\ read = 0 /\ fed = 0 /\ assembled = <<>>
      /\ seen = <<>> /\ torn = FALSE
      /\ reader = [state |-> "Header", header |-> <<>>, current |-> 0, remaining |-> 0,
                   control |-> <<>>]
  BY Zenon DEF Init, NewReader
<1>2. Len(stream) = 0 /\ Len(frames) = 0
  BY <1>1, EmptySequence, Zenon
<1>3. StreamType
  BY <1>1, EmptySequence, Zenon DEF StreamType
<1>4. StreamPlaces /\ StreamOrder
  BY <1>2, EmptySequence, Zenon DEF StreamPlaces, StreamOrder
<1>5. StreamStarts
  <2>1. \A b : b \notin 0 .. 0 - 1
    OBVIOUS
  <2> QED
    BY <1>2, <2>1, Zenon DEF StreamStarts
<1>6. ReaderType
  <2>1. <<>> \in Seq(Nat)
    OBVIOUS
  <2> QED
    BY <1>1, <1>2, <2>1 DEF ReaderType
<1>7. reader.state = "Header" /\ reader.header = <<>> /\ Len(reader.header) = 0
  BY <1>1
<1>8. InHeader
  <2>1. 0 < HEADER_LEN /\ 0 <= 0 /\ 0 - 0 = 0
    BY DerpAssumption
  <2> QED
    BY <1>1, <1>7, <2>1, EmptySequence, Zenon DEF InHeader, Boundary
<1>9. InFrame /\ InControl /\ InAssembly
  BY <1>1, <1>7 DEF InFrame, InControl, InAssembly
<1>10. SeenInv
  <2>1. seen \in Seq([frame : Nat, payload : Seq(Nat)])
    BY <1>1, EmptySequence, Zenon
  <2>2. Ends = {}
    BY <1>1, EmptySequence, Zenon DEF Ends
  <2>3. {FrameAt(b, Buffer) : b \in Ends} = {}
    BY <2>2, Zenon
  <2>4. Range(seen) = {} /\ DOMAIN seen = {}
    BY <1>1, EmptySequence, Zenon
  <2>5. FramesExact(Buffer)
    BY <2>3, <2>4, Zenon DEF FramesExact
  <2> QED
    BY <2>1, <2>5, Zenon DEF SeenInv
<1>11. LoopInv
  <2>1. program \in {"fw", "host"} /\ out = 0 /\ bypass = 0
    BY DEF Init
  <2>2. torn \in BOOLEAN /\ ~torn
    BY <1>1, Zenon
  <2> QED
    BY <2>1, <2>2 DEF LoopInv
<1> QED
  BY <1>3, <1>4, <1>5, <1>6, <1>8, <1>9, <1>10, <1>11, Zenon DEF IInv, StreamInv

(***************************************************************************)
(* The reader stands on a frame of the relay's stream at every step, and   *)
(* what it and the loop hold is that frame's own bytes.                    *)
(***************************************************************************)
THEOREM Invariant == Spec => []IInv
<1>1. Init => IInv
  BY Initially
<1>2. IInv /\ [Next]_vars => IInv'
  BY NextKeeps
<1> QED
  BY <1>1, <1>2, PTL DEF Spec

(***************************************************************************)
(* CancelSafe for every instance: whatever the sizes of the buffers and    *)
(* wherever TLS cuts the stream, a cancelled read loses nothing            *)
(* (lando-fw/src/derp.rs), and neither does the host's tick outside a      *)
(* streamed payload (lando-host/src/derp.rs).                              *)
(***************************************************************************)
THEOREM CancelSafeHolds == Spec => []CancelSafe
<1>1. IInv => CancelSafe
  <2> SUFFICES ASSUME IInv PROVE CancelSafe
    OBVIOUS
  <2>1. ~torn => FramesExact(Buffer)
    BY DEF IInv, SeenInv
  <2>2. program = "fw" => ~torn /\ Buffer = ASSEMBLED
    BY DEF IInv, LoopInv, Buffer
  <2>3. program = "host" => Buffer = MAX_FRAME_LEN
    BY DEF Buffer
  <2> QED
    BY <2>1, <2>2, <2>3, Zenon DEF CancelSafe
<1> QED
  BY <1>1, Invariant, PTL

(***************************************************************************)
(* RepliesNotStarved for every instance: outbound packets are sent before  *)
(* each frame is parsed, so at most one frame passes them.                 *)
(***************************************************************************)
THEOREM RepliesNotStarvedHolds == Spec => []RepliesNotStarved
<1>1. IInv => RepliesNotStarved
  BY DEF IInv, LoopInv, RepliesNotStarved
<1> QED
  BY <1>1, Invariant, PTL
=============================================================================
