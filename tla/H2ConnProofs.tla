---------------------------- MODULE H2ConnProofs ----------------------------
(***************************************************************************)
(* Proofs about H2Conn, for any header and buffer sizes, any frames, any   *)
(* netmaps and any cutting of the stream into records.                     *)
(***************************************************************************)
EXTENDS H2Conn, FiniteSetTheorems, SequenceTheorems, TLAPS

Size(k) == FRAME_HEADER_LEN + frames[k].length

\* The last byte of the frame that byte b belongs to.
EndOf(b) == b - stream[b].at + Size(stream[b].frame)

\* A frame ends with byte b, or none has started.
Boundary(b) == b = 0 \/ b = EndOf(b)

(***************************************************************************)
(* The server's stream: whole frames one after the other, byte by byte,    *)
(* and none of this request after its END_STREAM.                          *)
(***************************************************************************)
StreamType ==
  /\ frames \in Seq(Frames)
  /\ stream \in Seq([frame : Nat, at : Nat])

StreamPlaces ==
  \A b \in 1 .. Len(stream) :
     /\ stream[b].frame \in 1 .. Len(frames)
     /\ stream[b].at \in 1 .. Size(stream[b].frame)
     /\ stream[b].at <= b
     /\ EndOf(b) <= Len(stream)

StreamOrder ==
  \A b, c \in 1 .. Len(stream) : b < c =>
     IF c <= EndOf(b)
     THEN stream[c].frame = stream[b].frame /\ stream[c].at = stream[b].at + (c - b)
     ELSE stream[c].frame > stream[b].frame

StreamStarts ==
  \A b \in 0 .. Len(stream) - 1 : Boundary(b) => stream[b + 1].at = 1

OwnEnds ==
  \A j, k \in 1 .. Len(frames) : j < k /\ Ends(frames[j]) => ~frames[k].own

StreamInv == StreamType /\ StreamPlaces /\ StreamOrder /\ StreamStarts /\ OwnEnds

(***************************************************************************)
(* The reader: where it stands in the stream, and what it holds of the     *)
(* header or of the control frame it is in.                                *)
(***************************************************************************)
ReaderType ==
  /\ reader \in [state : {"Header", "Buffering", "Draining", "Streaming"}, header : Seq(Nat),
                 current : Nat, remaining : Nat, control : Seq(Nat), pending_window : Nat]
  /\ read \in 0 .. Len(stream) /\ fed \in 0 .. read

InHeader ==
  reader.state = "Header" =>
     /\ Len(reader.header) < FRAME_HEADER_LEN /\ Len(reader.header) <= fed
     /\ \A i \in 1 .. Len(reader.header) : reader.header[i] = fed - Len(reader.header) + i
     /\ Boundary(fed - Len(reader.header))

InFrame ==
  reader.state # "Header" =>
     /\ reader.header = <<>>
     /\ fed >= 1 /\ reader.current = stream[fed].frame
     /\ reader.remaining \in 1 .. frames[reader.current].length
     /\ stream[fed].at = Size(reader.current) - reader.remaining
     /\ reader.state = "Streaming" <=> ~is_control(frames[reader.current].kind)

InControl ==
  reader.state \in {"Buffering", "Draining"} =>
     LET had == frames[reader.current].length - reader.remaining
     IN  /\ \A j \in 1 .. Len(reader.control) : reader.control[j] = fed - had + j
         /\ reader.state = "Buffering" =>
               Len(reader.control) = had /\ had < CONTROL_FRAME_MAX
         /\ reader.state = "Draining" =>
               Len(reader.control) = CONTROL_FRAME_MAX /\ CONTROL_FRAME_MAX <= had

ReaderInv == ReaderType /\ InHeader /\ InFrame /\ InControl

(***************************************************************************)
(* The credit's type; the end of the request was fed when it was seen.     *)
(***************************************************************************)
CreditInv ==
  /\ connWindow \in Nat /\ credit \in [connection : Nat, stream : Nat]
  /\ CreditConserved

EndSeen ==
  done \/ outcome = "Ok" =>
     \E k \in 1 .. Len(frames) :
        Ends(frames[k]) /\ \A b \in fed + 1 .. Len(stream) : stream[b].frame > k

BodyInv == body \in Seq(Nat) /\ BodyExact

ControlsInv == controls \in Seq([frame : Nat, payload : Seq(Nat)]) /\ ControlsExact

(***************************************************************************)
(* The frames noted and not yet handled are the last of those produced,    *)
(* and all others were acknowledged that ask for it.                       *)
(***************************************************************************)
Noticed == {c.frame : c \in Range(controls)}

Acknowledged ==
  /\ Range(acks) \subseteq Noticed
  /\ \A i, j \in DOMAIN acks : i < j => acks[i] < acks[j]
  /\ \A c \in Noticed \ Range(acks), a \in Range(acks) : c < a
  /\ Lists(answered, {k \in Noticed \ Range(acks) : Answers(k)})

AcksInv ==
  /\ acks \in Seq(Nat) /\ answered \in Seq(Nat) /\ missed \in Nat
  /\ host \in BOOLEAN /\ round \in BOOLEAN
  /\ host \/ ~round => acks = <<>>
  /\ outcome = "reading" /\ missed = 0 => Acknowledged

(***************************************************************************)
(* The splitter: where it stands in the body, and what it holds of a       *)
(* length or of a netmap.                                                  *)
(***************************************************************************)
Seen == Len(body) - Len(data)

DataInv ==
  /\ data \in Seq(Nat) /\ Len(data) <= Len(body)
  /\ \A i \in 1 .. Len(data) : data[i] = Seen + i
  /\ Cardinality(OwnData(Len(stream))) <= MapStarts[Len(MapStarts)]

SplitterType ==
  /\ splitter \in [len_buf : Seq(Nat), remaining : Nat]
  /\ current \in Seq(Nat) /\ netmap \in Seq(Nat) /\ netmaps \in Seq(Seq(Nat))

InLength ==
  splitter.remaining = 0 =>
     /\ current = <<>> /\ Len(splitter.len_buf) < MAP_LEN
     /\ \A i \in 1 .. Len(splitter.len_buf) :
           splitter.len_buf[i] = Seen - Len(splitter.len_buf) + i
     /\ \E k \in 1 .. Len(MapStarts) : Seen = MapStarts[k] + Len(splitter.len_buf)

InMap ==
  splitter.remaining > 0 =>
     /\ splitter.len_buf = <<>>
     /\ \E k \in Maps :
           /\ splitter.remaining <= MapLength(k)
           /\ Seen = MapStarts[k + 1] - splitter.remaining
           /\ Len(current) = MapLength(k) - splitter.remaining
           /\ \A i \in 1 .. Len(current) : current[i] = MapStarts[k] + MAP_LEN + i

FirstMap ==
  netmaps = <<>> => netmap = SubSeq(current, 1, Min({NETMAP_MAX, Len(current)}))

MapInv == DataInv /\ SplitterType /\ InLength /\ InMap /\ FirstMap /\ NetmapsExact

IInv ==
  /\ StreamInv /\ ReaderInv /\ CreditInv /\ EndSeen /\ BodyInv /\ ControlsInv /\ AcksInv
  /\ MapInv

-----------------------------------------------------------------------------
(* Lemmas about numbers, sequences and sets.                               *)

(***************************************************************************)
(* The least of two and of three numbers, and the greatest of a set.       *)
(***************************************************************************)
LEMMA MinTwo ==
  ASSUME NEW a \in Nat, NEW b \in Nat
  PROVE  /\ Min({a, b}) \in Nat /\ Min({a, b}) <= a /\ Min({a, b}) <= b
         /\ Min({a, b}) = a \/ Min({a, b}) = b
<1>1. \E x \in {a, b} : \A y \in {a, b} : x <= y
  OBVIOUS
<1>2. Min({a, b}) \in {a, b} /\ \A y \in {a, b} : Min({a, b}) <= y
  BY <1>1, Zenon DEF Min
<1> QED
  BY <1>2

LEMMA MinThree ==
  ASSUME NEW a \in Nat, NEW b \in Nat, NEW c \in Nat
  PROVE  LET m == Min({a, b, c})
         IN  m \in Nat /\ m <= a /\ m <= b /\ m <= c /\ (m = a \/ m = b \/ m = c)
<1>1. \E x \in {a, b, c} : \A y \in {a, b, c} : x <= y
  OBVIOUS
<1>2. Min({a, b, c}) \in {a, b, c} /\ \A y \in {a, b, c} : Min({a, b, c}) <= y
  BY <1>1, Zenon DEF Min
<1> QED
  BY <1>2

LEMMA MaxIs ==
  ASSUME NEW S \in SUBSET Nat, NEW m \in S, \A y \in S : m >= y
  PROVE  Max(S) = m
<1>1. \E x \in S : \A y \in S : x >= y
  OBVIOUS
<1>2. Max(S) \in S /\ \A y \in S : Max(S) >= y
  BY <1>1, Zenon DEF Max
<1>3. Max(S) \in Nat /\ m \in Nat /\ Max(S) >= m /\ m >= Max(S)
  BY <1>2
<1> QED
  BY <1>3

(***************************************************************************)
(* Increasing numbers followed by greater ones, or by one.                 *)
(***************************************************************************)
LEMMA ListsConcat ==
  ASSUME NEW s \in Seq(Nat), NEW t \in Seq(Nat), NEW S, NEW T, Lists(s, S), Lists(t, T),
         \A x \in S, y \in T : x < y
  PROVE  Lists(s \o t, S \cup T)
<1> DEFINE u == s \o t
           m == Len(s)
           n == Len(t)
<1>1. Range(u) = S \cup T
  BY RangeConcatenation DEF Lists
<1>2. /\ DOMAIN s = 1 .. m /\ DOMAIN t = 1 .. n /\ m \in Nat /\ n \in Nat
      /\ DOMAIN u = 1 .. m + n
  BY LenProperties, ConcatProperties
<1>3. /\ \A i \in 1 .. m : u[i] = s[i]
      /\ \A i \in 1 .. n : u[m + i] = t[i]
  OBVIOUS
<1>4. /\ \A i \in 1 .. m : s[i] \in S
      /\ \A i \in 1 .. n : t[i] \in T
      /\ \A i, j \in 1 .. m : i < j => s[i] < s[j]
      /\ \A i, j \in 1 .. n : i < j => t[i] < t[j]
  BY <1>2, Zenon DEF Lists, Range
<1> HIDE DEF u, m, n
<1>5. ASSUME NEW i \in 1 .. m + n, NEW j \in 1 .. m + n, i < j
      PROVE  u[i] < u[j]
  <2>1. CASE j <= m
    BY <1>2, <1>3, <1>4, <1>5, <2>1
  <2>2. CASE i > m
    <3>1. PICK p \in 1 .. n : i = m + p
      <4>1. i - m \in 1 .. n /\ i = m + (i - m)
        BY <1>2, <1>5, <2>2
      <4> QED
        BY <4>1
    <3>2. PICK q \in 1 .. n : j = m + q
      <4>1. j - m \in 1 .. n /\ j = m + (j - m)
        BY <1>2, <1>5, <2>2
      <4> QED
        BY <4>1
    <3>3. p < q /\ u[m + p] = t[p] /\ u[m + q] = t[q]
      BY <1>2, <1>3, <1>5, <3>1, <3>2
    <3> QED
      BY <1>4, <3>1, <3>2, <3>3
  <2>3. CASE i <= m /\ j > m
    <3>1. PICK q \in 1 .. n : j = m + q
      <4>1. j - m \in 1 .. n /\ j = m + (j - m)
        BY <1>2, <1>5, <2>3
      <4> QED
        BY <4>1
    <3>2. i \in 1 .. m /\ u[i] = s[i] /\ u[j] = t[q]
      BY <1>2, <1>3, <1>5, <2>3, <3>1
    <3> QED
      BY <1>4, <3>1, <3>2
  <2> QED
    BY <1>2, <2>1, <2>2, <2>3
<1>6. Lists(u, S \cup T)
  BY <1>1, <1>2, <1>5 DEF Lists
<1> QED
  BY <1>6 DEF u

LEMMA ListsAppend ==
  ASSUME NEW s \in Seq(Nat), NEW S, NEW x \in Nat, Lists(s, S), \A y \in S : y < x
  PROVE  Lists(Append(s, x), S \cup {x})
<1> DEFINE t == <<x>>
<1>1. t \in Seq(Nat) /\ Lists(t, {x})
  BY DEF Lists, Range
<1>2. Append(s, x) = s \o t
  BY AppendIsConcat
<1> HIDE DEF t
<1>3. Lists(s \o t, S \cup {x})
  BY <1>1, ListsConcat
<1> QED
  BY <1>2, <1>3

LEMMA ListsCardinality ==
  ASSUME NEW s \in Seq(Nat), NEW S, Lists(s, S)
  PROVE  IsFiniteSet(S) /\ Cardinality(S) = Len(s)
<1>1. DOMAIN s = 1 .. Len(s) /\ Len(s) \in Nat /\ s \in [1 .. Len(s) -> Nat]
  BY LenProperties
<1>2. s \in [1 .. Len(s) -> S]
  BY <1>1 DEF Lists, Range
<1>3. s \in Injection(1 .. Len(s), S)
  <2>1. \A i, j \in 1 .. Len(s) : s[i] = s[j] => i = j
    BY <1>1 DEF Lists
  <2> QED
    BY <1>1, <1>2, <2>1, Zenon DEF Injection, IsInjective
<1>4. s \in Surjection(1 .. Len(s), S)
  BY <1>1, <1>2, Zenon DEF Lists, Range, Surjection
<1>5. IsFiniteSet(1 .. Len(s)) /\ Cardinality(1 .. Len(s)) = Len(s)
  <2>1. 1 \in Int /\ Len(s) \in Int
    BY <1>1
  <2>2. IsFiniteSet(1 .. Len(s))
        /\ Cardinality(1 .. Len(s)) = IF 1 > Len(s) THEN 0 ELSE Len(s) - 1 + 1
    BY <2>1, FS_Interval, Zenon
  <2> QED
    BY <1>1, <2>2
<1>6. IsFiniteSet(S) /\ Cardinality(S) = Cardinality(1 .. Len(s))
  <2> DEFINE D == 1 .. Len(s)
  <2>1. s \in Injection(D, S) /\ s \in Surjection(D, S) /\ IsFiniteSet(D)
    BY <1>3, <1>4, <1>5
  <2> HIDE DEF D
  <2>2. IsFiniteSet(S) /\ Cardinality(S) = Cardinality(D)
    BY <2>1, FS_Surjection
  <2> QED
    BY <2>2 DEF D
<1> QED
  BY <1>5, <1>6

(***************************************************************************)
(* A finite set with n numbers that follow a.                              *)
(***************************************************************************)
LEMMA AddInterval ==
  ASSUME NEW S, IsFiniteSet(S), NEW a \in Nat, NEW n \in Nat, S \cap ((a + 1) .. (a + n)) = {}
  PROVE  /\ IsFiniteSet(S \cup ((a + 1) .. (a + n)))
         /\ Cardinality(S \cup ((a + 1) .. (a + n))) = Cardinality(S) + n
<1> DEFINE T == (a + 1) .. (a + n)
<1>1. a + 1 \in Int /\ a + n \in Int
  OBVIOUS
<1>2. IsFiniteSet(T) /\ Cardinality(T) = IF a + 1 > a + n THEN 0 ELSE a + n - (a + 1) + 1
  <2> DEFINE lo == a + 1
             hi == a + n
  <2>1. lo \in Int /\ hi \in Int
    BY <1>1
  <2> HIDE DEF lo, hi
  <2>2. IsFiniteSet(lo .. hi) /\ Cardinality(lo .. hi) = IF lo > hi THEN 0 ELSE hi - lo + 1
    BY <2>1, FS_Interval
  <2> QED
    BY <2>2 DEF lo, hi
<1>3. Cardinality(T) = n
  BY <1>2
<1>4. Cardinality({}) = 0 /\ Cardinality(S) \in Nat
  BY FS_EmptySet, FS_CardinalityType, Zenon
<1> HIDE DEF T
<1>5. /\ IsFiniteSet(S \cup T)
      /\ Cardinality(S \cup T) = Cardinality(S) + Cardinality(T) - Cardinality(S \cap T)
  BY <1>2, FS_Union, Zenon
<1>6. Cardinality(S \cap T) = 0
  <2>1. S \cap T = {}
    BY DEF T
  <2> QED
    BY <1>4, <2>1, Zenon
<1>7. Cardinality(S \cup T) = Cardinality(S) + n
  BY <1>3, <1>4, <1>5, <1>6
<1> QED
  BY <1>5, <1>7 DEF T

LEMMA PartFinite ==
  ASSUME NEW lo \in Int, NEW hi \in Int, NEW S \in SUBSET (lo .. hi)
  PROVE  IsFiniteSet(S) /\ Cardinality(S) \in Nat
<1>1. IsFiniteSet(lo .. hi)
  BY FS_Interval
<1>2. IsFiniteSet(S)
  BY <1>1, FS_Subset
<1> QED
  BY <1>2, FS_CardinalityType

-----------------------------------------------------------------------------
(* Lemmas about the stream and the bytes a turn of the reader uses.        *)

(***************************************************************************)
(* The next n bytes are of frame k, after its first a bytes.               *)
(***************************************************************************)
Run(n, k, a) == \A i \in 1 .. n : stream[fed + i].frame = k /\ stream[fed + i].at = a + i

(***************************************************************************)
(* What the stream says of a frame and of its bytes.                       *)
(***************************************************************************)
LEMMA FrameTypes ==
  ASSUME StreamType, NEW k \in 1 .. Len(frames)
  PROVE  /\ frames[k] \in FrameHeaders
         /\ frames[k].length \in Nat /\ Size(k) \in Nat /\ Size(k) >= FRAME_HEADER_LEN
         /\ FRAME_HEADER_LEN \in Nat /\ FRAME_HEADER_LEN >= 1
<1>1. frames[k] \in FrameHeaders
  BY H2Assumption DEF StreamType
<1>2. frames[k].length \in Nat
  BY <1>1 DEF FrameHeaders
<1> QED
  BY <1>1, <1>2, H2Assumption DEF Size

LEMMA ByteTypes ==
  ASSUME StreamInv, NEW b \in 1 .. Len(stream)
  PROVE  /\ stream[b].frame \in 1 .. Len(frames) /\ stream[b].frame \in Nat
         /\ stream[b].at \in Nat /\ stream[b].at >= 1
         /\ stream[b].at <= Size(stream[b].frame) /\ stream[b].at <= b
         /\ Size(stream[b].frame) \in Nat /\ EndOf(b) \in Nat /\ EndOf(b) <= Len(stream)
         /\ EndOf(b) = b - stream[b].at + Size(stream[b].frame)
         /\ Len(stream) \in Nat /\ Len(frames) \in Nat
<1>1. Len(stream) \in Nat /\ Len(frames) \in Nat
  BY DEF StreamInv, StreamType
<1>2. /\ stream[b].frame \in 1 .. Len(frames)
      /\ stream[b].at \in 1 .. Size(stream[b].frame)
      /\ stream[b].at <= b
      /\ EndOf(b) <= Len(stream)
  BY DEF StreamInv, StreamPlaces
<1>3. Size(stream[b].frame) \in Nat
  BY <1>2, FrameTypes DEF StreamInv
<1> QED
  BY <1>1, <1>2, <1>3 DEF EndOf

LEMMA ReaderTypes ==
  ASSUME StreamType, ReaderType
  PROVE  /\ reader.header \in Seq(Nat) /\ Len(reader.header) \in Nat
         /\ reader.control \in Seq(Nat) /\ Len(reader.control) \in Nat
         /\ reader.current \in Nat /\ reader.remaining \in Nat /\ reader.pending_window \in Nat
         /\ fed \in Nat /\ read \in Nat /\ fed <= read /\ read <= Len(stream)
         /\ Len(stream) \in Nat /\ Len(frames) \in Nat
         /\ FRAME_HEADER_LEN \in Nat /\ FRAME_HEADER_LEN >= 1
         /\ CONTROL_FRAME_MAX \in Nat /\ CONTROL_FRAME_MAX >= 1
<1>1. Len(stream) \in Nat /\ Len(frames) \in Nat
  BY DEF StreamType
<1>2. reader.header \in Seq(Nat) /\ reader.control \in Seq(Nat)
  BY DEF ReaderType
<1>3. Len(reader.header) \in Nat /\ Len(reader.control) \in Nat
  BY <1>2
<1>4. reader.current \in Nat /\ reader.remaining \in Nat /\ reader.pending_window \in Nat
  BY DEF ReaderType
<1>5. fed \in Nat /\ read \in Nat /\ fed <= read /\ read <= Len(stream)
  BY <1>1 DEF ReaderType
<1>6. /\ FRAME_HEADER_LEN \in Nat /\ FRAME_HEADER_LEN >= 1
      /\ CONTROL_FRAME_MAX \in Nat /\ CONTROL_FRAME_MAX >= 1
  BY H2Assumption
<1> QED
  BY <1>1, <1>2, <1>3, <1>4, <1>5, <1>6

LEMMA HeaderRun ==
  ASSUME StreamInv, ReaderInv, reader.state = "Header", NEW n \in Nat \ {0},
         Len(reader.header) + n <= FRAME_HEADER_LEN, fed + n <= Len(stream),
         NEW k, k = stream[fed - Len(reader.header) + 1].frame
  PROVE  k \in 1 .. Len(frames) /\ Run(n, k, Len(reader.header))
<1> DEFINE h == Len(reader.header)
           c == fed - h + 1
<1>0. StreamType /\ ReaderType /\ InHeader
  BY DEF StreamInv, ReaderInv
<1>1. /\ h \in Nat /\ fed \in Nat /\ h <= fed /\ Boundary(fed - h)
      /\ Len(stream) \in Nat /\ FRAME_HEADER_LEN \in Nat
  BY <1>0, ReaderTypes DEF InHeader
<1>a. h + n <= FRAME_HEADER_LEN
  OBVIOUS
<1> HIDE DEF h
<1>2. c \in 1 .. Len(stream) /\ c - 1 \in 0 .. Len(stream) - 1 /\ c - 1 = fed - h
      /\ c - 1 + 1 = c /\ c <= fed + 1
  BY <1>1
<1>3. stream[c].at = 1
  BY <1>1, <1>2 DEF StreamInv, StreamStarts
<1>4. k = stream[c].frame /\ k \in 1 .. Len(frames) /\ EndOf(c) = c - 1 + Size(k)
      /\ Size(k) \in Nat
  BY <1>2, <1>3, ByteTypes DEF h
<1>5. Size(k) >= FRAME_HEADER_LEN
  BY <1>4, FrameTypes DEF StreamInv
<1> HIDE DEF c
<1>6. ASSUME NEW i \in 1 .. n
      PROVE  stream[fed + i].frame = k /\ stream[fed + i].at = h + i
  <2>1. fed + i \in 1 .. Len(stream) /\ fed + i <= EndOf(c) /\ fed + i >= c
        /\ fed + i - c = h + i - 1 /\ fed + i \in Nat /\ c \in Nat
    BY <1>1, <1>2, <1>4, <1>5, <1>a
  <2>2. CASE fed + i = c
    BY <1>1, <1>2, <1>3, <1>4, <2>1, <2>2
  <2>3. CASE fed + i > c
    <3>1. stream[fed + i].frame = stream[c].frame
          /\ stream[fed + i].at = stream[c].at + (fed + i - c)
      <4> DEFINE d == fed + i
      <4>1. c \in 1 .. Len(stream) /\ d \in 1 .. Len(stream) /\ c < d /\ d <= EndOf(c)
        BY <1>2, <2>1, <2>3
      <4> HIDE DEF d
      <4>2. stream[d].frame = stream[c].frame /\ stream[d].at = stream[c].at + (d - c)
        BY <4>1 DEF StreamInv, StreamOrder
      <4> QED
        BY <1>1, <2>1, <4>2 DEF d
    <3> QED
      BY <1>1, <1>3, <1>4, <2>1, <3>1, SMTT(30)
  <2> QED
    BY <2>1, <2>2, <2>3
<1> QED
  BY <1>4, <1>6 DEF Run, h

LEMMA FrameRun ==
  ASSUME StreamInv, ReaderInv, reader.state # "Header",
         NEW n \in 1 .. reader.remaining, fed + n <= Len(stream)
  PROVE  /\ reader.current \in 1 .. Len(frames)
         /\ Run(n, reader.current, Size(reader.current) - reader.remaining)
<1> DEFINE k == reader.current
           r == reader.remaining
<1>0. StreamType /\ ReaderType /\ InFrame
  BY DEF StreamInv, ReaderInv
<1>1. /\ fed \in 1 .. Len(stream) /\ k = stream[fed].frame /\ r \in Nat /\ fed \in Nat
      /\ stream[fed].at = Size(k) - r /\ Len(stream) \in Nat
  BY <1>0, ReaderTypes DEF InFrame
<1>2. k \in 1 .. Len(frames) /\ Size(k) \in Nat /\ EndOf(fed) = fed - stream[fed].at + Size(k)
  BY <1>1, ByteTypes
<1>3. EndOf(fed) = fed + r
  BY <1>1, <1>2
<1> HIDE DEF k, r
<1>4. ASSUME NEW i \in 1 .. n
      PROVE  stream[fed + i].frame = k /\ stream[fed + i].at = Size(k) - r + i
  <2>1. fed + i \in 1 .. Len(stream) /\ fed + i <= EndOf(fed) /\ fed < fed + i
        /\ fed + i - fed = i
    BY <1>1, <1>3 DEF r
  <2>2. stream[fed + i].frame = stream[fed].frame
        /\ stream[fed + i].at = stream[fed].at + (fed + i - fed)
    BY <1>1, <2>1 DEF StreamInv, StreamOrder
  <2> QED
    BY <1>1, <1>2, <2>1, <2>2
<1> QED
  BY <1>2, <1>4 DEF Run, k, r

-----------------------------------------------------------------------------
(* The four actions of the reader are one: a turn uses n bytes of frame k, *)
(* after its first a bytes, and either says nothing, or produces the       *)
(* control frame that ends there, or hands the bytes on.                   *)

Quiet(n, k, a) ==
  /\ UNCHANGED itemVars
  /\ a + n < Size(k) /\ (a + n <= FRAME_HEADER_LEN \/ is_control(frames[k].kind))

Completes(n, k, a) ==
  /\ a + n = Size(k) /\ is_control(frames[k].kind)
  /\ EmitControl(k, ControlAt(fed + n).payload)

HandsOn(n, k, a) ==
  /\ ~is_control(frames[k].kind)
  /\ \/ /\ a >= FRAME_HEADER_LEN
        /\ \E end \in BOOLEAN : (end <=> a + n = Size(k)) /\ EmitBody(k, Chunk(n), end)
     \/ a + n = FRAME_HEADER_LEN /\ a + n = Size(k) /\ EmitBody(k, <<>>, TRUE)

Uses(n, k, a) ==
  /\ n \in Nat \ {0} /\ k \in 1 .. Len(frames) /\ a \in Nat
  /\ a + n <= Size(k) /\ (a + n <= FRAME_HEADER_LEN \/ a >= FRAME_HEADER_LEN)
  /\ Run(n, k, a)
  /\ round /\ outcome = "reading" /\ data = <<>>
  /\ fed + n <= read /\ fed' = fed + n
  /\ UNCHANGED <<serverVars, roundVars, mapVars>>

FeedStep(n, k, a) ==
  /\ Uses(n, k, a)
  /\ reader'.pending_window = reader.pending_window
        + (IF a >= FRAME_HEADER_LEN /\ frames[k].kind = "DATA" THEN n ELSE 0)
  /\ Quiet(n, k, a) \/ Completes(n, k, a) \/ HandsOn(n, k, a)

LEMMA ChunkIs ==
  ASSUME fed \in Nat, NEW n \in Nat
  PROVE  /\ Chunk(n) \in Seq(Nat) /\ Len(Chunk(n)) = n
         /\ \A i \in 1 .. n : Chunk(n)[i] = fed + i
BY DEF Chunk

(***************************************************************************)
(* Numbers that follow each other, with the next n of the input.           *)
(***************************************************************************)
LEMMA ChunkFollows ==
  ASSUME fed \in Nat, NEW n \in Nat, NEW s \in Seq(Nat), NEW d \in Int,
         \A i \in 1 .. Len(s) : s[i] = d + i, d + Len(s) = fed
  PROVE  /\ s \o Chunk(n) \in Seq(Nat) /\ Len(s \o Chunk(n)) = Len(s) + n
         /\ \A i \in 1 .. Len(s) + n : (s \o Chunk(n))[i] = d + i
<1> DEFINE t == Chunk(n)
           u == s \o t
           m == Len(s)
<1>1. t \in Seq(Nat) /\ Len(t) = n /\ \A i \in 1 .. n : t[i] = fed + i
  BY ChunkIs
<1>2. m \in Nat /\ (\A i \in 1 .. m : s[i] = d + i) /\ d + m = fed
  OBVIOUS
<1> HIDE DEF t
<1>3. u \in Seq(Nat) /\ Len(u) = m + n
  BY <1>1, ConcatProperties
<1>4. /\ \A i \in 1 .. m : u[i] = s[i]
      /\ \A i \in 1 .. n : u[m + i] = t[i]
  BY <1>1
<1> HIDE DEF u, m
<1>5. ASSUME NEW i \in 1 .. m + n
      PROVE  u[i] = d + i
  <2>1. CASE i <= m
    BY <1>2, <1>4, <2>1
  <2>2. CASE i > m
    <3> DEFINE j == i - m
    <3>1. j \in 1 .. n /\ m + j = i /\ fed + j = d + i
      BY <1>2, <2>2
    <3> HIDE DEF j
    <3>2. u[m + j] = t[j] /\ t[j] = fed + j
      BY <1>1, <1>4, <3>1
    <3> QED
      BY <3>1, <3>2
  <2> QED
    BY <1>2, <2>1, <2>2
<1>6. u \in Seq(Nat) /\ Len(u) = m + n /\ \A i \in 1 .. m + n : u[i] = d + i
  BY <1>3, <1>5
<1> QED
  BY <1>6 DEF t, u, m

(***************************************************************************)
(* The payload of the control frame that ends with byte b.                 *)
(***************************************************************************)
LEMMA PayloadIs ==
  ASSUME NEW b \in Nat, NEW n \in Nat, n <= b, Frame(b).length = n,
         NEW p \in Seq(Nat), Len(p) <= n, Len(p) <= CONTROL_FRAME_MAX,
         Len(p) = n \/ Len(p) = CONTROL_FRAME_MAX, CONTROL_FRAME_MAX \in Nat,
         \A j \in 1 .. Len(p) : p[j] = b - n + j
  PROVE  ControlAt(b).payload = p
<1> DEFINE m == Min({n, CONTROL_FRAME_MAX})
           q == [j \in 1 .. m |-> b - n + j]
<1>1. ControlAt(b).payload = q
  BY DEF ControlAt
<1>2. m \in Nat /\ m = Len(p)
  <2>1. Len(p) \in Nat
    OBVIOUS
  <2> QED
    BY <2>1, MinTwo
<1> HIDE DEF m
<1>3. q \in Seq(Nat) /\ Len(q) = m /\ \A j \in 1 .. m : q[j] = b - n + j
  BY <1>2
<1> HIDE DEF q
<1>4. q = p
  BY <1>2, <1>3, SeqEqual, SMTT(30)
<1> QED
  BY <1>1, <1>4

(***************************************************************************)
(* A turn in the header leaves the reader in the header, or where the      *)
(* header says, and a frame without payload is complete.                   *)
(***************************************************************************)
LEMMA HeaderStep ==
  ASSUME StreamInv, ReaderInv, FeedHeader
  PROVE  ReaderInv' /\ \E n, k, a : FeedStep(n, k, a)
<1> DEFINE h == Len(reader.header)
           take == Min({FRAME_HEADER_LEN - h, read - fed})
           header == reader.header \o Chunk(take)
           k == stream[Head(header)].frame
<1>0. StreamType /\ ReaderType /\ InHeader
  BY DEF StreamInv, ReaderInv
<1>1. /\ reader.header \in Seq(Nat) /\ h \in Nat /\ fed \in Nat /\ read \in Nat
      /\ fed <= read /\ read <= Len(stream) /\ Len(stream) \in Nat
      /\ FRAME_HEADER_LEN \in Nat /\ FRAME_HEADER_LEN >= 1 /\ CONTROL_FRAME_MAX \in Nat
      /\ CONTROL_FRAME_MAX >= 1
  BY <1>0, ReaderTypes, SMTT(30)
<1>2. /\ reader.state = "Header" /\ round /\ outcome = "reading" /\ fed < read /\ data = <<>>
      /\ fed' = fed + take /\ UNCHANGED <<serverVars, roundVars, mapVars>>
  BY DEF FeedHeader, Feeds
<1>3. /\ h < FRAME_HEADER_LEN /\ h <= fed /\ Boundary(fed - h)
      /\ \A i \in 1 .. h : reader.header[i] = fed - h + i
  BY <1>0, <1>2 DEF InHeader
<1>4. take \in Nat \ {0} /\ h + take <= FRAME_HEADER_LEN /\ fed + take <= read
  <2> DEFINE x == FRAME_HEADER_LEN - h
             y == read - fed
  <2>1. x \in Nat \ {0} /\ y \in Nat \ {0} /\ h + x = FRAME_HEADER_LEN /\ fed + y = read
    BY <1>1, <1>2, <1>3
  <2> HIDE DEF x, y
  <2>2. Min({x, y}) \in Nat \ {0} /\ Min({x, y}) <= x /\ Min({x, y}) <= y
    BY <2>1, MinTwo
  <2>3. take = Min({x, y})
    BY DEF x, y
  <2> HIDE DEF take, h
  <2> QED
    BY <1>1, <2>1, <2>2, <2>3
<1>5. /\ header \in Seq(Nat) /\ Len(header) = h + take
      /\ \A i \in 1 .. h + take : header[i] = fed - h + i
  <2>1. fed - h \in Int /\ fed - h + h = fed
    BY <1>1
  <2> QED
    BY <1>1, <1>3, <1>4, <2>1, ChunkFollows, ZenonT(60)
<1>6. Head(header) = fed - h + 1
  <2> HIDE DEF header, h, take
  <2>1. Head(header) = header[1] /\ 1 \in 1 .. h + take
    BY <1>1, <1>4, <1>5
  <2> QED
    BY <1>5, <2>1
<1>7. /\ k = stream[fed - h + 1].frame /\ k \in 1 .. Len(frames) /\ Run(take, k, h)
  <2>1. k = stream[fed - h + 1].frame
    BY <1>6
  <2> HIDE DEF take, header, k
  <2>2. fed + take <= Len(stream)
    BY <1>1, <1>4
  <2> QED
    BY <1>2, <1>4, <2>1, <2>2, HeaderRun
<1>8. Size(k) \in Nat /\ frames[k].length \in Nat /\ Size(k) = FRAME_HEADER_LEN + frames[k].length
  BY <1>0, <1>7, FrameTypes, SMTT(30) DEF Size
<1>9. \/ /\ Len(header) < FRAME_HEADER_LEN
         /\ reader' = [reader EXCEPT !.header = header]
         /\ UNCHANGED itemVars
      \/ /\ Len(header) = FRAME_HEADER_LEN
         /\ reader' = [reader EXCEPT !.header = <<>>, !.current = k, !.control = <<>>,
                          !.remaining = frames[k].length,
                          !.state = IF frames[k].length = 0 THEN "Header"
                                    ELSE IF is_control(frames[k].kind) THEN "Buffering"
                                    ELSE "Streaming"]
         /\ IF frames[k].length > 0 THEN UNCHANGED itemVars
            ELSE IF is_control(frames[k].kind) THEN EmitControl(k, <<>>)
            ELSE EmitBody(k, <<>>, TRUE)
  BY DEF FeedHeader
<1>10. UNCHANGED <<frames, stream, read>>
  BY <1>2 DEF serverVars, roundVars
<1> HIDE DEF h, take, header, k
<1>11. Uses(take, k, h)
  <2>1. h + take <= Size(k)
    BY <1>1, <1>4, <1>8
  <2> QED
    BY <1>1, <1>2, <1>4, <1>7, <2>1, Zenon DEF Uses
<1>12. /\ stream[fed + take].frame = k /\ stream[fed + take].at = h + take
  BY <1>4, <1>7 DEF Run
<1>13. CASE /\ Len(header) < FRAME_HEADER_LEN
            /\ reader' = [reader EXCEPT !.header = header]
            /\ UNCHANGED itemVars
  <2>1. /\ reader'.header = header /\ reader'.state = "Header"
        /\ reader'.pending_window = reader.pending_window
    BY <1>0, <1>2, <1>13 DEF ReaderType
  <2>2. ReaderType'
    <3>1. fed' \in 0 .. read' /\ read' \in 0 .. Len(stream)'
      BY <1>1, <1>2, <1>4, <1>10
    <3> QED
      BY <1>0, <1>5, <1>13, <3>1 DEF ReaderType
  <2>3. InHeader'
    <3>1. (fed - Len(reader.header))' = fed - h
      <4>1. fed' = fed + take /\ Len(reader'.header) = h + take
        BY <1>2, <1>5, <2>1, Zenon
      <4> QED
        BY <1>1, <1>4, <4>1
    <3>2. Boundary(fed - Len(reader.header))'
      BY <1>3, <1>10, <3>1 DEF Boundary, EndOf, Size
    <3>3. \A i \in 1 .. Len(reader'.header) : reader'.header[i] = fed - h + i
      BY <1>5, <2>1
    <3>4. \A i \in 1 .. Len(reader'.header) : reader'.header[i] = fed' - Len(reader'.header) + i
      BY <3>1, <3>3
    <3>5. Len(reader'.header) < FRAME_HEADER_LEN /\ Len(reader'.header) <= fed'
      BY <1>1, <1>2, <1>3, <1>4, <1>5, <1>13, <2>1
    <3> QED
      BY <3>2, <3>4, <3>5 DEF InHeader
  <2>4. InFrame' /\ InControl'
    BY <2>1 DEF InFrame, InControl
  <2>5. FeedStep(take, k, h)
    <3>1. h + take < Size(k) /\ h + take <= FRAME_HEADER_LEN
      BY <1>1, <1>4, <1>5, <1>8, <1>13, SMTT(30)
    <3>2. reader'.pending_window = reader.pending_window
            + (IF h >= FRAME_HEADER_LEN /\ frames[k].kind = "DATA" THEN take ELSE 0)
      BY <1>0, <1>1, <1>3, <2>1, ReaderTypes
    <3>3. Quiet(take, k, h)
      BY <1>13, <3>1, Zenon DEF Quiet
    <3> QED
      BY <1>11, <3>2, <3>3, Zenon DEF FeedStep
  <2> QED
    BY <2>2, <2>3, <2>4, <2>5 DEF ReaderInv
<1>14. CASE /\ Len(header) = FRAME_HEADER_LEN
            /\ reader' = [reader EXCEPT !.header = <<>>, !.current = k, !.control = <<>>,
                             !.remaining = frames[k].length,
                             !.state = IF frames[k].length = 0 THEN "Header"
                                       ELSE IF is_control(frames[k].kind) THEN "Buffering"
                                       ELSE "Streaming"]
            /\ IF frames[k].length > 0 THEN UNCHANGED itemVars
               ELSE IF is_control(frames[k].kind) THEN EmitControl(k, <<>>)
               ELSE EmitBody(k, <<>>, TRUE)
  <2>1. /\ reader'.header = <<>> /\ reader'.current = k /\ reader'.control = <<>>
        /\ reader'.remaining = frames[k].length
        /\ reader'.pending_window = reader.pending_window
        /\ reader'.state = IF frames[k].length = 0 THEN "Header"
                           ELSE IF is_control(frames[k].kind) THEN "Buffering" ELSE "Streaming"
    BY <1>0, <1>14 DEF ReaderType
  <2>2. h + take = FRAME_HEADER_LEN
    BY <1>5, <1>14
  <2>3. ReaderType'
    <3>1. fed' \in 0 .. read' /\ read' \in 0 .. Len(stream)'
      BY <1>1, <1>2, <1>4, <1>10
    <3>2. k \in Nat /\ <<>> \in Seq(Nat)
      BY <1>7
    <3> QED
      BY <1>0, <1>8, <1>14, <3>1, <3>2 DEF ReaderType
  <2>4. InHeader'
    <3> SUFFICES ASSUME reader'.state = "Header" PROVE InHeader'
      BY DEF InHeader
    <3>1. frames[k].length = 0
      BY <2>1
    <3>2. Len(reader'.header) = 0 /\ fed' - Len(reader'.header) = fed + take
      BY <1>1, <1>2, <1>4, <2>1
    <3>3. EndOf(fed + take) = fed + take
      BY <1>1, <1>4, <1>8, <1>12, <2>2, <3>1 DEF EndOf
    <3>4. Boundary(fed - Len(reader.header))'
      BY <1>10, <3>2, <3>3 DEF Boundary, EndOf, Size
    <3> QED
      BY <1>1, <1>2, <1>4, <3>2, <3>4 DEF InHeader
  <2>5. InFrame'
    <3> SUFFICES ASSUME reader'.state # "Header" PROVE InFrame'
      BY DEF InFrame
    <3>1. frames[k].length >= 1
      BY <1>8, <2>1
    <3>2. fed' >= 1 /\ k = stream[fed'].frame /\ stream[fed'].at = FRAME_HEADER_LEN
      BY <1>1, <1>2, <1>4, <1>12, <2>2
    <3>3. Size(k) - frames[k].length = FRAME_HEADER_LEN
      BY <1>1, <1>8
    <3>4. reader'.state = "Streaming" <=> ~is_control(frames[k].kind)
      BY <2>1
    <3> QED
      BY <1>8, <1>10, <2>1, <3>1, <3>2, <3>3, <3>4 DEF InFrame, Size
  <2>6. InControl'
    BY <1>1, <1>8, <1>10, <2>1 DEF InControl
  <2>7. FeedStep(take, k, h)
    <3>1. reader'.pending_window = reader.pending_window
            + (IF h >= FRAME_HEADER_LEN /\ frames[k].kind = "DATA" THEN take ELSE 0)
      BY <1>0, <1>1, <1>3, <2>1, ReaderTypes
    <3>2. CASE frames[k].length > 0
      <4>1. h + take < Size(k) /\ h + take <= FRAME_HEADER_LEN
        BY <1>1, <1>8, <2>2, <3>2
      <4>2. Quiet(take, k, h)
        BY <1>14, <3>2, <4>1, Zenon DEF Quiet
      <4> QED
        BY <1>11, <3>1, <4>2, Zenon DEF FeedStep
    <3>3. CASE frames[k].length = 0 /\ is_control(frames[k].kind)
      <4>1. EmitControl(k, <<>>)
        <5>1. ~(frames[k].length > 0)
          BY <3>3
        <5> QED
          BY <1>14, <3>3, <5>1, Zenon
      <4>2. ControlAt(fed + take).payload = <<>>
        <5>1. Frame(fed + take).length = 0
          BY <1>12, <3>3 DEF Frame
        <5> DEFINE p == <<>>
                   b == fed + take
                   n == frames[k].length
        <5>2. /\ b \in Nat /\ n \in Nat /\ n <= b /\ Frame(b).length = n
              /\ p \in Seq(Nat) /\ Len(p) <= n /\ Len(p) <= CONTROL_FRAME_MAX /\ Len(p) = n
              /\ \A j \in 1 .. Len(p) : p[j] = b - n + j
          BY <1>1, <1>4, <1>8, <3>3, <5>1
        <5> HIDE DEF p, b, n
        <5>3. ControlAt(b).payload = p
          BY <1>1, <5>2, PayloadIs
        <5> QED
          BY <5>3 DEF p, b
      <4>3. h + take = Size(k)
        BY <1>1, <1>8, <2>2, <3>3
      <4>4. Completes(take, k, h)
        BY <3>3, <4>1, <4>2, <4>3, Zenon DEF Completes
      <4> QED
        BY <1>11, <3>1, <4>4, Zenon DEF FeedStep
    <3>4. CASE frames[k].length = 0 /\ ~is_control(frames[k].kind)
      <4>1. h + take = Size(k) /\ ~(frames[k].length > 0)
        BY <1>1, <1>8, <2>2, <3>4
      <4>2. HandsOn(take, k, h)
        BY <1>14, <2>2, <3>4, <4>1, Zenon DEF HandsOn
      <4> QED
        BY <1>11, <3>1, <4>2, Zenon DEF FeedStep
    <3> QED
      BY <1>8, <3>2, <3>3, <3>4
  <2> QED
    BY <2>3, <2>4, <2>5, <2>6, <2>7 DEF ReaderInv
<1> QED
  BY <1>9, <1>13, <1>14

(***************************************************************************)
(* A turn in the payload uses the next bytes of the frame, and leaves the  *)
(* reader further in it or at its end.                                     *)
(***************************************************************************)
LEMMA FrameUses ==
  ASSUME StreamInv, ReaderInv, NEW st, st # "Header", NEW n \in 1 .. reader.remaining,
         fed + n <= read, Feeds(st, n),
         NEW k, k = reader.current, NEW a, a = Size(k) - reader.remaining
  PROVE  /\ Uses(n, k, a)
         /\ a \in Nat /\ a >= FRAME_HEADER_LEN /\ n \in Nat
         /\ Size(k) \in Nat /\ frames[k].length \in Nat
         /\ Size(k) = FRAME_HEADER_LEN + frames[k].length
         /\ a + n = Size(k) <=> reader.remaining = n
         /\ fed' \in 0 .. read' /\ read' \in 0 .. Len(stream)'
<1>0. StreamType /\ ReaderType /\ InFrame
  BY DEF StreamInv, ReaderInv
<1>1. /\ fed \in Nat /\ read \in Nat /\ read <= Len(stream) /\ Len(stream) \in Nat
      /\ FRAME_HEADER_LEN \in Nat /\ reader.remaining \in Nat
  BY <1>0, ReaderTypes
<1>2. /\ reader.state = st /\ round /\ outcome = "reading" /\ data = <<>>
      /\ fed' = fed + n /\ UNCHANGED <<serverVars, roundVars, mapVars>>
  BY DEF Feeds
<1>3. reader.remaining \in 1 .. frames[k].length
  BY <1>0, <1>2 DEF InFrame
<1>4. fed + n <= Len(stream) /\ n \in Nat \ {0}
  BY <1>1
<1>5. k \in 1 .. Len(frames) /\ Run(n, k, a)
  BY <1>2, <1>4, FrameRun
<1>6. Size(k) \in Nat /\ frames[k].length \in Nat /\ Size(k) = FRAME_HEADER_LEN + frames[k].length
  BY <1>0, <1>5, FrameTypes DEF Size
<1>7. /\ a \in Nat /\ a >= FRAME_HEADER_LEN /\ a + n <= Size(k)
      /\ a + n = Size(k) <=> reader.remaining = n
  <2> DEFINE r == reader.remaining
             z == Size(k)
             l == frames[k].length
  <2>1. /\ r \in Nat /\ l \in Nat /\ z = FRAME_HEADER_LEN + l /\ 1 <= r /\ r <= l
        /\ n \in Nat /\ n <= r /\ a = z - r
    BY <1>1, <1>3, <1>4, <1>6
  <2> HIDE DEF r, z, l
  <2>2. a \in Nat /\ a >= FRAME_HEADER_LEN /\ a + n <= z /\ (a + n = z <=> r = n)
    BY <1>1, <2>1
  <2> QED
    BY <2>2 DEF r, z, l
<1>8. Uses(n, k, a)
  BY <1>2, <1>4, <1>5, <1>7, Zenon DEF Uses
<1>9. UNCHANGED <<stream, read>>
  BY <1>2 DEF serverVars, roundVars
<1> QED
  BY <1>1, <1>2, <1>4, <1>6, <1>7, <1>8, <1>9

LEMMA FrameAdvance ==
  ASSUME StreamInv, ReaderInv, reader.state # "Header", NEW n \in 1 .. reader.remaining,
         fed + n <= read, UNCHANGED <<frames, stream>>, fed' = fed + n,
         reader'.header = reader.header, reader'.current = reader.current,
         reader'.remaining = reader.remaining - n,
         reader'.state = "Header" <=> reader.remaining = n,
         reader.remaining # n =>
            (reader'.state = "Streaming" <=> reader.state = "Streaming")
  PROVE  InHeader' /\ InFrame'
<1> DEFINE k == reader.current
           r == reader.remaining
<1>0. StreamType /\ ReaderType /\ InFrame
  BY DEF StreamInv, ReaderInv
<1>1. /\ fed \in Nat /\ read \in Nat /\ read <= Len(stream) /\ Len(stream) \in Nat
      /\ FRAME_HEADER_LEN \in Nat /\ FRAME_HEADER_LEN >= 1 /\ r \in Nat
  BY <1>0, ReaderTypes
<1>2. /\ r \in 1 .. frames[k].length /\ reader.header = <<>>
      /\ reader.state = "Streaming" <=> ~is_control(frames[k].kind)
  BY <1>0 DEF InFrame
<1>3. fed + n <= Len(stream) /\ n \in Nat \ {0} /\ n <= r
  BY <1>1
<1>4. k \in 1 .. Len(frames) /\ Run(n, k, Size(k) - r)
  BY <1>3, FrameRun
<1>5. Size(k) \in Nat /\ frames[k].length \in Nat
  BY <1>0, <1>4, FrameTypes
<1>6. stream[fed + n].frame = k /\ stream[fed + n].at = Size(k) - r + n
  BY <1>3, <1>4 DEF Run
<1>7. UNCHANGED <<frames, stream>> /\ reader'.header = <<>> /\ reader'.current = k
      /\ reader'.remaining = r - n
  BY <1>2
<1> HIDE DEF k, r
<1>8. InHeader'
  <2> SUFFICES ASSUME reader'.state = "Header" PROVE InHeader'
    BY DEF InHeader
  <2>1. r = n
    BY DEF r
  <2>2. Len(reader'.header) = 0 /\ fed' - Len(reader'.header) = fed + n
    BY <1>1, <1>3, <1>7
  <2>3. EndOf(fed + n) = fed + n
    BY <1>1, <1>3, <1>5, <1>6, <2>1 DEF EndOf
  <2>4. Boundary(fed - Len(reader.header))'
    BY <1>7, <2>2, <2>3 DEF Boundary, EndOf, Size
  <2> QED
    BY <1>1, <1>3, <2>2, <2>4 DEF InHeader
<1>9. InFrame'
  <2> SUFFICES ASSUME reader'.state # "Header" PROVE InFrame'
    BY DEF InFrame
  <2>1. r # n
    BY DEF r
  <2>2. r - n \in 1 .. frames[k].length /\ fed + n >= 1
        /\ Size(k) - r + n = Size(k) - (r - n)
    BY <1>1, <1>2, <1>3, <1>5, <2>1, SMTT(30)
  <2>3. reader'.state = "Streaming" <=> ~is_control(frames[k].kind)
    BY <1>2, <2>1 DEF r
  <2> QED
    BY <1>6, <1>7, <2>2, <2>3 DEF InFrame, Size
<1> QED
  BY <1>8, <1>9

LEMMA StreamingStep ==
  ASSUME StreamInv, ReaderInv, FeedStreaming
  PROVE  ReaderInv' /\ \E n, k, a : FeedStep(n, k, a)
<1> DEFINE take == Min({reader.remaining, read - fed})
           k == reader.current
           a == Size(k) - reader.remaining
<1>0. StreamType /\ ReaderType /\ InFrame
  BY DEF StreamInv, ReaderInv
<1>1. fed \in Nat /\ read \in Nat /\ reader.remaining \in Nat /\ reader.pending_window \in Nat
  BY <1>0, ReaderTypes
<1>2. Feeds("Streaming", take) /\ reader.state = "Streaming" /\ fed < read
  BY DEF FeedStreaming, Feeds
<1>3. reader.remaining >= 1 /\ ~is_control(frames[k].kind)
  BY <1>0, <1>1, <1>2 DEF InFrame
<1>4. take \in 1 .. reader.remaining /\ fed + take <= read
  <2> DEFINE y == read - fed
  <2>1. y \in Nat \ {0} /\ fed + y = read
    BY <1>1, <1>2
  <2> HIDE DEF y
  <2>2. /\ Min({reader.remaining, y}) \in Nat \ {0}
        /\ Min({reader.remaining, y}) <= reader.remaining /\ Min({reader.remaining, y}) <= y
    BY <1>1, <1>3, <2>1, MinTwo
  <2>3. take = Min({reader.remaining, y})
    BY DEF y
  <2> HIDE DEF take
  <2> QED
    BY <1>1, <2>1, <2>2, <2>3
<1>5. reader' = [reader EXCEPT !.remaining = reader.remaining - take,
                     !.state = IF reader.remaining = take THEN "Header" ELSE "Streaming",
                     !.pending_window = IF frames[k].kind = "DATA"
                                        THEN reader.pending_window + take
                                        ELSE reader.pending_window]
  BY DEF FeedStreaming
<1>6. EmitBody(k, Chunk(take), reader.remaining = take)
  BY DEF FeedStreaming
<1> HIDE DEF take
<1>7. /\ Uses(take, k, a) /\ a >= FRAME_HEADER_LEN
      /\ a + take = Size(k) <=> reader.remaining = take
      /\ fed' \in 0 .. read' /\ read' \in 0 .. Len(stream)'
  BY <1>2, <1>4, FrameUses
<1>8. /\ reader'.header = reader.header /\ reader'.current = reader.current
      /\ reader'.remaining = reader.remaining - take /\ reader'.control = reader.control
      /\ reader'.state = IF reader.remaining = take THEN "Header" ELSE "Streaming"
      /\ reader'.pending_window = IF frames[k].kind = "DATA"
                                  THEN reader.pending_window + take ELSE reader.pending_window
  BY <1>0, <1>5 DEF ReaderType
<1>9. UNCHANGED <<frames, stream>> /\ fed' = fed + take
  BY <1>7, Zenon DEF Uses, serverVars
<1>10. InHeader' /\ InFrame'
  BY <1>2, <1>4, <1>8, <1>9, FrameAdvance
<1>11. InControl'
  BY <1>8 DEF InControl
<1>12. ReaderType'
  <2>1. /\ reader.remaining - take \in Nat
        /\ (IF frames[k].kind = "DATA" THEN reader.pending_window + take
            ELSE reader.pending_window) \in Nat
    BY <1>1, <1>4
  <2> QED
    BY <1>0, <1>5, <1>7, <2>1 DEF ReaderType
<1>13. FeedStep(take, k, a)
  <2>1. reader'.pending_window = reader.pending_window
          + (IF a >= FRAME_HEADER_LEN /\ frames[k].kind = "DATA" THEN take ELSE 0)
    BY <1>1, <1>7, <1>8
  <2>2. HandsOn(take, k, a)
    BY <1>3, <1>6, <1>7, Zenon DEF HandsOn
  <2> QED
    BY <1>7, <2>1, <2>2, Zenon DEF FeedStep
<1> QED
  BY <1>10, <1>11, <1>12, <1>13 DEF ReaderInv

LEMMA DrainingStep ==
  ASSUME StreamInv, ReaderInv, FeedDraining
  PROVE  ReaderInv' /\ \E n, k, a : FeedStep(n, k, a)
<1> DEFINE take == Min({reader.remaining, read - fed})
           k == reader.current
           a == Size(k) - reader.remaining
<1>0. StreamType /\ ReaderType /\ InFrame /\ InControl
  BY DEF StreamInv, ReaderInv
<1>1. /\ fed \in Nat /\ read \in Nat /\ reader.remaining \in Nat /\ reader.pending_window \in Nat
      /\ reader.control \in Seq(Nat) /\ CONTROL_FRAME_MAX \in Nat /\ read <= Len(stream)
      /\ Len(stream) \in Nat
  BY <1>0, ReaderTypes
<1>2. Feeds("Draining", take) /\ reader.state = "Draining" /\ fed < read
  BY DEF FeedDraining, Feeds
<1>3. /\ reader.remaining >= 1 /\ is_control(frames[k].kind)
      /\ reader.remaining <= frames[k].length
  BY <1>0, <1>1, <1>2 DEF InFrame
<1>4. take \in 1 .. reader.remaining /\ fed + take <= read
  <2> DEFINE y == read - fed
  <2>1. y \in Nat \ {0} /\ fed + y = read
    BY <1>1, <1>2
  <2> HIDE DEF y
  <2>2. /\ Min({reader.remaining, y}) \in Nat \ {0}
        /\ Min({reader.remaining, y}) <= reader.remaining /\ Min({reader.remaining, y}) <= y
    BY <1>1, <1>3, <2>1, MinTwo
  <2>3. take = Min({reader.remaining, y})
    BY DEF y
  <2> HIDE DEF take
  <2> QED
    BY <1>1, <2>1, <2>2, <2>3
<1>5. reader' = [reader EXCEPT !.remaining = reader.remaining - take,
                     !.state = IF reader.remaining = take THEN "Header" ELSE "Draining"]
  BY DEF FeedDraining
<1>6. IF reader.remaining = take THEN EmitControl(k, reader.control) ELSE UNCHANGED itemVars
  BY DEF FeedDraining
<1> HIDE DEF take
<1>7. /\ Uses(take, k, a) /\ a >= FRAME_HEADER_LEN /\ a \in Nat
      /\ a + take = Size(k) <=> reader.remaining = take
      /\ fed' \in 0 .. read' /\ read' \in 0 .. Len(stream)'
      /\ Size(k) \in Nat /\ frames[k].length \in Nat /\ Size(k) = FRAME_HEADER_LEN + frames[k].length
  BY <1>2, <1>4, FrameUses
<1>8. /\ reader'.header = reader.header /\ reader'.current = reader.current
      /\ reader'.remaining = reader.remaining - take /\ reader'.control = reader.control
      /\ reader'.state = IF reader.remaining = take THEN "Header" ELSE "Draining"
      /\ reader'.pending_window = reader.pending_window
  BY <1>0, <1>5 DEF ReaderType
<1>9. UNCHANGED <<frames, stream>> /\ fed' = fed + take /\ Run(take, k, a) /\ a + take <= Size(k)
      /\ k \in 1 .. Len(frames)
  BY <1>7, Zenon DEF Uses, serverVars
<1>10. InHeader' /\ InFrame'
  BY <1>2, <1>4, <1>8, <1>9, FrameAdvance
<1> DEFINE c == reader.control
           l == frames[k].length
           r == reader.remaining
<1>11. /\ Len(c) = CONTROL_FRAME_MAX /\ CONTROL_FRAME_MAX <= l - r
       /\ \A j \in 1 .. Len(c) : c[j] = fed - (l - r) + j
  BY <1>0, <1>2 DEF InControl
<1>12. l \in Nat /\ r \in Nat /\ take \in Nat /\ take <= r /\ r <= l
  BY <1>1, <1>3, <1>4, <1>7
<1>13. InControl'
  <2> SUFFICES ASSUME reader'.state = "Draining" PROVE InControl'
    BY <1>8 DEF InControl
  <2>1. fed' - (l - (r - take)) = fed - (l - r) /\ CONTROL_FRAME_MAX <= l - (r - take)
    <3> HIDE DEF l, r, c, k
    <3> QED
      BY <1>1, <1>9, <1>11, <1>12
  <2>2. /\ frames'[reader'.current].length - reader'.remaining = l - (r - take)
        /\ reader'.control = c
    BY <1>8, <1>9
  <2>3. \A j \in 1 .. Len(c) : c[j] = fed' - (l - (r - take)) + j
    BY <1>11, <2>1
  <2> QED
    BY <1>11, <2>1, <2>2, <2>3 DEF InControl
<1>14. ReaderType'
  <2>1. reader.remaining - take \in Nat
    BY <1>1, <1>4
  <2> QED
    BY <1>0, <1>5, <1>7, <2>1 DEF ReaderType
<1>15. FeedStep(take, k, a)
  <2>1. frames[k].kind # "DATA"
    BY <1>3 DEF is_control, ControlKinds
  <2>2. reader'.pending_window = reader.pending_window
          + (IF a >= FRAME_HEADER_LEN /\ frames[k].kind = "DATA" THEN take ELSE 0)
    BY <1>1, <1>8, <2>1
  <2>3. CASE reader.remaining = take
    <3> DEFINE b == fed + take
    <3>1. stream[b].frame = k /\ stream[b].at = Size(k)
      BY <1>4, <1>7, <1>9, <2>3 DEF Run
    <3>2. b \in 1 .. Len(stream)
      BY <1>1, <1>4
    <3>3. Frame(b).length = l /\ l <= b
      <4>1. stream[b].at <= b /\ b \in Nat
        BY <3>2, ByteTypes
      <4> HIDE DEF b
      <4> QED
        BY <1>7, <3>1, <4>1, H2Assumption DEF Frame
    <3>4. \A j \in 1 .. Len(c) : c[j] = b - l + j
      <4>1. fed - (l - r) = b - l
        <5> HIDE DEF l, r, c, k
        <5> QED
          BY <1>1, <1>12, <2>3 DEF r
      <4> QED
        BY <1>11, <4>1
    <3>5. /\ c \in Seq(Nat) /\ Len(c) <= l /\ b \in Nat /\ l \in Nat
          /\ Len(c) = CONTROL_FRAME_MAX /\ Len(c) <= CONTROL_FRAME_MAX /\ CONTROL_FRAME_MAX \in Nat
      <4>1. Len(c) <= l
        <5> HIDE DEF l, r, c, k
        <5> QED
          BY <1>1, <1>11, <1>12
      <4> QED
        BY <1>1, <1>4, <1>11, <1>12, <4>1
    <3> HIDE DEF b, c, l
    <3>6. ControlAt(b).payload = c
      BY <3>3, <3>4, <3>5, PayloadIs
    <3>7. EmitControl(k, ControlAt(fed + take).payload)
      BY <1>6, <2>3, <3>6, Zenon DEF b, c
    <3>8. Completes(take, k, a)
      BY <1>3, <1>7, <2>3, <3>7, Zenon DEF Completes
    <3> QED
      BY <1>7, <2>2, <3>8, Zenon DEF FeedStep
  <2>4. CASE reader.remaining # take
    <3>1. a + take < Size(k)
      BY <1>4, <1>7, <1>9, <2>4
    <3>2. Quiet(take, k, a)
      BY <1>3, <1>6, <2>4, <3>1, Zenon DEF Quiet
    <3> QED
      BY <1>7, <2>2, <3>2, Zenon DEF FeedStep
  <2> QED
    BY <2>3, <2>4
<1> QED
  BY <1>10, <1>13, <1>14, <1>15 DEF ReaderInv

LEMMA BufferingStep ==
  ASSUME StreamInv, ReaderInv, FeedBuffering
  PROVE  ReaderInv' /\ \E n, k, a : FeedStep(n, k, a)
<1> DEFINE take == Min({reader.remaining, read - fed, CONTROL_FRAME_MAX - Len(reader.control)})
           c == reader.control \o Chunk(take)
           k == reader.current
           a == Size(k) - reader.remaining
           l == frames[k].length
           r == reader.remaining
           had == Len(reader.control)
<1>0. StreamType /\ ReaderType /\ InFrame /\ InControl
  BY DEF StreamInv, ReaderInv
<1>1. /\ fed \in Nat /\ read \in Nat /\ r \in Nat /\ reader.pending_window \in Nat
      /\ reader.control \in Seq(Nat) /\ had \in Nat /\ CONTROL_FRAME_MAX \in Nat
      /\ read <= Len(stream) /\ Len(stream) \in Nat
  BY <1>0, ReaderTypes
<1>2. Feeds("Buffering", take) /\ reader.state = "Buffering" /\ fed < read
  BY DEF FeedBuffering, Feeds
<1>3. /\ r >= 1 /\ is_control(frames[k].kind) /\ r <= l
  BY <1>0, <1>1, <1>2 DEF InFrame
<1>4. /\ had = l - r /\ had < CONTROL_FRAME_MAX
      /\ \A j \in 1 .. Len(reader.control) : reader.control[j] = fed - (l - r) + j
  BY <1>0, <1>2 DEF InControl
<1>5. take \in 1 .. r /\ fed + take <= read /\ had + take <= CONTROL_FRAME_MAX
  <2> DEFINE y == read - fed
             z == CONTROL_FRAME_MAX - had
  <2>1. /\ y \in Nat \ {0} /\ fed + y = read
        /\ z \in Nat \ {0} /\ had + z = CONTROL_FRAME_MAX
    BY <1>1, <1>2, <1>4, SMTT(30)
  <2>2. take = Min({r, y, z})
    OBVIOUS
  <2> HIDE DEF y, z, take, r, had
  <2>3. take \in Nat \ {0} /\ take <= r /\ take <= y /\ take <= z
    BY <1>1, <1>3, <2>1, <2>2, MinThree
  <2> QED
    BY <1>1, <2>1, <2>3
<1>6. /\ reader' = [reader EXCEPT !.control = c, !.remaining = reader.remaining - take,
                     !.state = IF reader.remaining = take THEN "Header"
                               ELSE IF Len(c) = CONTROL_FRAME_MAX THEN "Draining"
                               ELSE "Buffering"]
  BY DEF FeedBuffering
<1>7. IF reader.remaining = take THEN EmitControl(k, c) ELSE UNCHANGED itemVars
  BY DEF FeedBuffering
<1>8. c \in Seq(Nat) /\ Len(c) = had + take
      /\ \A j \in 1 .. had + take : c[j] = fed - had + j
  <2>1. fed - had \in Int /\ fed - had + had = fed /\ take \in Nat
    BY <1>1, <1>5
  <2>2. \A j \in 1 .. Len(reader.control) : reader.control[j] = fed - had + j
    BY <1>4
  <2> HIDE DEF take
  <2> QED
    BY <1>1, <2>1, <2>2, ChunkFollows
<1> HIDE DEF take, c
<1>9. /\ Uses(take, k, a) /\ a >= FRAME_HEADER_LEN /\ a \in Nat
      /\ a + take = Size(k) <=> reader.remaining = take
      /\ fed' \in 0 .. read' /\ read' \in 0 .. Len(stream)'
      /\ Size(k) \in Nat /\ frames[k].length \in Nat /\ Size(k) = FRAME_HEADER_LEN + frames[k].length
  BY <1>2, <1>5, FrameUses
<1>10. /\ reader'.header = reader.header /\ reader'.current = reader.current
       /\ reader'.remaining = reader.remaining - take /\ reader'.control = c
       /\ reader'.state = IF reader.remaining = take THEN "Header"
                          ELSE IF Len(c) = CONTROL_FRAME_MAX THEN "Draining" ELSE "Buffering"
       /\ reader'.pending_window = reader.pending_window
  BY <1>0, <1>6 DEF ReaderType
<1>11. UNCHANGED <<frames, stream>> /\ fed' = fed + take /\ Run(take, k, a) /\ a + take <= Size(k)
       /\ k \in 1 .. Len(frames)
  BY <1>9, Zenon DEF Uses, serverVars
<1>12. InHeader' /\ InFrame'
  BY <1>2, <1>5, <1>10, <1>11, FrameAdvance
<1>13. l \in Nat /\ r \in Nat /\ take \in Nat /\ take <= r /\ r <= l
  BY <1>1, <1>3, <1>5, <1>9
<1>14. InControl'
  <2>1. /\ fed' - (l - (r - take)) = fed - had /\ l - (r - take) = had + take
        /\ had + take <= CONTROL_FRAME_MAX
    <3> HIDE DEF l, r, had, k
    <3> QED
      BY <1>1, <1>4, <1>5, <1>11, <1>13
  <2>2. frames'[reader'.current].length - reader'.remaining = l - (r - take)
    BY <1>10, <1>11
  <2>3. \A j \in 1 .. Len(c) : c[j] = fed' - (l - (r - take)) + j
    BY <1>8, <2>1
  <2>4. /\ reader'.state = "Buffering" => had + take < CONTROL_FRAME_MAX
        /\ reader'.state = "Draining" => had + take = CONTROL_FRAME_MAX
    <3> HIDE DEF l, r, had, k
    <3> QED
      BY <1>1, <1>5, <1>8, <1>10
  <2> HIDE DEF l, r, had, k
  <2> QED
    BY <1>8, <1>10, <2>1, <2>2, <2>3, <2>4 DEF InControl
<1>15. ReaderType'
  <2>1. reader.remaining - take \in Nat
    BY <1>1, <1>5
  <2> QED
    BY <1>0, <1>6, <1>8, <1>9, <2>1 DEF ReaderType
<1>16. FeedStep(take, k, a)
  <2>1. frames[k].kind # "DATA"
    BY <1>3 DEF is_control, ControlKinds
  <2>2. reader'.pending_window = reader.pending_window
          + (IF a >= FRAME_HEADER_LEN /\ frames[k].kind = "DATA" THEN take ELSE 0)
    BY <1>1, <1>10, <2>1
  <2>3. CASE reader.remaining = take
    <3> DEFINE b == fed + take
    <3>1. stream[b].frame = k /\ stream[b].at = Size(k)
      BY <1>5, <1>9, <1>11, <2>3 DEF Run
    <3>2. b \in 1 .. Len(stream)
      BY <1>1, <1>5
    <3>3. Frame(b).length = l /\ l <= b
      <4>1. stream[b].at <= b /\ b \in Nat
        BY <3>2, ByteTypes
      <4> HIDE DEF b
      <4> QED
        BY <1>9, <3>1, <4>1, H2Assumption DEF Frame
    <3>4. /\ Len(c) = l /\ fed - had = b - l /\ b \in Nat /\ l \in Nat
          /\ c \in Seq(Nat) /\ Len(c) <= l /\ Len(c) <= CONTROL_FRAME_MAX
      <4>1. /\ had = l - r /\ r = take /\ Len(c) = had + take /\ c \in Seq(Nat)
            /\ had + take <= CONTROL_FRAME_MAX
        BY <1>4, <1>5, <1>8, <2>3
      <4> HIDE DEF l, had, k, r
      <4> QED
        BY <1>1, <1>13, <4>1
    <3>5. \A j \in 1 .. Len(c) : c[j] = b - l + j
      BY <1>8, <3>4
    <3> HIDE DEF b, l
    <3>6. ControlAt(b).payload = c
      BY <1>1, <3>3, <3>4, <3>5, PayloadIs
    <3>7. EmitControl(k, ControlAt(fed + take).payload)
      BY <1>7, <2>3, <3>6, Zenon DEF b
    <3>8. Completes(take, k, a)
      BY <1>3, <1>9, <2>3, <3>7, Zenon DEF Completes
    <3> QED
      BY <1>9, <2>2, <3>8, Zenon DEF FeedStep
  <2>4. CASE reader.remaining # take
    <3>1. a + take < Size(k)
      BY <1>5, <1>9, <1>11, <2>4
    <3>2. Quiet(take, k, a)
      BY <1>3, <1>7, <2>4, <3>1, Zenon DEF Quiet
    <3> QED
      BY <1>9, <2>2, <3>2, Zenon DEF FeedStep
  <2> QED
    BY <2>3, <2>4
<1> QED
  BY <1>12, <1>14, <1>15, <1>16 DEF ReaderInv

(***************************************************************************)
(* Every turn of the reader is such a step and keeps its invariant.        *)
(***************************************************************************)
LEMMA FeedIsStep ==
  ASSUME StreamInv, ReaderInv, Feed
  PROVE  ReaderInv' /\ \E n, k, a : FeedStep(n, k, a)
BY HeaderStep, BufferingStep, DrainingStep, StreamingStep, Zenon DEF Feed

-----------------------------------------------------------------------------
(* What such a step does to the bytes counted as fed.                      *)

LEMMA UsesTypes ==
  ASSUME StreamInv, ReaderInv, NEW n, NEW k, NEW a, Uses(n, k, a)
  PROVE  /\ n \in Nat /\ n >= 1 /\ a \in Nat /\ k \in 1 .. Len(frames) /\ k \in Nat
         /\ fed \in Nat /\ Len(stream) \in Nat /\ fed + n <= Len(stream)
         /\ FRAME_HEADER_LEN \in Nat /\ Size(k) \in Nat /\ a + n <= Size(k)
         /\ a + n <= FRAME_HEADER_LEN \/ a >= FRAME_HEADER_LEN
         /\ frames[k].length \in Nat /\ Size(k) = FRAME_HEADER_LEN + frames[k].length
         /\ UNCHANGED <<host, frames, stream, connWindow, read, round, credit>> /\ fed' = fed + n
         /\ UNCHANGED <<splitter, current, netmap, netmaps>>
<1>0. StreamType /\ ReaderType
  BY DEF StreamInv, ReaderInv
<1>1. /\ n \in Nat \ {0} /\ a \in Nat /\ k \in 1 .. Len(frames) /\ fed + n <= read
      /\ a + n <= Size(k) /\ (a + n <= FRAME_HEADER_LEN \/ a >= FRAME_HEADER_LEN)
      /\ fed' = fed + n
  BY Zenon DEF Uses
<1>2. /\ UNCHANGED <<host, frames, stream, connWindow, read, round, credit>>
      /\ UNCHANGED <<splitter, current, netmap, netmaps>>
  BY DEF Uses, serverVars, roundVars, mapVars
<1>3. fed \in Nat /\ read \in Nat /\ read <= Len(stream) /\ Len(stream) \in Nat
      /\ FRAME_HEADER_LEN \in Nat
  BY <1>0, ReaderTypes
<1>4. frames[k].length \in Nat /\ Size(k) \in Nat /\ Size(k) = FRAME_HEADER_LEN + frames[k].length
  BY <1>0, <1>1, FrameTypes DEF Size
<1>5. n \in Nat /\ n >= 1 /\ k \in Nat /\ fed + n <= Len(stream)
  BY <1>1, <1>3
<1> QED
  BY <1>1, <1>2, <1>3, <1>4, <1>5

(***************************************************************************)
(* The bytes of a step, apart from those before them.                      *)
(***************************************************************************)
LEMMA UsesBytes ==
  ASSUME StreamInv, ReaderInv, NEW n, NEW k, NEW a, Uses(n, k, a)
  PROVE  /\ 1 .. (fed + n) = (1 .. fed) \cup ((fed + 1) .. (fed + n))
         /\ ((fed + 1) .. Len(stream)) = ((fed + 1) .. (fed + n)) \cup ((fed + n + 1) .. Len(stream))
         /\ \A b \in (fed + 1) .. (fed + n) :
               /\ stream[b].frame = k /\ stream[b].at = a + (b - fed)
               /\ stream[b].at > FRAME_HEADER_LEN <=> a >= FRAME_HEADER_LEN
               /\ stream[b].at = Size(k) <=> (b = fed + n /\ a + n = Size(k))
<1>1. /\ n \in Nat /\ a \in Nat /\ fed \in Nat /\ Len(stream) \in Nat /\ fed + n <= Len(stream)
      /\ FRAME_HEADER_LEN \in Nat /\ Size(k) \in Nat /\ a + n <= Size(k)
      /\ a + n <= FRAME_HEADER_LEN \/ a >= FRAME_HEADER_LEN
  BY UsesTypes
<1>2. /\ 1 .. (fed + n) = (1 .. fed) \cup ((fed + 1) .. (fed + n))
      /\ ((fed + 1) .. Len(stream)) = ((fed + 1) .. (fed + n)) \cup ((fed + n + 1) .. Len(stream))
  BY <1>1
<1>3. ASSUME NEW b \in (fed + 1) .. (fed + n)
      PROVE  /\ stream[b].frame = k /\ stream[b].at = a + (b - fed)
             /\ stream[b].at > FRAME_HEADER_LEN <=> a >= FRAME_HEADER_LEN
             /\ stream[b].at = Size(k) <=> (b = fed + n /\ a + n = Size(k))
  <2> DEFINE i == b - fed
             z == Size(k)
  <2>1. i \in 1 .. n /\ b = fed + i /\ i \in Nat /\ 1 <= i /\ i <= n
    BY <1>1
  <2> HIDE DEF i
  <2>2. stream[fed + i].frame = k /\ stream[fed + i].at = a + i
    BY <2>1 DEF Uses, Run
  <2> HIDE DEF z
  <2>3. /\ a + i > FRAME_HEADER_LEN <=> a >= FRAME_HEADER_LEN
        /\ a + i = z <=> (fed + i = fed + n /\ a + n = z)
    BY <1>1, <2>1 DEF z
  <2> QED
    BY <2>1, <2>2, <2>3 DEF i, z
<1> QED
  BY <1>2, <1>3

LEMMA OwnDataStep ==
  ASSUME StreamInv, ReaderInv, NEW n, NEW k, NEW a, Uses(n, k, a)
  PROVE  OwnData(fed)' =
           IF a >= FRAME_HEADER_LEN /\ frames[k].kind = "DATA" /\ frames[k].own
           THEN OwnData(fed) \cup ((fed + 1) .. (fed + n)) ELSE OwnData(fed)
<1> DEFINE P(b) == /\ stream[b].at > FRAME_HEADER_LEN
                   /\ frames[stream[b].frame].kind = "DATA" /\ frames[stream[b].frame].own
           new == (fed + 1) .. (fed + n)
<1>1. OwnData(fed)' = {b \in 1 .. (fed + n) : P(b)} /\ OwnData(fed) = {b \in 1 .. fed : P(b)}
  <2>1. fed' = fed + n /\ UNCHANGED <<frames, stream>>
    BY UsesTypes
  <2> QED
    BY <2>1 DEF OwnData
<1>2. 1 .. (fed + n) = (1 .. fed) \cup new
  BY UsesBytes
<1>3. \A b \in new : P(b) <=> a >= FRAME_HEADER_LEN /\ frames[k].kind = "DATA" /\ frames[k].own
  BY UsesBytes
<1> HIDE DEF P, new
<1>4. {b \in 1 .. (fed + n) : P(b)} = {b \in 1 .. fed : P(b)} \cup {b \in new : P(b)}
  BY <1>2
<1>5. {b \in new : P(b)} =
        IF a >= FRAME_HEADER_LEN /\ frames[k].kind = "DATA" /\ frames[k].own THEN new ELSE {}
  BY <1>3
<1> QED
  BY <1>1, <1>4, <1>5 DEF new

LEMMA ControlEndsStep ==
  ASSUME StreamInv, ReaderInv, NEW n, NEW k, NEW a, Uses(n, k, a)
  PROVE  ControlEnds' =
           IF a + n = Size(k) /\ is_control(frames[k].kind)
           THEN ControlEnds \cup {fed + n} ELSE ControlEnds
<1> DEFINE P(b) == /\ stream[b].at = FRAME_HEADER_LEN + frames[stream[b].frame].length
                   /\ is_control(frames[stream[b].frame].kind)
           new == (fed + 1) .. (fed + n)
           last == fed + n
<1>1. ControlEnds' = {b \in 1 .. (fed + n) : P(b)} /\ ControlEnds = {b \in 1 .. fed : P(b)}
  <2>1. fed' = fed + n /\ UNCHANGED <<frames, stream>>
    BY UsesTypes
  <2> QED
    BY <2>1 DEF ControlEnds, Frame
<1>2. 1 .. (fed + n) = (1 .. fed) \cup new
  BY UsesBytes
<1>3. \A b \in new : P(b) <=> (b = last /\ a + n = Size(k) /\ is_control(frames[k].kind))
  BY UsesBytes DEF Size
<1>4. last \in new
  BY UsesTypes
<1> HIDE DEF P, new, last
<1>5. {b \in 1 .. (fed + n) : P(b)} = {b \in 1 .. fed : P(b)} \cup {b \in new : P(b)}
  BY <1>2
<1>6. {b \in new : P(b)} =
        IF a + n = Size(k) /\ is_control(frames[k].kind) THEN {last} ELSE {}
  BY <1>3, <1>4
<1> QED
  BY <1>1, <1>5, <1>6 DEF last

(***************************************************************************)
(* DATA bytes that come out of flight are owed as credit.                  *)
(***************************************************************************)
InFlightBytes == {b \in fed + 1 .. Len(stream) : InPayload(b) /\ Frame(b).kind = "DATA"}

LEMMA InFlightStep ==
  ASSUME StreamInv, ReaderInv, NEW n, NEW k, NEW a, Uses(n, k, a)
  PROVE  Cardinality(InFlightBytes) = Cardinality(InFlightBytes')
           + (IF a >= FRAME_HEADER_LEN /\ frames[k].kind = "DATA" THEN n ELSE 0)
<1> DEFINE P(b) == /\ stream[b].at > FRAME_HEADER_LEN
                   /\ frames[stream[b].frame].kind = "DATA"
           new == (fed + 1) .. (fed + n)
           rest == (fed + n + 1) .. Len(stream)
           after == {b \in rest : P(b)}
<1>1. /\ n \in Nat /\ fed \in Nat /\ Len(stream) \in Nat /\ fed' = fed + n
      /\ UNCHANGED <<frames, stream>>
  BY UsesTypes
<1>2. InFlightBytes = {b \in (fed + 1) .. Len(stream) : P(b)} /\ InFlightBytes' = after
  BY <1>1 DEF InFlightBytes, InPayload, Frame
<1>3. (fed + 1) .. Len(stream) = new \cup rest
  BY UsesBytes
<1>4. \A b \in new : P(b) <=> a >= FRAME_HEADER_LEN /\ frames[k].kind = "DATA"
  BY UsesBytes
<1>5. rest \cap new = {}
  BY <1>1
<1>6. IsFiniteSet(after) /\ Cardinality(after) \in Nat
  <2> DEFINE lo == fed + n + 1
             hi == Len(stream)
  <2>1. lo \in Int /\ hi \in Int
    BY <1>1
  <2> HIDE DEF lo, hi
  <2>2. after \in SUBSET (lo .. hi)
    BY DEF lo, hi
  <2> HIDE DEF after
  <2> QED
    BY <2>1, <2>2, PartFinite
<1> HIDE DEF P, new, rest
<1>7. CASE a >= FRAME_HEADER_LEN /\ frames[k].kind = "DATA"
  <2>1. InFlightBytes = after \cup new /\ after \cap new = {}
    BY <1>2, <1>3, <1>4, <1>5, <1>7
  <2>2. Cardinality(after \cup new) = Cardinality(after) + n
    BY <1>1, <1>6, <2>1, AddInterval DEF new
  <2> QED
    BY <1>2, <1>7, <2>1, <2>2
<1>8. CASE ~(a >= FRAME_HEADER_LEN /\ frames[k].kind = "DATA")
  <2>1. InFlightBytes = after
    BY <1>2, <1>3, <1>4, <1>8
  <2>2. Cardinality(InFlightBytes) = Cardinality(InFlightBytes')
    BY <1>2, <2>1, Zenon
  <2>3. Cardinality(InFlightBytes') \in Nat
    BY <1>2, <1>6, Zenon
  <2>4. Cardinality(InFlightBytes) = Cardinality(InFlightBytes') + 0
    BY <2>2, <2>3
  <2> QED
    BY <1>8, <2>4, Zenon
<1> QED
  BY <1>7, <1>8

LEMMA CreditStep ==
  ASSUME StreamInv, ReaderInv, CreditInv, NEW n, NEW k, NEW a, FeedStep(n, k, a)
  PROVE  CreditInv'
<1> DEFINE x == IF a >= FRAME_HEADER_LEN /\ frames[k].kind = "DATA" THEN n ELSE 0
<1>1. Uses(n, k, a) /\ reader'.pending_window = reader.pending_window + x
  BY Zenon DEF FeedStep
<1>2. UNCHANGED <<connWindow, credit>> /\ n \in Nat
  BY <1>1, UsesTypes
<1>3. Cardinality(InFlightBytes) = Cardinality(InFlightBytes') + x
  BY <1>1, InFlightStep
<1>4. Cardinality(InFlightBytes') \in Nat
  <2> DEFINE lo == fed' + 1
             hi == Len(stream')
  <2>1. lo \in Int /\ hi \in Int
    BY <1>1, UsesTypes
  <2>2. InFlightBytes' \in SUBSET (lo .. hi)
    BY DEF InFlightBytes
  <2> HIDE DEF lo, hi
  <2> QED
    BY <2>1, <2>2, PartFinite
<1>5. reader.pending_window \in Nat
  BY ReaderTypes DEF ReaderInv, StreamInv
<1>6. x \in Nat
  BY <1>2
<1> HIDE DEF x
<1>7. CreditConserved'
  BY <1>1, <1>2, <1>3, <1>4, <1>5, <1>6, H2Assumption
     DEF CreditInv, CreditConserved, InFlight, InFlightBytes
<1> QED
  BY <1>2, <1>7 DEF CreditInv

(***************************************************************************)
(* A step hands the bytes of this request's DATA to on_data and no others. *)
(***************************************************************************)
OwnBytes(k, a) == a >= FRAME_HEADER_LEN /\ frames[k].kind = "DATA" /\ frames[k].own

LEMMA BodyItems ==
  ASSUME StreamInv, ReaderInv, BodyInv, NEW n, NEW k, NEW a, FeedStep(n, k, a)
  PROVE  IF OwnBytes(k, a)
         THEN body' = body \o Chunk(n) /\ data' = [i \in 1 .. n |-> Len(body) + i]
         ELSE body' = body /\ data' = <<>>
<1>1. Uses(n, k, a) /\ data = <<>>
  BY Zenon DEF FeedStep, Uses
<1>2. n \in Nat /\ n >= 1 /\ a \in Nat /\ FRAME_HEADER_LEN \in Nat /\ fed \in Nat
  BY <1>1, UsesTypes
<1>3. Len(Chunk(n)) = n
  BY <1>2, ChunkIs
<1>4. CASE Quiet(n, k, a)
  <2>1. UNCHANGED <<body, data>>
    BY <1>4 DEF Quiet, itemVars
  <2>2. ~OwnBytes(k, a)
    BY <1>2, <1>4 DEF Quiet, OwnBytes, is_control, ControlKinds
  <2> QED
    BY <1>1, <2>1, <2>2
<1>5. CASE Completes(n, k, a)
  <2>1. UNCHANGED <<body, data>>
    BY <1>5 DEF Completes, EmitControl
  <2>2. ~OwnBytes(k, a)
    BY <1>5 DEF Completes, OwnBytes, is_control, ControlKinds
  <2> QED
    BY <1>1, <2>1, <2>2
<1>6. CASE HandsOn(n, k, a)
  <2>1. CASE \E end \in BOOLEAN : EmitBody(k, Chunk(n), end) /\ a >= FRAME_HEADER_LEN
    <3>1. PICK end \in BOOLEAN : EmitBody(k, Chunk(n), end)
      BY <2>1
    <3>2. \/ /\ frames[k].kind = "DATA" /\ frames[k].own
             /\ body' = body \o Chunk(n)
             /\ data' = [i \in 1 .. Len(Chunk(n)) |-> Len(body) + i]
          \/ /\ ~(frames[k].kind = "DATA" /\ frames[k].own)
             /\ body' = body /\ data' = data
      BY <3>1 DEF EmitBody
    <3> QED
      BY <1>1, <1>3, <2>1, <3>2, Zenon DEF OwnBytes
  <2>2. CASE a + n = FRAME_HEADER_LEN /\ EmitBody(k, <<>>, TRUE)
    <3>1. body \o <<>> = body
      BY DEF BodyInv
    <3>2. [i \in 1 .. Len(<<>>) |-> Len(body) + i] = <<>>
      OBVIOUS
    <3>3. body' = body /\ data' = <<>>
      <4>1. \/ /\ body' = body \o <<>>
               /\ data' = [i \in 1 .. Len(<<>>) |-> Len(body) + i]
            \/ body' = body /\ data' = data
        BY <2>2, Zenon DEF EmitBody
      <4> QED
        BY <1>1, <3>1, <3>2, <4>1, Zenon
    <3>4. ~OwnBytes(k, a)
      BY <1>2, <2>2 DEF OwnBytes
    <3> QED
      BY <3>3, <3>4
  <2> QED
    BY <1>6, <2>1, <2>2, Zenon DEF HandsOn
<1> QED
  BY <1>4, <1>5, <1>6, Zenon DEF FeedStep

LEMMA BodyStep ==
  ASSUME StreamInv, ReaderInv, BodyInv, NEW n, NEW k, NEW a, FeedStep(n, k, a)
  PROVE  BodyInv'
<1> DEFINE new == (fed + 1) .. (fed + n)
           t == Chunk(n)
           old == OwnData(fed)
<1>1. Uses(n, k, a)
  BY Zenon DEF FeedStep
<1>2. n \in Nat /\ fed \in Nat
  BY <1>1, UsesTypes
<1>3. OwnData(fed)' = IF OwnBytes(k, a) THEN old \cup new ELSE old
  BY <1>1, OwnDataStep DEF OwnBytes
<1>4. body \in Seq(Nat) /\ Lists(body, old)
  BY DEF BodyInv, BodyExact
<1>5. CASE OwnBytes(k, a)
  <2>1. t \in Seq(Nat) /\ Len(t) = n /\ \A i \in 1 .. n : t[i] = fed + i
    BY <1>2, ChunkIs
  <2>2. Lists(t, new)
    <3>1. DOMAIN t = 1 .. n
      BY <2>1
    <3>2. Range(t) = {t[i] : i \in 1 .. n}
      BY <3>1 DEF Range
    <3> HIDE DEF t
    <3>3. \A b \in new : \E i \in 1 .. n : b = t[i]
      <4> SUFFICES ASSUME NEW b \in new PROVE \E i \in 1 .. n : b = t[i]
        OBVIOUS
      <4>1. b - fed \in 1 .. n /\ fed + (b - fed) = b
        BY <1>2
      <4> QED
        BY <2>1, <4>1
    <3>4. \A i \in 1 .. n : t[i] \in new
      BY <1>2, <2>1
    <3>5. \A i, j \in 1 .. n : i < j => t[i] < t[j]
      BY <1>2, <2>1
    <3> HIDE DEF new
    <3> QED
      BY <3>1, <3>2, <3>3, <3>4, <3>5 DEF Lists
  <2>3. \A x \in old, y \in new : x < y
    BY <1>2 DEF OwnData
  <2>4. body' = body \o t
    BY <1>5, BodyItems
  <2> HIDE DEF t, new, old
  <2>5. Lists(body \o t, old \cup new)
    BY <1>4, <2>1, <2>2, <2>3, ListsConcat
  <2>6. body \o t \in Seq(Nat)
    BY <1>4, <2>1
  <2>7. body' \in Seq(Nat) /\ Lists(body', OwnData(fed)')
    BY <1>3, <1>5, <2>4, <2>5, <2>6
  <2> QED
    BY <2>7 DEF BodyInv, BodyExact, Lists
<1>6. CASE ~OwnBytes(k, a)
  <2>1. body' = body /\ OwnData(fed)' = old
    BY <1>3, <1>6, BodyItems
  <2>2. body' \in Seq(Nat) /\ Lists(body', OwnData(fed)')
    BY <1>4, <2>1
  <2> QED
    BY <2>2 DEF BodyInv, BodyExact, Lists
<1> QED
  BY <1>5, <1>6

(***************************************************************************)
(* The end of a frame, and the frames of the bytes after it.               *)
(***************************************************************************)
LEMMA AfterEnd ==
  ASSUME StreamInv, NEW b \in 1 .. Len(stream), stream[b].at = Size(stream[b].frame),
         NEW c \in 1 .. Len(stream), b < c
  PROVE  stream[b].frame < stream[c].frame
<1>1. /\ EndOf(b) = b - stream[b].at + Size(stream[b].frame) /\ b \in Nat /\ c \in Nat
      /\ stream[b].at \in Nat /\ stream[b].frame \in Nat /\ stream[c].frame \in Nat
  BY ByteTypes
<1>2. EndOf(b) = b
  BY <1>1
<1>3. stream[c].frame > stream[b].frame
  BY <1>1, <1>2 DEF StreamInv, StreamOrder
<1> QED
  BY <1>1, <1>3

LEMMA LastByte ==
  ASSUME StreamInv, ReaderInv, NEW n, NEW k, NEW a, Uses(n, k, a), a + n = Size(k)
  PROVE  /\ fed + n \in 1 .. Len(stream)
         /\ stream[fed + n].frame = k /\ stream[fed + n].at = Size(k)
<1> DEFINE b == fed + n
<1>1. /\ n \in Nat /\ n >= 1 /\ fed \in Nat /\ Len(stream) \in Nat /\ b <= Len(stream)
      /\ a \in Nat
  BY UsesTypes
<1>2. b \in (fed + 1) .. (fed + n) /\ b \in 1 .. Len(stream)
  BY <1>1
<1>3. stream[b].frame = k /\ stream[b].at = Size(k)
  BY <1>2, UsesBytes
<1> QED
  BY <1>2, <1>3

LEMMA EndSeenStep ==
  ASSUME StreamInv, ReaderInv, EndSeen, NEW n, NEW k, NEW a, FeedStep(n, k, a)
  PROVE  EndSeen'
<1>1. Uses(n, k, a) /\ outcome = "reading"
  BY Zenon DEF FeedStep, Uses
<1>2. /\ n \in Nat /\ fed \in Nat /\ Len(stream) \in Nat /\ fed + n <= Len(stream)
      /\ k \in 1 .. Len(frames) /\ fed' = fed + n /\ UNCHANGED <<frames, stream>>
  BY <1>1, UsesTypes
<1>3. outcome' # "Ok"
  <2>1. CASE Quiet(n, k, a)
    BY <1>1, <2>1 DEF Quiet, itemVars
  <2>2. CASE Completes(n, k, a)
    BY <1>1, <2>2 DEF Completes, EmitControl, handle_control, NoteControl
  <2>3. CASE HandsOn(n, k, a)
    <3>1. outcome' = outcome
      BY <2>3, Zenon DEF HandsOn, EmitBody
    <3> QED
      BY <1>1, <3>1
  <2> QED
    BY <2>1, <2>2, <2>3, Zenon DEF FeedStep
<1>4. done' => done \/ (a + n = Size(k) /\ Ends(frames[k]))
  <2>1. CASE Quiet(n, k, a)
    BY <2>1 DEF Quiet, itemVars
  <2>2. CASE Completes(n, k, a)
    BY <2>2 DEF Completes, EmitControl
  <2>3. CASE HandsOn(n, k, a)
    BY <2>3, Zenon DEF HandsOn, EmitBody
  <2> QED
    BY <2>1, <2>2, <2>3, Zenon DEF FeedStep
<1> DEFINE Seeing(j) == Ends(frames[j]) /\ \A b \in fed + n + 1 .. Len(stream) : stream[b].frame > j
<1>5. CASE done
  <2>1. PICK j \in 1 .. Len(frames) :
          Ends(frames[j]) /\ \A b \in fed + 1 .. Len(stream) : stream[b].frame > j
    BY <1>5 DEF EndSeen
  <2>2. \A b \in fed + n + 1 .. Len(stream) : b \in fed + 1 .. Len(stream)
    BY <1>2
  <2>3. Seeing(j)
    BY <2>1, <2>2
  <2> HIDE DEF Seeing
  <2>4. \E i \in 1 .. Len(frames) : Seeing(i)
    BY <2>3
  <2> QED
    BY <1>2, <2>4 DEF EndSeen, Ends, Seeing
<1>6. CASE a + n = Size(k) /\ Ends(frames[k])
  <2>1. /\ fed + n \in 1 .. Len(stream)
        /\ stream[fed + n].frame = k /\ stream[fed + n].at = Size(k)
    BY <1>1, <1>6, LastByte
  <2>2. ASSUME NEW b \in fed + n + 1 .. Len(stream) PROVE stream[b].frame > k
    <3> DEFINE c == fed + n
    <3>1. c \in 1 .. Len(stream) /\ b \in 1 .. Len(stream) /\ c < b
      BY <1>2, <2>1
    <3>2. stream[c].frame = k /\ stream[c].at = Size(k)
      BY <2>1
    <3> HIDE DEF c
    <3>3. stream[c].frame < stream[b].frame
      BY <3>1, <3>2, AfterEnd
    <3>4. stream[b].frame \in Nat /\ k \in Nat
      BY <1>2, <3>1, ByteTypes
    <3> QED
      BY <3>2, <3>3, <3>4
  <2>3. Seeing(k)
    BY <1>6, <2>2
  <2> HIDE DEF Seeing
  <2>4. \E i \in 1 .. Len(frames) : Seeing(i)
    BY <1>2, <2>3
  <2> QED
    BY <1>2, <2>4 DEF EndSeen, Ends, Seeing
<1> QED
  BY <1>3, <1>4, <1>5, <1>6 DEF EndSeen

(***************************************************************************)
(* A step that ends a control frame produces it, and no other step does.   *)
(***************************************************************************)
LastOfControl(n, k, a) == a + n = Size(k) /\ is_control(frames[k].kind)

LEMMA ControlItems ==
  ASSUME NEW n, NEW k, NEW a, FeedStep(n, k, a), Size(k) \in Nat
  PROVE  IF LastOfControl(n, k, a)
         THEN EmitControl(k, ControlAt(fed + n).payload)
         ELSE UNCHANGED <<controls, acks, missed, answered, outcome>>
<1>1. CASE Quiet(n, k, a)
  <2>1. UNCHANGED <<controls, acks, missed, answered, outcome>>
    BY <1>1 DEF Quiet, itemVars
  <2>2. ~LastOfControl(n, k, a)
    BY <1>1 DEF Quiet, LastOfControl
  <2> QED
    BY <2>1, <2>2, Zenon
<1>2. CASE Completes(n, k, a)
  BY <1>2, Zenon DEF Completes, LastOfControl
<1>3. CASE HandsOn(n, k, a)
  <2>1. UNCHANGED <<controls, acks, missed, answered, outcome>>
    BY <1>3, Zenon DEF HandsOn, EmitBody
  <2>2. ~LastOfControl(n, k, a)
    BY <1>3, Zenon DEF HandsOn, LastOfControl
  <2> QED
    BY <2>1, <2>2, Zenon
<1> QED
  BY <1>1, <1>2, <1>3, Zenon DEF FeedStep

LEMMA RangeAppend ==
  ASSUME NEW T, NEW s \in Seq(T), NEW x \in T
  PROVE  Range(Append(s, x)) = Range(s) \cup {x}
<1> DEFINE u == Append(s, x)
           m == Len(s)
<1>1. /\ m \in Nat /\ DOMAIN s = 1 .. m /\ DOMAIN u = 1 .. (m + 1)
      /\ u[m + 1] = x /\ \A i \in 1 .. m : u[i] = s[i]
  OBVIOUS
<1> HIDE DEF u, m
<1>2. 1 .. (m + 1) = (1 .. m) \cup {m + 1}
  BY <1>1
<1>3. Range(u) = Range(s) \cup {x}
  BY <1>1, <1>2 DEF Range
<1> QED
  BY <1>3 DEF u

LEMMA ControlAtType ==
  ASSUME StreamInv, NEW b \in 1 .. Len(stream), stream[b].at = Size(stream[b].frame)
  PROVE  /\ ControlAt(b) \in [frame : Nat, payload : Seq(Nat)]
         /\ ControlAt(b).frame = stream[b].frame
         /\ ControlAt(b) = [frame |-> stream[b].frame, payload |-> ControlAt(b).payload]
<1> DEFINE l == frames[stream[b].frame].length
           m == Min({l, CONTROL_FRAME_MAX})
           p == [j \in 1 .. m |-> b - l + j]
<1>1. ControlAt(b) = [frame |-> stream[b].frame, payload |-> p]
  BY DEF ControlAt, Frame
<1>2. stream[b].frame \in Nat /\ l \in Nat /\ stream[b].at = FRAME_HEADER_LEN + l /\ b \in Nat
      /\ stream[b].at <= b /\ FRAME_HEADER_LEN \in Nat
  <2>1. stream[b].frame \in 1 .. Len(frames) /\ stream[b].frame \in Nat /\ stream[b].at <= b
        /\ b \in Nat
    BY ByteTypes
  <2> QED
    BY <2>1, FrameTypes DEF StreamInv, Size
<1> HIDE DEF l
<1>3. l <= b
  BY <1>2
<1>4. m \in Nat
  BY <1>2, MinTwo, H2Assumption
<1> HIDE DEF m
<1>5. p \in Seq(Nat)
  BY <1>2, <1>3, <1>4
<1> HIDE DEF p
<1> QED
  BY <1>1, <1>2, <1>5

(***************************************************************************)
(* The frames produced are those that ended, so a frame that ends now is   *)
(* later than all of them.                                                 *)
(***************************************************************************)
LEMMA LaterThanNoticed ==
  ASSUME StreamInv, ReaderInv, ControlsInv, NEW n, NEW k, NEW a, Uses(n, k, a),
         LastOfControl(n, k, a)
  PROVE  \A c \in Range(controls) : c.frame \in Nat /\ c.frame < k
<1>1. /\ fed + n \in 1 .. Len(stream) /\ stream[fed + n].frame = k
  BY LastByte DEF LastOfControl
<1>2. fed \in Nat /\ n \in Nat /\ n >= 1 /\ Len(stream) \in Nat /\ fed + n <= Len(stream)
  BY UsesTypes
<1> SUFFICES ASSUME NEW c \in Range(controls) PROVE c.frame \in Nat /\ c.frame < k
  OBVIOUS
<1>3. PICK b \in ControlEnds : c = ControlAt(b)
  BY DEF ControlsInv, ControlsExact
<1>4. b \in 1 .. fed /\ stream[b].at = Size(stream[b].frame)
  BY DEF ControlEnds, Frame, Size
<1>5. b \in 1 .. Len(stream) /\ b < fed + n
  BY <1>2, <1>4
<1>6. stream[b].frame < stream[fed + n].frame
  <2> DEFINE d == fed + n
  <2>1. d \in 1 .. Len(stream) /\ b < d
    BY <1>1, <1>5
  <2> HIDE DEF d
  <2>2. stream[b].frame < stream[d].frame
    BY <1>4, <1>5, <2>1, AfterEnd
  <2> QED
    BY <2>2 DEF d
<1>7. c.frame = stream[b].frame /\ stream[b].frame \in Nat
  BY <1>3, <1>4, <1>5, ControlAtType, ByteTypes
<1> QED
  BY <1>1, <1>6, <1>7

LEMMA ControlsStep ==
  ASSUME StreamInv, ReaderInv, ControlsInv, NEW n, NEW k, NEW a, FeedStep(n, k, a)
  PROVE  ControlsInv'
<1> DEFINE Rec == [frame : Nat, payload : Seq(Nat)]
           b == fed + n
           x == ControlAt(b)
<1>1. Uses(n, k, a)
  BY Zenon DEF FeedStep
<1>2. /\ n \in Nat /\ fed \in Nat /\ UNCHANGED <<frames, stream>> /\ Size(k) \in Nat
  BY <1>1, UsesTypes
<1>3. ControlEnds' = IF LastOfControl(n, k, a) THEN ControlEnds \cup {b} ELSE ControlEnds
  BY <1>1, ControlEndsStep DEF LastOfControl
<1>4. \A c : ControlAt(c)' = ControlAt(c)
  BY <1>2 DEF ControlAt, Frame
<1>5. controls \in Seq(Rec) /\ Range(controls) = {ControlAt(c) : c \in ControlEnds}
      /\ \A i, j \in DOMAIN controls : i < j => controls[i].frame < controls[j].frame
  BY DEF ControlsInv, ControlsExact
<1>6. CASE LastOfControl(n, k, a)
  <2>1. /\ b \in 1 .. Len(stream) /\ stream[b].frame = k /\ stream[b].at = Size(k)
    BY <1>1, <1>6, LastByte DEF LastOfControl
  <2> HIDE DEF b
  <2>2. x \in Rec /\ x.frame = k /\ x = [frame |-> k, payload |-> x.payload]
    BY <2>1, ControlAtType
  <2>3. EmitControl(k, x.payload)
    BY <1>2, <1>6, ControlItems DEF b
  <2>4. controls' = Append(controls, x)
    BY <2>2, <2>3, Zenon DEF EmitControl
  <2>5. \A c \in Range(controls) : c.frame \in Nat /\ c.frame < k
    BY <1>1, <1>6, LaterThanNoticed
  <2> HIDE DEF x, Rec
  <2>6. controls' \in Seq(Rec) /\ Range(controls') = Range(controls) \cup {x}
    BY <1>5, <2>2, <2>4, RangeAppend
  <2>7. \A i, j \in DOMAIN controls' : i < j => controls'[i].frame < controls'[j].frame
    <3> DEFINE m == Len(controls)
    <3>1. /\ m \in Nat /\ DOMAIN controls = 1 .. m /\ DOMAIN controls' = 1 .. (m + 1)
          /\ controls'[m + 1] = x /\ \A i \in 1 .. m : controls'[i] = controls[i]
      BY <1>5, <2>2, <2>4
    <3>2. \A i \in 1 .. m : controls[i] \in Range(controls)
      BY <3>1 DEF Range
    <3> HIDE DEF m
    <3> SUFFICES ASSUME NEW i \in 1 .. (m + 1), NEW j \in 1 .. (m + 1), i < j
                 PROVE  controls'[i].frame < controls'[j].frame
      BY <3>1
    <3>3. i \in 1 .. m
      BY <3>1
    <3>4. CASE j = m + 1
      BY <2>2, <2>5, <3>1, <3>2, <3>3, <3>4
    <3>5. CASE j \in 1 .. m
      BY <1>5, <3>1, <3>3, <3>5
    <3> QED
      BY <3>1, <3>4, <3>5
  <2>8. Range(controls') = {ControlAt(c)' : c \in ControlEnds'}
    <3> DEFINE A(c) == ControlAt(c)
    <3>1. {ControlAt(c)' : c \in ControlEnds'} = {A(c) : c \in ControlEnds \cup {b}}
      BY <1>3, <1>4, <1>6
    <3>2. Range(controls) = {A(c) : c \in ControlEnds} /\ x = A(b)
      BY <1>5 DEF x
    <3> HIDE DEF A
    <3> QED
      BY <2>6, <3>1, <3>2
  <2>9. controls' \in Seq([frame : Nat, payload : Seq(Nat)])
    BY <2>6 DEF Rec
  <2> QED
    BY <2>7, <2>8, <2>9, Zenon DEF ControlsInv, ControlsExact, Range
<1>7. CASE ~LastOfControl(n, k, a)
  <2>1. controls' = controls /\ ControlEnds' = ControlEnds
    BY <1>2, <1>3, <1>7, ControlItems
  <2>2. {ControlAt(c)' : c \in ControlEnds'} = {ControlAt(c) : c \in ControlEnds}
    BY <1>4, <2>1
  <2> QED
    BY <1>5, <2>1, <2>2, Zenon DEF ControlsInv, ControlsExact, Range
<1> QED
  BY <1>6, <1>7

(***************************************************************************)
(* A control frame produced is handled at once, noted, or missed.          *)
(***************************************************************************)
LEMMA NoticedStep ==
  ASSUME ControlsInv, NEW k \in Nat, NEW p \in Seq(Nat), EmitControl(k, p)
  PROVE  Noticed' = Noticed \cup {k}
<1> DEFINE Rec == [frame : Nat, payload : Seq(Nat)]
           x == [frame |-> k, payload |-> p]
<1>1. controls \in Seq(Rec) /\ x \in Rec /\ x.frame = k
  BY DEF ControlsInv
<1>2. controls' = Append(controls, x)
  BY Zenon DEF EmitControl
<1> HIDE DEF Rec, x
<1>3. Range(controls') = Range(controls) \cup {x}
  BY <1>1, <1>2, RangeAppend
<1>4. Noticed' = {c.frame : c \in Range(controls')}
  BY Zenon DEF Noticed, Range
<1> QED
  BY <1>1, <1>3, <1>4 DEF Noticed

LEMMA AcksStep ==
  ASSUME StreamInv, ReaderInv, ControlsInv, AcksInv, NEW n, NEW k, NEW a, FeedStep(n, k, a)
  PROVE  AcksInv'
<1> DEFINE S == {j \in Noticed \ Range(acks) : Answers(j)}
<1>1. Uses(n, k, a) /\ outcome = "reading" /\ round
  BY Zenon DEF FeedStep, Uses
<1>2. /\ k \in Nat /\ UNCHANGED <<host, frames, stream, round>> /\ Size(k) \in Nat
  BY <1>1, UsesTypes
<1>3. /\ acks \in Seq(Nat) /\ answered \in Seq(Nat) /\ missed \in Nat
      /\ host \in BOOLEAN /\ round \in BOOLEAN /\ (host => acks = <<>>)
      /\ missed = 0 => Acknowledged
  BY <1>1 DEF AcksInv
<1>4. \A j : Answers(j)' = Answers(j)
  BY <1>2 DEF Answers
<1>5. CASE ~LastOfControl(n, k, a)
  <2>1. UNCHANGED <<controls, acks, missed, answered, outcome>>
    BY <1>2, <1>5, ControlItems
  <2>2. Noticed' = Noticed /\ Range(acks)' = Range(acks)
    BY <2>1 DEF Noticed, Range
  <2>3. Acknowledged => Acknowledged'
    <3>1. {j \in Noticed' \ Range(acks)' : Answers(j)'} = S
      BY <1>4, <2>2
    <3> QED
      BY <2>1, <2>2, <3>1, Zenon DEF Acknowledged, Lists, Range
  <2> QED
    BY <1>1, <1>2, <1>3, <2>1, <2>3 DEF AcksInv
<1>6. CASE LastOfControl(n, k, a)
  <2> DEFINE p == ControlAt(fed + n).payload
  <2>1. EmitControl(k, p)
    BY <1>2, <1>6, ControlItems
  <2>2. p \in Seq(Nat)
    <3> DEFINE b == fed + n
    <3>1. /\ b \in 1 .. Len(stream) /\ stream[b].frame = k /\ stream[b].at = Size(k)
      BY <1>1, <1>6, LastByte DEF LastOfControl
    <3> HIDE DEF b
    <3>2. ControlAt(b) \in [frame : Nat, payload : Seq(Nat)]
      BY <3>1, ControlAtType
    <3>3. ControlAt(b).payload \in Seq(Nat)
      BY <3>2
    <3> QED
      BY <3>3 DEF b
  <2> HIDE DEF p
  <2>3. Noticed' = Noticed \cup {k}
    BY <1>2, <2>1, <2>2, NoticedStep
  <2>4. \A j \in Noticed : j \in Nat /\ j < k
    BY <1>1, <1>6, LaterThanNoticed DEF Noticed
  <2>5. k \notin Noticed
    BY <1>2, <2>4
  <2>6. CASE host
    <3>1. acks = <<>> /\ handle_control(k) /\ UNCHANGED <<acks, missed>>
      BY <1>3, <2>1, <2>6 DEF EmitControl
    <3>2. answered' = IF Answers(k) THEN Append(answered, k) ELSE answered
      BY <3>1 DEF handle_control
    <3>3. answered' \in Seq(Nat)
      BY <1>2, <1>3, <3>2
    <3>4. Range(acks) = {} /\ Range(acks') = {} /\ DOMAIN acks' = {}
      BY <3>1 DEF Range
    <3>5. Acknowledged => Acknowledged'
      <4> SUFFICES ASSUME Acknowledged PROVE Acknowledged'
        OBVIOUS
      <4>1. Lists(answered, S)
        BY DEF Acknowledged
      <4>2. \A y \in S : y < k
        BY <2>4
      <4> DEFINE T == {j \in Noticed' \ Range(acks') : Answers(j)'}
      <4>3. T = IF Answers(k) THEN S \cup {k} ELSE S
        BY <1>4, <2>3, <3>4
      <4> HIDE DEF S, T
      <4>4. Lists(answered', T)
        <5>1. CASE Answers(k)
          BY <1>2, <1>3, <3>2, <4>1, <4>2, <4>3, <5>1, ListsAppend
        <5>2. CASE ~Answers(k)
          BY <3>2, <4>1, <4>3, <5>2
        <5> QED
          BY <5>1, <5>2
      <4> QED
        BY <3>4, <4>4, Zenon DEF Acknowledged, Lists, Range, T
    <3> QED
      BY <1>2, <1>3, <2>6, <3>1, <3>3, <3>5 DEF AcksInv
  <2>7. CASE ~host
    <3>1. NoteControl(k)
      BY <2>1, <2>7 DEF EmitControl
    <3>2. CASE Len(acks) < ACKS
      <4>1. acks' = Append(acks, k) /\ missed' = missed /\ UNCHANGED <<answered, outcome>>
        BY <3>1, <3>2 DEF NoteControl
      <4>2. acks' \in Seq(Nat) /\ Range(acks') = Range(acks) \cup {k}
        BY <1>2, <1>3, <4>1, RangeAppend
      <4>3. Acknowledged => Acknowledged'
        <5> SUFFICES ASSUME Acknowledged PROVE Acknowledged'
          OBVIOUS
        <5>1. Range(acks) \subseteq Noticed /\ Lists(acks, Range(acks))
              /\ Lists(answered, S) /\ \A c \in Noticed \ Range(acks), d \in Range(acks) : c < d
          BY DEF Acknowledged, Lists
        <5>2. Noticed' \ Range(acks') = Noticed \ Range(acks)
          BY <2>3, <2>5, <4>2, <5>1
        <5>3. {j \in Noticed' \ Range(acks') : Answers(j)'} = S
          BY <1>4, <5>2
        <5>4. Lists(acks', Range(acks) \cup {k})
          BY <1>2, <1>3, <2>4, <4>1, <5>1, ListsAppend
        <5>5. \A i, j \in DOMAIN acks' : i < j => acks'[i] < acks'[j]
          BY <5>4 DEF Lists
        <5>6. Range(acks') \subseteq Noticed'
          BY <2>3, <4>2, <5>1
        <5>7. \A c \in Noticed' \ Range(acks'), d \in Range(acks') : c < d
          BY <2>4, <4>2, <5>1, <5>2
        <5>8. Lists(answered', S)
          BY <4>1, <5>1
        <5> HIDE DEF S
        <5> QED
          BY <5>3, <5>5, <5>6, <5>7, <5>8, Zenon DEF Acknowledged, Lists, Range
      <4> QED
        BY <1>1, <1>2, <1>3, <2>7, <4>1, <4>2, <4>3 DEF AcksInv
    <3>3. CASE ~(Len(acks) < ACKS)
      <4>1. acks' = acks /\ missed' = missed + 1 /\ UNCHANGED <<answered, outcome>>
        BY <3>1, <3>3 DEF NoteControl
      <4> QED
        BY <1>1, <1>2, <1>3, <2>7, <4>1 DEF AcksInv
    <3> QED
      BY <3>2, <3>3
  <2> QED
    BY <1>3, <2>6, <2>7
<1> QED
  BY <1>5, <1>6

(***************************************************************************)
(* on_data gets the next bytes of the body when it is done with the last.  *)
(***************************************************************************)
LEMMA MapStep ==
  ASSUME StreamInv, ReaderInv, BodyInv, MapInv, NEW n, NEW k, NEW a, FeedStep(n, k, a)
  PROVE  MapInv'
<1>1. Uses(n, k, a) /\ data = <<>>
  BY Zenon DEF FeedStep, Uses
<1>2. /\ n \in Nat /\ fed \in Nat
      /\ UNCHANGED <<frames, stream, splitter, current, netmap, netmaps>>
  BY <1>1, UsesTypes
<1>3. body \in Seq(Nat)
  BY DEF BodyInv
<1>4. /\ data' \in Seq(Nat) /\ Len(data') <= Len(body') /\ Len(body') - Len(data') = Len(body)
      /\ \A i \in 1 .. Len(data') : data'[i] = Len(body) + i
  <2>1. CASE OwnBytes(k, a)
    <3> DEFINE t == Chunk(n)
               m == Len(body)
    <3>1. body' = body \o t /\ data' = [i \in 1 .. n |-> m + i]
      BY <2>1, BodyItems
    <3>2. t \in Seq(Nat) /\ Len(t) = n
      BY <1>2, ChunkIs
    <3> HIDE DEF t
    <3>3. Len(body') = m + n /\ m \in Nat
      BY <1>3, <3>1, <3>2
    <3> HIDE DEF m
    <3>4. data' \in Seq(Nat) /\ Len(data') = n /\ \A i \in 1 .. n : data'[i] = m + i
      BY <1>2, <3>1, <3>3
    <3>5. n <= m + n /\ m + n - n = m
      BY <1>2, <3>3
    <3> QED
      BY <3>3, <3>4, <3>5 DEF m
  <2>2. CASE ~OwnBytes(k, a)
    <3>1. body' = body /\ data' = <<>>
      BY <2>2, BodyItems
    <3> QED
      BY <1>3, <3>1
  <2> QED
    BY <2>1, <2>2
<1>5. Seen' = Seen /\ Seen = Len(body)
  BY <1>1, <1>3, <1>4 DEF Seen
<1>6. DataInv'
  <2>1. OwnData(Len(stream))' = OwnData(Len(stream))
    BY <1>2 DEF OwnData
  <2> QED
    BY <1>2, <1>4, <1>5, <2>1 DEF MapInv, DataInv
<1>7. SplitterType' /\ InLength' /\ InMap' /\ FirstMap'
  BY <1>2, <1>5, Zenon DEF MapInv, SplitterType, InLength, InMap, FirstMap
<1>8. WholeMaps' = WholeMaps
  BY <1>5 DEF WholeMaps, Seen
<1>9. NetmapsExact'
  BY <1>2, <1>8, Zenon DEF MapInv, NetmapsExact, Range
<1> QED
  BY <1>6, <1>7, <1>9 DEF MapInv

-----------------------------------------------------------------------------
(* The server sends a frame: the stream grows at its end.                  *)

LEMMA SendFacts ==
  ASSUME StreamInv, NEW f \in Frames, ServerSend(f)
  PROVE  /\ f.length \in Nat /\ FRAME_HEADER_LEN \in Nat /\ FRAME_HEADER_LEN >= 1
         /\ Len(stream) \in Nat /\ Len(frames) \in Nat
         /\ frames' \in Seq(Frames) /\ stream' \in Seq([frame : Nat, at : Nat])
         /\ Len(frames') = Len(frames) + 1
         /\ Len(stream') = Len(stream) + (FRAME_HEADER_LEN + f.length)
         /\ \A b \in 1 .. Len(stream) : stream'[b] = stream[b]
         /\ \A j \in 1 .. (FRAME_HEADER_LEN + f.length) :
               /\ stream'[Len(stream) + j].frame = Len(frames) + 1
               /\ stream'[Len(stream) + j].at = j
         /\ \A k \in 1 .. Len(frames) : frames'[k] = frames[k]
         /\ frames'[Len(frames) + 1] = f
<1> DEFINE m == FRAME_HEADER_LEN + f.length
           K == Len(frames) + 1
           t == [j \in 1 .. m |-> [frame |-> K, at |-> j]]
           Place == [frame : Nat, at : Nat]
<1>1. f \in FrameHeaders /\ FRAME_HEADER_LEN \in Nat /\ FRAME_HEADER_LEN >= 1
  BY H2Assumption
<1>2. f.length \in Nat
  BY <1>1 DEF FrameHeaders
<1>3. frames \in Seq(Frames) /\ stream \in Seq(Place)
  BY DEF StreamInv, StreamType
<1>4. frames' = Append(frames, f) /\ stream' = stream \o t
  BY Zenon DEF ServerSend
<1>5. m \in Nat /\ K \in Nat
  BY <1>1, <1>2, <1>3
<1>6. /\ frames' \in Seq(Frames) /\ Len(frames') = Len(frames) + 1
      /\ \A k \in 1 .. Len(frames) : frames'[k] = frames[k]
      /\ frames'[Len(frames) + 1] = f /\ Len(frames) \in Nat
  BY <1>3, <1>4
<1> HIDE DEF m, K
<1>7. /\ \A j \in 1 .. m : [frame |-> K, at |-> j] \in Place
  BY <1>5
<1> HIDE DEF Place
<1>8. /\ t \in Seq(Place) /\ Len(t) = m
      /\ \A j \in 1 .. m : t[j] = [frame |-> K, at |-> j]
  BY <1>5, <1>7
<1> HIDE DEF t
<1>9. /\ stream' \in Seq(Place) /\ Len(stream') = Len(stream) + m /\ Len(stream) \in Nat
      /\ \A b \in 1 .. Len(stream) : stream'[b] = stream[b]
      /\ \A j \in 1 .. m : stream'[Len(stream) + j] = t[j]
  BY <1>3, <1>4, <1>8
<1>10. \A j \in 1 .. m : /\ stream'[Len(stream) + j].frame = K
                         /\ stream'[Len(stream) + j].at = j
  BY <1>8, <1>9
<1> QED
  BY <1>1, <1>2, <1>6, <1>9, <1>10 DEF Place, m, K

(***************************************************************************)
(* The same by position: what was there stays, and the new bytes are of    *)
(* the new frame.                                                          *)
(***************************************************************************)
LEMMA SendBytes ==
  ASSUME StreamInv, NEW f \in Frames, ServerSend(f)
  PROVE  /\ \A b \in 1 .. Len(stream) :
               /\ stream'[b] = stream[b]
               /\ frames'[stream[b].frame] = frames[stream[b].frame]
               /\ EndOf(b)' = EndOf(b)
         /\ \A b \in (Len(stream) + 1) .. Len(stream') :
               /\ stream'[b].frame = Len(frames) + 1 /\ stream'[b].at = b - Len(stream)
               /\ frames'[stream'[b].frame] = f
               /\ EndOf(b)' = Len(stream')
<1> DEFINE L == Len(stream)
           K == Len(frames) + 1
           m == FRAME_HEADER_LEN + f.length
<1>1. /\ f.length \in Nat /\ FRAME_HEADER_LEN \in Nat /\ L \in Nat /\ Len(frames) \in Nat
      /\ Len(stream') = L + m /\ m \in Nat
      /\ \A b \in 1 .. L : stream'[b] = stream[b]
      /\ \A j \in 1 .. m : stream'[L + j].frame = K /\ stream'[L + j].at = j
      /\ \A k \in 1 .. Len(frames) : frames'[k] = frames[k]
      /\ frames'[K] = f
  <2> HIDE DEF L
  <2>1. /\ f.length \in Nat /\ FRAME_HEADER_LEN \in Nat /\ L \in Nat /\ Len(frames) \in Nat
        /\ Len(stream') = L + m
        /\ \A b \in 1 .. L : stream'[b] = stream[b]
        /\ \A j \in 1 .. m : stream'[L + j].frame = K /\ stream'[L + j].at = j
        /\ \A k \in 1 .. Len(frames) : frames'[k] = frames[k]
        /\ frames'[K] = f
    BY SendFacts, Zenon DEF L
  <2> QED
    BY <2>1
<1>3. ASSUME NEW b \in 1 .. L
      PROVE  /\ stream'[b] = stream[b]
             /\ frames'[stream[b].frame] = frames[stream[b].frame]
             /\ EndOf(b)' = EndOf(b)
  <2>1. stream[b].frame \in 1 .. Len(frames)
    BY ByteTypes
  <2>2. stream'[b] = stream[b] /\ frames'[stream[b].frame] = frames[stream[b].frame]
    BY <1>1, <2>1
  <2> QED
    BY <2>2 DEF EndOf, Size
<1>4. ASSUME NEW b \in (L + 1) .. Len(stream')
      PROVE  /\ stream'[b].frame = K /\ stream'[b].at = b - L
             /\ frames'[stream'[b].frame] = f
             /\ EndOf(b)' = Len(stream')
  <2> DEFINE j == b - L
  <2> HIDE DEF L, m
  <2>1. j \in 1 .. m /\ L + j = b /\ b \in Nat /\ j \in Nat
    BY <1>1
  <2> HIDE DEF j
  <2>2. stream'[b].frame = K /\ stream'[b].at = j
    BY <1>1, <2>1
  <2>3. EndOf(b)' = b - j + m
    BY <1>1, <2>2 DEF EndOf, Size, m
  <2> HIDE DEF K
  <2>4. b - j + m = L + m
    BY <1>1, <2>1
  <2> QED
    BY <1>1, <2>2, <2>3, <2>4 DEF j, L
<1> QED
  BY <1>3, <1>4

LEMMA SendStream ==
  ASSUME StreamInv, NEW f \in Frames, ServerSend(f)
  PROVE  StreamInv'
<1> DEFINE L == Len(stream)
           N == Len(stream')
           F == Len(frames)
<1>1. /\ f.length \in Nat /\ FRAME_HEADER_LEN \in Nat /\ FRAME_HEADER_LEN >= 1
      /\ L \in Nat /\ F \in Nat /\ N = L + (FRAME_HEADER_LEN + f.length)
      /\ Len(frames') = F + 1
      /\ frames' \in Seq(Frames) /\ stream' \in Seq([frame : Nat, at : Nat])
      /\ \A k \in 1 .. F : frames'[k] = frames[k]
      /\ frames'[F + 1] = f
  BY SendFacts
<1>2. /\ \A b \in 1 .. L :
            /\ stream'[b] = stream[b] /\ EndOf(b)' = EndOf(b)
            /\ frames'[stream[b].frame] = frames[stream[b].frame]
      /\ \A b \in (L + 1) .. N :
            /\ stream'[b].frame = F + 1 /\ stream'[b].at = b - L
            /\ frames'[stream'[b].frame] = f
            /\ EndOf(b)' = N
  BY SendBytes
<1>3. \A b \in 1 .. L :
        /\ stream[b].frame \in 1 .. F /\ stream[b].frame \in Nat
        /\ stream[b].at \in Nat /\ stream[b].at >= 1
        /\ stream[b].at <= Size(stream[b].frame) /\ stream[b].at <= b
        /\ Size(stream[b].frame) \in Nat /\ EndOf(b) \in Nat /\ EndOf(b) <= L
  BY ByteTypes
<1>4. N \in Nat /\ L < N
  BY <1>1
<1> HIDE DEF L, N, F
<1>5. StreamType'
  BY <1>1 DEF StreamType
<1>6. StreamPlaces'
  <2>1. ASSUME NEW b \in 1 .. N
        PROVE  /\ stream'[b].frame \in 1 .. (F + 1)
               /\ stream'[b].at \in 1 .. (FRAME_HEADER_LEN + frames'[stream'[b].frame].length)
               /\ stream'[b].at <= b
               /\ EndOf(b)' <= N
    <3>1. CASE b \in 1 .. L
      <4> DEFINE z == Size(stream[b].frame)
      <4>1. stream'[b] = stream[b] /\ EndOf(b)' = EndOf(b)
            /\ FRAME_HEADER_LEN + frames'[stream'[b].frame].length = z
        BY <1>2, <3>1 DEF Size
      <4>2. stream[b].at \in Nat /\ stream[b].at >= 1 /\ stream[b].at <= z /\ z \in Nat
            /\ stream[b].at <= b /\ stream[b].frame \in 1 .. F /\ EndOf(b) \in Nat /\ EndOf(b) <= L
        BY <1>3, <3>1
      <4> HIDE DEF z
      <4>3. stream[b].at \in 1 .. z /\ stream[b].frame \in 1 .. (F + 1) /\ EndOf(b) <= N
        BY <1>1, <1>4, <4>2, SMTT(30)
      <4> QED
        BY <4>1, <4>2, <4>3
    <3>2. CASE b \in (L + 1) .. N
      <4>1. stream'[b].frame = F + 1 /\ stream'[b].at = b - L /\ EndOf(b)' = N
            /\ frames'[stream'[b].frame] = f
        BY <1>2, <3>2
      <4>2. b - L \in 1 .. (FRAME_HEADER_LEN + f.length) /\ b - L <= b /\ N <= N
            /\ F + 1 \in 1 .. (F + 1)
        BY <1>1, <1>4, <3>2
      <4> QED
        BY <4>1, <4>2
    <3> QED
      BY <1>1, <1>4, <3>1, <3>2
  <2>2. /\ Len(frames') = F + 1 /\ N = Len(stream')
    BY <1>1 DEF N
  <2> QED
    BY <2>1, <2>2, Zenon DEF StreamPlaces, Size
<1>7. StreamOrder'
  <2>1. ASSUME NEW b \in 1 .. N, NEW c \in 1 .. N, b < c
        PROVE  IF c <= EndOf(b)'
               THEN stream'[c].frame = stream'[b].frame /\ stream'[c].at = stream'[b].at + (c - b)
               ELSE stream'[c].frame > stream'[b].frame
    <3>1. CASE c \in 1 .. L
      <4>1. b \in 1 .. L
        BY <1>1, <2>1, <3>1
      <4>2. stream'[b] = stream[b] /\ EndOf(b)' = EndOf(b) /\ stream'[c] = stream[c]
        BY <1>2, <3>1, <4>1
      <4>3. IF c <= EndOf(b)
            THEN stream[c].frame = stream[b].frame /\ stream[c].at = stream[b].at + (c - b)
            ELSE stream[c].frame > stream[b].frame
        BY <2>1, <3>1, <4>1 DEF StreamInv, StreamOrder, L
      <4> QED
        BY <4>2, <4>3
    <3>2. CASE c \in (L + 1) .. N
      <4>1. stream'[c].frame = F + 1 /\ stream'[c].at = c - L
        BY <1>2, <3>2
      <4>2. CASE b \in 1 .. L
        <5>1. stream'[b] = stream[b] /\ EndOf(b)' = EndOf(b)
          BY <1>2, <4>2
        <5>0. stream[b].frame \in 1 .. F /\ EndOf(b) \in Nat /\ EndOf(b) <= L
          BY <1>3, <4>2, Zenon
        <5>2. stream[b].frame < F + 1 /\ ~(c <= EndOf(b))
          BY <1>1, <3>2, <5>0
        <5> QED
          BY <1>1, <1>3, <4>1, <4>2, <5>1, <5>2
      <4>3. CASE b \in (L + 1) .. N
        <5>1. stream'[b].frame = F + 1 /\ stream'[b].at = b - L /\ EndOf(b)' = N
          BY <1>2, <4>3
        <5>2. c <= N /\ c - L = b - L + (c - b)
          BY <1>1, <1>4
        <5> QED
          BY <4>1, <5>1, <5>2
      <4> QED
        BY <1>1, <1>4, <4>2, <4>3
    <3> QED
      BY <1>1, <1>4, <3>1, <3>2
  <2> QED
    BY <2>1 DEF StreamOrder, N
<1>8. StreamStarts'
  <2>1. ASSUME NEW b \in 0 .. N - 1, Boundary(b)'
        PROVE  stream'[b + 1].at = 1
    <3>1. CASE b < L
      <4>0. b + 1 \in 1 .. L /\ b \in 0 .. L - 1
        BY <1>1, <1>4, <3>1
      <4>1. stream'[b + 1] = stream[b + 1] /\ b \in 0 .. L - 1
        BY <1>2, <4>0, Zenon
      <4>2. Boundary(b)
        <5>1. b = 0 \/ b = EndOf(b)'
          BY <2>1 DEF Boundary
        <5>2. CASE b # 0
          <6>1. EndOf(b)' = EndOf(b)
            BY <1>1, <1>2, <3>1, <5>2
          <6> QED
            BY <5>1, <6>1 DEF Boundary
        <5> QED
          BY <5>2 DEF Boundary
      <4> QED
        BY <4>1, <4>2 DEF StreamInv, StreamStarts, L
    <3>2. CASE b = L
      <4>1. L + 1 \in (L + 1) .. N /\ L + 1 - L = 1
        BY <1>1, <1>4
      <4> QED
        BY <1>2, <3>2, <4>1
    <3>3. CASE b > L
      <4>1. b # 0 /\ b \in (L + 1) .. N /\ b < N
        BY <1>1, <1>4, <3>3
      <4>2. EndOf(b)' = N
        BY <1>2, <4>1
      <4>3. b = 0 \/ b = EndOf(b)'
        BY <2>1 DEF Boundary
      <4> QED
        BY <1>4, <4>1, <4>2, <4>3
    <3> QED
      BY <1>1, <1>4, <3>1, <3>2, <3>3
  <2> QED
    BY <2>1 DEF StreamStarts, N
<1>9. OwnEnds'
  <2>1. ASSUME NEW j \in 1 .. (F + 1), NEW k \in 1 .. (F + 1), j < k, Ends(frames[j])'
        PROVE  ~frames'[k].own
    <3>1. j \in 1 .. F /\ frames'[j] = frames[j]
      BY <1>1, <2>1
    <3>2. Ends(frames[j])
      BY <2>1, <3>1 DEF Ends
    <3>3. CASE k = F + 1
      <4>1. f.own => \A i \in 1 .. Len(frames) : ~Ends(frames[i])
        BY Zenon DEF ServerSend
      <4> QED
        BY <1>1, <3>1, <3>2, <3>3, <4>1 DEF F
    <3>4. CASE k \in 1 .. F
      <4>1. frames'[k] = frames[k] /\ ~frames[k].own
        BY <1>1, <2>1, <3>1, <3>2, <3>4 DEF StreamInv, OwnEnds, F
      <4> QED
        BY <4>1
    <3> QED
      BY <1>1, <3>3, <3>4
  <2> QED
    BY <1>1, <2>1 DEF OwnEnds, Ends
<1> QED
  BY <1>5, <1>6, <1>7, <1>8, <1>9 DEF StreamInv

(***************************************************************************)
(* The reader stands where it stood, in bytes that have not changed.       *)
(***************************************************************************)
LEMMA SendReader ==
  ASSUME StreamInv, ReaderInv, NEW f \in Frames, ServerSend(f)
  PROVE  ReaderInv'
<1>0. StreamType /\ ReaderType
  BY DEF StreamInv, ReaderInv
<1>1. /\ f.length \in Nat /\ FRAME_HEADER_LEN \in Nat /\ Len(stream) \in Nat
      /\ Len(stream') = Len(stream) + (FRAME_HEADER_LEN + f.length)
  BY SendFacts
<1>2. fed' = fed /\ reader' = reader /\ read' = read
  BY DEF ServerSend, roundVars
<1>3. fed \in Nat /\ read \in Nat /\ fed <= read /\ read <= Len(stream)
      /\ Len(reader.header) \in Nat
  BY <1>0, ReaderTypes
<1>4. \A b \in 1 .. Len(stream) :
        /\ stream'[b] = stream[b] /\ frames'[stream[b].frame] = frames[stream[b].frame]
        /\ EndOf(b)' = EndOf(b)
  BY SendBytes
<1>5. ReaderType'
  <2>1. read \in 0 .. Len(stream')
    BY <1>1, <1>3
  <2> QED
    BY <1>2, <2>1 DEF ReaderInv, ReaderType
<1>6. InHeader'
  <2> SUFFICES ASSUME reader.state = "Header" PROVE InHeader'
    BY <1>2 DEF InHeader
  <2> DEFINE b == fed - Len(reader.header)
  <2>1. InHeader /\ Len(reader.header) <= fed /\ Boundary(b)
    BY DEF ReaderInv, InHeader
  <2>2. Boundary(b)'
    <3>1. b \in 0 .. Len(stream)
      BY <1>1, <1>3, <2>1
    <3>2. CASE b # 0
      BY <1>2, <1>4, <2>1, <3>1, <3>2 DEF Boundary, EndOf, Size
    <3>3. CASE b = 0
      BY <1>2, <3>3 DEF Boundary
    <3> QED
      BY <3>2, <3>3
  <2> QED
    BY <1>2, <2>1, <2>2 DEF InHeader
<1>7. InFrame' /\ InControl'
  <2>1. CASE reader.state = "Header"
    BY <1>2, <2>1 DEF InFrame, InControl
  <2>2. CASE reader.state # "Header"
    <3>1. fed >= 1 /\ reader.current = stream[fed].frame
      BY <2>2 DEF ReaderInv, InFrame
    <3>2. fed \in 1 .. Len(stream)
      BY <1>1, <1>3, <3>1
    <3>3. stream'[fed'] = stream[fed] /\ frames'[reader'.current] = frames[reader.current]
      BY <1>2, <1>4, <3>1, <3>2
    <3>4. InFrame'
      BY <1>2, <2>2, <3>3 DEF ReaderInv, InFrame, Size
    <3>5. InControl'
      BY <1>2, <2>2, <3>3 DEF ReaderInv, InControl
    <3> QED
      BY <3>4, <3>5
  <2> QED
    BY <2>1, <2>2
<1> QED
  BY <1>5, <1>6, <1>7 DEF ReaderInv

(***************************************************************************)
(* The DATA bytes it adds come out of its window.                          *)
(***************************************************************************)
LEMMA SendCredit ==
  ASSUME StreamInv, ReaderInv, CreditInv, NEW f \in Frames, ServerSend(f)
  PROVE  CreditInv'
<1> DEFINE L == Len(stream)
           N == Len(stream')
           H == L + FRAME_HEADER_LEN
           new == (H + 1) .. (H + f.length)
           x == IF f.kind = "DATA" THEN f.length ELSE 0
<1>0. StreamType /\ ReaderType
  BY DEF StreamInv, ReaderInv
<1>1. /\ f.length \in Nat /\ FRAME_HEADER_LEN \in Nat /\ L \in Nat
      /\ N = L + (FRAME_HEADER_LEN + f.length)
  BY SendFacts
<1>2. /\ \A b \in 1 .. L :
           stream'[b] = stream[b] /\ frames'[stream[b].frame] = frames[stream[b].frame]
      /\ \A b \in (L + 1) .. N :
           stream'[b].at = b - L /\ frames'[stream'[b].frame] = f
  BY SendBytes
<1>3. fed \in Nat /\ fed <= L /\ reader.pending_window \in Nat
  <2>1. fed \in Nat /\ read \in Nat /\ fed <= read /\ read <= L /\ reader.pending_window \in Nat
    BY <1>0, ReaderTypes
  <2> QED
    BY <1>1, <2>1
<1>4. /\ fed' = fed /\ reader' = reader /\ credit' = credit
      /\ f.kind = "DATA" => f.length <= connWindow
      /\ connWindow' = IF f.kind = "DATA" THEN connWindow - f.length ELSE connWindow
  BY DEF ServerSend, roundVars
<1> DEFINE P(b) == stream[b].at > FRAME_HEADER_LEN /\ frames[stream[b].frame].kind = "DATA"
           Q(b) == stream'[b].at > FRAME_HEADER_LEN /\ frames'[stream'[b].frame].kind = "DATA"
           before == {b \in (fed + 1) .. L : P(b)}
<1>5. InFlightBytes = before /\ InFlightBytes' = {b \in (fed + 1) .. N : Q(b)}
  BY <1>4 DEF InFlightBytes, InPayload, Frame
<1>6. \A b \in 1 .. L : Q(b) <=> P(b)
  BY <1>2
<1>7. \A b \in (L + 1) .. N : Q(b) <=> (f.kind = "DATA" /\ b \in new)
  BY <1>1, <1>2, SMTT(30)
<1>8. /\ (fed + 1) .. N = ((fed + 1) .. L) \cup ((L + 1) .. N)
      /\ new \subseteq (L + 1) .. N /\ (fed + 1) .. L \subseteq 1 .. L
  BY <1>1, <1>3, SMTT(30)
<1>9. IsFiniteSet(before) /\ Cardinality(before) \in Nat
  <2> DEFINE lo == fed + 1
             hi == L
  <2>1. lo \in Int /\ hi \in Int /\ before \in SUBSET (lo .. hi)
    BY <1>1, <1>3
  <2> HIDE DEF lo, hi, before
  <2> QED
    BY <2>1, PartFinite
<1>10. before \cap new = {} /\ H \in Nat
  BY <1>1, <1>3
<1>11. Cardinality(InFlightBytes') = Cardinality(before) + x
  <2>1. CASE f.kind = "DATA"
    <3> HIDE DEF P, Q
    <3>1. InFlightBytes' = before \cup new
      <4> HIDE DEF new
      <4> QED
        BY <1>5, <1>6, <1>7, <1>8, <2>1
    <3> HIDE DEF before, H
    <3>2. Cardinality(before \cup new) = Cardinality(before) + f.length
      BY <1>1, <1>9, <1>10, AddInterval
    <3> QED
      BY <2>1, <3>1, <3>2
  <2>2. CASE f.kind # "DATA"
    <3> HIDE DEF P, Q, new
    <3>1. InFlightBytes' = before
      BY <1>5, <1>6, <1>7, <1>8, <2>2
    <3> HIDE DEF before
    <3> QED
      BY <1>9, <2>2, <3>1
  <2> QED
    BY <2>1, <2>2
<1>12. connWindow \in Nat /\ x \in Nat /\ connWindow' = connWindow - x /\ connWindow' \in Nat
  BY <1>1, <1>4 DEF CreditInv
<1> HIDE DEF x, before
<1>13. connWindow + Cardinality(before) + reader.pending_window + credit.connection = CONNECTION_WINDOW
       /\ credit.connection \in Nat
  BY <1>5 DEF CreditInv, CreditConserved, InFlight, InFlightBytes
<1>14. connWindow' + Cardinality(InFlightBytes') + reader'.pending_window + credit'.connection
          = CONNECTION_WINDOW
  BY <1>3, <1>4, <1>9, <1>11, <1>12, <1>13
<1>15. CreditConserved'
  BY <1>14 DEF CreditConserved, InFlight, InFlightBytes
<1> QED
  BY <1>4, <1>12, <1>15 DEF CreditInv

LEMMA SendEnd ==
  ASSUME StreamInv, ReaderInv, EndSeen, NEW f \in Frames, ServerSend(f)
  PROVE  EndSeen'
<1> DEFINE L == Len(stream)
           N == Len(stream')
           F == Len(frames)
<1>1. /\ L \in Nat /\ F \in Nat /\ Len(frames') = F + 1
      /\ N = L + (FRAME_HEADER_LEN + f.length) /\ FRAME_HEADER_LEN \in Nat /\ f.length \in Nat
      /\ \A k \in 1 .. F : frames'[k] = frames[k]
  BY SendFacts
<1>2. /\ \A b \in 1 .. L : stream'[b] = stream[b]
      /\ \A b \in (L + 1) .. N : stream'[b].frame = F + 1
  BY SendBytes
<1>3. fed' = fed /\ done' = done /\ outcome' = outcome
  BY DEF ServerSend, itemVars
<1>4. fed \in Nat
  BY ReaderTypes DEF StreamInv, ReaderInv
<1> SUFFICES ASSUME done \/ outcome = "Ok" PROVE EndSeen'
  BY <1>3 DEF EndSeen
<1>5. PICK k \in 1 .. F : Ends(frames[k]) /\ \A b \in fed + 1 .. L : stream[b].frame > k
  BY DEF EndSeen
<1> HIDE DEF L, N, F
<1>6. ASSUME NEW b \in fed + 1 .. N PROVE stream'[b].frame > k
  <2>1. CASE b <= L
    <3>1. b \in 1 .. L /\ b \in fed + 1 .. L
      BY <1>1, <1>4, <2>1
    <3> QED
      BY <1>2, <1>5, <3>1
  <2>2. CASE b > L
    <3>1. b \in (L + 1) .. N /\ F + 1 > k
      BY <1>1, <1>4, <2>2
    <3> QED
      BY <1>2, <3>1
  <2> QED
    BY <1>1, <1>4, <2>1, <2>2
<1>7. k \in 1 .. Len(frames') /\ frames'[k] = frames[k]
  BY <1>1
<1>8. Ends(frames'[k])
  BY <1>5, <1>7
<1> QED
  BY <1>3, <1>6, <1>7, <1>8, Zenon DEF EndSeen, Ends, N

(***************************************************************************)
(* What was handed on, produced and noted is what was fed, as before.      *)
(***************************************************************************)
LEMMA SendBody ==
  ASSUME StreamInv, ReaderInv, BodyInv, NEW f \in Frames, ServerSend(f)
  PROVE  BodyInv'
<1>1. \A b \in 1 .. Len(stream) :
        stream'[b] = stream[b] /\ frames'[stream[b].frame] = frames[stream[b].frame]
  BY SendBytes
<1>2. fed' = fed /\ body' = body
  BY DEF ServerSend, itemVars
<1>3. \A b \in 1 .. fed : b \in 1 .. Len(stream)
  BY ReaderTypes DEF StreamInv, ReaderInv
<1>4. OwnData(fed)' = OwnData(fed)
  BY <1>1, <1>2, <1>3 DEF OwnData
<1> QED
  BY <1>2, <1>4, Zenon DEF BodyInv, BodyExact, Lists, Range

LEMMA SendControls ==
  ASSUME StreamInv, ReaderInv, ControlsInv, NEW f \in Frames, ServerSend(f)
  PROVE  ControlsInv'
<1>1. \A b \in 1 .. Len(stream) :
        stream'[b] = stream[b] /\ frames'[stream[b].frame] = frames[stream[b].frame]
  BY SendBytes
<1>2. fed' = fed /\ controls' = controls
  BY DEF ServerSend, itemVars
<1>3. \A b \in 1 .. fed : b \in 1 .. Len(stream)
  BY ReaderTypes DEF StreamInv, ReaderInv
<1>4. ControlEnds' = ControlEnds
  BY <1>1, <1>2, <1>3 DEF ControlEnds, Frame
<1>5. \A b \in ControlEnds : ControlAt(b)' = ControlAt(b)
  BY <1>1, <1>3 DEF ControlEnds, ControlAt, Frame
<1>6. {ControlAt(b)' : b \in ControlEnds'} = {ControlAt(b) : b \in ControlEnds}
  BY <1>4, <1>5
<1> QED
  BY <1>2, <1>6, Zenon DEF ControlsInv, ControlsExact, Range

LEMMA SendAcks ==
  ASSUME StreamInv, ReaderInv, ControlsInv, AcksInv, NEW f \in Frames, ServerSend(f)
  PROVE  AcksInv'
<1>1. \A k \in 1 .. Len(frames) : frames'[k] = frames[k]
  BY SendFacts
<1>2. UNCHANGED <<host, round, acks, answered, missed, outcome, controls>>
  BY DEF ServerSend, itemVars, roundVars
<1>3. Noticed \subseteq 1 .. Len(frames)
  <2> SUFFICES ASSUME NEW c \in Range(controls) PROVE c.frame \in 1 .. Len(frames)
    BY DEF Noticed
  <2>1. PICK b \in ControlEnds : c = ControlAt(b)
    BY DEF ControlsInv, ControlsExact
  <2>2. b \in 1 .. fed /\ stream[b].at = Size(stream[b].frame)
    BY DEF ControlEnds, Frame, Size
  <2>3. b \in 1 .. Len(stream)
    BY <2>2, ReaderTypes DEF StreamInv, ReaderInv
  <2> QED
    BY <2>1, <2>2, <2>3, ControlAtType, ByteTypes
<1>4. Noticed' = Noticed /\ Range(acks)' = Range(acks)
  BY <1>2 DEF Noticed, Range
<1>5. \A k \in Noticed : Answers(k)' = Answers(k)
  BY <1>1, <1>3 DEF Answers
<1>6. {k \in Noticed' \ Range(acks)' : Answers(k)'} = {k \in Noticed \ Range(acks) : Answers(k)}
  BY <1>4, <1>5
<1>7. Acknowledged => Acknowledged'
  BY <1>2, <1>4, <1>6, Zenon DEF Acknowledged, Lists, Range
<1> QED
  BY <1>2, <1>7 DEF AcksInv

(***************************************************************************)
(* The body never grows past the last of the netmaps.                      *)
(***************************************************************************)
LEMMA SendMap ==
  ASSUME StreamInv, MapInv, NEW f \in Frames, ServerSend(f)
  PROVE  MapInv'
<1> DEFINE L == Len(stream)
           N == Len(stream')
           H == L + FRAME_HEADER_LEN
           new == (H + 1) .. (H + f.length)
           before == OwnData(L)
           own == f.kind = "DATA" /\ f.own
<1>1. /\ f.length \in Nat /\ FRAME_HEADER_LEN \in Nat /\ L \in Nat
      /\ N = L + (FRAME_HEADER_LEN + f.length)
  BY SendFacts
<1>2. /\ \A b \in 1 .. L :
           stream'[b] = stream[b] /\ frames'[stream[b].frame] = frames[stream[b].frame]
      /\ \A b \in (L + 1) .. N :
           stream'[b].at = b - L /\ frames'[stream'[b].frame] = f
  BY SendBytes
<1>3. UNCHANGED <<body, data, splitter, current, netmap, netmaps>>
  BY DEF ServerSend, itemVars, mapVars
<1> DEFINE P(b) == /\ stream[b].at > FRAME_HEADER_LEN
                   /\ frames[stream[b].frame].kind = "DATA" /\ frames[stream[b].frame].own
           Q(b) == /\ stream'[b].at > FRAME_HEADER_LEN
                   /\ frames'[stream'[b].frame].kind = "DATA" /\ frames'[stream'[b].frame].own
<1>4. before = {b \in 1 .. L : P(b)} /\ OwnData(L)' = {b \in 1 .. N : Q(b)}
  BY DEF OwnData
<1>5. \A b \in 1 .. L : Q(b) <=> P(b)
  BY <1>2
<1>6. \A b \in (L + 1) .. N : Q(b) <=> (own /\ b \in new)
  BY <1>1, <1>2, SMTT(30)
<1>7. 1 .. N = (1 .. L) \cup ((L + 1) .. N) /\ new \subseteq (L + 1) .. N
  BY <1>1
<1>8. IsFiniteSet(before) /\ Cardinality(before) \in Nat
  <2>1. 1 \in Int /\ L \in Int /\ before \in SUBSET (1 .. L)
    BY <1>1, <1>4
  <2> HIDE DEF L, before
  <2> QED
    BY <2>1, PartFinite
<1>9. before \cap new = {} /\ H \in Nat
  BY <1>1, <1>4
<1>10. Cardinality(before) <= MapStarts[Len(MapStarts)]
  BY DEF MapInv, DataInv
<1>11. Cardinality(OwnData(L)') <= MapStarts[Len(MapStarts)]
  <2>1. CASE own
    <3>1. Cardinality(before) + f.length <= MapStarts[Len(MapStarts)]
      BY <2>1, Zenon DEF ServerSend
    <3> HIDE DEF P, Q
    <3>2. OwnData(L)' = before \cup new
      <4> HIDE DEF new, own
      <4> QED
        BY <1>4, <1>5, <1>6, <1>7, <2>1
    <3> HIDE DEF before, H
    <3>3. Cardinality(before \cup new) = Cardinality(before) + f.length
      BY <1>1, <1>8, <1>9, AddInterval
    <3> QED
      BY <3>1, <3>2, <3>3
  <2>2. CASE ~own
    <3> HIDE DEF P, Q, new, own
    <3>1. OwnData(L)' = before
      BY <1>4, <1>5, <1>6, <1>7, <2>2
    <3> QED
      BY <1>10, <3>1
  <2> QED
    BY <2>1, <2>2
<1>12. Seen' = Seen
  BY <1>3 DEF Seen
<1>13. DataInv'
  BY <1>3, <1>11, <1>12 DEF MapInv, DataInv
<1>14. SplitterType' /\ InLength' /\ InMap' /\ FirstMap'
  BY <1>3, <1>12, Zenon DEF MapInv, SplitterType, InLength, InMap, FirstMap
<1>15. WholeMaps' = WholeMaps
  BY <1>3 DEF WholeMaps
<1>16. NetmapsExact'
  BY <1>3, <1>15, Zenon DEF MapInv, NetmapsExact, Range
<1> QED
  BY <1>13, <1>14, <1>16 DEF MapInv

-----------------------------------------------------------------------------
(* Steps that leave a part of the state alone keep what is said of it.     *)

LEMMA StreamSame ==
  ASSUME StreamInv, UNCHANGED <<frames, stream>>
  PROVE  StreamInv'
<1>1. \A b : EndOf(b)' = EndOf(b) /\ Boundary(b)' = Boundary(b)
  BY DEF EndOf, Boundary, Size
<1> QED
  BY <1>1, Zenon DEF StreamInv, StreamType, StreamPlaces, StreamOrder, StreamStarts, OwnEnds,
                     Size, Ends

LEMMA ReaderSame ==
  ASSUME ReaderInv, UNCHANGED <<frames, stream, fed>>,
         reader' = [reader EXCEPT !.pending_window = reader'.pending_window],
         reader'.pending_window \in Nat, read' \in 0 .. Len(stream), read' >= read,
         Len(stream) \in Nat
  PROVE  ReaderInv'
<1>1. /\ reader'.state = reader.state /\ reader'.header = reader.header
      /\ reader'.current = reader.current /\ reader'.remaining = reader.remaining
      /\ reader'.control = reader.control
  BY DEF ReaderInv, ReaderType
<1>2. ReaderType'
  <2> DEFINE w == reader'.pending_window
  <2>1. reader' = [reader EXCEPT !.pending_window = w] /\ w \in Nat
    OBVIOUS
  <2> HIDE DEF w
  <2>2. reader' \in [state : {"Header", "Buffering", "Draining", "Streaming"}, header : Seq(Nat),
                     current : Nat, remaining : Nat, control : Seq(Nat), pending_window : Nat]
    BY <2>1 DEF ReaderInv, ReaderType
  <2>3. fed' \in 0 .. read'
    BY DEF ReaderInv, ReaderType
  <2> QED
    BY <2>2, <2>3 DEF ReaderType
<1>3. InHeader'
  <2> DEFINE b == fed - Len(reader.header)
  <2>1. InHeader
    BY DEF ReaderInv
  <2>2. Boundary(b) => Boundary(b)'
    BY <1>1 DEF Boundary, EndOf, Size
  <2> QED
    BY <1>1, <2>1, <2>2 DEF InHeader
<1>4. InFrame' /\ InControl'
  BY <1>1 DEF ReaderInv, InFrame, InControl, Size
<1> QED
  BY <1>2, <1>3, <1>4 DEF ReaderInv

LEMMA CreditSame ==
  ASSUME CreditInv, UNCHANGED <<frames, stream, fed, reader, connWindow, credit>>
  PROVE  CreditInv'
<1>1. InFlight' = InFlight
  BY DEF InFlight, InPayload, Frame
<1> QED
  BY <1>1 DEF CreditInv, CreditConserved

LEMMA EndSame ==
  ASSUME EndSeen, UNCHANGED <<frames, stream, fed>>,
         done' \/ outcome' = "Ok" => done \/ outcome = "Ok"
  PROVE  EndSeen'
BY Zenon DEF EndSeen, Ends

LEMMA BodySame ==
  ASSUME BodyInv, UNCHANGED <<frames, stream, fed, body>>
  PROVE  BodyInv'
<1>1. OwnData(fed)' = OwnData(fed)
  BY DEF OwnData
<1> QED
  BY <1>1, Zenon DEF BodyInv, BodyExact, Lists, Range

LEMMA ControlsSame ==
  ASSUME ControlsInv, UNCHANGED <<frames, stream, fed, controls>>
  PROVE  ControlsInv'
<1>1. ControlEnds' = ControlEnds
  BY DEF ControlEnds, Frame
<1>2. \A b : ControlAt(b)' = ControlAt(b)
  BY DEF ControlAt, Frame
<1>3. {ControlAt(b)' : b \in ControlEnds'} = {ControlAt(b) : b \in ControlEnds}
  BY <1>1, <1>2
<1> QED
  BY <1>3, Zenon DEF ControlsInv, ControlsExact, Range

LEMMA AcksSame ==
  ASSUME AcksInv, UNCHANGED <<host, frames, acks, answered, missed, controls>>,
         round' \in BOOLEAN, ~round' => acks = <<>>, outcome' = "reading" => outcome = "reading"
  PROVE  AcksInv'
<1>1. Noticed' = Noticed /\ Range(acks)' = Range(acks)
  BY DEF Noticed, Range
<1>2. {k \in Noticed' \ Range(acks)' : Answers(k)'} = {k \in Noticed \ Range(acks) : Answers(k)}
  BY <1>1 DEF Answers
<1>3. Acknowledged => Acknowledged'
  BY <1>1, <1>2, Zenon DEF Acknowledged, Lists, Range
<1> QED
  BY <1>3 DEF AcksInv

LEMMA MapSame ==
  ASSUME MapInv, UNCHANGED <<frames, stream, body, data, splitter, current, netmap, netmaps>>
  PROVE  MapInv'
<1>1. OwnData(Len(stream))' = OwnData(Len(stream)) /\ Seen' = Seen /\ WholeMaps' = WholeMaps
  BY DEF OwnData, Seen, WholeMaps
<1>2. DataInv'
  BY <1>1 DEF MapInv, DataInv
<1>3. SplitterType' /\ InLength' /\ InMap' /\ FirstMap'
  BY <1>1, Zenon DEF MapInv, SplitterType, InLength, InMap, FirstMap
<1>4. NetmapsExact'
  BY <1>1, Zenon DEF MapInv, NetmapsExact, Range
<1> QED
  BY <1>2, <1>3, <1>4 DEF MapInv

LEMMA ReaderKept ==
  ASSUME StreamInv, ReaderInv, UNCHANGED <<frames, stream, fed, reader, read>>
  PROVE  ReaderInv'
<1>1. /\ reader.pending_window \in Nat /\ read \in 0 .. Len(stream) /\ read >= read
      /\ Len(stream) \in Nat
  BY ReaderTypes DEF StreamInv, ReaderInv
<1>2. reader = [reader EXCEPT !.pending_window = reader.pending_window]
  BY DEF ReaderInv, ReaderType
<1> QED
  BY <1>1, <1>2, ReaderSame

-----------------------------------------------------------------------------
(* The server takes its credit; the loop of post_stream.                   *)

LEMMA CreditTaken ==
  ASSUME IInv, ServerCredit
  PROVE  IInv'
<1>1. /\ UNCHANGED <<host, frames, stream, round, read, fed, reader>>
      /\ UNCHANGED <<acks, done, body, data, controls, missed, answered, outcome>>
      /\ UNCHANGED <<splitter, current, netmap, netmaps>>
      /\ connWindow' = connWindow + credit.connection
      /\ credit' = [connection |-> 0, stream |-> 0]
  BY DEF ServerCredit, itemVars, mapVars
<1>2. StreamInv' /\ ReaderInv' /\ EndSeen' /\ BodyInv' /\ ControlsInv' /\ MapInv'
  BY <1>1, StreamSame, ReaderKept, EndSame, BodySame, ControlsSame, MapSame DEF IInv
<1>3. AcksInv'
  BY <1>1, AcksSame DEF IInv, AcksInv
<1>4. CreditInv'
  <2>1. InFlight' = InFlight
    BY <1>1 DEF InFlight, InPayload, Frame
  <2> DEFINE w == InFlight
             p == reader.pending_window
             c == credit.connection
  <2>2. w \in Nat
    <3> DEFINE lo == fed + 1
               hi == Len(stream)
    <3>1. lo \in Int /\ hi \in Int
      BY ReaderTypes DEF IInv, StreamInv, ReaderInv
    <3>2. InFlightBytes \in SUBSET (lo .. hi)
      BY DEF InFlightBytes
    <3> HIDE DEF lo, hi
    <3> QED
      BY <3>1, <3>2, PartFinite DEF InFlight, InFlightBytes
  <2>3. p \in Nat
    BY ReaderTypes DEF IInv, StreamInv, ReaderInv
  <2>4. connWindow \in Nat /\ c \in Nat /\ connWindow + w + p + c = CONNECTION_WINDOW
    BY DEF IInv, CreditInv, CreditConserved
  <2> HIDE DEF w, c, p
  <2>5. connWindow + c \in Nat /\ connWindow + c + w + p + 0 = CONNECTION_WINDOW
    BY <2>2, <2>3, <2>4
  <2>6. connWindow' = connWindow + c /\ credit'.connection = 0 /\ reader'.pending_window = p
        /\ InFlight' = w /\ credit' \in [connection : Nat, stream : Nat]
    BY <1>1, <2>1 DEF w, p, c
  <2>7. connWindow' + InFlight' + reader'.pending_window + credit'.connection = CONNECTION_WINDOW
    BY <2>5, <2>6
  <2> QED
    BY <2>5, <2>6, <2>7 DEF CreditInv, CreditConserved
<1> QED
  BY <1>2, <1>3, <1>4 DEF IInv

LEMMA RoundStarts ==
  ASSUME IInv, NEW n \in 1 .. Len(stream) - read, Pump(n)
  PROVE  IInv'
<1>1. /\ UNCHANGED <<host, frames, stream, connWindow, credit, fed, reader>>
      /\ UNCHANGED <<body, data, controls, missed, answered, outcome>>
      /\ UNCHANGED <<splitter, current, netmap, netmaps>>
      /\ read' = read + n /\ round' = TRUE /\ acks' = <<>> /\ done' = FALSE
      /\ ~round /\ outcome = "reading" /\ read + n <= Len(stream)
  BY DEF Pump, serverVars, mapVars
<1>2. acks = <<>>
  BY <1>1 DEF IInv, AcksInv
<1>3. ReaderInv'
  <2>1. /\ reader.pending_window \in Nat /\ read \in Nat /\ Len(stream) \in Nat
    BY ReaderTypes DEF IInv, StreamInv, ReaderInv
  <2>2. read' \in 0 .. Len(stream) /\ read' >= read
    BY <1>1, <2>1
  <2>3. reader = [reader EXCEPT !.pending_window = reader.pending_window]
    BY DEF IInv, ReaderInv, ReaderType
  <2> QED
    BY <1>1, <2>1, <2>2, <2>3, ReaderSame DEF IInv
<1>4. StreamInv' /\ CreditInv' /\ BodyInv' /\ ControlsInv' /\ MapInv'
  BY <1>1, StreamSame, CreditSame, BodySame, ControlsSame, MapSame DEF IInv
<1>5. EndSeen'
  BY <1>1 DEF EndSeen
<1>6. AcksInv'
  BY <1>1, <1>2, AcksSame DEF IInv
<1> QED
  BY <1>3, <1>4, <1>5, <1>6 DEF IInv

LEMMA NotedHandled ==
  ASSUME IInv, HandleNoted
  PROVE  IInv'
<1>1. /\ UNCHANGED <<host, frames, stream, connWindow, round, read, credit, fed, reader>>
      /\ UNCHANGED <<done, body, data, controls, missed>>
      /\ UNCHANGED <<splitter, current, netmap, netmaps>>
      /\ acks # <<>> /\ acks' = Tail(acks) /\ round /\ outcome = "reading"
  BY DEF HandleNoted, InputUsed, serverVars, roundVars, mapVars
<1> DEFINE h == Head(acks)
           S == {j \in Noticed \ Range(acks) : Answers(j)}
<1>2. /\ answered' = IF Answers(h) THEN Append(answered, h) ELSE answered
      /\ outcome' # "Ok"
  BY <1>1 DEF HandleNoted, handle_control
<1>3. StreamInv' /\ ReaderInv' /\ CreditInv' /\ BodyInv' /\ ControlsInv' /\ MapInv'
  BY <1>1, StreamSame, ReaderKept, CreditSame, BodySame, ControlsSame, MapSame DEF IInv
<1>4. EndSeen'
  BY <1>1, <1>2, EndSame DEF IInv
<1>5. /\ acks \in Seq(Nat) /\ answered \in Seq(Nat) /\ missed \in Nat
      /\ host \in BOOLEAN /\ ~host /\ (missed = 0 => Acknowledged)
  BY <1>1 DEF IInv, AcksInv
<1>6. /\ acks' \in Seq(Nat) /\ h \in Nat /\ answered' \in Seq(Nat)
  BY <1>1, <1>2, <1>5
<1>7. ASSUME Acknowledged PROVE Acknowledged'
  <2> DEFINE m == Len(acks)
  <2>1. /\ Range(acks) \subseteq Noticed /\ Lists(answered, S)
        /\ \A i, j \in DOMAIN acks : i < j => acks[i] < acks[j]
        /\ \A c \in Noticed \ Range(acks), d \in Range(acks) : c < d
    BY <1>7 DEF Acknowledged
  <2>2. /\ m \in Nat /\ m >= 1 /\ DOMAIN acks = 1 .. m /\ acks[1] = h
        /\ DOMAIN acks' = 1 .. (m - 1) /\ \A i \in 1 .. (m - 1) : acks'[i] = acks[i + 1]
        /\ \A i \in 1 .. m : acks[i] \in Nat
    BY <1>1, <1>5
  <2> HIDE DEF m, h
  <2>3. \A i, j \in DOMAIN acks' : i < j => acks'[i] < acks'[j]
    <3> SUFFICES ASSUME NEW i \in 1 .. (m - 1), NEW j \in 1 .. (m - 1), i < j
                 PROVE  acks'[i] < acks'[j]
      BY <2>2
    <3>1. i + 1 \in 1 .. m /\ j + 1 \in 1 .. m /\ i + 1 < j + 1
      BY <2>2
    <3>2. acks[i + 1] < acks[j + 1]
      BY <2>1, <2>2, <3>1
    <3> QED
      BY <2>2, <3>2
  <2>4. Range(acks) = Range(acks') \cup {h} /\ \A d \in Range(acks') : d \in Nat /\ h < d
    <3>1. \A i \in 1 .. m : i = 1 \/ (i - 1 \in 1 .. (m - 1) /\ acks'[i - 1] = acks[i])
      BY <2>2
    <3>2. \A i \in 1 .. (m - 1) : i + 1 \in 1 .. m /\ h < acks[i + 1]
      <4> SUFFICES ASSUME NEW i \in 1 .. (m - 1)
                   PROVE  i + 1 \in 1 .. m /\ h < acks[i + 1]
        OBVIOUS
      <4>1. 1 \in 1 .. m /\ i + 1 \in 1 .. m /\ 1 < i + 1
        BY <2>2
      <4>2. acks[1] < acks[i + 1]
        BY <2>1, <2>2, <4>1
      <4> QED
        BY <2>2, <4>1, <4>2
    <3>3. Range(acks) \subseteq Range(acks') \cup {h}
      <4> SUFFICES ASSUME NEW i \in 1 .. m PROVE acks[i] \in Range(acks') \cup {h}
        BY <2>2 DEF Range
      <4>1. CASE i = 1
        BY <2>2, <4>1
      <4>2. CASE i # 1
        <5>1. i - 1 \in DOMAIN acks' /\ acks'[i - 1] = acks[i]
          BY <2>2, <3>1, <4>2
        <5>2. acks[i] \in Range(acks')
          BY <5>1, Zenon DEF Range
        <5> QED
          BY <5>2
      <4> QED
        BY <4>1, <4>2
    <3>4. Range(acks') \subseteq Range(acks) /\ \A d \in Range(acks') : d \in Nat /\ h < d
      BY <2>2, <3>2 DEF Range
    <3>5. h \in Range(acks)
      BY <2>2 DEF Range
    <3> QED
      BY <3>3, <3>4, <3>5
  <2>5. h \notin Range(acks')
    BY <1>6, <2>4 DEF h
  <2>6. Noticed' = Noticed /\ \A j : Answers(j)' = Answers(j)
    BY <1>1 DEF Noticed, Range, Answers
  <2>7. Noticed \ Range(acks') = (Noticed \ Range(acks)) \cup {h}
    BY <2>1, <2>4, <2>5
  <2>8. Range(acks') \subseteq Noticed'
    BY <2>1, <2>4, <2>6
  <2>9. \A c \in Noticed' \ Range(acks'), d \in Range(acks') : c < d
    BY <2>1, <2>4, <2>6, <2>7
  <2> DEFINE T == {j \in Noticed' \ Range(acks') : Answers(j)'}
  <2>10. T = IF Answers(h) THEN S \cup {h} ELSE S
    BY <2>6, <2>7
  <2>11. \A y \in S : y < h
    BY <2>1, <2>4
  <2> HIDE DEF S, T
  <2>12. Lists(answered', T)
    <3>1. CASE Answers(h)
      BY <1>2, <1>5, <1>6, <2>1, <2>10, <2>11, <3>1, ListsAppend DEF h
    <3>2. CASE ~Answers(h)
      BY <1>2, <2>1, <2>10, <3>2 DEF h
    <3> QED
      BY <3>1, <3>2
  <2> QED
    BY <2>3, <2>8, <2>9, <2>12, Zenon DEF Acknowledged, Lists, Range, T
<1>8. AcksInv'
  BY <1>1, <1>5, <1>6, <1>7 DEF AcksInv
<1> QED
  BY <1>3, <1>4, <1>8 DEF IInv

LEMMA RoundEnds ==
  ASSUME IInv, EndRound
  PROVE  IInv'
<1>1. /\ UNCHANGED <<host, frames, stream, connWindow, read, fed>>
      /\ UNCHANGED <<acks, done, body, data, controls, missed, answered>>
      /\ UNCHANGED <<splitter, current, netmap, netmaps>>
      /\ acks = <<>> /\ outcome = "reading" /\ round' = FALSE
      /\ credit' = [credit EXCEPT !.connection = @ + reader.pending_window]
      /\ reader' = [reader EXCEPT !.pending_window = 0]
      /\ outcome' = IF done THEN "Ok" ELSE "reading"
  BY DEF EndRound, InputUsed, serverVars, mapVars
<1>2. StreamInv' /\ BodyInv' /\ ControlsInv' /\ MapInv'
  BY <1>1, StreamSame, BodySame, ControlsSame, MapSame DEF IInv
<1>3. EndSeen'
  BY <1>1, EndSame DEF IInv
<1>4. AcksInv'
  BY <1>1, AcksSame DEF IInv
<1>5. reader'.pending_window = 0
  BY <1>1 DEF IInv, ReaderInv, ReaderType
<1>6. ReaderInv'
  <2>1. read \in 0 .. Len(stream) /\ read >= read /\ Len(stream) \in Nat
    BY ReaderTypes DEF IInv, StreamInv, ReaderInv
  <2> QED
    BY <1>1, <1>5, <2>1, ReaderSame DEF IInv
<1>7. CreditInv'
  <2> DEFINE w == InFlight
             p == reader.pending_window
             c == credit.connection
  <2>1. InFlight' = InFlight
    BY <1>1 DEF InFlight, InPayload, Frame
  <2>2. w \in Nat
    <3> DEFINE lo == fed + 1
               hi == Len(stream)
    <3>1. lo \in Int /\ hi \in Int
      BY ReaderTypes DEF IInv, StreamInv, ReaderInv
    <3>2. InFlightBytes \in SUBSET (lo .. hi)
      BY DEF InFlightBytes
    <3> HIDE DEF lo, hi
    <3> QED
      BY <3>1, <3>2, PartFinite DEF InFlight, InFlightBytes
  <2>3. p \in Nat
    BY ReaderTypes DEF IInv, StreamInv, ReaderInv
  <2>4. connWindow \in Nat /\ c \in Nat /\ connWindow + w + p + c = CONNECTION_WINDOW
        /\ credit \in [connection : Nat, stream : Nat]
    BY DEF IInv, CreditInv, CreditConserved
  <2>5. credit'.connection = c + p /\ InFlight' = w /\ connWindow' = connWindow
    BY <1>1, <2>1, <2>4
  <2>6. credit' \in [connection : Nat, stream : Nat]
    BY <1>1, <2>3, <2>4
  <2> HIDE DEF w, c, p
  <2>7. connWindow' + InFlight' + reader'.pending_window + credit'.connection = CONNECTION_WINDOW
    BY <1>5, <2>2, <2>3, <2>4, <2>5
  <2> QED
    BY <2>4, <2>5, <2>6, <2>7 DEF CreditInv, CreditConserved
<1> QED
  BY <1>2, <1>3, <1>4, <1>6, <1>7 DEF IInv

-----------------------------------------------------------------------------
(* The splitter: lemmas about the body and the netmaps in it.              *)

LEMMA SubIs ==
  ASSUME NEW s \in Seq(Nat), NEW p \in Nat, NEW n \in Nat, p + n <= Len(s)
  PROVE  /\ SubSeq(s, p + 1, p + n) \in Seq(Nat) /\ Len(SubSeq(s, p + 1, p + n)) = n
         /\ \A i \in 1 .. n : SubSeq(s, p + 1, p + n)[i] = s[p + i]
<1> DEFINE lo == p + 1
           hi == p + n
           t == SubSeq(s, lo, hi)
<1>1. lo \in 1 .. Len(s) + 1 /\ hi \in lo - 1 .. Len(s) /\ hi - lo + 1 = n /\ Len(s) \in Nat
      /\ \A i \in 1 .. n : lo + i - 1 = p + i
  OBVIOUS
<1> HIDE DEF lo, hi
<1>2. t \in Seq(Nat) /\ Len(t) = hi - lo + 1
      /\ \A i \in 1 .. hi - lo + 1 : t[i] = s[lo + i - 1]
  BY <1>1, SubSeqProperties
<1> HIDE DEF t
<1>3. t \in Seq(Nat) /\ Len(t) = n /\ \A i \in 1 .. n : t[i] = s[p + i]
  BY <1>1, <1>2
<1> QED
  BY <1>3 DEF t, lo, hi

LEMMA PrefixIs ==
  ASSUME NEW s \in Seq(Nat), NEW n \in Nat, n <= Len(s)
  PROVE  /\ SubSeq(s, 1, n) \in Seq(Nat) /\ Len(SubSeq(s, 1, n)) = n
         /\ \A i \in 1 .. n : SubSeq(s, 1, n)[i] = s[i]
<1> DEFINE p == 0
<1>1. p \in Nat /\ p + n <= Len(s) /\ p + 1 = 1 /\ p + n = n /\ \A i \in 1 .. n : p + i = i
  OBVIOUS
<1> HIDE DEF p
<1> DEFINE t == SubSeq(s, p + 1, p + n)
<1>2. t \in Seq(Nat) /\ Len(t) = n /\ \A i \in 1 .. n : t[i] = s[p + i]
  BY <1>1, SubIs
<1>3. t = SubSeq(s, 1, n)
  BY <1>1
<1> HIDE DEF t
<1>4. t \in Seq(Nat) /\ Len(t) = n /\ \A i \in 1 .. n : t[i] = s[i]
  BY <1>1, <1>2
<1> QED
  BY <1>3, <1>4

LEMMA ConcatIs ==
  ASSUME NEW s \in Seq(Nat), NEW t \in Seq(Nat)
  PROVE  /\ s \o t \in Seq(Nat) /\ Len(s \o t) = Len(s) + Len(t)
         /\ \A i \in 1 .. Len(s) : (s \o t)[i] = s[i]
         /\ \A i \in 1 .. Len(t) : (s \o t)[Len(s) + i] = t[i]
OBVIOUS

(***************************************************************************)
(* The first M of s followed by what still fits of t are the first M of    *)
(* both together.                                                          *)
(***************************************************************************)
LEMMA PrefixConcat ==
  ASSUME NEW s \in Seq(Nat), NEW t \in Seq(Nat), NEW M \in Nat, NEW u,
         u = SubSeq(s, 1, Min({M, Len(s)}))
  PROVE  /\ M - Len(u) \in Nat
         /\ u \o SubSeq(t, 1, Min({M - Len(u), Len(t)})) = SubSeq(s \o t, 1, Min({M, Len(s \o t)}))
<1> DEFINE a == Len(s)
           b == Len(t)
           m == Min({M, a})
           n == Min({M - Len(u), b})
           v == SubSeq(t, 1, n)
           w == s \o t
           l == Min({M, Len(w)})
           x == SubSeq(w, 1, l)
<1>1. a \in Nat /\ b \in Nat
  OBVIOUS
<1>2. w \in Seq(Nat) /\ Len(w) = a + b
      /\ (\A i \in 1 .. a : w[i] = s[i]) /\ \A i \in 1 .. b : w[a + i] = t[i]
  BY ConcatIs
<1>3. m \in Nat /\ m <= M /\ m <= a /\ (m = M \/ m = a)
  BY <1>1, MinTwo
<1> HIDE DEF m, a, b, w
<1>4. u \in Seq(Nat) /\ Len(u) = m /\ \A i \in 1 .. m : u[i] = s[i]
  <2>1. u = SubSeq(s, 1, m) /\ m <= Len(s)
    BY <1>3 DEF m, a
  <2> QED
    <3> DEFINE z == SubSeq(s, 1, m)
    <3>1. z \in Seq(Nat) /\ Len(z) = m /\ \A i \in 1 .. m : z[i] = s[i]
      BY <1>3, <2>1, PrefixIs
    <3>2. u = z
      BY <2>1
    <3> HIDE DEF z
    <3> QED
      BY <3>1, <3>2, Zenon
<1>5. M - Len(u) \in Nat /\ n \in Nat /\ n <= M - m /\ n <= b /\ (n = M - m \/ n = b)
  <2>1. M - Len(u) = M - m /\ M - m \in Nat
    BY <1>3, <1>4
  <2>2. n = Min({M - m, b})
    BY <2>1
  <2> DEFINE e == M - m
  <2> HIDE DEF e, n
  <2>3. e \in Nat /\ n = Min({e, b})
    BY <2>1, <2>2 DEF e
  <2>4. n \in Nat /\ n <= e /\ n <= b /\ (n = e \/ n = b)
    BY <1>1, <2>3, MinTwo
  <2> QED
    BY <2>1, <2>4 DEF e
<1>6. l \in Nat /\ l <= M /\ l <= a + b /\ (l = M \/ l = a + b)
  BY <1>1, <1>2, MinTwo
<1> HIDE DEF n, l
<1>7. v \in Seq(Nat) /\ Len(v) = n /\ \A i \in 1 .. n : v[i] = t[i]
  BY <1>5, PrefixIs DEF b
<1>8. x \in Seq(Nat) /\ Len(x) = l /\ \A i \in 1 .. l : x[i] = w[i]
  BY <1>2, <1>6, PrefixIs
<1> HIDE DEF v, x
<1>9. l = m + n /\ (n = 0 \/ m = a)
  BY <1>1, <1>3, <1>5, <1>6
<1> DEFINE y == u \o v
<1>10. y \in Seq(Nat) /\ Len(y) = m + n
       /\ (\A i \in 1 .. m : y[i] = u[i]) /\ \A i \in 1 .. n : y[m + i] = v[i]
  BY <1>4, <1>7, ConcatIs, ZenonT(60)
<1> HIDE DEF y
<1>11. ASSUME NEW i \in 1 .. l PROVE y[i] = x[i]
  <2>1. CASE i <= m
    <3>1. i \in 1 .. m /\ i \in 1 .. a
      BY <1>1, <1>3, <1>6, <2>1
    <3> QED
      BY <1>2, <1>4, <1>8, <1>10, <3>1, ZenonT(60)
  <2>2. CASE i > m
    <3> DEFINE j == i - m
    <3>1. j \in 1 .. n /\ i = m + j /\ m = a /\ j \in 1 .. b
      BY <1>1, <1>3, <1>5, <1>6, <1>9, <2>2
    <3> HIDE DEF j
    <3>2. y[m + j] = v[j] /\ v[j] = t[j] /\ w[a + j] = t[j]
      BY <1>2, <1>7, <1>10, <3>1
    <3> QED
      BY <1>8, <3>1, <3>2
  <2> QED
    BY <1>3, <1>6, <2>1, <2>2
<1>12. y = x
  BY <1>8, <1>9, <1>10, <1>11, SeqEqual
<1> QED
  BY <1>5, <1>12 DEF y, v, x, n, l, w, b

(***************************************************************************)
(* The netmaps follow each other.                                          *)
(***************************************************************************)
LEMMA MapOrder ==
  /\ Len(MapStarts) \in Nat /\ Len(MapStarts) >= 1 /\ MAP_LEN \in Nat /\ MAP_LEN >= 1
  /\ \A k \in 1 .. Len(MapStarts) : MapStarts[k] \in Nat
  /\ \A j, k \in 1 .. Len(MapStarts) : j < k => MapStarts[j] + MAP_LEN <= MapStarts[k]
  /\ \A k \in Maps :
        /\ k \in 1 .. Len(MapStarts) /\ k + 1 \in 1 .. Len(MapStarts)
        /\ MapLength(k) \in Nat
        /\ MapStarts[k + 1] = MapStarts[k] + MAP_LEN + MapLength(k)
<1> DEFINE n == Len(MapStarts)
<1>1. /\ n \in Nat /\ n >= 1 /\ DOMAIN MapStarts = 1 .. n /\ MAP_LEN \in Nat /\ MAP_LEN >= 1
      /\ \A k \in 1 .. n : MapStarts[k] \in Nat
  BY H2Assumption, MapAssumption
<1>2. \A j, k \in 1 .. n : j < k => MapStarts[j] + MAP_LEN <= MapStarts[k]
  BY <1>1, MapAssumption
<1> HIDE DEF n
<1>3. ASSUME NEW k \in 1 .. (n - 1)
      PROVE  /\ k \in 1 .. n /\ k + 1 \in 1 .. n
             /\ MapLength(k) \in Nat
             /\ MapStarts[k + 1] = MapStarts[k] + MAP_LEN + MapLength(k)
  <2>1. k \in 1 .. n /\ k + 1 \in 1 .. n /\ k < k + 1
    BY <1>1
  <2>2. /\ MapStarts[k] \in Nat /\ MapStarts[k + 1] \in Nat
        /\ MapStarts[k] + MAP_LEN <= MapStarts[k + 1]
    BY <1>1, <1>2, <2>1
  <2> QED
    BY <1>1, <2>1, <2>2 DEF MapLength
<1>4. Maps = 1 .. (n - 1)
  BY DEF Maps, n
<1> QED
  BY <1>1, <1>2, <1>3, <1>4 DEF n

(***************************************************************************)
(* The netmaps before position s of the body, for s in or after the k-th   *)
(* netmap and before the next.                                             *)
(***************************************************************************)
LEMMA WholeUpTo ==
  ASSUME NEW k \in 1 .. Len(MapStarts), NEW s \in Nat, MapStarts[k] <= s,
         k + 1 \in 1 .. Len(MapStarts) => s < MapStarts[k + 1]
  PROVE  {j \in Maps : MapLength(j) > 0 /\ MapStarts[j + 1] <= s}
           = {j \in Maps : MapLength(j) > 0 /\ j < k}
<1> DEFINE n == Len(MapStarts)
<1>1. /\ n \in Nat /\ MAP_LEN \in Nat /\ \A i \in 1 .. n : MapStarts[i] \in Nat
      /\ \A i, j \in 1 .. n : i < j => MapStarts[i] + MAP_LEN <= MapStarts[j]
  BY MapOrder
<1>2. \A j \in Maps : j \in Nat /\ j + 1 \in 1 .. n
  BY <1>1 DEF Maps
<1> HIDE DEF n
<1>3. ASSUME NEW j \in Maps PROVE MapStarts[j + 1] <= s <=> j < k
  <2>0. j \in Nat /\ j + 1 \in 1 .. n /\ k \in 1 .. n /\ k \in Nat
    BY <1>1, <1>2 DEF n
  <2>1. CASE j < k
    <3>1. j + 1 < k \/ j + 1 = k
      BY <2>0, <2>1
    <3>2. MapStarts[j + 1] <= MapStarts[k]
      BY <1>1, <2>0, <3>1
    <3> QED
      BY <1>1, <2>0, <2>1, <3>2
  <2>2. CASE ~(j < k)
    <3>1. k + 1 \in 1 .. n /\ (k + 1 < j + 1 \/ k + 1 = j + 1)
      BY <1>1, <2>0, <2>2
    <3>2. MapStarts[k + 1] <= MapStarts[j + 1] /\ s < MapStarts[k + 1]
      BY <1>1, <2>0, <3>1 DEF n
    <3> QED
      BY <1>1, <2>0, <2>2, <3>1, <3>2
  <2> QED
    BY <2>1, <2>2
<1> QED
  BY <1>3

LEMMA BodyWithin ==
  ASSUME StreamInv, ReaderInv, BodyInv, DataInv
  PROVE  Len(body) \in Nat /\ Len(body) <= MapStarts[Len(MapStarts)]
<1> DEFINE A == OwnData(fed)
           B == OwnData(Len(stream))
<1>1. fed \in Nat /\ fed <= Len(stream) /\ Len(stream) \in Nat
  BY ReaderTypes DEF StreamInv, ReaderInv
<1>2. A \in SUBSET B
  BY <1>1 DEF OwnData
<1>3. B \in SUBSET (1 .. Len(stream))
  BY DEF OwnData
<1>4. body \in Seq(Nat) /\ Lists(body, A)
  BY DEF BodyInv, BodyExact
<1>5. Cardinality(B) <= MapStarts[Len(MapStarts)]
  BY DEF DataInv
<1> DEFINE lo == 1
           hi == Len(stream)
<1>6. lo \in Int /\ hi \in Int /\ B \in SUBSET (lo .. hi)
  BY <1>1, <1>3
<1> HIDE DEF A, B, lo, hi
<1>7. IsFiniteSet(B) /\ Cardinality(B) \in Nat
  BY <1>6, PartFinite
<1>8. Cardinality(A) <= Cardinality(B)
  BY <1>2, <1>7, FS_Subset
<1>9. Cardinality(A) = Len(body) /\ Len(body) \in Nat
  BY <1>4, ListsCardinality
<1>10. MapStarts[Len(MapStarts)] \in Nat
  BY MapOrder
<1> QED
  BY <1>5, <1>7, <1>8, <1>9, <1>10

(***************************************************************************)
(* on_data is shown a part of a netmap: what is kept of the first is the   *)
(* start of what was shown of it.                                          *)
(***************************************************************************)
LEMMA FrameShown ==
  ASSUME SplitterType, FirstMap, NEW chunk \in Seq(Nat), NEW end \in BOOLEAN,
         OnMapFrame(chunk, end)
  PROVE  /\ current \o chunk \in Seq(Nat)
         /\ current' = IF end THEN <<>> ELSE current \o chunk
         /\ netmaps' = IF end THEN Append(netmaps, current \o chunk) ELSE netmaps
         /\ netmaps # <<>> => netmap' = netmap
         /\ netmaps = <<>> =>
              netmap' = SubSeq(current \o chunk, 1, Min({NETMAP_MAX, Len(current \o chunk)}))
         /\ current' \in Seq(Nat) /\ netmap' \in Seq(Nat) /\ netmaps' \in Seq(Seq(Nat))
<1> DEFINE cc == current \o chunk
           first == SubSeq(cc, 1, Min({NETMAP_MAX, Len(cc)}))
<1>1. current \in Seq(Nat) /\ netmap \in Seq(Nat) /\ netmaps \in Seq(Seq(Nat)) /\ NETMAP_MAX \in Nat
  BY H2Assumption DEF SplitterType
<1>2. cc \in Seq(Nat)
  BY <1>1, ConcatIs
<1>3. /\ current' = IF end THEN <<>> ELSE cc
      /\ netmaps' = IF end THEN Append(netmaps, cc) ELSE netmaps
      /\ netmaps # <<>> => netmap' = netmap
      /\ netmaps = <<>> =>
           netmap' = netmap \o SubSeq(chunk, 1, Min({NETMAP_MAX - Len(netmap), Len(chunk)}))
  BY Zenon DEF OnMapFrame
<1>4. netmaps = <<>> => netmap' = first
  <2> SUFFICES ASSUME netmaps = <<>> PROVE netmap' = first
    OBVIOUS
  <2>1. netmap = SubSeq(current, 1, Min({NETMAP_MAX, Len(current)}))
    BY Zenon DEF FirstMap
  <2>2. netmap \o SubSeq(chunk, 1, Min({NETMAP_MAX - Len(netmap), Len(chunk)}))
          = SubSeq(current \o chunk, 1, Min({NETMAP_MAX, Len(current \o chunk)}))
    <3> DEFINE N == NETMAP_MAX
               s == current
    <3>1. N \in Nat /\ s \in Seq(Nat) /\ netmap = SubSeq(s, 1, Min({N, Len(s)}))
      BY <1>1, <2>1
    <3> HIDE DEF N, s
    <3>2. netmap \o SubSeq(chunk, 1, Min({N - Len(netmap), Len(chunk)}))
            = SubSeq(s \o chunk, 1, Min({N, Len(s \o chunk)}))
      BY <3>1, PrefixConcat, Zenon
    <3> QED
      BY <3>2 DEF N, s
  <2>3. netmap \o SubSeq(chunk, 1, Min({NETMAP_MAX - Len(netmap), Len(chunk)})) = first
    BY <2>2
  <2> QED
    BY <1>3, <2>3, Zenon
<1>5. first \in Seq(Nat)
  <2> HIDE DEF cc
  <2> DEFINE n == Min({NETMAP_MAX, Len(cc)})
  <2>1. n \in Nat /\ n <= Len(cc)
    <3>1. Len(cc) \in Nat
      BY <1>2
    <3> QED
      BY <1>1, <3>1, MinTwo
  <2> HIDE DEF n
  <2>2. SubSeq(cc, 1, n) \in Seq(Nat)
    BY <1>2, <2>1, PrefixIs
  <2> QED
    BY <2>2 DEF n
<1> HIDE DEF cc, first
<1>6. current' \in Seq(Nat) /\ netmap' \in Seq(Nat) /\ netmaps' \in Seq(Seq(Nat))
  <2>1. current' \in Seq(Nat)
    BY <1>2, <1>3
  <2>2. netmap' \in Seq(Nat)
    BY <1>1, <1>3, <1>4, <1>5, Zenon
  <2>3. Append(netmaps, cc) \in Seq(Seq(Nat))
    BY <1>1, <1>2
  <2>4. netmaps' \in Seq(Seq(Nat))
    BY <1>1, <1>3, <2>3, Zenon
  <2> QED
    BY <2>1, <2>2, <2>4
<1> QED
  BY <1>2, <1>3, <1>4, <1>6, Zenon DEF cc, first

LEMMA NoMapEnds ==
  ASSUME MapInv, NEW chunk \in Seq(Nat), OnMapFrame(chunk, FALSE), WholeMaps' = WholeMaps
  PROVE  /\ current' = current \o chunk /\ current' \in Seq(Nat) /\ netmap' \in Seq(Nat)
         /\ netmaps' \in Seq(Seq(Nat)) /\ FirstMap' /\ NetmapsExact'
<1>1. SplitterType /\ FirstMap /\ NetmapsExact
  BY DEF MapInv
<1>2. /\ current' = current \o chunk /\ netmaps' = netmaps
      /\ netmaps # <<>> => netmap' = netmap
      /\ netmaps = <<>> =>
           netmap' = SubSeq(current \o chunk, 1, Min({NETMAP_MAX, Len(current \o chunk)}))
      /\ current' \in Seq(Nat) /\ netmap' \in Seq(Nat) /\ netmaps' \in Seq(Seq(Nat))
  BY <1>1, FrameShown, Zenon
<1>3. FirstMap'
  BY <1>2, Zenon DEF FirstMap
<1>4. NetmapsExact'
  BY <1>1, <1>2, Zenon DEF NetmapsExact, Range
<1> QED
  BY <1>2, <1>3, <1>4, Zenon

LEMMA MapEnds ==
  ASSUME MapInv, NEW chunk \in Seq(Nat), OnMapFrame(chunk, TRUE), NEW k \in Maps,
         MapLength(k) > 0, current \o chunk = MapBytes(k),
         WholeMaps' = WholeMaps \cup {k}, \A j \in WholeMaps : j < k
  PROVE  /\ current' = <<>> /\ current' \in Seq(Nat) /\ netmap' \in Seq(Nat)
         /\ netmaps' \in Seq(Seq(Nat)) /\ FirstMap' /\ NetmapsExact'
<1> DEFINE x == MapBytes(k)
           m == Len(netmaps)
<1>1. SplitterType /\ FirstMap /\ NetmapsExact /\ netmaps \in Seq(Seq(Nat))
  BY DEF MapInv, SplitterType
<1>2. /\ x \in Seq(Nat) /\ current' = <<>> /\ netmaps' = Append(netmaps, x)
      /\ netmaps # <<>> => netmap' = netmap
      /\ netmaps = <<>> => netmap' = SubSeq(x, 1, Min({NETMAP_MAX, Len(x)}))
      /\ current' \in Seq(Nat) /\ netmap' \in Seq(Nat) /\ netmaps' \in Seq(Seq(Nat))
  <2>1. TRUE \in BOOLEAN
    OBVIOUS
  <2> QED
    BY <1>1, <2>1, FrameShown, Zenon
<1>3. \A j \in WholeMaps : j \in Maps /\ MapBytes(j)[1] < x[1]
  <2> SUFFICES ASSUME NEW j \in WholeMaps PROVE j \in Maps /\ MapBytes(j)[1] < x[1]
    OBVIOUS
  <2>1. j \in Maps /\ MapLength(j) > 0 /\ j < k
    BY DEF WholeMaps
  <2>2. /\ MapLength(j) \in Nat /\ MapLength(k) \in Nat /\ MAP_LEN \in Nat
        /\ j \in 1 .. Len(MapStarts) /\ k \in 1 .. Len(MapStarts)
        /\ MapStarts[j] \in Nat /\ MapStarts[k] \in Nat
    BY <2>1, MapOrder
  <2>3. MapStarts[j] + MAP_LEN <= MapStarts[k]
    BY <2>1, <2>2, MapOrder
  <2>4. 1 \in 1 .. MapLength(j) /\ 1 \in 1 .. MapLength(k)
    BY <2>1, <2>2
  <2>5. MapBytes(j)[1] = MapStarts[j] + MAP_LEN + 1 /\ x[1] = MapStarts[k] + MAP_LEN + 1
    BY <2>4 DEF MapBytes
  <2>6. MAP_LEN >= 1
    BY MapOrder
  <2> QED
    BY <2>1, <2>2, <2>3, <2>5, <2>6
<1> HIDE DEF x
<1>4. /\ Range(netmaps) = {MapBytes(j) : j \in WholeMaps}
      /\ \A i, j \in DOMAIN netmaps : i < j => netmaps[i][1] < netmaps[j][1]
      /\ netmaps # <<>> => netmap = SubSeq(netmaps[1], 1, Min({NETMAP_MAX, Len(netmaps[1])}))
  BY <1>1, Zenon DEF NetmapsExact
<1>5. Range(netmaps') = {MapBytes(j) : j \in WholeMaps'}
  <2>1. Range(netmaps') = Range(netmaps) \cup {x}
    BY <1>1, <1>2, RangeAppend
  <2>2. {MapBytes(j) : j \in WholeMaps'} = {MapBytes(j) : j \in WholeMaps} \cup {x}
    <3> DEFINE A(j) == MapBytes(j)
    <3>1. x = A(k)
      BY DEF x
    <3> HIDE DEF A
    <3>2. {A(j) : j \in WholeMaps'} = {A(j) : j \in WholeMaps} \cup {x}
      BY <3>1
    <3> QED
      BY <3>2 DEF A
  <2> QED
    BY <1>4, <2>1, <2>2
<1>6. /\ m \in Nat /\ DOMAIN netmaps = 1 .. m /\ DOMAIN netmaps' = 1 .. (m + 1)
      /\ netmaps'[m + 1] = x /\ \A i \in 1 .. m : netmaps'[i] = netmaps[i]
      /\ m = 0 <=> netmaps = <<>>
  BY <1>1, <1>2
<1>7. \A i \in 1 .. m : netmaps[i][1] < x[1]
  <2>1. \A i \in 1 .. m : netmaps[i] \in Range(netmaps)
    BY <1>6 DEF Range
  <2> QED
    BY <1>3, <1>4, <2>1
<1> HIDE DEF m
<1>8. \A i, j \in DOMAIN netmaps' : i < j => netmaps'[i][1] < netmaps'[j][1]
  <2> SUFFICES ASSUME NEW i \in 1 .. (m + 1), NEW j \in 1 .. (m + 1), i < j
               PROVE  netmaps'[i][1] < netmaps'[j][1]
    BY <1>6
  <2>1. i \in 1 .. m /\ (j = m + 1 \/ j \in 1 .. m)
    BY <1>6
  <2>2. CASE j = m + 1
    BY <1>6, <1>7, <2>1, <2>2
  <2>3. CASE j \in 1 .. m
    <3>1. netmaps'[i] = netmaps[i] /\ netmaps'[j] = netmaps[j]
      BY <1>6, <2>1, <2>3
    <3>2. netmaps[i][1] < netmaps[j][1]
      BY <1>4, <1>6, <2>1, <2>3, Zenon
    <3> QED
      BY <3>1, <3>2, Zenon
  <2> QED
    BY <2>1, <2>2, <2>3
<1>9. netmap' = SubSeq(netmaps'[1], 1, Min({NETMAP_MAX, Len(netmaps'[1])}))
  <2> DEFINE Start(y) == SubSeq(y, 1, Min({NETMAP_MAX, Len(y)}))
  <2>0. /\ netmaps = <<>> => netmap' = Start(x)
        /\ netmaps # <<>> => netmap' = netmap /\ netmap = Start(netmaps[1])
    BY <1>2, <1>4, Zenon
  <2> HIDE DEF Start
  <2>1. CASE netmaps = <<>>
    <3>1. netmaps'[1] = x
      BY <1>6, <2>1
    <3>2. netmap' = Start(netmaps'[1])
      BY <2>0, <2>1, <3>1
    <3> QED
      BY <3>2 DEF Start
  <2>2. CASE netmaps # <<>>
    <3>1. 1 \in 1 .. m
      BY <1>6, <2>2
    <3>2. netmaps'[1] = netmaps[1]
      BY <1>6, <3>1
    <3>3. netmap' = Start(netmaps'[1])
      BY <2>0, <2>2, <3>2
    <3> QED
      BY <3>3 DEF Start
  <2> QED
    BY <2>1, <2>2
<1>10. netmaps' # <<>>
  <2>1. 1 \in DOMAIN netmaps'
    BY <1>6
  <2>2. DOMAIN <<>> = {}
    OBVIOUS
  <2> QED
    BY <2>1, <2>2, Zenon
<1>11. FirstMap'
  BY <1>10 DEF FirstMap
<1>12. NetmapsExact'
  BY <1>5, <1>8, <1>9, Zenon DEF NetmapsExact, Range
<1> QED
  BY <1>2, <1>11, <1>12, Zenon

(***************************************************************************)
(* The netmaps seen whole, at a position of the body in the k-th one.      *)
(***************************************************************************)
LEMMA WholeMapsAre ==
  ASSUME NEW k \in 1 .. Len(MapStarts), Seen \in Nat, MapStarts[k] <= Seen,
         k + 1 \in 1 .. Len(MapStarts) => Seen < MapStarts[k + 1]
  PROVE  WholeMaps = {j \in Maps : MapLength(j) > 0 /\ j < k}
<1> DEFINE s == Seen
<1>1. WholeMaps = {j \in Maps : MapLength(j) > 0 /\ MapStarts[j + 1] <= s}
  BY DEF WholeMaps, Seen
<1>2. s \in Nat /\ MapStarts[k] <= s /\ (k + 1 \in 1 .. Len(MapStarts) => s < MapStarts[k + 1])
  OBVIOUS
<1> HIDE DEF s
<1> QED
  BY <1>1, <1>2, WholeUpTo

LEMMA WholeMapsWillBe ==
  ASSUME NEW k \in 1 .. Len(MapStarts), Seen' \in Nat, MapStarts[k] <= Seen',
         k + 1 \in 1 .. Len(MapStarts) => Seen' < MapStarts[k + 1]
  PROVE  WholeMaps' = {j \in Maps : MapLength(j) > 0 /\ j < k}
<1> DEFINE s == Seen'
<1>1. WholeMaps' = {j \in Maps : MapLength(j) > 0 /\ MapStarts[j + 1] <= s}
  BY DEF WholeMaps, Seen
<1>2. s \in Nat /\ MapStarts[k] <= s /\ (k + 1 \in 1 .. Len(MapStarts) => s < MapStarts[k + 1])
  OBVIOUS
<1> HIDE DEF s
<1> QED
  BY <1>1, <1>2, WholeUpTo

(***************************************************************************)
(* The length read is that of the netmap it stands before.                 *)
(***************************************************************************)
LEMMA LengthRead ==
  ASSUME NEW k \in Maps, NEW b, Head(b) = MapStarts[k] + 1
  PROVE  from_le_bytes(b) = MapLength(k)
<1> DEFINE S == {j \in Maps : MapStarts[j] < Head(b)}
           n == Len(MapStarts)
<1>1. /\ n \in Nat /\ MAP_LEN \in Nat /\ MAP_LEN >= 1 /\ \A j \in 1 .. n : MapStarts[j] \in Nat
      /\ \A i, j \in 1 .. n : i < j => MapStarts[i] + MAP_LEN <= MapStarts[j]
      /\ \A j \in Maps : j \in 1 .. n
  BY MapOrder
<1> HIDE DEF n
<1>2. S \in SUBSET Nat /\ k \in Nat
  BY <1>1
<1>3. k \in S
  BY <1>1
<1>4. \A j \in S : k >= j
  <2> SUFFICES ASSUME NEW j \in S PROVE k >= j
    OBVIOUS
  <2>1. j \in 1 .. n /\ k \in 1 .. n /\ MapStarts[j] < MapStarts[k] + 1 /\ MapStarts[j] \in Nat
        /\ MapStarts[k] \in Nat
    BY <1>1
  <2>2. k < j => MapStarts[k] + MAP_LEN <= MapStarts[j]
    BY <1>1, <2>1
  <2> QED
    BY <1>1, <2>1, <2>2
<1> HIDE DEF S
<1>5. Max(S) = k
  BY <1>2, <1>3, <1>4, MaxIs
<1> QED
  BY <1>5, Zenon DEF from_le_bytes, S

(***************************************************************************)
(* A turn that shows nothing of a netmap: a part of a length, or a         *)
(* keep-alive's.                                                           *)
(***************************************************************************)
LEMMA LengthTurn ==
  ASSUME MapInv, splitter.remaining = 0, OnMapFrame(<<>>, FALSE), WholeMaps' = WholeMaps,
         NEW b \in Seq(Nat), Len(b) < MAP_LEN, NEW k \in 1 .. Len(MapStarts),
         Seen' = MapStarts[k] + Len(b), \A i \in 1 .. Len(b) : b[i] = Seen' - Len(b) + i,
         splitter' = [len_buf |-> b, remaining |-> 0]
  PROVE  SplitterType' /\ InLength' /\ InMap' /\ FirstMap' /\ NetmapsExact'
<1>1. current = <<>>
  BY DEF MapInv, InLength
<1>2. <<>> \in Seq(Nat) /\ <<>> \o <<>> = <<>>
  OBVIOUS
<1>3. /\ current' = current \o <<>> /\ current' \in Seq(Nat) /\ netmap' \in Seq(Nat)
      /\ netmaps' \in Seq(Seq(Nat)) /\ FirstMap' /\ NetmapsExact'
  BY <1>2, NoMapEnds, Zenon
<1>4. current' = <<>>
  BY <1>1, <1>2, <1>3, Zenon
<1>5. splitter'.len_buf = b /\ splitter'.remaining = 0
      /\ splitter' \in [len_buf : Seq(Nat), remaining : Nat]
  OBVIOUS
<1>6. SplitterType'
  BY <1>3, <1>5 DEF SplitterType
<1>7. InLength'
  BY <1>4, <1>5, Zenon DEF InLength
<1>8. InMap'
  BY <1>5 DEF InMap
<1> QED
  BY <1>3, <1>6, <1>7, <1>8, Zenon

(***************************************************************************)
(* Where such a turn starts and ends in the k-th netmap: at s the length,  *)
(* at t the next one.                                                      *)
(***************************************************************************)
TurnPlaces(s, m, l, t, R, take, q) ==
  /\ l - R \in Nat /\ R - take \in Nat /\ R - take <= l /\ l > 0
  /\ q = s + m + (l - R) /\ q + take \in Nat /\ s <= q + take /\ q + take <= t
  /\ q + take = t - (R - take) /\ (l - R) + take = l - (R - take)
  /\ take < R => q + take < t /\ R - take > 0 /\ ~(take > 0 /\ take = R)
  /\ take = R => q + take = t /\ R - take = 0 /\ take > 0 /\ (l - R) + take = l

LEMMA TurnNumbers ==
  ASSUME NEW s \in Nat, NEW m \in Nat, NEW l \in Nat, NEW t, t = s + m + l,
         NEW R \in 1 .. l, NEW take \in Nat, take <= R, NEW q, q = t - R
  PROVE  TurnPlaces(s, m, l, t, R, take, q)
BY DEF TurnPlaces

LEMMA RunConcat ==
  ASSUME NEW a \in Seq(Nat), NEW c \in Seq(Nat), NEW base \in Nat,
         \A i \in 1 .. Len(a) : a[i] = base + i,
         \A i \in 1 .. Len(c) : c[i] = base + Len(a) + i
  PROVE  /\ a \o c \in Seq(Nat) /\ Len(a \o c) = Len(a) + Len(c)
         /\ \A i \in 1 .. Len(a \o c) : (a \o c)[i] = base + i
<1> DEFINE u == a \o c
           m == Len(a)
           n == Len(c)
<1>1. /\ u \in Seq(Nat) /\ Len(u) = m + n /\ m \in Nat /\ n \in Nat
      /\ \A i \in 1 .. m : u[i] = a[i]
      /\ \A i \in 1 .. n : u[m + i] = c[i]
  BY ConcatIs
<1>2. /\ \A i \in 1 .. m : a[i] = base + i
      /\ \A i \in 1 .. n : c[i] = base + m + i
  OBVIOUS
<1> HIDE DEF u, m, n
<1>3. ASSUME NEW i \in 1 .. (m + n) PROVE u[i] = base + i
  <2>1. CASE i <= m
    BY <1>1, <1>2, <2>1
  <2>2. CASE i > m
    <3> DEFINE j == i - m
    <3>1. j \in 1 .. n /\ i = m + j /\ base + m + j = base + i
      BY <1>1, <2>2
    <3> HIDE DEF j
    <3>2. u[m + j] = c[j] /\ c[j] = base + m + j
      BY <1>1, <1>2, <3>1
    <3> QED
      BY <3>1, <3>2
  <2> QED
    BY <1>1, <2>1, <2>2
<1>4. u \in Seq(Nat) /\ Len(u) = m + n /\ \A i \in 1 .. Len(u) : u[i] = base + i
  BY <1>1, <1>3
<1> QED
  BY <1>4 DEF u, m, n

(***************************************************************************)
(* The k-th netmap, and the netmaps before the next.                       *)
(***************************************************************************)
LEMMA MapIs ==
  ASSUME NEW k \in Maps
  PROVE  /\ k \in 1 .. Len(MapStarts) /\ k + 1 \in 1 .. Len(MapStarts)
         /\ MapStarts[k] \in Nat /\ MapStarts[k + 1] \in Nat /\ MapStarts[k] + MAP_LEN \in Nat
         /\ MapStarts[k + 1] = MapStarts[k] + MAP_LEN + MapLength(k)
         /\ MAP_LEN \in Nat /\ MAP_LEN >= 1 /\ MapLength(k) \in Nat
         /\ k + 1 + 1 \in 1 .. Len(MapStarts) => MapStarts[k + 1] < MapStarts[k + 1 + 1]
         /\ {j \in Maps : MapLength(j) > 0 /\ j < k + 1}
               = {j \in Maps : MapLength(j) > 0 /\ j < k} \cup (IF MapLength(k) > 0 THEN {k} ELSE {})
<1> DEFINE n == Len(MapStarts)
           l == k + 1
<1>1. /\ n \in Nat /\ MAP_LEN \in Nat /\ MAP_LEN >= 1 /\ \A j \in 1 .. n : MapStarts[j] \in Nat
      /\ \A i, j \in 1 .. n : i < j => MapStarts[i] + MAP_LEN <= MapStarts[j]
      /\ k \in 1 .. n /\ l \in 1 .. n /\ MapLength(k) \in Nat
      /\ MapStarts[k + 1] = MapStarts[k] + MAP_LEN + MapLength(k)
  BY MapOrder
<1> HIDE DEF n
<1>2. MapStarts[k] \in Nat /\ MapStarts[k + 1] \in Nat /\ MapStarts[k] + MAP_LEN \in Nat
  BY <1>1
<1>3. \A j \in Maps : j < k + 1 <=> j < k \/ j = k
  BY <1>1 DEF Maps, n
<1>4. {j \in Maps : MapLength(j) > 0 /\ j < k + 1}
        = {j \in Maps : MapLength(j) > 0 /\ j < k} \cup (IF MapLength(k) > 0 THEN {k} ELSE {})
  BY <1>3
<1> HIDE DEF l
<1>5. ASSUME l + 1 \in 1 .. n PROVE MapStarts[l] < MapStarts[l + 1]
  <2>1. l < l + 1
    BY <1>1
  <2>2. MapStarts[l] + MAP_LEN <= MapStarts[l + 1] /\ MapStarts[l] \in Nat /\ MapStarts[l + 1] \in Nat
    BY <1>1, <1>5, <2>1
  <2> QED
    BY <1>1, <2>2
<1> QED
  BY <1>1, <1>2, <1>4, <1>5 DEF n, l

LEMMA MapBytesAre ==
  ASSUME NEW k \in Maps
  PROVE  /\ MapBytes(k) \in Seq(Nat) /\ Len(MapBytes(k)) = MapLength(k)
         /\ \A i \in 1 .. MapLength(k) : MapBytes(k)[i] = MapStarts[k] + MAP_LEN + i
<1> DEFINE l == MapLength(k)
           base == MapStarts[k] + MAP_LEN
           y == [i \in 1 .. l |-> base + i]
<1>1. l \in Nat /\ base \in Nat
  BY MapIs
<1>2. MapBytes(k) = y
  BY DEF MapBytes
<1> HIDE DEF l, base
<1>3. y \in Seq(Nat) /\ Len(y) = l /\ \A i \in 1 .. l : y[i] = base + i
  BY <1>1
<1> QED
  BY <1>2, <1>3 DEF l, base

(***************************************************************************)
(* A turn that shows the next bytes of the k-th netmap, of which R were    *)
(* left.                                                                   *)
(***************************************************************************)
LEMMA PayloadTurn ==
  ASSUME MapInv, NEW k \in Maps, NEW R \in 1 .. MapLength(k), NEW take \in Nat, take <= R,
         NEW chunk \in Seq(Nat), Len(chunk) = take, NEW q \in Nat, q = MapStarts[k + 1] - R,
         \A i \in 1 .. take : chunk[i] = q + i,
         Len(current) = MapLength(k) - R,
         \A i \in 1 .. Len(current) : current[i] = MapStarts[k] + MAP_LEN + i,
         Seen \in Nat, MapStarts[k] <= Seen, Seen < MapStarts[k + 1], Seen' = q + take,
         splitter' = [len_buf |-> <<>>, remaining |-> R - take],
         OnMapFrame(chunk, take > 0 /\ take = R)
  PROVE  SplitterType' /\ InLength' /\ InMap' /\ FirstMap' /\ NetmapsExact'
<1> DEFINE l == MapLength(k)
           s == MapStarts[k]
           t == MapStarts[k + 1]
           base == s + MAP_LEN
           cc == current \o chunk
<1>1. /\ k \in 1 .. Len(MapStarts) /\ k + 1 \in 1 .. Len(MapStarts)
      /\ s \in Nat /\ t \in Nat /\ base \in Nat /\ t = base + l
      /\ MAP_LEN \in Nat /\ MAP_LEN >= 1 /\ l \in Nat
      /\ k + 1 + 1 \in 1 .. Len(MapStarts) => t < MapStarts[k + 1 + 1]
  BY MapIs, Zenon
<1>2. /\ l - R \in Nat /\ R - take \in Nat /\ R - take <= l /\ l > 0
      /\ q = base + (l - R) /\ q + take \in Nat /\ s <= q + take /\ q + take <= t
      /\ q + take = t - (R - take) /\ (l - R) + take = l - (R - take)
      /\ take < R => q + take < t /\ R - take > 0 /\ ~(take > 0 /\ take = R)
      /\ take = R => q + take = t /\ R - take = 0 /\ take > 0 /\ (l - R) + take = l
  <2>1. R \in 1 .. l /\ q = t - R
    OBVIOUS
  <2>2. TurnPlaces(s, MAP_LEN, l, t, R, take, q)
    <3> HIDE DEF l, s, t
    <3> QED
      BY <1>1, <2>1, TurnNumbers, Zenon
  <2> QED
    BY <2>2, Zenon DEF TurnPlaces
<1>3. current \in Seq(Nat)
  BY DEF MapInv, SplitterType
<1>4. /\ cc \in Seq(Nat) /\ Len(cc) = (l - R) + take
      /\ \A i \in 1 .. Len(cc) : cc[i] = base + i
  <2>1. /\ \A i \in 1 .. Len(current) : current[i] = base + i
        /\ Len(current) = l - R
    OBVIOUS
  <2>2. \A i \in 1 .. Len(chunk) : chunk[i] = base + Len(current) + i
    BY <1>2, <2>1, Zenon
  <2>3. /\ cc \in Seq(Nat) /\ Len(cc) = Len(current) + Len(chunk)
        /\ \A i \in 1 .. Len(cc) : cc[i] = base + i
    <3> HIDE DEF base
    <3> QED
      BY <1>1, <1>3, <2>1, <2>2, RunConcat, Zenon
  <2> QED
    BY <2>1, <2>3, Zenon
<1>5. WholeMaps = {j \in Maps : MapLength(j) > 0 /\ j < k}
  BY <1>1, WholeMapsAre, Zenon
<1>6. splitter'.len_buf = <<>> /\ splitter'.remaining = R - take
      /\ splitter' \in [len_buf : Seq(Nat), remaining : Nat]
  <2> DEFINE x == R - take
  <2>1. x \in Nat /\ splitter' = [len_buf |-> <<>>, remaining |-> x]
    BY <1>2, Zenon
  <2> HIDE DEF x
  <2> QED
    BY <2>1 DEF x
<1> HIDE DEF cc
<1>7. CASE take < R
  <2>1. OnMapFrame(chunk, FALSE)
    BY <1>2, <1>7, Zenon DEF OnMapFrame
  <2>2. WholeMaps' = WholeMaps
    <3>1. Seen' \in Nat /\ s <= Seen' /\ Seen' < t
      BY <1>2, <1>7, Zenon
    <3>2. WholeMaps' = {j \in Maps : MapLength(j) > 0 /\ j < k}
      BY <1>1, <3>1, WholeMapsWillBe, Zenon
    <3> QED
      BY <1>5, <3>2, Zenon
  <2>3. /\ current' = cc /\ current' \in Seq(Nat) /\ netmap' \in Seq(Nat)
        /\ netmaps' \in Seq(Seq(Nat)) /\ FirstMap' /\ NetmapsExact'
    BY <2>1, <2>2, NoMapEnds, Zenon DEF cc
  <2>4. SplitterType'
    BY <1>6, <2>3, Zenon DEF SplitterType
  <2>5. splitter'.remaining > 0 /\ splitter'.remaining # 0
    <3> DEFINE x == R - take
    <3>1. x \in Nat /\ x > 0 /\ splitter'.remaining = x
      BY <1>2, <1>6, <1>7, Zenon
    <3> HIDE DEF x
    <3> QED
      BY <3>1
  <2>6. InLength'
    BY <2>5, Zenon DEF InLength
  <2>7. InMap'
    <3>1. /\ splitter'.remaining <= MapLength(k)
          /\ Seen' = MapStarts[k + 1] - splitter'.remaining
          /\ Len(current') = MapLength(k) - splitter'.remaining
      BY <1>2, <1>4, <1>6, <2>3, Zenon
    <3>2. \A i \in 1 .. Len(current') : current'[i] = MapStarts[k] + MAP_LEN + i
      BY <1>4, <2>3, Zenon
    <3> QED
      BY <1>6, <3>1, <3>2, Zenon DEF InMap
  <2> QED
    BY <2>3, <2>4, <2>6, <2>7, Zenon
<1>8. CASE take = R
  <2>1. OnMapFrame(chunk, TRUE)
    BY <1>2, <1>8, Zenon DEF OnMapFrame
  <2>2. cc = MapBytes(k)
    <3> DEFINE y == MapBytes(k)
    <3>1. y \in Seq(Nat) /\ Len(y) = l /\ \A i \in 1 .. l : y[i] = base + i
      BY MapBytesAre, Zenon
    <3>2. Len(cc) = l
      BY <1>2, <1>4, <1>8, Zenon
    <3> HIDE DEF y, base, l
    <3>3. Len(cc) = Len(y) /\ \A i \in 1 .. Len(cc) : cc[i] = y[i]
      BY <1>4, <3>1, <3>2, Zenon
    <3>4. cc = y
      BY <1>4, <3>1, <3>3, SeqEqual, Zenon
    <3> QED
      BY <3>4 DEF y
  <2>3. WholeMaps' = WholeMaps \cup {k} /\ \A j \in WholeMaps : j < k
    <3> DEFINE j == k + 1
    <3>1. /\ j \in 1 .. Len(MapStarts) /\ Seen' \in Nat /\ Seen' = MapStarts[j]
          /\ j + 1 \in 1 .. Len(MapStarts) => Seen' < MapStarts[j + 1]
      BY <1>1, <1>2, <1>8, Zenon
    <3>2. {i \in Maps : MapLength(i) > 0 /\ i < j}
            = {i \in Maps : MapLength(i) > 0 /\ i < k} \cup {k}
      BY <1>2, MapIs, Zenon
    <3> HIDE DEF j
    <3>3. MapStarts[j] <= Seen'
      BY <3>1
    <3>4. WholeMaps' = {i \in Maps : MapLength(i) > 0 /\ i < j}
      BY <3>1, <3>3, WholeMapsWillBe, Zenon
    <3>5. \A i \in WholeMaps : i < k
      BY <1>5, Zenon
    <3> QED
      BY <1>5, <3>2, <3>4, <3>5, Zenon
  <2>4. /\ current' = <<>> /\ current' \in Seq(Nat) /\ netmap' \in Seq(Nat)
        /\ netmaps' \in Seq(Seq(Nat)) /\ FirstMap' /\ NetmapsExact'
    BY <1>2, <2>1, <2>2, <2>3, MapEnds, Zenon DEF cc
  <2>5. SplitterType'
    BY <1>6, <2>4, Zenon DEF SplitterType
  <2>6. splitter'.remaining = 0 /\ ~(splitter'.remaining > 0)
    <3>1. splitter'.remaining = 0
      BY <1>2, <1>6, <1>8, Zenon
    <3> QED
      BY <3>1
  <2>7. InMap'
    BY <2>6, Zenon DEF InMap
  <2>8. InLength'
    <3>1. Len(<<>>) = 0 /\ 0 < MAP_LEN /\ t + 0 = t /\ \A i : i \notin 1 .. 0
      <4> HIDE DEF t
      <4> QED
        BY <1>1
    <3>2. Seen' = MapStarts[k + 1] + Len(splitter'.len_buf)
      BY <1>2, <1>6, <1>8, <3>1, Zenon
    <3>3. \E j \in 1 .. Len(MapStarts) : Seen' = MapStarts[j] + Len(splitter'.len_buf)
      BY <1>1, <3>2, Zenon
    <3> QED
      BY <1>6, <2>4, <3>1, <3>3, Zenon DEF InLength
  <2> QED
    BY <2>4, <2>5, <2>7, <2>8, Zenon
<1> QED
  <2>1. R \in Nat
    BY <1>1
  <2> QED
    BY <1>7, <1>8, <2>1

(***************************************************************************)
(* on_data goes n bytes further in its chunk.                              *)
(***************************************************************************)
LEMMA DataAdvance ==
  ASSUME DataInv, body \in Seq(Nat), UNCHANGED <<body, frames, stream>>,
         NEW n \in Nat, n <= Len(data), data' = SubSeq(data, n + 1, Len(data))
  PROVE  DataInv' /\ Seen' = Seen + n
<1> DEFINE d == Len(data)
           c == d - n
           e == Seen
           z == Len(body)
<1>1. /\ data \in Seq(Nat) /\ d \in Nat /\ z \in Nat /\ d <= z /\ e = z - d
      /\ \A i \in 1 .. d : data[i] = e + i
  BY DEF DataInv, Seen
<1>2. n <= d /\ data' = SubSeq(data, n + 1, d) /\ z' = z
  BY Zenon
<1> HIDE DEF d, e, z
<1>3. c \in Nat /\ n + c = d
  BY <1>1, <1>2
<1> HIDE DEF c
<1>4. /\ data' \in Seq(Nat) /\ Len(data') = c
      /\ \A i \in 1 .. c : data'[i] = data[n + i]
  <2>1. n + c <= Len(data) /\ data' = SubSeq(data, n + 1, n + c)
    <3>1. d = Len(data)
      BY DEF d
    <3> QED
      BY <1>1, <1>2, <1>3, <3>1
  <2> DEFINE t == SubSeq(data, n + 1, n + c)
  <2>2. /\ t \in Seq(Nat) /\ Len(t) = c
        /\ \A i \in 1 .. c : t[i] = data[n + i]
    BY <1>1, <1>3, <2>1, SubIs, Zenon
  <2>3. data' = t
    BY <2>1, Zenon
  <2> HIDE DEF t
  <2> QED
    BY <2>2, <2>3, Zenon
<1>5. Seen' = e + n
  <2>1. Seen' = z - c
    <3>1. Len(body') = z
      BY DEF z
    <3>2. Seen' = Len(body') - Len(data')
      BY DEF Seen
    <3> QED
      BY <1>4, <3>1, <3>2, Zenon
  <2> QED
    BY <1>1, <1>3, <2>1
<1>6. \A i \in 1 .. c : data'[i] = e + n + i
  <2> SUFFICES ASSUME NEW i \in 1 .. c PROVE data'[i] = e + n + i
    OBVIOUS
  <2>1. n + i \in 1 .. d /\ e + (n + i) = e + n + i
    BY <1>1, <1>3
  <2> QED
    BY <1>1, <1>4, <2>1
<1>7. OwnData(Len(stream))' = OwnData(Len(stream))
  BY DEF OwnData
<1>8. Len(data') <= Len(body')
  BY <1>1, <1>2, <1>3, <1>4 DEF z
<1>9. DataInv'
  <2>1. Cardinality(OwnData(Len(stream))') <= MapStarts[Len(MapStarts)]
    BY <1>7, Zenon DEF DataInv
  <2>2. \A i \in 1 .. Len(data') : data'[i] = Seen' + i
    BY <1>4, <1>5, <1>6, Zenon
  <2> QED
    BY <1>4, <1>8, <2>1, <2>2, Zenon DEF DataInv
<1> QED
  BY <1>5, <1>9 DEF e

LEMMA DataPart ==
  ASSUME DataInv, body \in Seq(Nat), NEW p \in Nat, NEW n \in Nat, p + n <= Len(data)
  PROVE  /\ SubSeq(data, p + 1, p + n) \in Seq(Nat) /\ Len(SubSeq(data, p + 1, p + n)) = n
         /\ \A i \in 1 .. n : SubSeq(data, p + 1, p + n)[i] = Seen + p + i
<1> DEFINE d == Len(data)
           e == Seen
           t == SubSeq(data, p + 1, p + n)
<1>1. data \in Seq(Nat) /\ d \in Nat /\ e \in Nat /\ (\A i \in 1 .. d : data[i] = e + i)
      /\ p + n <= d
  BY DEF DataInv, Seen
<1>2. t \in Seq(Nat) /\ Len(t) = n /\ \A i \in 1 .. n : t[i] = data[p + i]
  BY <1>1, SubIs, Zenon
<1> HIDE DEF d, e, t
<1>3. \A i \in 1 .. n : t[i] = e + p + i
  <2> SUFFICES ASSUME NEW i \in 1 .. n PROVE t[i] = e + p + i
    OBVIOUS
  <2>1. p + i \in 1 .. d /\ e + (p + i) = e + p + i
    BY <1>1
  <2> QED
    BY <1>1, <1>2, <2>1
<1> QED
  BY <1>2, <1>3 DEF t, e

(***************************************************************************)
(* A turn of on_data in the middle of a netmap.                            *)
(***************************************************************************)
LEMMA InMapTurn ==
  ASSUME MapInv, body \in Seq(Nat), UNCHANGED <<body, frames, stream>>, data # <<>>,
         splitter.remaining > 0, NEW take, take = Min({splitter.remaining, Len(data)}),
         splitter' = [len_buf |-> <<>>, remaining |-> splitter.remaining - take],
         data' = SubSeq(data, take + 1, Len(data)),
         OnMapFrame(SubSeq(data, 1, take), take > 0 /\ take = splitter.remaining)
  PROVE  MapInv'
<1> DEFINE r == splitter.remaining
           d == Len(data)
           e == Seen
           c == SubSeq(data, 1, take)
<1>1. DataInv /\ InMap /\ r \in Nat /\ d \in Nat /\ e \in Nat
  BY DEF MapInv, SplitterType, DataInv, Seen
<1>2. take \in Nat /\ take <= r /\ take <= d
  <2>1. take = Min({r, d})
    OBVIOUS
  <2> HIDE DEF r, d
  <2> QED
    BY <1>1, <2>1, MinTwo
<1>3. DataInv' /\ Seen' = e + take
  BY <1>1, <1>2, DataAdvance, Zenon
<1>4. c \in Seq(Nat) /\ Len(c) = take /\ \A i \in 1 .. take : c[i] = e + i
  <2> DEFINE p == 0
  <2>1. p \in Nat /\ p + take <= Len(data) /\ p + 1 = 1 /\ p + take = take /\ e + p = e
    <3> HIDE DEF e
    <3> QED
      BY <1>1, <1>2
  <2> HIDE DEF p
  <2>2. SubSeq(data, p + 1, p + take) \in Seq(Nat) /\ Len(SubSeq(data, p + 1, p + take)) = take
        /\ \A i \in 1 .. take : SubSeq(data, p + 1, p + take)[i] = Seen + p + i
    BY <1>1, <1>2, <2>1, DataPart, Zenon
  <2> QED
    BY <2>1, <2>2, Zenon
<1>5. PICK k \in Maps :
        /\ r <= MapLength(k) /\ e = MapStarts[k + 1] - r /\ Len(current) = MapLength(k) - r
        /\ \A i \in 1 .. Len(current) : current[i] = MapStarts[k] + MAP_LEN + i
  BY <1>1, Zenon DEF InMap
<1>6. r \in 1 .. MapLength(k) /\ MapStarts[k] <= e /\ e < MapStarts[k + 1]
  <2> DEFINE s == MapStarts[k]
             l == MapLength(k)
             t == MapStarts[k + 1]
  <2>1. s \in Nat /\ t = s + MAP_LEN + l /\ MAP_LEN \in Nat /\ l \in Nat
    BY MapIs
  <2>2. r <= l /\ e = t - r /\ r > 0
    BY <1>5
  <2> HIDE DEF s, l, t, r, e
  <2>3. r \in 1 .. l /\ s <= e /\ e < t
    BY <1>1, <2>1, <2>2
  <2> QED
    BY <2>3 DEF s, l, t
<1> HIDE DEF c, r, e
<1>7. SplitterType' /\ InLength' /\ InMap' /\ FirstMap' /\ NetmapsExact'
  BY <1>1, <1>2, <1>3, <1>4, <1>5, <1>6, PayloadTurn, ZenonT(60) DEF c, r, e
<1> QED
  BY <1>3, <1>7, Zenon DEF MapInv

(***************************************************************************)
(* At a length, the body seen ends in the length of a netmap k, of which   *)
(* h bytes were seen.                                                      *)
(***************************************************************************)
LEMMA AtLength ==
  ASSUME MapInv, body \in Seq(Nat), data # <<>>, Len(body) <= MapStarts[Len(MapStarts)],
         splitter.remaining = 0
  PROVE  /\ splitter.len_buf \in Seq(Nat) /\ Len(splitter.len_buf) \in Nat
         /\ Len(splitter.len_buf) < MAP_LEN /\ current = <<>>
         /\ \E k \in Maps : /\ Seen = MapStarts[k] + Len(splitter.len_buf)
                            /\ \A i \in 1 .. Len(splitter.len_buf) :
                                  splitter.len_buf[i] = MapStarts[k] + i
<1> DEFINE h == Len(splitter.len_buf)
           d == Len(data)
           e == Seen
           n == Len(MapStarts)
<1>1. /\ InLength /\ h \in Nat /\ d \in Nat /\ e \in Nat /\ d >= 1
      /\ splitter.len_buf \in Seq(Nat)
  BY DEF MapInv, SplitterType, DataInv, Seen
<1>2. /\ current = <<>> /\ h < MAP_LEN
      /\ \A i \in 1 .. h : splitter.len_buf[i] = e - h + i
  BY <1>1, Zenon DEF InLength
<1>3. PICK k \in 1 .. n : e = MapStarts[k] + h
  BY <1>1, Zenon DEF InLength
<1>4. e + d <= MapStarts[n]
  BY DEF Seen, MapInv, DataInv
<1>5. n \in Nat /\ MapStarts[k] \in Nat /\ MapStarts[n] \in Nat
  BY MapOrder
<1>6. Maps = 1 .. n - 1
  BY DEF Maps
<1> HIDE DEF h, d, e, n
<1>7. e - h = MapStarts[k]
  BY <1>1, <1>3, <1>5
<1>8. k # n
  BY <1>1, <1>3, <1>4, <1>5
<1>9. k \in Maps
  BY <1>5, <1>6, <1>8
<1>10. \A i \in 1 .. h : splitter.len_buf[i] = MapStarts[k] + i
  BY <1>2, <1>7, Zenon
<1> QED
  BY <1>1, <1>2, <1>3, <1>9, <1>10, Zenon DEF h, e

LEMMA LenBufIs ==
  ASSUME DataInv, body \in Seq(Nat), NEW s \in Nat, splitter.len_buf \in Seq(Nat),
         Seen = s + Len(splitter.len_buf),
         \A i \in 1 .. Len(splitter.len_buf) : splitter.len_buf[i] = s + i,
         NEW pos \in Nat, pos <= Len(data)
  PROVE  /\ LenBuf(pos) \in Seq(Nat) /\ Len(LenBuf(pos)) = Len(splitter.len_buf) + pos
         /\ \A i \in 1 .. Len(LenBuf(pos)) : LenBuf(pos)[i] = s + i
<1> DEFINE t == SubSeq(data, 1, pos)
           p == 0
<1>1. p \in Nat /\ p + pos <= Len(data) /\ p + 1 = 1 /\ p + pos = pos /\ Seen + p = Seen
  <2>1. Seen \in Nat
    BY DEF DataInv, Seen
  <2> QED
    BY <2>1
<1> HIDE DEF p
<1>2. SubSeq(data, p + 1, p + pos) \in Seq(Nat) /\ Len(SubSeq(data, p + 1, p + pos)) = pos
      /\ \A i \in 1 .. pos : SubSeq(data, p + 1, p + pos)[i] = Seen + p + i
  BY <1>1, DataPart, Zenon
<1>3. t \in Seq(Nat) /\ Len(t) = pos
      /\ \A i \in 1 .. Len(t) : t[i] = s + Len(splitter.len_buf) + i
  BY <1>1, <1>2, Zenon
<1>4. LenBuf(pos) = splitter.len_buf \o t
  BY Zenon DEF LenBuf
<1> DEFINE u == splitter.len_buf \o t
<1> HIDE DEF t
<1>5. u \in Seq(Nat) /\ Len(u) = Len(splitter.len_buf) + Len(t)
      /\ \A i \in 1 .. Len(u) : u[i] = s + i
  BY <1>3, RunConcat, Zenon
<1> HIDE DEF u
<1> QED
  BY <1>3, <1>4, <1>5, Zenon DEF u

(***************************************************************************)
(* Where a turn that starts h bytes into a length comes to: with m the     *)
(* bytes of a length, d the bytes there are, p of them of the length.      *)
(***************************************************************************)
LengthPlaces(s, m, l, t, h, d, e, p) ==
  /\ p <= d /\ h + p <= m /\ s <= e /\ e < t /\ e + p = s + (h + p) /\ d - p \in Nat
  /\ h + p < m \/ h + p = m
  /\ h + p < m => p = d /\ h + p # m
  /\ h + p = m => e + p = s + m /\ e + p \in Nat /\ e + p = t - l

LEMMA LengthNumbers ==
  ASSUME NEW s \in Nat, NEW m \in Nat, NEW l \in Nat, NEW t \in Nat, t = s + m + l,
         NEW h \in Nat, h < m, NEW d \in Nat, NEW e \in Nat, e = s + h
  PROVE  /\ Min({m - h, d}) \in Nat
         /\ LengthPlaces(s, m, l, t, h, d, e, Min({m - h, d}))
<1> DEFINE a == m - h
           p == Min({a, d})
<1>1. a \in Nat /\ h + a = m
  OBVIOUS
<1> HIDE DEF a
<1>2. p \in Nat /\ p <= a /\ p <= d /\ (p = a \/ p = d)
  BY <1>1, MinTwo
<1> HIDE DEF p
<1>3. LengthPlaces(s, m, l, t, h, d, e, p)
  BY <1>1, <1>2 DEF LengthPlaces
<1> QED
  BY <1>2, <1>3 DEF a, p

TakeFits(l, d, pos, e, y) ==
  /\ y \in Nat /\ y <= l /\ pos + y \in Nat /\ pos + y <= d
  /\ e + (pos + y) = e + pos + y

LEMMA TakeNumbers ==
  ASSUME NEW l \in Nat, NEW d \in Nat, NEW pos \in Nat, NEW e \in Nat, d - pos \in Nat
  PROVE  TakeFits(l, d, pos, e, Min({l, d - pos}))
<1> DEFINE b == d - pos
           y == Min({l, b})
<1>1. b \in Nat /\ pos + b = d
  OBVIOUS
<1> HIDE DEF b
<1>2. y \in Nat /\ y <= l /\ y <= b
  BY <1>1, MinTwo
<1> HIDE DEF y
<1>3. pos + y \in Nat /\ pos + y <= d /\ e + (pos + y) = e + pos + y
  BY <1>1, <1>2
<1> QED
  BY <1>2, <1>3 DEF b, y, TakeFits

LEMMA StillWhole ==
  ASSUME NEW k \in Maps, Seen \in Nat, MapStarts[k] <= Seen, Seen < MapStarts[k + 1],
         Seen' \in Nat, MapStarts[k] <= Seen', Seen' < MapStarts[k + 1]
  PROVE  WholeMaps' = WholeMaps
<1>1. k \in 1 .. Len(MapStarts)
  BY MapIs, Zenon
<1>2. WholeMaps = {j \in Maps : MapLength(j) > 0 /\ j < k}
  BY <1>1, WholeMapsAre, Zenon
<1>3. WholeMaps' = {j \in Maps : MapLength(j) > 0 /\ j < k}
  BY <1>1, WholeMapsWillBe, Zenon
<1> QED
  BY <1>2, <1>3, Zenon

LEMMA KeepAliveNotWhole ==
  ASSUME NEW k \in Maps, MapLength(k) = 0, Seen \in Nat, MapStarts[k] <= Seen,
         Seen < MapStarts[k + 1], Seen' \in Nat, Seen' = MapStarts[k + 1]
  PROVE  WholeMaps' = WholeMaps
<1> DEFINE j == k + 1
<1>1. /\ k \in 1 .. Len(MapStarts) /\ j \in 1 .. Len(MapStarts)
      /\ MapStarts[j] = Seen'
      /\ j + 1 \in 1 .. Len(MapStarts) => Seen' < MapStarts[j + 1]
      /\ {i \in Maps : MapLength(i) > 0 /\ i < j}
           = {i \in Maps : MapLength(i) > 0 /\ i < k} \cup (IF MapLength(k) > 0 THEN {k} ELSE {})
  BY MapIs, Zenon
<1>2. WholeMaps = {i \in Maps : MapLength(i) > 0 /\ i < k}
  BY <1>1, WholeMapsAre, Zenon
<1> HIDE DEF j
<1>3. MapStarts[j] <= Seen'
  BY <1>1
<1>4. WholeMaps' = {i \in Maps : MapLength(i) > 0 /\ i < j}
  BY <1>1, <1>3, WholeMapsWillBe, Zenon
<1>5. ~(MapLength(k) > 0)
  <2>1. MapLength(k) = 0
    OBVIOUS
  <2>2. ~(0 > 0)
    OBVIOUS
  <2> QED
    BY <2>1, <2>2, Zenon
<1>6. {i \in Maps : MapLength(i) > 0 /\ i < k} \cup (IF MapLength(k) > 0 THEN {k} ELSE {})
        = {i \in Maps : MapLength(i) > 0 /\ i < k}
  BY <1>5, Zenon
<1> QED
  BY <1>1, <1>2, <1>4, <1>6, Zenon

(***************************************************************************)
(* The length is still incomplete, or that of a keep-alive.                *)
(***************************************************************************)
LEMMA LengthStays ==
  ASSUME MapInv, splitter.remaining = 0, OnMapFrame(<<>>, FALSE), WholeMaps' = WholeMaps,
         NEW b \in Seq(Nat), Len(b) < MAP_LEN, NEW k \in 1 .. Len(MapStarts), MapStarts[k] \in Nat,
         Seen' = MapStarts[k] + Len(b), \A i \in 1 .. Len(b) : b[i] = MapStarts[k] + i,
         splitter' = [len_buf |-> b, remaining |-> 0]
  PROVE  SplitterType' /\ InLength' /\ InMap' /\ FirstMap' /\ NetmapsExact'
<1> DEFINE n == Len(b)
           s == MapStarts[k]
           w == Seen'
<1>1. n \in Nat /\ s \in Nat /\ w = s + n
  OBVIOUS
<1> HIDE DEF n, s, w
<1>2. w - n = s
  BY <1>1
<1>3. \A i \in 1 .. Len(b) : b[i] = Seen' - Len(b) + i
  BY <1>2, Zenon DEF n, s, w
<1> QED
  BY <1>3, LengthTurn, Zenon

LEMMA ZeroFacts ==
  /\ <<>> \in Seq(Nat) /\ Len(<<>>) = 0 /\ (\A i : i \notin 1 .. 0) /\ ~(0 > 0) /\ 0 - 0 = 0
  /\ \A s \in Seq(Nat) : Len(s) = 0 => s = <<>>
  /\ \A n \in Nat : n + 0 = n /\ n - n = 0 /\ (n # 0 => n \in 1 .. n) /\ (n <= 0 => n = 0)
OBVIOUS

(***************************************************************************)
(* The turn at a length that stays incomplete.                             *)
(***************************************************************************)
LEMMA ShortTurn ==
  ASSUME MapInv, body \in Seq(Nat), UNCHANGED <<body, frames, stream>>, splitter.remaining = 0,
         NEW k \in Maps, NEW h \in Nat, NEW d \in Nat, d = Len(data), Seen \in Nat,
         NEW pos \in Nat,
         LengthPlaces(MapStarts[k], MAP_LEN, MapLength(k), MapStarts[k + 1], h, d, Seen, pos),
         h + pos < MAP_LEN, NEW b \in Seq(Nat), Len(b) = h + pos,
         \A i \in 1 .. Len(b) : b[i] = MapStarts[k] + i,
         splitter' = [len_buf |-> b, remaining |-> 0],
         data' = SubSeq(data, pos + 1, Len(data)),
         OnMapFrame(<<>>, FALSE)
  PROVE  MapInv'
<1>1. pos <= Len(data) /\ MapStarts[k] <= Seen /\ Seen < MapStarts[k + 1]
      /\ Seen + pos = MapStarts[k] + (h + pos)
  BY Zenon DEF LengthPlaces
<1>2. DataInv' /\ Seen' = Seen + pos
  BY <1>1, DataAdvance, Zenon DEF MapInv
<1>3. /\ k \in 1 .. Len(MapStarts) /\ MapStarts[k] \in Nat /\ MAP_LEN \in Nat
      /\ MapLength(k) \in Nat /\ MapStarts[k + 1] = MapStarts[k] + MAP_LEN + MapLength(k)
  BY MapIs, Zenon
<1>4. Seen' = MapStarts[k] + (h + pos)
  BY <1>1, <1>2, Zenon
<1>5. Seen' \in Nat /\ MapStarts[k] <= Seen' /\ Seen' < MapStarts[k + 1]
  <2> DEFINE s == MapStarts[k]
             l == MapLength(k)
             t == MapStarts[k + 1]
             w == Seen'
  <2>1. s \in Nat /\ l \in Nat /\ t = s + MAP_LEN + l /\ w = s + (h + pos)
    BY <1>3, <1>4, Zenon
  <2> HIDE DEF s, l, t, w
  <2>2. w \in Nat /\ s <= w /\ w < t
    BY <1>3, <2>1
  <2> QED
    BY <2>2 DEF s, t, w
<1>6. WholeMaps' = WholeMaps
  BY <1>1, <1>5, StillWhole, Zenon
<1>7. Seen' = MapStarts[k] + Len(b) /\ Len(b) < MAP_LEN
  BY <1>4, Zenon
<1>8. SplitterType' /\ InLength' /\ InMap' /\ FirstMap' /\ NetmapsExact'
  BY <1>3, <1>6, <1>7, LengthStays, Zenon
<1> QED
  BY <1>2, <1>8, Zenon DEF MapInv

(***************************************************************************)
(* The turn that completes a length: a keep-alive's, or that of a netmap   *)
(* whose first bytes follow.                                               *)
(***************************************************************************)
LEMMA ReadTurn ==
  ASSUME MapInv, body \in Seq(Nat), UNCHANGED <<body, frames, stream>>, splitter.remaining = 0,
         current = <<>>,
         NEW k \in Maps, NEW h \in Nat, NEW d \in Nat, d = Len(data), Seen \in Nat,
         NEW pos \in Nat,
         LengthPlaces(MapStarts[k], MAP_LEN, MapLength(k), MapStarts[k + 1], h, d, Seen, pos),
         h + pos = MAP_LEN,
         NEW take, take = Min({MapLength(k), d - pos}),
         splitter' = [len_buf |-> <<>>, remaining |-> MapLength(k) - take],
         data' = SubSeq(data, pos + take + 1, Len(data)),
         OnMapFrame(SubSeq(data, pos + 1, pos + take), take > 0 /\ take = MapLength(k))
  PROVE  MapInv'
<1> DEFINE l == MapLength(k)
           t == MapStarts[k + 1]
           e == Seen
           q == e + pos
           chunk == SubSeq(data, pos + 1, pos + take)
<1>1. /\ MapStarts[k] <= e /\ e < t /\ d - pos \in Nat /\ q \in Nat /\ q = t - l /\ pos <= d
  BY Zenon DEF LengthPlaces
<1>2. /\ k + 1 \in 1 .. Len(MapStarts) /\ t \in Nat /\ MAP_LEN \in Nat /\ MAP_LEN >= 1 /\ l \in Nat
  BY MapIs, Zenon
<1>3. /\ take \in Nat /\ take <= l /\ pos + take \in Nat /\ pos + take <= Len(data)
      /\ e + (pos + take) = q + take
  <2> DEFINE y == Min({l, d - pos})
  <2>1. TakeFits(l, d, pos, e, y)
    <3>1. e \in Nat
      OBVIOUS
    <3> HIDE DEF l, e
    <3> QED
      BY <1>1, <1>2, <3>1, TakeNumbers, Zenon
  <2>2. take = y
    BY Zenon
  <2> HIDE DEF y
  <2> QED
    BY <2>1, <2>2, Zenon DEF TakeFits
<1>4. DataInv' /\ Seen' = q + take
  <2>1. DataInv' /\ Seen' = e + (pos + take)
    BY <1>3, DataAdvance, Zenon DEF MapInv
  <2> QED
    BY <1>3, <2>1, Zenon
<1>5. chunk \in Seq(Nat) /\ Len(chunk) = take /\ \A i \in 1 .. take : chunk[i] = q + i
  BY <1>3, DataPart, Zenon DEF MapInv
<1> HIDE DEF chunk
<1>6. CASE l = 0
  <2>1. take = 0 /\ q = t /\ q + take = t
    <3> HIDE DEF l, t, q
    <3> QED
      BY <1>1, <1>2, <1>3, <1>6
  <2>2. chunk = <<>> /\ ~(take > 0 /\ take = l)
    BY <1>5, <2>1, ZeroFacts, Zenon
  <2>3. OnMapFrame(<<>>, FALSE)
    BY <2>2, Zenon DEF OnMapFrame, chunk
  <2>4. Seen' = t
    BY <1>4, <2>1, Zenon
  <2>5. WholeMaps' = WholeMaps
    BY <1>1, <1>2, <1>6, <2>4, KeepAliveNotWhole, Zenon
  <2>6. splitter' = [len_buf |-> <<>>, remaining |-> 0]
    BY <1>6, <2>1, ZeroFacts, Zenon
  <2>7. Seen' = MapStarts[k + 1] + Len(<<>>) /\ Len(<<>>) < MAP_LEN
        /\ \A i \in 1 .. Len(<<>>) : <<>>[i] = MapStarts[k + 1] + i
    <3>1. 0 < MAP_LEN
      BY <1>2
    <3>2. t + 0 = t
      BY <1>2, ZeroFacts, Zenon
    <3> QED
      BY <2>4, <3>1, <3>2, ZeroFacts, Zenon
  <2>8. SplitterType' /\ InLength' /\ InMap' /\ FirstMap' /\ NetmapsExact'
    <3> DEFINE j == k + 1
    <3>1. /\ Seen' = MapStarts[j] + Len(<<>>) /\ Len(<<>>) < MAP_LEN
          /\ \A i \in 1 .. Len(<<>>) : <<>>[i] = MapStarts[j] + i
          /\ j \in 1 .. Len(MapStarts) /\ MapStarts[j] \in Nat /\ <<>> \in Seq(Nat)
      BY <1>2, <2>7, ZeroFacts, Zenon
    <3> HIDE DEF j
    <3> QED
      BY <2>3, <2>5, <2>6, <3>1, LengthStays, Zenon
  <2> QED
    BY <1>4, <2>8, Zenon DEF MapInv
<1>7. CASE l # 0
  <2>1. l \in 1 .. l /\ Len(<<>>) = l - l /\ \A i : i \notin 1 .. Len(<<>>)
    BY <1>2, <1>7, ZeroFacts, Zenon
  <2>2. Len(current) = l - l /\ \A i \in 1 .. Len(current) : current[i] = MapStarts[k] + MAP_LEN + i
    BY <2>1, Zenon
  <2>3. OnMapFrame(chunk, take > 0 /\ take = l)
    BY Zenon DEF chunk
  <2> HIDE DEF q
  <2>4. SplitterType' /\ InLength' /\ InMap' /\ FirstMap' /\ NetmapsExact'
    BY <1>1, <1>3, <1>4, <1>5, <2>1, <2>2, <2>3, PayloadTurn, ZenonT(60)
  <2> QED
    BY <1>4, <2>4, Zenon DEF MapInv
<1> QED
  BY <1>6, <1>7, Zenon

LEMMA InLengthTurn ==
  ASSUME MapInv, body \in Seq(Nat), UNCHANGED <<body, frames, stream>>, data # <<>>,
         Len(body) <= MapStarts[Len(MapStarts)], splitter.remaining = 0,
         NEW pos, pos = Min({MAP_LEN - Len(splitter.len_buf), Len(data)}),
         NEW buf, buf = LenBuf(pos),
         NEW remaining, remaining = IF Len(buf) = MAP_LEN THEN from_le_bytes(buf) ELSE 0,
         NEW take, take = Min({remaining, Len(data) - pos}),
         splitter' = [len_buf |-> IF Len(buf) = MAP_LEN THEN <<>> ELSE buf,
                      remaining |-> remaining - take],
         data' = SubSeq(data, pos + take + 1, Len(data)),
         OnMapFrame(SubSeq(data, pos + 1, pos + take), take > 0 /\ take = remaining)
  PROVE  MapInv'
<1> DEFINE h == Len(splitter.len_buf)
           d == Len(data)
<1>1. /\ splitter.len_buf \in Seq(Nat) /\ h \in Nat /\ h < MAP_LEN /\ current = <<>>
      /\ \E k \in Maps : /\ Seen = MapStarts[k] + h
                         /\ \A i \in 1 .. h : splitter.len_buf[i] = MapStarts[k] + i
  BY AtLength, Zenon
<1>2. PICK k \in Maps : /\ Seen = MapStarts[k] + h
                        /\ \A i \in 1 .. h : splitter.len_buf[i] = MapStarts[k] + i
  BY <1>1, Zenon
<1>3. DataInv /\ d \in Nat /\ Seen \in Nat
  BY DEF MapInv, DataInv, Seen
<1> DEFINE s == MapStarts[k]
           l == MapLength(k)
           t == MapStarts[k + 1]
<1>4. /\ s \in Nat /\ l \in Nat /\ t \in Nat /\ MAP_LEN \in Nat /\ MAP_LEN >= 1
      /\ t = s + MAP_LEN + l
  BY MapIs, Zenon
<1>5. pos \in Nat /\ LengthPlaces(s, MAP_LEN, l, t, h, d, Seen, pos)
  <2> DEFINE y == Min({MAP_LEN - h, d})
  <2>1. pos = y
    BY Zenon
  <2>2. y \in Nat /\ LengthPlaces(s, MAP_LEN, l, t, h, d, Seen, y)
    <3>1. Seen = s + h
      BY <1>2, Zenon
    <3> HIDE DEF s, l, t, h, d
    <3> QED
      BY <1>1, <1>3, <1>4, <3>1, LengthNumbers, ZenonT(60)
  <2> HIDE DEF y
  <2> QED
    BY <2>1, <2>2, Zenon
<1>6. pos <= Len(data) /\ h + pos <= MAP_LEN /\ d - pos \in Nat
  BY <1>5, Zenon DEF LengthPlaces
<1>7. /\ buf \in Seq(Nat) /\ Len(buf) = h + pos
      /\ \A i \in 1 .. Len(buf) : buf[i] = s + i
  <2> DEFINE u == LenBuf(pos)
  <2>1. buf = u
    BY Zenon
  <2>2. /\ u \in Seq(Nat) /\ Len(u) = h + pos
        /\ \A i \in 1 .. Len(u) : u[i] = s + i
    <3>1. /\ Seen = s + Len(splitter.len_buf)
          /\ \A i \in 1 .. Len(splitter.len_buf) : splitter.len_buf[i] = s + i
      BY <1>2, Zenon
    <3> HIDE DEF s
    <3> QED
      BY <1>1, <1>3, <1>4, <1>5, <1>6, <3>1, LenBufIs, ZenonT(60)
  <2> HIDE DEF u
  <2> QED
    BY <2>1, <2>2, Zenon
<1>8. CASE h + pos < MAP_LEN
  <2>1. pos = d /\ Len(buf) # MAP_LEN
    BY <1>5, <1>7, <1>8, Zenon DEF LengthPlaces
  <2>2. remaining = 0 /\ d - pos = 0
    BY <1>3, <2>1, ZeroFacts, Zenon
  <2>3. take = 0
    <3>1. Min({0, 0}) = 0
      BY MinTwo
    <3> QED
      BY <2>2, <3>1, Zenon
  <2>4. pos + take = pos /\ remaining - take = 0
    BY <1>5, <2>2, <2>3, ZeroFacts, Zenon
  <2>5. SubSeq(data, pos + 1, pos + take) = <<>>
    <3>1. pos + 1 \in Int /\ pos \in Int /\ pos < pos + 1
      BY <1>5, SMTT(30)
    <3> QED
      BY <2>4, <3>1, SubSeqEmpty, Zenon
  <2>6. ~(take > 0 /\ take = remaining)
    BY <2>3, ZeroFacts, Zenon
  <2>7. OnMapFrame(<<>>, FALSE)
    BY <2>5, <2>6, Zenon DEF OnMapFrame
  <2>8. splitter' = [len_buf |-> buf, remaining |-> 0]
    BY <2>1, <2>4, Zenon
  <2>9. data' = SubSeq(data, pos + 1, Len(data))
    BY <2>4, Zenon
  <2> HIDE DEF h
  <2>10. h \in Nat /\ Seen \in Nat /\ Len(data) \in Nat /\ pos \in Nat
    BY <1>1, <1>3, <1>5, Zenon
  <2> QED
    BY <1>5, <1>7, <1>8, <2>7, <2>8, <2>9, <2>10, ShortTurn, ZenonT(60)
<1>9. CASE h + pos = MAP_LEN
  <2>1. Len(buf) = MAP_LEN
    BY <1>7, <1>9, Zenon
  <2>2. Head(buf) = s + 1
    <3>1. Head(buf) = buf[1]
      BY <1>7
    <3>2. 1 \in 1 .. Len(buf)
      BY <1>4, <2>1
    <3> QED
      BY <1>7, <3>1, <3>2, Zenon
  <2>3. remaining = l
    BY <2>1, <2>2, LengthRead, Zenon
  <2>4. splitter' = [len_buf |-> <<>>, remaining |-> l - take]
    BY <2>1, <2>3, Zenon
  <2>5. OnMapFrame(SubSeq(data, pos + 1, pos + take), take > 0 /\ take = l)
    BY <2>3, Zenon
  <2>6. take = Min({l, d - pos})
    BY <2>3, Zenon
  <2> HIDE DEF h
  <2> QED
    BY <1>1, <1>3, <1>5, <1>9, <2>4, <2>5, <2>6, ReadTurn, ZenonT(60)
<1> QED
  <2>1. h + pos < MAP_LEN \/ h + pos = MAP_LEN
    BY <1>5, Zenon DEF LengthPlaces
  <2> QED
    BY <1>8, <1>9, <2>1, Zenon

(***************************************************************************)
(* One turn of on_data.                                                    *)
(***************************************************************************)
LEMMA MapTurn ==
  ASSUME StreamInv, ReaderInv, BodyInv, MapInv, MapFeed
  PROVE  MapInv'
<1> DEFINE pos == IF splitter.remaining > 0 THEN 0
                  ELSE Min({MAP_LEN - Len(splitter.len_buf), Len(data)})
           buf == IF splitter.remaining > 0 THEN <<>> ELSE LenBuf(pos)
           remaining == IF Len(buf) = MAP_LEN THEN from_le_bytes(buf) ELSE splitter.remaining
           take == Min({remaining, Len(data) - pos})
<1>1. /\ data # <<>>
      /\ splitter' = [len_buf |-> IF Len(buf) = MAP_LEN THEN <<>> ELSE buf,
                      remaining |-> remaining - take]
      /\ data' = SubSeq(data, pos + take + 1, Len(data))
      /\ OnMapFrame(SubSeq(data, pos + 1, pos + take), take > 0 /\ take = remaining)
      /\ UNCHANGED <<body, frames, stream>>
  BY Zenon DEF MapFeed, serverVars
<1>2. body \in Seq(Nat) /\ splitter.remaining \in Nat /\ Len(data) \in Nat
      /\ Len(body) <= MapStarts[Len(MapStarts)]
  BY BodyWithin DEF BodyInv, MapInv, SplitterType, DataInv
<1> HIDE DEF take
<1>3. CASE splitter.remaining > 0
  <2>1. pos = 0 /\ buf = <<>>
    BY <1>3, Zenon
  <2> HIDE DEF pos, buf
  <2>2. Len(buf) # MAP_LEN
    BY <2>1, MapOrder
  <2>3. remaining = splitter.remaining
    BY <2>2, Zenon
  <2> HIDE DEF remaining
  <2>4. Len(data) - pos = Len(data) /\ pos + 1 = 1
    BY <1>2, <2>1
  <2>5. take = Min({splitter.remaining, Len(data)})
    BY <2>3, <2>4, Zenon DEF take
  <2>6. pos + take = take
    <3> DEFINE x == splitter.remaining
               d == Len(data)
    <3>1. x \in Nat /\ d \in Nat /\ take = Min({x, d})
      BY <1>2, <2>5, Zenon
    <3> HIDE DEF x, d
    <3>2. take \in Nat
      BY <3>1, MinTwo
    <3> QED
      BY <2>1, <3>2
  <2>7. splitter' = [len_buf |-> <<>>, remaining |-> splitter.remaining - take]
    BY <1>1, <2>1, <2>2, <2>3, Zenon
  <2>8. data' = SubSeq(data, take + 1, Len(data))
    BY <1>1, <2>6, Zenon
  <2>9. OnMapFrame(SubSeq(data, 1, take), take > 0 /\ take = splitter.remaining)
    BY <1>1, <2>3, <2>4, <2>6, Zenon
  <2> QED
    BY <1>1, <1>2, <1>3, <2>5, <2>7, <2>8, <2>9, InMapTurn, Zenon
<1>4. CASE ~(splitter.remaining > 0)
  <2>1. splitter.remaining = 0
    BY <1>2, <1>4
  <2>2. pos = Min({MAP_LEN - Len(splitter.len_buf), Len(data)})
    BY <1>4, Zenon
  <2> HIDE DEF pos
  <2>3. buf = LenBuf(pos)
    BY <1>4, Zenon
  <2> HIDE DEF buf
  <2>4. remaining = IF Len(buf) = MAP_LEN THEN from_le_bytes(buf) ELSE 0
    BY <2>1, Zenon
  <2> HIDE DEF remaining
  <2>5. take = Min({remaining, Len(data) - pos})
    BY DEF take
  <2> QED
    BY <1>1, <1>2, <2>1, <2>2, <2>3, <2>4, <2>5, InLengthTurn, Zenon
<1> QED
  BY <1>3, <1>4, Zenon

LEMMA MapFed ==
  ASSUME IInv, MapFeed
  PROVE  IInv'
<1>1. /\ StreamInv /\ ReaderInv /\ CreditInv /\ EndSeen /\ BodyInv /\ ControlsInv /\ AcksInv
      /\ MapInv
  BY Zenon DEF IInv
<1>2. UNCHANGED <<host, frames, stream, connWindow, streamWindow, round, read, credit, fed, reader,
                  acks, done, body, controls, missed, answered, outcome>>
  BY Zenon DEF MapFeed, serverVars, roundVars
<1>3. MapInv'
  BY <1>1, MapTurn, Zenon
<1>4. StreamInv'
  BY <1>1, <1>2, StreamSame, Zenon
<1>5. ReaderInv'
  BY <1>1, <1>2, ReaderKept, Zenon
<1>6. CreditInv'
  BY <1>1, <1>2, CreditSame, Zenon
<1>7. EndSeen'
  BY <1>1, <1>2, EndSame, Zenon
<1>8. BodyInv'
  BY <1>1, <1>2, BodySame, Zenon
<1>9. ControlsInv'
  BY <1>1, <1>2, ControlsSame, Zenon
<1>10. AcksInv'
  <2>1. round' \in BOOLEAN /\ (~round' => acks = <<>>) /\ (outcome' = "reading" => outcome = "reading")
    BY <1>1, <1>2, Zenon DEF AcksInv
  <2> QED
    BY <1>1, <1>2, <2>1, AcksSame, Zenon
<1> QED
  BY <1>3, <1>4, <1>5, <1>6, <1>7, <1>8, <1>9, <1>10, Zenon DEF IInv

(***************************************************************************)
(* One turn of the reader.                                                 *)
(***************************************************************************)
LEMMA Fed ==
  ASSUME IInv, Feed
  PROVE  IInv'
<1>1. /\ StreamInv /\ ReaderInv /\ CreditInv /\ EndSeen /\ BodyInv /\ ControlsInv /\ AcksInv
      /\ MapInv
  BY Zenon DEF IInv
<1>2. ReaderInv' /\ \E n, k, a : FeedStep(n, k, a)
  BY <1>1, FeedIsStep, Zenon
<1>3. PICK n, k, a : FeedStep(n, k, a)
  BY <1>2, Zenon
<1>4. Uses(n, k, a)
  BY <1>3, Zenon DEF FeedStep
<1>5. UNCHANGED <<frames, stream>>
  BY <1>1, <1>4, UsesTypes, Zenon
<1>6. StreamInv'
  BY <1>1, <1>5, StreamSame, Zenon
<1>7. CreditInv'
  BY <1>1, <1>3, CreditStep, Zenon
<1>8. EndSeen'
  BY <1>1, <1>3, EndSeenStep, Zenon
<1>9. BodyInv'
  BY <1>1, <1>3, BodyStep, Zenon
<1>10. ControlsInv'
  BY <1>1, <1>3, ControlsStep, Zenon
<1>11. AcksInv'
  BY <1>1, <1>3, AcksStep, Zenon
<1>12. MapInv'
  BY <1>1, <1>3, MapStep, Zenon
<1> QED
  BY <1>2, <1>6, <1>7, <1>8, <1>9, <1>10, <1>11, <1>12, Zenon DEF IInv

(***************************************************************************)
(* The server sends a frame.                                               *)
(***************************************************************************)
LEMMA Sent ==
  ASSUME IInv, NEW f \in Frames, ServerSend(f)
  PROVE  IInv'
<1>1. /\ StreamInv /\ ReaderInv /\ CreditInv /\ EndSeen /\ BodyInv /\ ControlsInv /\ AcksInv
      /\ MapInv
  BY Zenon DEF IInv
<1>2. StreamInv' /\ ReaderInv' /\ CreditInv' /\ EndSeen'
  BY <1>1, SendStream, SendReader, SendCredit, SendEnd, Zenon
<1>3. BodyInv' /\ ControlsInv' /\ AcksInv' /\ MapInv'
  BY <1>1, SendBody, SendControls, SendAcks, SendMap, Zenon
<1> QED
  BY <1>2, <1>3, Zenon DEF IInv

-----------------------------------------------------------------------------
(* The invariant, from the start on.                                       *)

LEMMA EmptySequence ==
  /\ Len(<<>>) = 0 /\ DOMAIN <<>> = {} /\ Range(<<>>) = {}
  /\ (\A T : <<>> \in Seq(T)) /\ (\A i : i \notin 1 .. 0) /\ 0 \in Nat
<1>1. Len(<<>>) = 0 /\ DOMAIN <<>> = {} /\ (\A i : i \notin 1 .. 0) /\ 0 \in Nat
  OBVIOUS
<1>2. \A T : <<>> \in Seq(T)
  OBVIOUS
<1>3. Range(<<>>) = {}
  BY <1>1, Zenon DEF Range
<1> QED
  BY <1>1, <1>2, <1>3, Zenon

LEMMA NoCard ==
  Cardinality({}) = 0
BY FS_EmptySet, Zenon

LEMMA InitStream ==
  ASSUME Init
  PROVE  StreamInv /\ ReaderInv
<1>1. frames = <<>> /\ stream = <<>> /\ read = 0 /\ fed = 0
      /\ reader = [state |-> "Header", header |-> <<>>, current |-> 0, remaining |-> 0,
                   control |-> <<>>, pending_window |-> 0]
  BY Zenon DEF Init
<1>2. Len(stream) = 0 /\ Len(frames) = 0
  BY <1>1, EmptySequence, Zenon
<1>3. StreamType
  BY <1>1, EmptySequence, Zenon DEF StreamType
<1>4. StreamPlaces /\ StreamOrder
  BY <1>2, EmptySequence, Zenon DEF StreamPlaces, StreamOrder
<1>5. StreamStarts
  <2>1. \A b : b \notin 0 .. 0 - 1
    OBVIOUS
  <2> QED
    BY <1>2, <2>1, Zenon DEF StreamStarts
<1>6. OwnEnds
  BY <1>2, EmptySequence, Zenon DEF OwnEnds
<1>7. ReaderType
  BY <1>1, <1>2 DEF ReaderType
<1>8. reader.state = "Header" /\ reader.header = <<>> /\ Len(reader.header) = 0
  BY <1>1
<1>9. InHeader
  <2>1. 0 < FRAME_HEADER_LEN /\ 0 <= 0 /\ 0 - 0 = 0
    BY H2Assumption
  <2> QED
    BY <1>1, <1>8, <2>1, EmptySequence, Zenon DEF InHeader, Boundary
<1>10. InFrame /\ InControl
  BY <1>8 DEF InFrame, InControl
<1> QED
  BY <1>3, <1>4, <1>5, <1>6, <1>7, <1>9, <1>10, Zenon DEF StreamInv, ReaderInv

LEMMA InitItems ==
  ASSUME Init
  PROVE  CreditInv /\ EndSeen /\ BodyInv /\ ControlsInv /\ AcksInv
<1>1. /\ frames = <<>> /\ stream = <<>> /\ fed = 0 /\ host \in BOOLEAN
      /\ connWindow = CONNECTION_WINDOW /\ credit = [connection |-> 0, stream |-> 0]
      /\ reader.pending_window = 0 /\ round = FALSE /\ acks = <<>> /\ done = FALSE
      /\ outcome = "reading" /\ body = <<>> /\ controls = <<>> /\ answered = <<>> /\ missed = 0
  BY DEF Init
<1>2. Len(stream) = 0
  BY <1>1, EmptySequence, Zenon
<1>3. CreditInv
  <2>1. \A b : b \notin 0 + 1 .. 0
    OBVIOUS
  <2>2. InFlight = Cardinality({})
    <3>1. {b \in fed + 1 .. Len(stream) : InPayload(b) /\ Frame(b).kind = "DATA"} = {}
      BY <1>1, <1>2, <2>1, Zenon
    <3> QED
      BY <3>1, Zenon DEF InFlight
  <2>3. InFlight = 0
    BY <2>2, NoCard, Zenon
  <2>4. connWindow \in Nat /\ credit \in [connection : Nat, stream : Nat] /\ credit.connection = 0
    BY <1>1, H2Assumption
  <2> QED
    BY <1>1, <2>3, <2>4, H2Assumption DEF CreditInv, CreditConserved
<1>4. EndSeen
  BY <1>1 DEF EndSeen
<1>5. BodyInv
  <2>1. OwnData(fed) = {}
    BY <1>1, EmptySequence, Zenon DEF OwnData
  <2> QED
    BY <1>1, <2>1, EmptySequence, Zenon DEF BodyInv, BodyExact, Lists
<1>6. Range(controls) = {} /\ controls \in Seq([frame : Nat, payload : Seq(Nat)])
  BY <1>1, EmptySequence, Zenon
<1>7. ControlsInv
  <2>1. ControlEnds = {}
    BY <1>1, EmptySequence, Zenon DEF ControlEnds
  <2>2. {ControlAt(b) : b \in ControlEnds} = {}
    BY <2>1, Zenon
  <2> QED
    BY <1>1, <1>6, <2>2, EmptySequence, Zenon DEF ControlsInv, ControlsExact
<1>8. AcksInv
  <2>1. Noticed = {}
    BY <1>6, Zenon DEF Noticed
  <2>2. {k \in Noticed \ Range(acks) : Answers(k)} = {} /\ Range(acks) = {} /\ Range(answered) = {}
    BY <1>1, <2>1, EmptySequence, Zenon
  <2>3. Acknowledged
    BY <1>1, <2>1, <2>2, EmptySequence, Zenon DEF Acknowledged, Lists
  <2>4. acks \in Seq(Nat) /\ answered \in Seq(Nat) /\ missed \in Nat /\ round \in BOOLEAN
    BY <1>1, EmptySequence, Zenon
  <2> QED
    BY <1>1, <2>3, <2>4, Zenon DEF AcksInv
<1> QED
  BY <1>3, <1>4, <1>5, <1>7, <1>8, Zenon

LEMMA InitMap ==
  ASSUME Init
  PROVE  MapInv
<1>1. /\ stream = <<>> /\ body = <<>> /\ data = <<>> /\ splitter = [len_buf |-> <<>>, remaining |-> 0]
      /\ current = <<>> /\ netmap = <<>> /\ netmaps = <<>>
  BY Zenon DEF Init
<1>2. Len(stream) = 0 /\ Len(body) = 0 /\ Len(data) = 0 /\ Seen = 0
  <2>1. 0 - 0 = 0
    OBVIOUS
  <2> QED
    BY <1>1, <2>1, EmptySequence, Zenon DEF Seen
<1>3. DataInv
  <2>1. OwnData(Len(stream)) = {}
    BY <1>2, EmptySequence, Zenon DEF OwnData
  <2>2. 0 <= MapStarts[Len(MapStarts)] /\ 0 <= 0
    BY MapAssumption
  <2> QED
    BY <1>1, <1>2, <2>1, <2>2, NoCard, EmptySequence, Zenon DEF DataInv
<1>4. splitter.len_buf = <<>> /\ splitter.remaining = 0 /\ ~(splitter.remaining > 0)
      /\ splitter \in [len_buf : Seq(Nat), remaining : Nat]
  BY <1>1
<1>5. SplitterType
  BY <1>1, <1>4, EmptySequence, Zenon DEF SplitterType
<1>6. InLength
  <2>1. 0 < MAP_LEN /\ 1 \in 1 .. Len(MapStarts) /\ MapStarts[1] = 0 /\ 0 + 0 = 0
    BY H2Assumption, MapAssumption
  <2>2. Seen = MapStarts[1] + Len(splitter.len_buf)
    BY <1>2, <1>4, <2>1, EmptySequence, Zenon
  <2> QED
    BY <1>1, <1>4, <2>1, <2>2, EmptySequence, Zenon DEF InLength
<1>7. InMap
  BY <1>4, Zenon DEF InMap
<1>8. FirstMap
  <2> DEFINE m == Min({NETMAP_MAX, Len(current)})
  <2>1. m = 0
    <3>1. NETMAP_MAX \in Nat
      BY H2Assumption
    <3>2. Min({NETMAP_MAX, 0}) \in Nat /\ Min({NETMAP_MAX, 0}) <= 0
      BY <3>1, MinTwo
    <3>3. Min({NETMAP_MAX, 0}) = 0
      BY <3>2
    <3> QED
      BY <1>1, <3>3, EmptySequence, Zenon
  <2>2. SubSeq(current, 1, 0) = <<>>
    BY SubSeqEmpty
  <2> HIDE DEF m
  <2>3. SubSeq(current, 1, m) = <<>>
    BY <2>1, <2>2, Zenon
  <2>4. netmap = SubSeq(current, 1, m)
    BY <1>1, <2>3, Zenon
  <2> QED
    BY <2>4, Zenon DEF FirstMap, m
<1>9. NetmapsExact
  <2>1. WholeMaps = {}
    <3>1. ASSUME NEW k \in Maps PROVE ~(MapStarts[k + 1] <= 0)
      <4>1. MapStarts[k] \in Nat /\ MapLength(k) \in Nat /\ MAP_LEN \in Nat /\ MAP_LEN >= 1
            /\ MapStarts[k + 1] = MapStarts[k] + MAP_LEN + MapLength(k)
        BY MapIs
      <4> QED
        BY <4>1
    <3>2. 0 - 0 = 0
      OBVIOUS
    <3> QED
      BY <1>2, <3>1, <3>2, Zenon DEF WholeMaps
  <2>2. {MapBytes(k) : k \in WholeMaps} = {}
    BY <2>1, Zenon
  <2> QED
    BY <1>1, <2>2, EmptySequence, Zenon DEF NetmapsExact
<1> QED
  BY <1>3, <1>5, <1>6, <1>7, <1>8, <1>9, Zenon DEF MapInv

LEMMA Initially ==
  Init => IInv
BY InitStream, InitItems, InitMap, Zenon DEF IInv

LEMMA Stutters ==
  ASSUME IInv, UNCHANGED vars
  PROVE  IInv'
<1>1. /\ StreamInv /\ ReaderInv /\ CreditInv /\ EndSeen /\ BodyInv /\ ControlsInv /\ AcksInv
      /\ MapInv
  BY Zenon DEF IInv
<1>2. /\ UNCHANGED <<host, frames, stream, connWindow, round, read, credit, fed, reader>>
      /\ UNCHANGED <<acks, done, body, data, controls, missed, answered, outcome>>
      /\ UNCHANGED <<splitter, current, netmap, netmaps>>
  BY Zenon DEF vars, serverVars, roundVars, itemVars, mapVars
<1>3. StreamInv' /\ ReaderInv' /\ CreditInv'
  BY <1>1, <1>2, StreamSame, ReaderKept, CreditSame, Zenon
<1>4. EndSeen'
  BY <1>1, <1>2, EndSame, Zenon
<1>5. BodyInv' /\ ControlsInv' /\ MapInv'
  BY <1>1, <1>2, BodySame, ControlsSame, MapSame, Zenon
<1>6. AcksInv'
  <2>1. round' \in BOOLEAN /\ (~round' => acks = <<>>) /\ (outcome' = "reading" => outcome = "reading")
    BY <1>1, <1>2, Zenon DEF AcksInv
  <2> QED
    BY <1>1, <1>2, <2>1, AcksSame, Zenon
<1> QED
  BY <1>3, <1>4, <1>5, <1>6, Zenon DEF IInv

LEMMA Inductive ==
  IInv /\ [Next]_vars => IInv'
<1> SUFFICES ASSUME IInv, [Next]_vars PROVE IInv'
  OBVIOUS
<1>1. CASE Feed
  BY <1>1, Fed, Zenon
<1>2. CASE MapFeed
  BY <1>2, MapFed, Zenon
<1>3. CASE HandleNoted
  BY <1>3, NotedHandled, Zenon
<1>4. CASE EndRound
  BY <1>4, RoundEnds, Zenon
<1>5. CASE \E n \in 1 .. Len(stream) - read : Pump(n)
  BY <1>5, RoundStarts, Zenon
<1>6. CASE ServerCredit
  BY <1>6, CreditTaken, Zenon
<1>7. CASE \E f \in Frames : ServerSend(f)
  BY <1>7, Sent, Zenon
<1>8. CASE UNCHANGED vars
  BY <1>8, Stutters, Zenon
<1> QED
  BY <1>1, <1>2, <1>3, <1>4, <1>5, <1>6, <1>7, <1>8, Zenon DEF Next, Client

(***************************************************************************)
(* The inductive invariant holds in every reachable state: the reader and  *)
(* the splitter always stand where the bytes fed to them say.              *)
(***************************************************************************)
THEOREM Invariant == Spec => []IInv
<1>1. Init => IInv
  BY Initially
<1>2. IInv /\ [Next]_vars => IInv'
  BY Inductive
<1> QED
  BY <1>1, <1>2, PTL DEF Spec

-----------------------------------------------------------------------------
(* What the invariant says.                                                *)

(***************************************************************************)
(* However the records cut the stream, on_data receives exactly the        *)
(* payload of this request's DATA frames fed so far, each byte once and in *)
(* order (FrameReader::feed and post_stream).                              *)
(***************************************************************************)
THEOREM BodyExactHolds == Spec => []BodyExact
<1>1. IInv => BodyExact
  BY Zenon DEF IInv, BodyInv
<1> QED
  BY <1>1, Invariant, PTL

(***************************************************************************)
(* The reader produces each control frame once, in order and with the      *)
(* start of its own payload, whatever was read before it.                  *)
(***************************************************************************)
THEOREM ControlsExactHolds == Spec => []ControlsExact
<1>1. IInv => ControlsExact
  BY Zenon DEF IInv, ControlsInv
<1> QED
  BY <1>1, Invariant, PTL

(***************************************************************************)
(* However frames and records cut the body, MapFrames::feed and on_data    *)
(* assemble each netmap from exactly its own bytes, and the firmware keeps *)
(* the start of the first.                                                 *)
(***************************************************************************)
THEOREM NetmapsExactHolds == Spec => []NetmapsExact
<1>1. IInv => NetmapsExact
  BY Zenon DEF IInv, MapInv
<1> QED
  BY <1>1, Invariant, PTL

(***************************************************************************)
(* The connection's credit is conserved: what the server may send, what is *)
(* on its way, what take_window_credit owes and what was returned add up.  *)
(***************************************************************************)
THEOREM CreditConservedHolds == Spec => []CreditConserved
<1>1. IInv => CreditConserved
  BY Zenon DEF IInv, CreditInv
<1> QED
  BY <1>1, Invariant, PTL

(***************************************************************************)
(* post_stream returns Ok only when the server ended the stream and every  *)
(* byte of the body was handed on.                                         *)
(***************************************************************************)
THEOREM EndsCompleteHolds == Spec => []EndsComplete
<1>1. IInv => EndsComplete
  <2> SUFFICES ASSUME IInv, outcome = "Ok"
               PROVE  /\ \E k \in 1 .. Len(frames) : Ends(frames[k])
                      /\ Len(body) = Cardinality(OwnData(Len(stream)))
    BY Zenon DEF EndsComplete
  <2>1. StreamInv /\ ReaderInv /\ EndSeen /\ BodyInv
    BY Zenon DEF IInv
  <2>2. PICK k \in 1 .. Len(frames) :
          Ends(frames[k]) /\ \A b \in fed + 1 .. Len(stream) : stream[b].frame > k
    BY <2>1, Zenon DEF EndSeen
  <2>3. Len(stream) \in Nat /\ fed \in Nat /\ fed <= Len(stream)
    BY <2>1 DEF StreamInv, StreamType, ReaderInv, ReaderType
  <2>4. ASSUME NEW b \in fed + 1 .. Len(stream) PROVE ~frames[stream[b].frame].own
    <3>1. b \in 1 .. Len(stream)
      BY <2>3
    <3>2. stream[b].frame \in 1 .. Len(frames)
      BY <2>1, <3>1, Zenon DEF StreamInv, StreamPlaces
    <3>3. k < stream[b].frame
      BY <2>2, <3>2
    <3> QED
      BY <2>1, <2>2, <3>2, <3>3, Zenon DEF StreamInv, OwnEnds
  <2>5. OwnData(Len(stream)) = OwnData(fed)
    <3>1. \A b : b \in 1 .. Len(stream) <=> b \in 1 .. fed \/ b \in fed + 1 .. Len(stream)
      BY <2>3
    <3> QED
      BY <2>4, <3>1, Zenon DEF OwnData
  <2>6. Cardinality(OwnData(fed)) = Len(body)
    BY <2>1, ListsCardinality, Zenon DEF BodyInv, BodyExact
  <2> QED
    BY <2>2, <2>5, <2>6, Zenon
<1> QED
  BY <1>1, Invariant, PTL

(***************************************************************************)
(* Between rounds every SETTINGS and PING the reader produced has been     *)
(* acknowledged once and in order, while no round overflowed acks          *)
(* (handle_control, on the firmware after the round and on the host at     *)
(* once).                                                                  *)
(***************************************************************************)
THEOREM PingsAnsweredHolds == Spec => []PingsAnswered
<1>1. IInv => PingsAnswered
  <2> SUFFICES ASSUME IInv, missed = 0, ~round, outcome = "reading"
               PROVE  Lists(answered, {k \in Noticed : Answers(k)})
    BY Zenon DEF PingsAnswered, Noticed
  <2>1. acks = <<>> /\ Acknowledged
    BY Zenon DEF IInv, AcksInv
  <2>2. Noticed \ Range(acks) = Noticed
    BY <2>1, EmptySequence, Zenon
  <2> QED
    BY <2>1, <2>2, Zenon DEF Acknowledged
<1> QED
  BY <1>1, Invariant, PTL
=============================================================================
