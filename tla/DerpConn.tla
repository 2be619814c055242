------------------------------ MODULE DerpConn ------------------------------
(***************************************************************************)
(* A relay connection of either program: the incremental frame reader      *)
(* (tailscale-core/src/derp/frame.rs), the login, and the loop that reads, *)
(* assembles and acts on frames (lando-fw/src/derp.rs,                     *)
(* lando-host/src/derp.rs).                                                *)
(*                                                                         *)
(* Both use the same reader.  The firmware races its read against the      *)
(* channel DERP_OUT and keeps what it assembled outside the race; the host *)
(* reads with a timeout that it reports as a tick, and assembles in a      *)
(* local of the call.  As in H2Conn a byte is its position in the relay's  *)
(* stream, which TLS cuts anywhere.                                        *)
(***************************************************************************)
EXTENDS Integers, Sequences, FiniteSets, FiniteSetsExt

CONSTANTS
    HEADER_LEN,         \* 5 in the source
    CONTROL_FRAME_MAX,  \* largest payload the reader keeps, 512
    MAX_FRAME_LEN,      \* largest frame accepted, 64 KiB
    ASSEMBLED,          \* the firmware's assembly buffer, 1600
    KEY_LEN,            \* 32
    OUT_SLOTS,          \* capacity of DERP_OUT
    Frames,             \* the frames the relay may send
    MAX_FRAMES,         \* bound: frames the relay sends
    MAX_QUEUED          \* bound: packets the node queues

ControlKinds == {"ServerKey", "ServerInfo", "KeepAlive", "Ping"}
BodyKinds == {"RecvPacket", "Unknown"}

ASSUME DerpAssumption ==
    /\ HEADER_LEN \in Nat \ {0} /\ CONTROL_FRAME_MAX \in Nat \ {0} /\ MAX_FRAME_LEN \in Nat
    /\ ASSEMBLED \in Nat /\ ASSEMBLED >= CONTROL_FRAME_MAX /\ KEY_LEN \in Nat
    /\ OUT_SLOTS \in Nat /\ MAX_FRAMES \in Nat /\ MAX_QUEUED \in Nat
    /\ Frames \subseteq [kind : ControlKinds \cup BodyKinds, length : Nat]

VARIABLES
    program,      \* which of the two this is: "fw" or "host"
    frames,       \* every frame the relay sent
    stream,       \* the frame each byte sent belongs to, and its place there
    read,         \* how many bytes were read from TLS
    fed,          \* how many of them were fed to the reader
    reader,       \* the FrameReader
    assembled,    \* what is gathered of a streamed payload
    frame,        \* the frame in hand, when at = "handle"
    at,           \* where the loop is
    phase,        \* how far the login is, "relaying", or "failed"
    peer_known,   \* the firmware has a peer_key
    out,          \* packets in DERP_OUT
    queued,       \* history: packets put there
    bypass,       \* history: frames handled while the oldest of them waited
    seen,         \* history: every frame the loop was given
    torn          \* history: a tick dropped what was assembled

relayVars == <<frames, stream>>
readerVars == <<fed, reader, assembled, frame, seen, torn>>
loopVars == <<read, at, phase, peer_known>>
outVars == <<out, queued, bypass>>
vars == <<program, relayVars, readerVars, loopVars, outVars>>

NewReader ==
    [state |-> "Header", header |-> <<>>, current |-> 0, remaining |-> 0, control |-> <<>>]

\* TLS is up and the HTTP upgrade was accepted.
Init ==
    /\ program \in {"fw", "host"}
    /\ frames = <<>> /\ stream = <<>> /\ read = 0 /\ fed = 0
    /\ reader = NewReader
    /\ assembled = <<>> /\ frame = [frame |-> 0, payload |-> <<>>]
    /\ at = "parse" /\ phase = "key" /\ peer_known = FALSE
    /\ out = 0 /\ queued = 0 /\ bypass = 0 /\ seen = <<>> /\ torn = FALSE

-----------------------------------------------------------------------------
(* The relay, external, and the node, which queues packets for it.         *)

Sent(kind) == \E k \in 1 .. Len(frames) : frames[k].kind = kind

\* It sends its key once, its information once after that, and packets only then.
RelaySend(f) ==
    /\ phase # "failed" /\ Len(frames) < MAX_FRAMES
    /\ f.kind = "ServerKey" => ~Sent("ServerKey")
    /\ f.kind = "ServerInfo" => Sent("ServerKey") /\ ~Sent("ServerInfo")
    /\ f.kind = "RecvPacket" => Sent("ServerInfo")
    /\ frames' = Append(frames, f)
    /\ stream' = stream \o [j \in 1 .. HEADER_LEN + f.length |->
                               [frame |-> Len(frames) + 1, at |-> j]]
    /\ UNCHANGED <<program, readerVars, loopVars, outVars>>

\* A full channel refuses the packet.
Enqueue ==
    /\ program = "fw" /\ queued < MAX_QUEUED
    /\ queued' = queued + 1
    /\ out' = Min({out + 1, OUT_SLOTS})
    /\ UNCHANGED <<program, relayVars, readerVars, loopVars, bypass>>

-----------------------------------------------------------------------------
(* The reader: one action for one turn of the loop in `feed`.              *)

Chunk(n) == [i \in 1 .. n |-> fed + i]

Feeds(state, n) ==
    /\ at = "parse" /\ fed < read
    /\ reader.state = state
    /\ fed' = fed + n
    /\ UNCHANGED <<program, relayVars, read, peer_known, outVars, torn>>

\* The loop has a whole frame, and stops parsing to act on it.
Emit(k, payload) ==
    /\ frame' = [frame |-> k, payload |-> payload]
    /\ seen' = Append(seen, [frame |-> k, payload |-> payload])
    /\ at' = "handle"

Continue == UNCHANGED <<frame, seen, at, phase>>

is_control(kind) == kind \in ControlKinds

\* Where the reader goes when a header is whole.
AfterHeader(f) ==
    IF f.length = 0 THEN "Header" ELSE IF is_control(f.kind) THEN "Buffering" ELSE "Streaming"

\* An over-long frame is refused; an empty one is a control frame of any kind.
FeedHeader ==
    LET take == Min({HEADER_LEN - Len(reader.header), read - fed})
        header == reader.header \o Chunk(take)
        k == stream[Head(header)].frame
    IN  /\ Feeds("Header", take)
        /\ UNCHANGED assembled
        /\ \/ /\ Len(header) < HEADER_LEN
              /\ reader' = [reader EXCEPT !.header = header]
              /\ Continue
           \/ /\ Len(header) = HEADER_LEN
              /\ frames[k].length > MAX_FRAME_LEN
              /\ reader' = [reader EXCEPT !.header = <<>>]
              /\ phase' = "failed"
              /\ UNCHANGED <<frame, seen, at>>
           \/ /\ Len(header) = HEADER_LEN
              /\ frames[k].length <= MAX_FRAME_LEN
              /\ reader' = [reader EXCEPT !.header = <<>>, !.current = k, !.control = <<>>,
                               !.remaining = frames[k].length,
                               !.state = AfterHeader(frames[k])]
              /\ IF AfterHeader(frames[k]) = "Header"
                 THEN Emit(k, <<>>) /\ UNCHANGED phase
                 ELSE Continue

FeedBuffering ==
    LET take == Min({reader.remaining, read - fed, CONTROL_FRAME_MAX - Len(reader.control)})
        control == reader.control \o Chunk(take)
    IN  /\ Feeds("Buffering", take)
        /\ reader' = [reader EXCEPT !.control = control, !.remaining = @ - take,
                         !.state = IF reader.remaining = take THEN "Header"
                                   ELSE IF Len(control) = CONTROL_FRAME_MAX THEN "Draining"
                                   ELSE "Buffering"]
        /\ IF reader.remaining = take
           THEN Emit(reader.current, control) /\ UNCHANGED phase
           ELSE Continue
        /\ UNCHANGED assembled

FeedDraining ==
    LET take == Min({reader.remaining, read - fed})
    IN  /\ Feeds("Draining", take)
        /\ reader' = [reader EXCEPT !.remaining = @ - take,
                         !.state = IF reader.remaining = take THEN "Header" ELSE "Draining"]
        /\ IF reader.remaining = take
           THEN Emit(reader.current, reader.control) /\ UNCHANGED phase
           ELSE Continue
        /\ UNCHANGED assembled

\* What the loop has gathered after one more chunk: the firmware's buffer is
\* bounded, the host's grows.  (The firmware's login has a smaller one of its own,
\* for frames it skips.)
Gathered(chunk) ==
    IF program = "host" THEN assembled \o chunk
    ELSE assembled \o SubSeq(chunk, 1, Min({Len(chunk), ASSEMBLED - Len(assembled)}))

FeedStreaming ==
    LET take == Min({reader.remaining, read - fed})
        payload == Gathered(Chunk(take))
    IN  /\ Feeds("Streaming", take)
        /\ reader' = [reader EXCEPT !.remaining = @ - take,
                         !.state = IF reader.remaining = take THEN "Header" ELSE "Streaming"]
        /\ IF reader.remaining = take
           THEN Emit(reader.current, payload) /\ assembled' = <<>> /\ UNCHANGED phase
           ELSE Continue /\ assembled' = payload

-----------------------------------------------------------------------------
(* The loop.                                                               *)

\* Mutant: nothing is sent before the frames at hand are parsed.
DrainOutbound_Skip ==
    /\ at = "drain" /\ phase # "failed"
    /\ at' = "parse"
    /\ UNCHANGED <<program, relayVars, readerVars, read, phase, peer_known, outVars>>

\* The firmware sends all that is queued before it parses on, once it knows a
\* peer to send to.
DrainOutbound ==
    /\ at = "drain" /\ phase # "failed"
    /\ at' = "parse"
    /\ IF phase = "relaying" /\ peer_known
       THEN out' = 0 /\ bypass' = 0 /\ UNCHANGED queued
       ELSE UNCHANGED outVars
    /\ UNCHANGED <<program, relayVars, readerVars, read, phase, peer_known>>

Next_turn == IF program = "fw" THEN "drain" ELSE "parse"

ParsedAll ==
    /\ at = "parse" /\ fed = read
    /\ at' = "wait"
    /\ UNCHANGED <<program, relayVars, readerVars, read, phase, peer_known, outVars>>

Waits == at = "wait" /\ phase # "failed" /\ UNCHANGED <<program, relayVars>>

Read(n) ==
    /\ Waits
    /\ read + n <= Len(stream)
    /\ read' = read + n
    /\ at' = Next_turn
    /\ UNCHANGED <<readerVars, phase, peer_known, outVars>>

\* Mutant: what was assembled lives in the future that is cancelled.
SendQueued_Forgets ==
    /\ Waits
    /\ program = "fw" /\ phase = "relaying" /\ out > 0
    /\ out' = out - 1
    /\ bypass' = 0
    /\ at' = Next_turn
    /\ assembled' = <<>>
    /\ UNCHANGED <<fed, reader, frame, seen, torn, read, phase, peer_known, queued>>

\* The firmware's race is won by the channel, and the read is cancelled.  With no
\* peer to send to, the packet is dropped.
SendQueued ==
    /\ Waits
    /\ program = "fw" /\ phase = "relaying" /\ out > 0
    /\ out' = out - 1
    /\ bypass' = 0
    /\ at' = Next_turn
    /\ UNCHANGED <<readerVars, read, phase, peer_known, queued>>

\* The host's read times out: the call returns a tick, and the next one starts
\* with nothing assembled.  In the login the timeout is longer than the deadline, so
\* it is a failure.
Tick ==
    /\ Waits
    /\ program = "host" /\ phase = "relaying"
    /\ assembled' = <<>>
    /\ torn' = (torn \/ assembled # <<>>)
    /\ UNCHANGED <<fed, reader, frame, seen, read, at, phase, peer_known, outVars>>

\* The relay closes the connection, or a read fails, or a write of the drain or of
\* the handling, or the login.
ConnectionLost ==
    /\ at \in {"drain", "handle", "wait"} /\ phase # "failed"
    /\ phase' = "failed"
    /\ UNCHANGED <<program, relayVars, readerVars, read, at, peer_known, outVars>>

Kind == frames[frame.frame].kind

\* The frame is acted on: `to` is the phase it leads to.
Handles(to) ==
    /\ at = "handle" /\ phase # "failed"
    /\ phase' = to
    /\ at' = Next_turn
    /\ bypass' = IF phase = "relaying" /\ peer_known /\ out > 0 THEN bypass + 1 ELSE 0
    /\ UNCHANGED <<program, relayVars, readerVars, read, out, queued>>

Awaited == IF phase = "key" THEN "ServerKey" ELSE "ServerInfo"

\* The frame awaited moves the login on, unless it does not parse or open; the
\* firmware skips any other, the host gives up.
HandleLogin ==
    /\ at = "handle" /\ phase \in {"key", "info"}
    /\ \/ /\ Kind = Awaited
          /\ \E ok \in BOOLEAN :
                Handles(IF ~ok THEN "failed" ELSE IF phase = "key" THEN "info" ELSE "relaying")
       \/ /\ Kind # Awaited
          /\ Handles(IF program = "host" THEN "failed" ELSE phase)
    /\ UNCHANGED peer_known

\* A packet names its sender.  A ping is answered, by the firmware only, and the
\* rest at most logged: neither changes any state, unless the write fails.
HandleRelayed ==
    /\ phase = "relaying"
    /\ Handles("relaying")
    /\ peer_known' = (peer_known \/ (Kind = "RecvPacket" /\ Len(frame.payload) > KEY_LEN))

-----------------------------------------------------------------------------

Feed == phase # "failed" /\ (FeedHeader \/ FeedBuffering \/ FeedDraining \/ FeedStreaming)
Handle == HandleLogin \/ HandleRelayed

Next ==
    \/ Feed \/ ParsedAll \/ DrainOutbound \/ Handle
    \/ SendQueued \/ Tick \/ ConnectionLost \/ Enqueue
    \/ \E n \in 1 .. Len(stream) - read : Read(n)
    \/ \E f \in Frames : RelaySend(f)

Spec == Init /\ [][Next]_vars

-----------------------------------------------------------------------------
(* Properties.                                                             *)

Frame(b) == frames[stream[b].frame]

\* The bytes fed that end a frame the reader accepts.
Ends ==
    {b \in 1 .. fed : /\ stream[b].at = HEADER_LEN + Frame(b).length
                      /\ Frame(b).length <= MAX_FRAME_LEN}

\* The frame that ends with byte b, with its own payload up to the size of the buffer.
FrameAt(b, buffer) ==
    LET kept == Min({Frame(b).length,
                     IF is_control(Frame(b).kind) THEN CONTROL_FRAME_MAX ELSE buffer})
    IN  [frame |-> stream[b].frame,
         payload |-> [j \in 1 .. kept |-> b - Frame(b).length + j]]

\* The frames given to the loop are those the relay sent, each once and in order.
FramesExact(buffer) ==
    /\ Range(seen) = {FrameAt(b, buffer) : b \in Ends}
    /\ \A i, j \in DOMAIN seen : i < j => seen[i].frame < seen[j].frame

\* "waiting here loses nothing if it is cancelled": the firmware's frames come out
\* exactly, wherever TLS cuts the stream and whenever a packet to send cancels
\* the read, in the middle of a header or a payload too.  So do the host's, of
\* any length, as long as no read times out within a streamed payload: a tick in a
\* header or in a control frame loses nothing.
CancelSafe ==
    /\ program = "fw" => FramesExact(ASSEMBLED)
    /\ program = "host" /\ ~torn => FramesExact(MAX_FRAME_LEN)

\* A steady arrival of frames does not hold back the replies: no more than one
\* frame is handled while a packet that could be sent waits.
RepliesNotStarved == bypass <= 1
=============================================================================
