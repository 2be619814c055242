------------------------------- MODULE H2Conn -------------------------------
(***************************************************************************)
(* One request of an HTTP/2 connection: the incremental frame reader, the  *)
(* acknowledgements it owes and the flow-control credit it returns, on the *)
(* firmware and on the host (tailscale-core/src/h2.rs,                     *)
(* lando-fw/src/h2conn.rs, lando-host/src/transport.rs).                   *)
(*                                                                         *)
(* The server's frames are one stream of bytes, and a byte is represented  *)
(* by its position in it; `stream` says of which frame it is a byte.  The  *)
(* Noise records cut the stream anywhere.  The loop of `post_stream` reads *)
(* some bytes, feeds them all to the reader, then acts on what it found.   *)
(*                                                                         *)
(* The request is the map poll: its body is a sequence of netmaps, each    *)
(* after its length, which MapFrames (tailscale-core/src/control.rs)       *)
(* splits again, and the DATA frames cut it anywhere too.  A byte of the   *)
(* body is represented by its position in the body.                        *)
(***************************************************************************)
EXTENDS Integers, Sequences, FiniteSets, FiniteSetsExt

CONSTANTS
    FRAME_HEADER_LEN,   \* 9 in the source
    CONTROL_FRAME_MAX,  \* largest control payload kept, 128 in the source
    ACKS,               \* control frames one round can note, 4 in the source
    INITIAL_WINDOW,     \* credit of a stream, granted by our SETTINGS
    CONNECTION_WINDOW,  \* credit of the connection, fixed by HTTP/2
    MAP_LEN,            \* bytes of a netmap's length, 4 in the source
    NETMAP_MAX,         \* the firmware's netmap buffer, 8192 in the source
    MapStarts,          \* where the netmaps start in the body, and where the body ends
    Frames,             \* the frames the server may send
    MAX_FRAMES          \* bound: frames the server sends

ControlKinds == {"SETTINGS", "PING", "WINDOW_UPDATE", "GOAWAY", "RST_STREAM"}

\* `flag` is bit 0: END_STREAM of a body frame, ACK of a control frame.  `own`
\* says that the frame is of the stream of this request.
FrameHeaders ==
    [kind : {"DATA", "HEADERS"} \cup ControlKinds, length : Nat, flag : BOOLEAN, own : BOOLEAN]

ASSUME H2Assumption ==
    /\ FRAME_HEADER_LEN \in Nat \ {0} /\ CONTROL_FRAME_MAX \in Nat \ {0} /\ ACKS \in Nat
    /\ INITIAL_WINDOW \in Nat /\ CONNECTION_WINDOW \in Nat
    /\ MAP_LEN \in Nat \ {0} /\ NETMAP_MAX \in Nat
    /\ Frames \subseteq FrameHeaders /\ MAX_FRAMES \in Nat

\* The netmaps follow each other, each with its length before it.
ASSUME MapAssumption ==
    /\ MapStarts \in Seq(Nat) /\ MapStarts # <<>> /\ MapStarts[1] = 0
    /\ \A j, k \in DOMAIN MapStarts : j < k => MapStarts[j] + MAP_LEN <= MapStarts[k]

VARIABLES
    host,         \* whether this is the host's connection
    frames,       \* every frame the server sent
    stream,       \* the frame each byte sent belongs to, and its place there
    connWindow,   \* external: what the server may still send, connection
    streamWindow, \* external: and stream
    credit,       \* WINDOW_UPDATEs on their way to the server
    read,         \* how many bytes were read from the records
    fed,          \* how many of them were fed to the reader
    reader,       \* the FrameReader
    round,        \* a round of the loop is under way
    acks,         \* the control frames it noted
    done,         \* it saw the end of the stream
    outcome,      \* what post_stream returned, or "reading"
    data,         \* what on_data still has to look at of its chunk
    splitter,     \* the MapFrames
    current,      \* the host: the netmap being assembled
    netmap,       \* the firmware: what it keeps of the first netmap
    netmaps,      \* history: the netmaps that were complete
    body,         \* history: the bytes handed to on_data
    controls,     \* history: the control frames the reader produced
    answered,     \* history: the frames acknowledged
    missed        \* history: control frames that did not fit in acks

serverVars == <<host, frames, stream, connWindow, streamWindow>>
roundVars == <<round, read, credit>>
itemVars == <<acks, done, body, data, controls, missed, answered, outcome>>
mapVars == <<splitter, current, netmap, netmaps>>
vars == <<serverVars, roundVars, fed, reader, itemVars, mapVars>>

is_control(kind) == kind \in ControlKinds

Init ==
    /\ host \in BOOLEAN
    /\ frames = <<>> /\ stream = <<>>
    /\ connWindow = CONNECTION_WINDOW /\ streamWindow = INITIAL_WINDOW
    /\ credit = [connection |-> 0, stream |-> 0]
    /\ read = 0 /\ fed = 0
    /\ reader = [state |-> "Header", header |-> <<>>, current |-> 0, remaining |-> 0,
                 control |-> <<>>, pending_window |-> 0]
    /\ round = FALSE /\ acks = <<>> /\ done = FALSE /\ outcome = "reading"
    /\ body = <<>> /\ controls = <<>> /\ answered = <<>> /\ missed = 0
    /\ data = <<>> /\ splitter = [len_buf |-> <<>>, remaining |-> 0]
    /\ current = <<>> /\ netmap = <<>> /\ netmaps = <<>>

-----------------------------------------------------------------------------
(* The server, external: it keeps to its windows and to its END_STREAM.    *)

\* The netmaps in the body, and the length of the k-th, 0 for a keep-alive.
Maps == 1 .. Len(MapStarts) - 1
MapLength(k) == MapStarts[k + 1] - MapStarts[k] - MAP_LEN

\* The positions of this request's body in the first n bytes of the stream.
OwnData(n) ==
    {b \in 1 .. n : /\ stream[b].at > FRAME_HEADER_LEN
                    /\ frames[stream[b].frame].kind = "DATA" /\ frames[stream[b].frame].own}

Ends(f) == f.kind \in {"DATA", "HEADERS"} /\ f.own /\ f.flag

ServerSend(f) ==
    /\ Len(frames) < MAX_FRAMES
    /\ f.own => \A k \in 1 .. Len(frames) : ~Ends(frames[k])
    /\ f.kind = "DATA" =>
          /\ f.length <= connWindow
          /\ f.own => /\ f.length <= streamWindow
                      /\ Cardinality(OwnData(Len(stream))) + f.length
                            <= MapStarts[Len(MapStarts)]
    /\ frames' = Append(frames, f)
    /\ stream' = stream \o [j \in 1 .. FRAME_HEADER_LEN + f.length |->
                               [frame |-> Len(frames) + 1, at |-> j]]
    /\ connWindow' = IF f.kind = "DATA" THEN connWindow - f.length ELSE connWindow
    /\ streamWindow' = IF f.kind = "DATA" /\ f.own THEN streamWindow - f.length ELSE streamWindow
    /\ UNCHANGED <<host, roundVars, fed, reader, itemVars, mapVars>>

ServerCredit ==
    /\ credit.connection + credit.stream > 0
    /\ connWindow' = connWindow + credit.connection
    /\ streamWindow' = streamWindow + credit.stream
    /\ credit' = [connection |-> 0, stream |-> 0]
    /\ UNCHANGED <<host, frames, stream, round, read, fed, reader, itemVars, mapVars>>

-----------------------------------------------------------------------------
(* The frame reader: one action for one turn of the loop in `feed`.        *)

\* The next n bytes of the round's input.
Chunk(n) == [i \in 1 .. n |-> fed + i]

\* The turn uses n of the bytes available.
Feeds(state, n) ==
    /\ round /\ outcome = "reading" /\ fed < read /\ data = <<>>
    /\ reader.state = state
    /\ fed' = fed + n
    /\ UNCHANGED <<serverVars, roundVars, mapVars>>

Closes(k) == frames[k].kind \in {"GOAWAY", "RST_STREAM"}
Answers(k) == frames[k].kind \in {"SETTINGS", "PING"} /\ ~frames[k].flag

\* The firmware notes a control frame for the end of the round, if there is room.
NoteControl(k) ==
    /\ acks' = IF Len(acks) < ACKS THEN Append(acks, k) ELSE acks
    /\ missed' = IF Len(acks) < ACKS THEN missed ELSE missed + 1
    /\ UNCHANGED <<answered, outcome>>

\* SETTINGS and PING are acknowledged, GOAWAY and RST_STREAM end the request.
handle_control(k) ==
    /\ answered' = IF Answers(k) THEN Append(answered, k) ELSE answered
    /\ outcome' = IF Closes(k) THEN "Server" ELSE outcome

\* An Item::Control: the host handles it at once, the firmware later.
EmitControl(k, payload) ==
    /\ controls' = Append(controls, [frame |-> k, payload |-> payload])
    /\ IF host THEN handle_control(k) /\ UNCHANGED <<acks, missed>> ELSE NoteControl(k)
    /\ UNCHANGED <<done, body, data>>

\* Mutant: END_STREAM, which every chunk of the frame shows, ends the stream.
EmitBody_AnyChunk(k, chunk, end) ==
    /\ \/ /\ frames[k].kind = "DATA" /\ frames[k].own
          /\ body' = body \o chunk
          /\ data' = [i \in 1 .. Len(chunk) |-> Len(body) + i]
       \/ /\ ~(frames[k].kind = "DATA" /\ frames[k].own)
          /\ UNCHANGED <<body, data>>
    /\ done' = (done \/ Ends(frames[k]))
    /\ UNCHANGED <<acks, controls, missed, answered, outcome>>

\* An Item::Body: our DATA goes to on_data, our END_STREAM ends the request.
EmitBody(k, chunk, end) ==
    /\ \/ /\ frames[k].kind = "DATA" /\ frames[k].own
          /\ body' = body \o chunk
          /\ data' = [i \in 1 .. Len(chunk) |-> Len(body) + i]
       \/ /\ ~(frames[k].kind = "DATA" /\ frames[k].own)
          /\ UNCHANGED <<body, data>>
    /\ done' = (done \/ (end /\ Ends(frames[k])))
    /\ UNCHANGED <<acks, controls, missed, answered, outcome>>

\* Mutant: the control buffer keeps what the frame before left in it.
FeedHeader_KeepControl ==
    LET take == Min({FRAME_HEADER_LEN - Len(reader.header), read - fed})
        header == reader.header \o Chunk(take)
        k == stream[Head(header)].frame
    IN  /\ Feeds("Header", take)
        /\ \/ /\ Len(header) < FRAME_HEADER_LEN
              /\ reader' = [reader EXCEPT !.header = header]
              /\ UNCHANGED itemVars
           \/ /\ Len(header) = FRAME_HEADER_LEN
              /\ reader' = [reader EXCEPT !.header = <<>>, !.current = k,
                               !.remaining = frames[k].length,
                               !.state = IF frames[k].length = 0 THEN "Header"
                                         ELSE IF is_control(frames[k].kind) THEN "Buffering"
                                         ELSE "Streaming"]
              /\ IF frames[k].length > 0 THEN UNCHANGED itemVars
                 ELSE IF is_control(frames[k].kind) THEN EmitControl(k, reader.control)
                 ELSE EmitBody(k, <<>>, TRUE)

\* The header is gathered byte by byte; once whole it says how to go on, and a
\* frame with no payload is complete.
FeedHeader ==
    LET take == Min({FRAME_HEADER_LEN - Len(reader.header), read - fed})
        header == reader.header \o Chunk(take)
        k == stream[Head(header)].frame
    IN  /\ Feeds("Header", take)
        /\ \/ /\ Len(header) < FRAME_HEADER_LEN
              /\ reader' = [reader EXCEPT !.header = header]
              /\ UNCHANGED itemVars
           \/ /\ Len(header) = FRAME_HEADER_LEN
              /\ reader' = [reader EXCEPT !.header = <<>>, !.current = k, !.control = <<>>,
                               !.remaining = frames[k].length,
                               !.state = IF frames[k].length = 0 THEN "Header"
                                         ELSE IF is_control(frames[k].kind) THEN "Buffering"
                                         ELSE "Streaming"]
              /\ IF frames[k].length > 0 THEN UNCHANGED itemVars
                 ELSE IF is_control(frames[k].kind) THEN EmitControl(k, <<>>)
                 ELSE EmitBody(k, <<>>, TRUE)

\* A control payload is kept up to CONTROL_FRAME_MAX, and the rest drained.
FeedBuffering ==
    LET take == Min({reader.remaining, read - fed, CONTROL_FRAME_MAX - Len(reader.control)})
        control == reader.control \o Chunk(take)
    IN  /\ Feeds("Buffering", take)
        /\ reader' = [reader EXCEPT !.control = control, !.remaining = @ - take,
                         !.state = IF reader.remaining = take THEN "Header"
                                   ELSE IF Len(control) = CONTROL_FRAME_MAX THEN "Draining"
                                   ELSE "Buffering"]
        /\ IF reader.remaining = take THEN EmitControl(reader.current, control)
           ELSE UNCHANGED itemVars

FeedDraining ==
    LET take == Min({reader.remaining, read - fed})
    IN  /\ Feeds("Draining", take)
        /\ reader' = [reader EXCEPT !.remaining = @ - take,
                         !.state = IF reader.remaining = take THEN "Header" ELSE "Draining"]
        /\ IF reader.remaining = take THEN EmitControl(reader.current, reader.control)
           ELSE UNCHANGED itemVars

\* Mutant: the chunk is all the input, not all that is left of the frame.
FeedStreaming_TakeAll ==
    LET take == read - fed
    IN  /\ Feeds("Streaming", take)
        /\ reader' = [reader EXCEPT !.remaining = Max({@ - take, 0}),
                         !.state = IF reader.remaining <= take THEN "Header" ELSE "Streaming",
                         !.pending_window = IF frames[reader.current].kind = "DATA" THEN @ + take ELSE @]
        /\ EmitBody(reader.current, Chunk(take), reader.remaining <= take)

\* Mutant: only this request's DATA is counted.
FeedStreaming_OwnOnly ==
    LET take == Min({reader.remaining, read - fed})
    IN  /\ Feeds("Streaming", take)
        /\ reader' = [reader EXCEPT !.remaining = @ - take,
                         !.state = IF reader.remaining = take THEN "Header" ELSE "Streaming",
                         !.pending_window = IF frames[reader.current].kind = "DATA"
                                               /\ frames[reader.current].own
                                            THEN @ + take ELSE @]
        /\ EmitBody(reader.current, Chunk(take), reader.remaining = take)

\* Any other payload goes through in chunks; DATA counts against the windows.
FeedStreaming ==
    LET take == Min({reader.remaining, read - fed})
    IN  /\ Feeds("Streaming", take)
        /\ reader' = [reader EXCEPT !.remaining = @ - take,
                         !.state = IF reader.remaining = take THEN "Header" ELSE "Streaming",
                         !.pending_window = IF frames[reader.current].kind = "DATA"
                                            THEN @ + take ELSE @]
        /\ EmitBody(reader.current, Chunk(take), reader.remaining = take)

-----------------------------------------------------------------------------
(* The netmaps in the body: one action for one turn of on_data's loop,     *)
(* with its call of MapFrames::feed.                                       *)

\* u32::from_le_bytes: the length of the netmap the bytes are of.
from_le_bytes(len_buf) ==
    MapLength(Max({k \in Maps : MapStarts[k] < Head(len_buf)}))

\* Mutant: the start of the length that an earlier chunk brought is forgotten.
LenBuf_Restart(pos) == SubSeq(data, 1, pos)

\* The bytes of the length there are, with the next pos of this chunk.
LenBuf(pos) == splitter.len_buf \o SubSeq(data, 1, pos)

\* on_data is shown a part of a netmap: the host assembles it, the firmware
\* keeps what fits of the first one and counts.
OnMapFrame(chunk, end) ==
    /\ current' = IF end THEN <<>> ELSE current \o chunk
    /\ netmap' = IF netmaps = <<>>
                 THEN netmap \o SubSeq(chunk, 1, Min({NETMAP_MAX - Len(netmap), Len(chunk)}))
                 ELSE netmap
    /\ netmaps' = IF end THEN Append(netmaps, current \o chunk) ELSE netmaps

\* A length, or what there is of one, then what there is of the netmap; a length
\* of zero is a keep-alive and complete.
MapFeed ==
    /\ data # <<>>
    /\ LET pos == IF splitter.remaining > 0 THEN 0
                  ELSE Min({MAP_LEN - Len(splitter.len_buf), Len(data)})
           len_buf == IF splitter.remaining > 0 THEN <<>> ELSE LenBuf(pos)
           remaining == IF Len(len_buf) = MAP_LEN THEN from_le_bytes(len_buf)
                        ELSE splitter.remaining
           take == Min({remaining, Len(data) - pos})
       IN  /\ splitter' = [len_buf |-> IF Len(len_buf) = MAP_LEN THEN <<>> ELSE len_buf,
                           remaining |-> remaining - take]
           /\ data' = SubSeq(data, pos + take + 1, Len(data))
           /\ OnMapFrame(SubSeq(data, pos + 1, pos + take), take > 0 /\ take = remaining)
    /\ UNCHANGED <<serverVars, roundVars, fed, reader, acks, done, body, controls, missed,
                   answered, outcome>>

-----------------------------------------------------------------------------
(* The loop of post_stream, and of the host's read_until_end_of.           *)

\* The next record arrives, whole or in part of a frame.
Pump(n) ==
    /\ ~round /\ outcome = "reading"
    /\ read + n <= Len(stream)
    /\ read' = read + n
    /\ round' = TRUE /\ acks' = <<>> /\ done' = FALSE
    /\ UNCHANGED <<serverVars, outcome, answered, credit, fed, reader, body, data, controls, missed, mapVars>>

\* The input of the round is used up.
InputUsed == round /\ fed = read /\ data = <<>> /\ outcome = "reading"

\* Mutant: only the first frame noted is handled.
HandleNoted_First ==
    /\ InputUsed /\ acks # <<>>
    /\ handle_control(Head(acks))
    /\ acks' = <<>>
    /\ UNCHANGED <<serverVars, roundVars, fed, reader, done, body, data, controls, missed, mapVars>>

\* The frames noted are handled one after the other; one that closes the
\* connection ends the request before the others.
HandleNoted ==
    /\ InputUsed /\ acks # <<>>
    /\ handle_control(Head(acks))
    /\ acks' = Tail(acks)
    /\ UNCHANGED <<serverVars, roundVars, fed, reader, done, body, data, controls, missed, mapVars>>

\* When all are handled the credit is returned, to the connection.
EndRound ==
    /\ InputUsed /\ acks = <<>>
    /\ round' = FALSE
    /\ credit' = [credit EXCEPT !.connection = @ + reader.pending_window]
    /\ reader' = [reader EXCEPT !.pending_window = 0]
    /\ outcome' = IF done THEN "Ok" ELSE "reading"
    /\ UNCHANGED <<serverVars, read, fed, acks, done, body, data, controls, missed, answered,
                   mapVars>>

-----------------------------------------------------------------------------

Feed == FeedHeader \/ FeedBuffering \/ FeedDraining \/ FeedStreaming

Client == Feed \/ MapFeed \/ HandleNoted \/ EndRound \/ \E n \in 1 .. Len(stream) - read : Pump(n)

Next ==
    \/ Client
    \/ ServerCredit
    \/ \E f \in Frames : ServerSend(f)

\* The device polls the connection again and again, and what is sent arrives.
Fairness == WF_vars(Client) /\ WF_vars(ServerCredit)

Spec == Init /\ [][Next]_vars /\ Fairness

-----------------------------------------------------------------------------

Frame(b) == frames[stream[b].frame]
InPayload(b) == stream[b].at > FRAME_HEADER_LEN

\* The sequence s lists the set of numbers S, each once and in order.
Lists(s, S) ==
    /\ Range(s) = S
    /\ \A i, j \in DOMAIN s : i < j => s[i] < s[j]

\* However the records cut the stream, on_data receives exactly the payload of
\* this request's DATA frames among the bytes fed, each byte once and in order.
BodyExact == Lists(body, OwnData(fed))

\* The last bytes of control frames among the bytes fed.
ControlEnds ==
    {b \in 1 .. fed : /\ stream[b].at = FRAME_HEADER_LEN + Frame(b).length
                      /\ is_control(Frame(b).kind)}

\* The control frame that ends with byte b, with the start of its own payload.
ControlAt(b) ==
    [frame |-> stream[b].frame,
     payload |-> [j \in 1 .. Min({Frame(b).length, CONTROL_FRAME_MAX}) |-> b - Frame(b).length + j]]

\* The reader produces each control frame once its last byte is fed, in order,
\* with the start of its own payload, whatever was read before it.
ControlsExact ==
    /\ Range(controls) = {ControlAt(b) : b \in ControlEnds}
    /\ \A i, j \in DOMAIN controls : i < j => controls[i].frame < controls[j].frame

\* The netmaps of the body that on_data has seen whole, keep-alives left out.
WholeMaps == {k \in Maps : MapLength(k) > 0 /\ MapStarts[k + 1] <= Len(body) - Len(data)}

MapBytes(k) == [i \in 1 .. MapLength(k) |-> MapStarts[k] + MAP_LEN + i]

\* However the frames and the records cut the body, and with keep-alives between
\* the netmaps, each netmap that was fed whole was assembled from exactly its own
\* bytes, in order, and the firmware reported the start of the first one.
NetmapsExact ==
    /\ Range(netmaps) = {MapBytes(k) : k \in WholeMaps}
    /\ \A i, j \in DOMAIN netmaps : i < j => netmaps[i][1] < netmaps[j][1]
    /\ netmaps # <<>> => netmap = SubSeq(netmaps[1], 1, Min({NETMAP_MAX, Len(netmaps[1])}))

\* DATA bytes sent and not yet fed to the reader.
InFlight ==
    Cardinality({b \in fed + 1 .. Len(stream) : InPayload(b) /\ Frame(b).kind = "DATA"})

\* The connection's credit is conserved: what the server may send, what is on
\* the way to us, what we owe and what we returned always add up, on whichever
\* stream the DATA came and wherever a round was cut.
CreditConserved ==
    connWindow + InFlight + reader.pending_window + credit.connection = CONNECTION_WINDOW

\* post_stream returns Ok only when the server has ended the stream and every
\* byte of it was handed on: END_STREAM shows on every chunk of the last frame.
EndsComplete ==
    outcome = "Ok" =>
        /\ \E k \in 1 .. Len(frames) : Ends(frames[k])
        /\ Len(body) = Cardinality(OwnData(Len(stream)))

\* Between rounds every SETTINGS and PING the reader produced has been
\* acknowledged once and in order, as long as no round had more control frames
\* than `acks` holds.
PingsAnswered ==
    missed = 0 /\ ~round /\ outcome = "reading" =>
        Lists(answered, {k \in {c.frame : c \in Range(controls)} : Answers(k)})

\* Consumed credit is returned so that the server keeps sending: a window the
\* server used up opens again while the request goes on.
CreditReturned ==
    (outcome = "reading" /\ (connWindow = 0 \/ streamWindow = 0)) ~>
    (outcome # "reading" \/ (connWindow > 0 /\ streamWindow > 0))
=============================================================================
