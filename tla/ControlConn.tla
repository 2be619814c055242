----------------------------- MODULE ControlConn -----------------------------
(***************************************************************************)
(* The ts2021 connection to the control server, of either program: the     *)
(* HTTP upgrade and the Noise response (lando-fw/src/control.rs,           *)
(* NoiseTransport::connect of lando-host/src/transport.rs), the records    *)
(* that follow (tailscale-core/src/noise.rs), the plaintext staged for     *)
(* HTTP/2 (lando-fw/src/h2conn.rs) and the early payload skipped in it.    *)
(*                                                                         *)
(* The server sends a sequence of parts, TCP cuts them anywhere, and a     *)
(* byte is its position in the stream.  What H2Conn reads is `delivered`.  *)
(***************************************************************************)
EXTENDS Integers, Sequences, FiniteSets, FiniteSetsExt

CONSTANTS
    HEADER_LEN,          \* of a Noise frame, 3 in the source
    TAG_LEN,             \* 16
    RESPONSE_LEN,        \* 51
    MAX_CIPHERTEXT_SIZE, \* 4093
    BUF,                 \* the handshake's buffer, of each program: 512, 8192
    Scripts              \* what the server may send: [parts, starts, early]

Kinds == {"Switching", "Refusal", "Response", "Error", "Record"}

\* The firmware's buffers.
MAX_MESSAGE_SIZE == MAX_CIPHERTEXT_SIZE + HEADER_LEN
PENDING == MAX_MESSAGE_SIZE
RAW == 2 * MAX_MESSAGE_SIZE

\* Bytes of a part; of a record `length` counts the plaintext.
CipherLen(p) == IF p.kind = "Record" THEN p.length + TAG_LEN ELSE p.length

PartSize(p) ==
    CASE p.kind \in {"Record", "Error"} -> HEADER_LEN + CipherLen(p)
      [] p.kind = "Response"            -> RESPONSE_LEN
      [] OTHER                          -> p.length

\* The parts in the order of the protocol, one after the other: `starts` says how many
\* bytes stand before each, and before the end.  That they grow follows from the sizes,
\* by induction.
Laid(ps, st) ==
    /\ ps \in Seq([kind : Kinds, length : Nat]) /\ st \in Seq(Nat) /\ Len(st) = Len(ps) + 1
    /\ ps # <<>> /\ ps[1].kind \in {"Switching", "Refusal"} /\ ps[1].length > 0
    /\ \A k \in DOMAIN ps : /\ k = 2 => ps[k].kind \in {"Response", "Error"}
                            /\ k > 2 => ps[k].kind \in {"Record", "Error"}
    /\ st[1] = 0
    /\ \A k \in DOMAIN ps : st[k + 1] = st[k] + PartSize(ps[k])
    /\ \A j, k \in DOMAIN st : j < k => st[j] < st[k]

ASSUME ControlAssumption ==
    /\ HEADER_LEN \in Nat \ {0} /\ TAG_LEN \in Nat \ {0} /\ MAX_CIPHERTEXT_SIZE \in Nat
    /\ RESPONSE_LEN \in Nat /\ RESPONSE_LEN >= HEADER_LEN /\ MAX_CIPHERTEXT_SIZE > TAG_LEN
    /\ BUF \in [{"fw", "host"} -> Nat \ {0}] /\ BUF["fw"] <= RAW
    /\ \A s \in Scripts : Laid(s.parts, s.starts) /\ s.early \in Nat

VARIABLES
    program,   \* which of the two this is: "fw" or "host"
    parts,     \* what the server sends
    starts,    \* and where each of it starts in the stream
    early,     \* bytes of the early payload its plaintext starts with, or 0
    patient,   \* it sends records only once it has our SETTINGS
    read,      \* how many bytes were read from the socket
    started,   \* history: how many of them in the handshake
    stage,     \* "upgrade", "response", "start", "early" or "body"
    at,        \* within "early" and "body": "use", "drain" or "read"
    hello,     \* our preface and SETTINGS were sent
    raw,       \* ciphertext staged; in the handshake, all that was read
    pending,   \* plaintext not yet consumed
    before,    \* the firmware's pump: what was pending when it was called
    rx_nonce,  \* records decrypted
    outcome,   \* "open", or how the connection ended
    delivered  \* history: the plaintext HTTP/2 was given

scriptVars == <<program, parts, starts, early, patient>>
controlVars == <<scriptVars, read, started, stage, at, hello, raw, pending, before, rx_nonce,
          outcome, delivered>>

Total == starts[Len(starts)]

\* The part a byte belongs to.
PartOf(b) == CHOOSE k \in DOMAIN parts : starts[k] < b /\ b <= starts[k + 1]
PartAt(b) == parts[PartOf(b)]

\* The request is on its way.
ControlInit ==
    /\ program \in {"fw", "host"}
    /\ \E s \in Scripts : parts = s.parts /\ starts = s.starts /\ early = s.early
    /\ patient \in BOOLEAN
    /\ read = 0 /\ started = 0 /\ stage = "upgrade" /\ at = "read" /\ hello = FALSE
    /\ raw = <<>> /\ pending = <<>> /\ before = 0 /\ rx_nonce = 0
    /\ outcome = "open" /\ delivered = <<>>

Opens == outcome = "open" /\ UNCHANGED scriptVars

Fail(why) ==
    /\ outcome' = why
    /\ UNCHANGED <<read, started, stage, at, hello, raw, pending, before, rx_nonce, delivered>>

-----------------------------------------------------------------------------
(* TCP, external.                                                          *)

\* The bytes that have reached us or will without our doing.
Available ==
    IF hello \/ ~patient \/ Len(parts) < 3 THEN Total ELSE starts[3]

Next_n(n) == [i \in 1 .. n |-> read + i]

\* A read fails or times out, or the server closes the connection.
ConnectionLost == Opens /\ at = "read" /\ Fail("Io")

-----------------------------------------------------------------------------
(* The handshake.  `raw` is its buffer.                                    *)

HeadLen == PartSize(parts[1])
HandshakeEnds == stage = "response" /\ Len(raw) - HeadLen >= RESPONSE_LEN
Rejected == /\ stage = "response" /\ Len(raw) - HeadLen >= HEADER_LEN
            /\ parts[2].kind = "Error"

\* One read of either loop, and for the first one parse_response on all there is.
ReadHandshake(n) ==
    /\ Opens /\ stage \in {"upgrade", "response"} /\ ~HandshakeEnds /\ ~Rejected
    /\ n <= BUF[program] - Len(raw) /\ read + n <= Available
    /\ IF stage = "upgrade" /\ Len(raw) + n >= HeadLen /\ parts[1].kind = "Refusal"
       THEN Fail("Refused")
       ELSE /\ raw' = raw \o Next_n(n)
            /\ read' = read + n
            /\ stage' = IF Len(raw') >= HeadLen THEN "response" ELSE "upgrade"
            /\ UNCHANGED <<started, at, hello, pending, before, rx_nonce, outcome, delivered>>

\* A read into no room at all looks like a closed connection to the firmware.
HandshakeFull ==
    /\ Opens /\ stage \in {"upgrade", "response"} /\ ~HandshakeEnds /\ ~Rejected
    /\ Len(raw) = BUF[program]
    /\ Fail(IF program = "fw" /\ stage = "response" THEN "Io" ELSE "Handshake")

\* The server's plaintext error; one as long as a response is left to `finish`.
HandshakeRejected == Opens /\ Rejected /\ Fail(IF HandshakeEnds THEN "Handshake" ELSE "Refused")

\* Handshake::finish: the session's nonces start, and what follows the response
\* is the first of its ciphertext.
Finish ==
    /\ Opens /\ HandshakeEnds /\ ~Rejected
    /\ stage' = "start" /\ at' = "use" /\ started' = read
    /\ raw' = SubSeq(raw, HeadLen + RESPONSE_LEN + 1, Len(raw))
    /\ rx_nonce' = 0
    /\ UNCHANGED <<read, hello, pending, before, outcome, delivered>>

-----------------------------------------------------------------------------
(* Records.                                                                *)

\* A part starts at b.
Aligned(b) == b = starts[PartOf(b)] + 1

\* The place of the record that starts at b among the records: the nonce it was
\* sealed with.
Nonce(b) == Cardinality({k \in 1 .. PartOf(b) - 1 : parts[k].kind = "Record"})

Opened(b) == Aligned(b) /\ PartAt(b).kind = "Record" /\ Nonce(b) = rx_nonce

\* Its plaintext.
Plaintext(b) == [i \in 1 .. PartAt(b).length |-> b + HEADER_LEN + i - 1]

RawHeader == Len(raw) >= HEADER_LEN
RawLen == CipherLen(PartAt(Head(raw)))
RawWhole == RawHeader /\ Len(raw) >= HEADER_LEN + RawLen

\* Mutant: a record is opened whether or not its plaintext has room.
Fits_Any(len) == TRUE

\* The check counts the tag, which the plaintext will not have.
Fits(len) == Len(pending) + len <= PENDING

Drains == Opens /\ program = "fw" /\ at = "drain"

\* What drain_records finds at the start of `raw`, in the order of its checks.
\* Bytes that are no header read as any, and end the connection whatever they say.
Staged ==
    IF ~RawHeader THEN "more"
    ELSE IF ~Aligned(Head(raw)) THEN "Noise"
    ELSE IF RawLen > MAX_CIPHERTEXT_SIZE THEN "TooLarge"
    ELSE IF ~RawWhole THEN "more"
    ELSE IF PartAt(Head(raw)).kind = "Error" THEN "Server"
    ELSE IF ~Fits(RawLen) THEN "more"
    ELSE IF ~Opened(Head(raw)) THEN "Noise" ELSE "record"

DrainRefused == Drains /\ Staged \in {"Noise", "TooLarge", "Server"} /\ Fail(Staged)

\* The record at the start of `raw` is opened.
OpenStaged ==
    /\ pending' = pending \o Plaintext(Head(raw))
    /\ raw' = SubSeq(raw, HEADER_LEN + RawLen + 1, Len(raw))
    /\ rx_nonce' = rx_nonce + 1
    /\ UNCHANGED <<read, started, stage, at, hello, before, outcome, delivered>>

DrainRecord == Drains /\ Staged = "record" /\ OpenStaged

\* The loop of drain_records ends, and pump returns or reads on.
Drained ==
    /\ Drains /\ Staged = "more"
    /\ at' = IF Len(pending) > before THEN "use" ELSE "read"
    /\ UNCHANGED <<read, started, stage, hello, raw, pending, before, rx_nonce, outcome, delivered>>

\* The firmware reads into what is left of `raw`.
ReadRaw(n) ==
    /\ Opens /\ program = "fw" /\ stage \in {"early", "body"} /\ at = "read"
    /\ n <= RAW - Len(raw) /\ read + n <= Available
    /\ raw' = raw \o Next_n(n)
    /\ read' = read + n
    /\ at' = "drain"
    /\ UNCHANGED <<started, stage, hello, pending, before, rx_nonce, outcome, delivered>>

RawFull ==
    /\ Opens /\ program = "fw" /\ stage \in {"early", "body"} /\ at = "read"
    /\ Len(raw) = RAW
    /\ Fail("TooLarge")

\* What the host makes of the bytes from b on, in the order of its checks.
Verdict(b) ==
    IF ~Aligned(b) THEN "Noise"
    ELSE IF CipherLen(PartAt(b)) > MAX_CIPHERTEXT_SIZE THEN "TooLarge"
    ELSE IF PartAt(b).kind = "Error" THEN "Server"
    ELSE IF ~Opened(b) THEN "Noise" ELSE "record"

\* The host reads one record, its header and its body to the end.
PumpRecord ==
    LET b == read + 1
        len == CipherLen(PartAt(b))
    IN  /\ Opens /\ program = "host" /\ stage \in {"early", "body"} /\ at = "read"
        /\ read < Available
        /\ IF Verdict(b) # "record" THEN Fail(Verdict(b))
           ELSE /\ pending' = pending \o Plaintext(b)
                /\ read' = read + HEADER_LEN + len
                /\ rx_nonce' = rx_nonce + 1
                /\ at' = "use"
                /\ UNCHANGED <<started, stage, hello, raw, before, outcome, delivered>>

-----------------------------------------------------------------------------
(* The start of the session.                                               *)

\* Mutant: nothing is sent until the early payload has been looked for.
Start_Silent ==
    /\ Opens /\ program = "fw" /\ stage = "start"
    /\ stage' = "early" /\ at' = "drain" /\ before' = -1
    /\ UNCHANGED <<read, started, hello, raw, pending, rx_nonce, outcome, delivered>>

\* Mutant: what came with the response is thrown away.
Start_Discards ==
    /\ Opens /\ program = "fw" /\ stage = "start"
    /\ hello' = TRUE
    /\ stage' = "early" /\ at' = "drain" /\ before' = -1
    /\ raw' = <<>>
    /\ UNCHANGED <<read, started, pending, rx_nonce, outcome, delivered>>

\* The firmware sends its preface and SETTINGS and stages what it has: absorb
\* returns however much it found.
Start ==
    /\ Opens /\ program = "fw" /\ stage = "start"
    /\ hello' = TRUE
    /\ stage' = "early" /\ at' = "drain" /\ before' = -1
    /\ UNCHANGED <<read, started, raw, pending, rx_nonce, outcome, delivered>>

\* The host's absorb opens the records that came with the response, one here; one
\* that is not whole is an error.  A part of a header is dropped.
AbsorbRecord ==
    /\ Opens /\ program = "host" /\ stage = "start" /\ Len(raw) >= HEADER_LEN
    /\ IF RawWhole /\ Opened(Head(raw)) THEN OpenStaged
       ELSE Fail(IF RawWhole THEN "Server" ELSE "Truncated")

StartHost ==
    /\ Opens /\ program = "host" /\ stage = "start" /\ Len(raw) < HEADER_LEN
    /\ hello' = TRUE
    /\ stage' = "early"
    /\ raw' = <<>>
    /\ UNCHANGED <<read, started, at, pending, before, rx_nonce, outcome, delivered>>

\* Mutant: with nothing to look at there is no early payload.
parse_early_payload_Empty ==
    IF early = 0 \/ pending = <<>> THEN "Absent"
    ELSE IF Len(pending) < early THEN "Incomplete" ELSE "Present"

\* HTTP/2 never begins with the first byte of the payload's magic.
parse_early_payload ==
    IF early = 0 /\ pending # <<>> THEN "Absent"
    ELSE IF Len(pending) < early \/ pending = <<>> THEN "Incomplete" ELSE "Present"

Uses == Opens /\ stage \in {"early", "body"} /\ at = "use"

SkipEarlyPayload ==
    /\ Uses /\ stage = "early" /\ parse_early_payload # "Incomplete"
    /\ stage' = "body"
    /\ pending' = IF parse_early_payload = "Absent" THEN pending
                  ELSE SubSeq(pending, early + 1, Len(pending))
    /\ UNCHANGED <<read, started, at, hello, raw, before, rx_nonce, outcome, delivered>>

\* The loop of a request hands all there is to the frame reader.
Feed ==
    /\ Uses /\ stage = "body" /\ pending # <<>>
    /\ delivered' = delivered \o pending
    /\ pending' = <<>>
    /\ UNCHANGED <<read, started, stage, at, hello, raw, before, rx_nonce, outcome>>

\* More is needed: the firmware first opens what it has staged.
Pump ==
    /\ Uses
    /\ \/ stage = "early" /\ parse_early_payload = "Incomplete"
       \/ stage = "body" /\ pending = <<>>
    /\ before' = Len(pending)
    /\ at' = IF program = "fw" THEN "drain" ELSE "read"
    /\ UNCHANGED <<read, started, stage, hello, raw, pending, rx_nonce, outcome, delivered>>

-----------------------------------------------------------------------------

Handshake == \/ \E n \in 1 .. BUF[program] : ReadHandshake(n)
             \/ HandshakeFull \/ HandshakeRejected \/ Finish
Firmware == \/ Start \/ DrainRefused \/ DrainRecord \/ Drained \/ RawFull
            \/ \E n \in 1 .. RAW : ReadRaw(n)
Host == AbsorbRecord \/ StartHost \/ PumpRecord
Client == Handshake \/ Firmware \/ Host \/ SkipEarlyPayload \/ Feed \/ Pump

ControlNext == Client \/ ConnectionLost

\* What the server sends arrives, and the connection is polled.
ControlSpec == ControlInit /\ [][ControlNext]_controlVars /\ WF_controlVars(Client)

-----------------------------------------------------------------------------
(* Properties.                                                             *)

\* Every variable has its type, and no buffer of either program overflows: the
\* records a read brings are opened only as far as `pending` has room.
ControlTypeOK ==
    /\ program \in {"fw", "host"} /\ read \in 0 .. Total /\ started \in 0 .. read
    /\ stage \in {"upgrade", "response", "start", "early", "body"}
    /\ at \in {"use", "drain", "read"} /\ hello \in BOOLEAN
    /\ Len(raw) <= IF stage \in {"upgrade", "response"} THEN BUF[program]
                   ELSE Max({RAW, BUF["host"]})
    /\ program = "fw" => Len(pending) <= PENDING
    /\ outcome \in {"open", "Io", "Refused", "Handshake", "Truncated", "TooLarge", "Server", "Noise"}

IsPlaintext(b) ==
    /\ PartAt(b).kind = "Record"
    /\ b - starts[PartOf(b)] \in HEADER_LEN + 1 .. HEADER_LEN + PartAt(b).length

\* How much of what the server sealed stands in the first b bytes.
PlainUpTo(b) == Cardinality({c \in 1 .. b : IsPlaintext(c)})

\* HTTP/2 is given exactly what the server wrote for it, from its first byte and
\* in order, whatever segment brought the upgrade, the response, the early
\* payload and the records, and however records were held back for room.
PlaintextExact ==
    LET given == delivered \o (IF stage = "body" THEN pending ELSE <<>>)
    IN  \A i \in DOMAIN given : IsPlaintext(given[i]) /\ PlainUpTo(given[i]) = early + i

Oversized == \E k \in 1 .. Len(parts) :
                /\ parts[k].kind \in {"Record", "Error"}
                /\ CipherLen(parts[k]) > MAX_CIPHERTEXT_SIZE

\* The early payload comes in records of which one has no room beside those before.
EarlySplit ==
    \E k \in 1 .. Len(parts) :
        /\ parts[k].kind = "Record" /\ PlainUpTo(starts[k]) < early
        /\ PlainUpTo(starts[k]) + CipherLen(parts[k]) > PENDING

EndOfPart(b) == b = starts[PartOf(b) + 1]

\* A server that keeps to the protocol is not hung up on: a record is found too
\* large, or the staging buffer full, only when a record is too long or the early
\* payload is in pieces too large to gather; and only the host, when its
\* handshake's last read ended inside a record, loses its place.
FailsForCause ==
    /\ outcome = "TooLarge" => Oversized \/ (program = "fw" /\ EarlySplit)
    /\ outcome \in {"Noise", "Truncated"} => program = "host" /\ ~EndOfPart(started)

\* A connection that is not lost or refused brings all the server sends to HTTP/2,
\* also when the server waits for our SETTINGS before it sends anything: no record
\* stays staged while the reader waits, unless the early payload cannot be gathered.
AllDelivered ==
    <>(outcome # "open" \/ early + Len(delivered) >= PlainUpTo(Total) \/ (program = "fw" /\ EarlySplit))
=============================================================================
