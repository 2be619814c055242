# A TLA+ model of lando

lando puts a LAN behind a Tailscale node, from a Raspberry Pi Pico 2 W
(`lando-fw`) or from a host program (`lando-host`); both are built on
`tailscale-core`, a no-allocation implementation of the protocols. This
directory holds TLA+ models of the parts that keep state, TLC runs that check
them on small instances, and TLAPS proofs that hold for every size.

Paths below are under `src/crates/`; `core` is `tailscale-core/src`, `fw` is
`lando-fw/src`, `host` is `lando-host/src`.

## Inventory

| Part | State | Operations | What is hard | What makes it correct |
|---|---|---|---|---|
| Transport session, `core/wireguard/transport.rs` | send counter; ring of bits, top, started | `encrypt`, `decrypt`, `accept` | reordered, repeated, damaged packets; ring slots shared by counters a window apart; the counter's limit | nothing decrypts twice; nothing new inside the window is refused; a damaged packet changes nothing |
| Peer, `core/wireguard/peer.rs` | current and previous session, handshake in flight, last timestamp | `install_session`, `send_session`, `session_for_index`, `handshake_sent`, `expire`, `poll` | seven timers and limits, a caller that acts late | keys die on time, retries are bounded, a rekey loses nothing, a peer that cannot send falls silent only after a whole attempt window |
| Handshake, `core/wireguard/handshake.rs` | none between messages | initiate, respond, consume | cryptography | both ends derive one key per initiation and response |
| Firmware node, `fw/wg.rs` | one peer slot, next index, nonce | `handle`, `encrypt`, the UDP loop | two transports and the tunnel share one slot | no nonce repeats under one key, no packet is delivered twice, replies go back to the peer |
| Firmware relay, `fw/derp.rs` | parser, `peer_key`, channel `DERP_OUT` | `pump`, `handle_frame`, `run` | reads race writes and are cancelled; the connection comes and goes | a queued packet goes to the peer it is for |
| Firmware tunnel, `fw/tunnel.rs` | sockets, `claimed`, eight workers, held bytes | `claim`, `splice`, `relay`, `flush`, `relisten` | a socket is its own accept queue; workers are cancelled | one worker per connection, every served socket comes back |
| Supervisor, `fw/main.rs` | backoff, failure count | connect, register, run all tasks, restart | cancels everything at any await | the node comes back |
| Host datapath, `host/node.rs` | sessions, timestamps, index, stack's peer | `handle_packet`, `feed_stack`, `drain_stack` | the netmap arrives from another thread | only what the netmap's peers relay is answered, newest initiation wins |
| Host control thread, `host/main.rs` | the shared peer list, the netmap being assembled | `poll_netmap` | netmaps cut anywhere, deltas and keep-alives between them | the list follows the netmap |
| HTTP/2, `core/h2.rs`, `fw/h2conn.rs`, `host/transport.rs` | incremental reader, owed credit, noted control frames | `feed`, `post_stream`, `handle_control` | records cut frames anywhere; two flow-control windows | bytes and frames come out exactly; credit is conserved and returned |
| ts2021, `core/noise.rs`, `core/upgrade.rs`, `fw/control.rs`, `host/transport.rs` | handshake buffer, record nonces, staged ciphertext, plaintext not consumed | `connect`, `absorb`, `drain_records`, `pump`, `skip_early_payload` | one segment may carry the upgrade, the response and the first records; little room; a server that waits for us | HTTP/2 gets the plaintext exactly, and all of it |
| Control bodies, `core/control.rs`, `core/json.rs` | `MapFrames` | `feed`, `parse_early_payload`, `peers` | cut anywhere | netmaps come out whole |
| DERP framing, `core/derp/*`, `host/derp.rs` | incremental reader | `feed`, login | cut anywhere, cancelled reads | as HTTP/2 |
| Configuration, `fw/config.rs` | one flash sector | `load`, `save`, `clear` | power loss between erase and write; field sizes | what was saved loads |
| mDNS proxy, `core/mdns.rs`, `fw/mdns.rs` | the query in hand, both sockets' queues | `serve`, the two rewrites of the questions | late answers without an id, a LAN that never stops sending | no late answer is served to a later query; no query waits for ever |
| Host tunnel, `host/tunnel.rs` | socket pool, SOCKS progress, LAN streams | `serve`, `relisten` | negotiation over partial reads, short writes, a socket reused | bytes arrive once, in order, on their own connection |

How they interact: the supervisor runs four futures in one `select4` (map poll,
UDP loop, relay, tunnel with mDNS) and drops them all when the first ends. The
UDP loop and the relay call `Node::handle` under a lock; decrypted packets go to
`Tunnel::deliver`, whose output queue the UDP loop drains, encrypts and sends by
UDP or through `DERP_OUT`, which the relay future empties. On the host, one
thread polls the control plane and replaces the shared peer list, the other reads
the relay and does everything else.

## Modules

| Module | Models |
|---|---|
| `WgLimits` | the limit on messages that a session and its peer share |
| `ReplayWindow` | the operators of the replay window |
| `ReplayFilter` | what the window promises: a filter with unlimited memory |
| `WgTransport`, `MCWgTransport`, `NoiseProofs` | a session: `encrypt`, `decrypt`; refinement of `ReplayFilter` |
| `WgPeer`, `MCWgPeer`, `NoiseProofs` | `Peer` and its timers, against a caller that calls in any order |
| `FwNode`, `MCFwNode`, `FwNodeProofs` | the firmware's node, its UDP loop, `DERP_OUT` and the relay future, two kinds of transport, the peers and the network |
| `FwTunnel`, `MCFwTunnel`, `FwTunnelProofs` | listeners, workers and the supervisor that drops them |
| `HostNode`, `MCHostNode`, `HostNodeProofs` | the host's datapath and the thread that publishes peers |
| `ControlConn`, `MCControlConn`, `NoiseProofs` | the control connection of either program up to HTTP/2: upgrade, Noise response, records, early payload |
| `H2Conn`, `MCH2Conn`, `H2ConnProofs` | the frame reader, one request's read loop in either program, and the netmaps in its body |
| `FwLifecycle`, `MCFwLifecycle`, `FwTasksProofs` | the firmware from power-on: configuration sector, keys, console, join, supervisor |
| `DerpConn`, `MCDerpConn`, `DerpConnProofs` | the relay's frame reader, the login, and both programs' loops over it |
| `BytePipe` | what a proxied connection promises its two ends |
| `Splice`, `MCSplice`, `SpliceProofs` | one tunnel socket with its LAN stream: the firmware's `splice`, `relay`, `flush` and the host's `serve`; refinement of `BytePipe` |
| `MdnsProxy`, `MCMdnsProxy`, `FwTasksProofs` | the firmware's mDNS proxy between clients and the LAN |

How they fit together: `ControlConn` delivers the plaintext that `H2Conn` reads,
whose netmaps are what `HostNode` publishes. `WgTransport` refines the filter that
`FwNode` and `HostNode` use for their sessions. `Splice` is the inside of one
worker of `FwTunnel`. `FwLifecycle` runs the sessions that `FwTunnel`, `FwNode` and
`MdnsProxy` see start and end.

Correspondence, where it is not one function to one action:

* `WgTransport`. The ring is a function on `WINDOW_BITS` positions; the source's
  split into 64-bit words is left out. `accept` is split into `Accepts` (its
  answer) and `Record` (what it leaves behind). A packet either is authentic
  (`DecryptAuthentic`, with a counter the sender used) or is not
  (`DecryptUnauthentic`, with any counter).
* `WgPeer`. `send_session` and `session_for_index` hand out a session, and the
  caller uses it for one packet. `attempts`, `first` (when the
  first initiation not yet answered went out) and `useAge` are histories. The caller
  initiates only when `poll` asked, perhaps much later (`todo`), and gives a new
  session an index no live one has.
* `FwNode`. A session is the initiation (peer, timestamp) and the index it was
  answered with. Its key (`SessionKey`) is the initiation and the responder's
  ephemeral, which the source makes from the index: X25519 clears the low three bits
  of the scalar's first byte, so `CLAMP` = 8 indices in a row, four of the odd ones
  drawn, give one ephemeral, and the index itself is mixed into nothing. `decrypt`
  looks at the receiver index and at the key. The index is not authenticated; a packet
  whose header someone rewrote is not modelled: `net` is a set of packets as they were
  sent, that never shrinks, so each may arrive late, repeatedly or never. The window is
  the filter it was proved to be. `HandleOther` stands for everything that changes no
  session (disco, responses, damaged packets); a damaged packet of the transport type
  still moves the return path. The first index is any odd one.
  `RelayLost` is the end of `derp::run` for any reason, the supervisor included.
* `FwTunnel`. The socket states are smoltcp's, reduced to those the code tells
  apart, and external: a reset returns a half-open socket to listening and closes
  any other; `abort` and a poll close it, so the `listen` that follows succeeds.
  A worker's `at` is its place in `worker`, `splice`, `relay`, `flush`; `queued` says
  that the LAN socket holds bytes its host has not taken, and `silent` that no bytes
  came either way for as long as `relay` allows. `write` is the wait in `write_all`,
  during which nothing else is looked at, and `relisten` waits in the LAN socket's
  flush until nothing is queued. `SessionEnds` is
  `select4` returning; segments are processed only while the tasks run.
* `HostNode`. Each relay event is one action. The relay is a FIFO per client of it
  (`src`) that may lose its head. A handshake carries its own static key
  (`peer_static`), which may come through any client: `authorised` looks at the first,
  timestamps and sessions are kept under the second, as in the source. A send that fails is an outcome of `HandleInitiation`. A
  failed read ends the process, which keeps nothing; the next process starts at
  `Init`, where a peer may still hold a key of the one before.
* `ControlConn`. The server's side is a script: a sequence of parts (the answer to
  the upgrade, the response or an error, records), where each of them starts, and the
  length of the early payload its plaintext starts with; `Laid` is the order of the
  protocol. A byte is its position in the stream, and a byte of plaintext is known by how
  many there are up to it (`PlainUpTo`), so `PlaintextExact` needs no contents; a
  record opens if the bytes at hand are aligned with it and its nonce is the next
  one. `raw` is the handshake's buffer and then the firmware's staging buffer. A
  server either sends at once or waits for our SETTINGS (`patient`). The firmware's
  `absorb`, `drain_records` and `pump` are the actions `Start` to `ReadRaw`, the
  host's are `AbsorbRecord` to `PumpRecord`. Sending records is left out: it keeps
  no state but a counter.
* `H2Conn`. A byte is its position in the server's stream, so "the right bytes"
  needs no contents. Each turn of the loop in `feed` is an action; they run
  between `Pump` and `EndRound` without anything else of the client happening.
  The model starts when the request is sent. The firmware notes control frames, up to
  `ACKS`, and handles them when the round's input is used up, one per `HandleNoted`;
  the host calls `handle_control` on each at once. `MapStarts` says where in the body
  the netmaps start, so a length read is that of the netmap its bytes stand before.
  `MapFeed` is one turn of `on_data`'s loop over
  `MapFrames::feed`: the host assembles each netmap in `current`, the firmware keeps
  the start of the first in `netmap`.
* `FwLifecycle`. `flash` is what `load` would read from the sector, and `Torn(c)`
  what it would read if power was lost in a save of `c`: nothing, or a prefix, the
  rest reading as erased. The console's staging commands are folded into the set
  `Staged` a save chooses from; nothing else reads what is staged. A device starts
  out of the box, with settings, or with settings and keys. Delays have no length.
  `associated` follows the access point; only `Join` sets it, as in the source.
* `DerpConn`. `program` says whose loop is run and is chosen once. Each turn of
  the loop in `feed` is an action, a byte is its position, and the model starts
  when the HTTP upgrade was accepted. Answering a ping changes no state. A write
  that fails, while frames are handled or replies drained, loses the connection, as a
  failed read does. The firmware's login gathers into 512 bytes where `pump` has 1600;
  the model has one size, since the login skips the frames it would cut. `Read`,
  `SendQueued` and `Tick` are the ways the wait for input ends.
* `Splice`. One socket, reused by one client after another, because a worker of
  the firmware and a slot of the host's pool share nothing with the others but the
  stack's lock. The firmware's steps are those between its awaits; the host's
  `drain_stack` is the round poll, serve, poll, relisten, and the client's segments,
  any number of them, reach the socket at its start. A SOCKS greeting and request are that many bytes
  of their kind, whole or not; a request that is refused or cannot be dialled takes
  the failing branch. `write` on the host takes any part of what it is given, or
  none when it would block; `write_all` on the firmware takes all or fails.
* `MdnsProxy`. A message is its questions; a query's number stands for its client
  and id. A responder answers whenever it likes, and more than once, and echoes the
  questions in full, with the names after the first compressed (`Compressed`), or not. `DiscardStale`
  is one turn of the discarding loop, whose two-millisecond timer wins only on an
  empty socket.

## Runs

| Run | Bounds | Shows |
|---|---|---|
| `transport` | window 3, 8 usable counters, counter field to 9 | the ring is lapped more than twice and jumps reach and pass its width, so every branch of `accept` meets every alignment: the counter limit in `SessionTypeOK`, `WindowExact`, `NoReplay`, and the refinement `ImplementsFilter` |
| `peer` | timers 2, 4, 2, 5, 1 in the source's order, messages 1 and 2, clock to 6, three indices (symmetric) | a key's whole life, a full run of retries past giving up, two rekeys: `KeyLifetime`, `AttemptsBounded`, `QuietOnlyAfterWindow`, `RekeyOverlap` |
| `fw_node` | two peers (symmetric), 1 initiation each, 3 answers, 1 packet a session, 2 encryptions, channel and queue of 1, indices 1, 3, 5 of which 1 and 3 are clamped to one ephemeral, starting at any | the slot passes between peers and back, and one initiation is answered again under another key or the same, while packets and repeats are in flight: `NonceUnique` (until a key was derived twice), `DeliveredOnce` |
| `tunnel` | 3 listeners, 2 workers, any number of connections, 1 restart | more listeners than workers, every socket reused without end, LAN hosts that stop reading, a restart anywhere: `OneWorkerPerSocket`, `OwnConnection`; under fairness `WaitingServed`, `ClaimReturns` |
| `splice` | receive buffer of 5 bytes (a greeting, a request and a byte of payload together), the others of 2 and 3, 2 connections, 3 bytes and 4 bytes a connection, greeting and request of 2 | every read and write can be cut short and a message ends inside one; the socket is used again while bytes, a FIN or a reset of the last connection are about: the refinement `ImplementsPipe`, `RequestComplete`, `ResponseComplete`; under fairness `Flows` |
| `host_node` | two peers (symmetric), two timestamps, two answers, index space 3, netmaps with whole lists and with deltas | the index wraps, timestamps repeat, a response fails to be sent, a peer holds a key of an earlier process: `NonceUnique`, `StackHasSession`, `NewestInitiation`, static keys that come through another client of the relay, and `OpenOnlyAtFirst`, that after the first netmap only a relay client some netmap named brings a session |
| `control` | header 2 bytes, tag 1, ciphertext up to 4, response 3, up to 5 records; every sequence of up to 4 records of plaintext length 0, 1 and 3, early payloads in one record and in several, every refusal | every cut: two full records do not fit in `pending`, the handshake's buffer fills, a record is too large: `ControlTypeOK` (no buffer overflows), `PlaintextExact`, `FailsForCause`; under fairness `AllDelivered` |
| `h2` | header 2 bytes, control buffer 2, 2 noted frames, 3 frames of 11 shapes, netmaps of 2, 0 and 1 bytes after lengths of 2 | every cut of every sequence in either program, a netmap's length and body split between frames: `BodyExact`, `ControlsExact`, `NetmapsExact`, `CreditConserved`, `EndsComplete`, `PingsAnswered` |
| `h2_stall` | stream window 3, otherwise as above | violated: the stream's window never opens again |
| `lifecycle` | longest backoff 3, 2 failures, 1 outage | a save torn anywhere, a save that does not fit, keys made at boot, an access point and a server that come and go: `IdentityKept`, `SettingsKept`; under fairness `Recovers` |
| `derp` | header 2 bytes, control buffer 1, assembly buffer 2, longest frame 3, 5 frames of 9 shapes, 2 queued packets | every cut of every sequence with a cancelled read or a tick anywhere: `CancelSafe`, `RepliesNotStarved` |
| `mdns` | 3 queries of 3 shapes, queues of 2, at most 3 discarded, 1 restart | more late answers than one, answers that arrive while others are discarded, a socket that never empties: `NotStale`, `QuestionsAsAsked`; under fairness `QueriesTaken` |

In `fw_node` the index passes the end of its space but comes round to no index drawn
before: that needs 2^31 handshakes. In `host_node` it does.

One outage is enough in `lifecycle`: after a torn save the two invariants claim
nothing more, and what another outage could add is a plain reset, which the
program's own resets, not counted as outages, already bring at other moments. The
tail of the backoff and the reset after
the last failure are both reached with 2 failures and a limit of 3.

Deadlock is checked in `transport`, `peer`, `fw_node`, `host_node` and
`lifecycle`. The others may come to rest: the clients' connections and queries, the
server's and the relay's frames are bounded, a request returns and a connection is
lost.

In `mdns` the real discarding limit, 64, exceeds the LAN socket's 12 datagrams, and
so does the model's; `NotStale` needs it. In `control` the firmware's handshake
buffer is smaller than its staging buffer, as in the source.

### Fairness

`FwTunnel`: a worker that can take a step does, since the executor polls every
future; a dial ends by the LAN socket's timeout if by nothing else; time passes, so a
relay with no bytes either way is `Quiet` in the end; a write finds room once nothing
is queued; a new session starts because the supervisor's delay is at most a minute.
Nothing is assumed of LAN hosts: one may keep its window shut for ever and answer
keep-alives, which puts off the timeout. Clients owe nothing.
`Splice`: the worker and the host's loop go on; a client that stays receives what
is sent to it, and a LAN host that stays takes what is written (both strongly
fair, since the host tries only once in each round). Neither need send, and giving
up (`GiveUp`) is never owed. `MdnsProxy`: the future is polled and the gathering
window's deadline passes; the LAN may send for ever. `ControlConn`: what the server
sends arrives and the connection is polled; the connection may be lost at any read.
`H2Conn`: the connection is polled and what is sent arrives; the server need
never send. `FwLifecycle`: the boot and the network steps of `main` happen, each
being bounded by a timeout; a session that the server cannot or will not serve
ends, because the map poll is read with a timeout. A session that is served need
never end, and nothing is assumed of the access point, the server or the human.

### What the violated run means

* **h2_stall** credit goes back to the connection and never to the stream, so a
  long poll ends its life after 16 KiB (64 KiB on the host).

### Other differences

Seen while modelling; the properties are stated so as to hold beside them, and say
where.

* The firmware's ephemeral is not fresh for every handshake (`fw/wg.rs:137`, against
  `:135`, "A fresh ephemeral per handshake; reuse would cost forward secrecy for the
  whole session"). The index is the only part of its seed that changes, and
  clamping (`core/key.rs:59`) drops the low bits, so an initiation that arrives a second
  time usually gets an answer with the same key, and a `Session` whose send counter and
  window start again: nonces do repeat. `KeyRepeated` names the case, the run reaches it,
  and `NonceUnique` claims nothing from then on. `DeliveredOnce` holds there too, but
  only because packets carry the index of their session, which is not authenticated.
* The host looks up the relay's `src` in the list (`host/node.rs:137`), and keeps the
  session under the static key of the handshake (`:146`, `:171`), which it does not
  compare with the `src` or with the list, against `:10`, "a handshake from a key the
  control plane never mentioned is refused". `OpenOnlyAtFirst` is about the `src`.
* `claim` takes the lowest listener that is ready (`fw/tunnel.rs:375`). With fewer
  workers than listeners, clients that keep reconnecting to low ones can keep one on a
  high listener waiting for ever; `WaitingServed` names the case.
* `write_all` (`fw/tunnel.rs:625`) and the flush of the LAN socket (`:564`) have no
  deadline. A LAN host that is alive and does not read holds the worker, past the idle
  limit and the client's end, against `:581`, "A backstop against any path that leaks a
  worker". `ClaimReturns` names the case.
* `poll` gives up on a run of attempts (`core/wireguard/peer.rs:195`) and leaves
  `handshake_sent` set, so it is idle from then on, also once the key has expired: only
  a handshake from the other side gives the peer a session again.
  `QuietOnlyAfterWindow` names the case.
* A responder that compresses the names of the questions it echoes is relayed with the
  QU bits of those still set: the walk fails at a pointer (`core/mdns.rs:119`), and the
  error is ignored (`fw/mdns.rs:143`). `QuestionsAsAsked` names the case.
* `select4` drops the workers when the map poll ends, and nothing clears
  `Tunnel.claimed` (`fw/main.rs:1023`, against `fw/tunnel.rs:243`). Each restart of
  the control session with a connection open costs one listener. `ClaimReturns`
  excludes workers that were dropped.
* `claim` skips a socket that may neither send nor receive (`fw/tunnel.rs:380`), and
  only a worker that claimed a socket puts it back (`:421`): one that is reset before
  it is claimed never listens again.
* The host gathers a relayed packet in a local of `next_raw_frame`
  (`host/derp.rs:263`, against `:258`). A read timeout, every 100 ms, returns and
  forgets it while the reader goes on in the middle of the packet, whose tail is then
  taken for a packet, its first 32 bytes for the sender's key. `CancelSafe` excludes
  the host once that happened.
* The host's `absorb` (`host/transport.rs:261`) takes a record that the handshake's
  last read cut for an error, and drops a part of a header. `FailsForCause` names the
  case.
* An early payload in several records must fit into `pending` with them; otherwise
  the firmware stalls or fails (`EarlySplit` in `FailsForCause` and `AllDelivered`).
* The host does not pass a client's FIN on to the LAN and does not close on it, so a
  half-closed socket stays in use until the LAN ends its stream. A LAN stream that
  failed ends in an orderly FIN to the client. A forward that failed is dialled again
  on every tick while the socket closes.
* The firmware ends a connection when the client has finished sending, although the
  rest of the response may be on its way: `ResponseComplete` is about clients that
  keep their side open.
* A SOCKS greeting or request that is malformed is never answered, and waits for ever.
* An mDNS answer that comes during the next query's window is relayed to it;
  `NotStale` is about answers that came before. The QU bit of a question is cleared
  even if the client had set it. A datagram larger than the buffer ends the window.
* A netmap that has only `PeersChanged` replaces the host's whole list. If the control
  thread stops, the datapath goes on with the list it has, or with none.
* `Node::handle` (`fw/wg.rs:129`) does not look at an initiation's timestamp, which
  `core/wireguard/handshake.rs:238` tells the caller to compare with the greatest
  one seen. A repeated initiation replaces the session in use.
* `Node::handle` moves the return path before it decrypts, so a packet that proves
  to be damaged, or of an earlier session, moves it too.
* The relay future sends queued packets to whoever was last heard from
  (`fw/derp.rs:261`), although each was encrypted for a known peer.
* The host answers any peer while its list is empty (`host/node.rs:137`, against
  `:9`); a sleep of six seconds is all that orders the two threads.
  `OpenOnlyAtFirst` is what remains true.
* The host keeps its sessions beside `Peer`, so neither `REJECT_AFTER_TIME` nor the
  previous session applies to them.
* `save` is documented as run with a human watching, but a boot without keys saves
  too. Power lost there leaves the device without its settings, or with a key whose
  tail is missing, which `load` takes for a key. `IdentityKept` and `SettingsKept`
  exclude exactly these cases.
* Long settings leave no room for the keys: `save` panics before it erases, so
  nothing is lost, but at boot it does so at every start, before the console runs.
* A registration answered with a refusal resets backoff and failures.
* The console's `derp` command cannot turn the relay off.

## Proofs

All theorems hold for every value of the constants that satisfies the `ASSUME`s
of the module; none but `FwNodeProofs`, which says so, needs the run's bounds, which
the specifications keep only as guards.

* `NoiseProofs`, the session. Assumed: the window is at least one wide and the counter
  field holds every usable counter. The inductive invariant adds to the types that
  the window is *truthful*: for each counter it covers, the bit of its slot is set
  if and only if the counter was accepted. `WindowExact` alone says nothing of
  what clearing a slot does to the counter a window behind that shared it; the
  lemmas about `shift_left` and the arithmetic of two counters with one slot do.
  From it follow `WindowTop` (only accepted counters move the window), `NoReplay`, and that each step of the window is a
  step of `ReplayFilter`.
* `NoiseProofs`, the peer. Assumed: the timers are naturals, `REJECT_AFTER_TIME` and
  `REKEY_ATTEMPT_TIME` positive, and the rekey limit on messages at most the
  reject limit. `AttemptsBounded` is not inductive: the invariant adds that an
  attempt asked for (`todo`) while a handshake is in flight was asked for late
  enough, and that the last attempt is at least `attempts - 1` timeouts after the
  first. `QuietOnlyAfterWindow` needs that the first one is the one `poll` measures the
  window from, which a session installed must therefore forget (`Spaced`).
* `NoiseProofs`, the control connection. Assumed: the sizes of header, tag and response
  are positive and the response is no shorter than a header, a full ciphertext is more
  than a tag, the firmware's handshake buffer is no larger than its staging buffer, and
  what the server sends is `Laid`. `PlaintextExact` speaks of what was delivered; the
  invariant (`ControlInv`) says where the rest is. `RawInv`: what is staged is the end of
  what was read. `PlaceInv`: it starts where the record after the last one opened starts,
  all parts between the response and there are records, and so their number is the nonce;
  or the host dropped a piece of a header (`Lost`), and then it stands inside the record
  its handshake ended in, which the next read finds out. `PlainInv`: the plaintext not yet
  consumed continues what was delivered up to that record. `FailsForCause` needs two more:
  a firmware that waits with a full staging buffer holds back a record `pending` has no
  room for (`FullInv`), and it waits with something pending only while the early payload
  is incomplete (`PumpInv`); so nothing but an early payload in too large pieces fills it.
* `FwTunnelProofs`. Assumed: `None` is no listener. The invariant says that a
  worker past `claim` holds a socket that is claimed, that does not listen and was
  handed to no later client, and that no other worker has. A dropped worker leaves its flag set,
  which is why safety survives a restart, although the listener does not.
* `FwTasksProofs`, the mDNS proxy. Assumed: the discarding limit exceeds the LAN socket's queue, as
  64 exceeds 12, and the queries are sequences of questions. `NotStale` says nothing
  of the discarding itself; the invariant adds that while it goes on, an answer that
  waited is within the first `LAN_QUEUE - stale` places, and that none is left when
  the query is sent. For `QuestionsAsAsked` it adds that whatever is on the LAN echoes
  a query that could be walked, with every QU bit set, such a query with names
  compressed, or nothing; one lemma shows that the second rewrite undoes the first.
* `HostNodeProofs`. Assumed: `None` is neither a peer nor a session. `NonceUnique` is
  not inductive: what makes a key new is the initiation it answers, so the invariant
  adds that a peer's session has a key it was answered with (`Answered`), the newest of
  them (`NewestInitiation`), and that the counters spent under that key are below the
  session's next one (`Spent`). A wrapped index then does no harm, since
  one initiation is answered once. `StackHasSession` needs that a session, once
  there, is only ever replaced; `OpenOnlyAtFirst` needs that the list, unless no netmap
  named a peer yet, is not empty and names only peers of netmaps (`Published`).
* `FwNodeProofs`. Here one initiation may be answered twice, and two answers differ
  only by their index. Assumed, beside `None`: no index is drawn twice within the
  bound on responses (`WrapAssumption`); nothing is assumed of the clamping. The invariant
  says that the next index is ahead of every one answered with, round the end of its
  space or not, so that a session is new although its key may not be (`Drawn`), and that
  the session in the slot has spent every counter used on it, and its filter has seen
  every packet delivered on it (`SlotInv`). `DeliveredOnce` follows, and that no session
  uses a counter twice; sessions with different keys then give `NonceUnique`.
* `FwTasksProofs`, boot and supervisor. Assumed: `None` is neither a key nor a configuration. `IdentityKept` and `SettingsKept` speak of
  the program in any phase; the invariant says, as long as nothing excuses a loss, that
  the copies of the configuration that boot, console and supervisor hold agree
  (`CopiesAgree`), that the sector holds what was last wanted (`StoredIsWanted`), that
  the key presented is the stored one (`PresentedIsStored`), and that a device running is
  configured and started as saved (`RunsConfigured`, `StartedAsSaved`).
* `H2ConnProofs`. Assumed: the sizes are naturals, those of the header, the control
  buffer and a length positive; the netmaps lie one after the other, each after its
  length. None of the six properties is inductive. The invariant has three layers.
  `StreamInv` describes what the server sends: whole frames, byte after byte, and
  nothing of this request after its END_STREAM. `ReaderInv` says where in it the reader
  stands: the bytes it holds of a header or of a control payload are those just fed, and
  what remains of the frame is what the stream has left of it. From it, every action of
  `feed` is shown to be one kind of step (`FeedStep`): it uses n bytes of one frame, and
  either says nothing, completes a control frame, or hands the bytes on; each property
  is then proved once, not for each of the four states of the reader. `MapInv` says the
  same of the splitter, which stands inside a length or inside a netmap, with exactly
  the bytes seen of it. `EndSeen` (nothing of this request follows what was fed) gives
  `EndsComplete`; `Acknowledged` (frames noted and not handled are the last produced)
  gives `PingsAnswered`.

* `DerpConnProofs`. Assumed: the header and the control buffer are not empty, and the
  assembly buffer holds a control frame. `CancelSafe` speaks of the frames that came
  out; the invariant has the same layers as that of `H2Conn` for what is still inside:
  `StreamInv` for what the relay sends, `ReaderInv` for where the reader stands and what
  it holds of a header or a control frame, and `InAssembly` for the streamed payload: as
  long as no tick tore one, the assembled bytes are the start of the frame the reader is
  in, or there are none. A cancelled read changes none of these, which is the point of
  it. `RepliesNotStarved` needs that a packet was passed over only if the loop's next
  turn is to send (`LoopInv`).
* `SpliceProofs`. Assumed: buffers and chunks are naturals, chunks not zero, a greeting
  and a request fit in the receive buffer. The invariant (`Good`, for some number r of
  answers given so far) says where every byte of the connection is, in both directions:
  the receive buffer, what a worker is writing and what the LAN host has are one run of
  what the client sent, without a gap unless the stream was reset (`InInv`); what the
  client has, what is queued and what is held back are one run of r answers and then the
  LAN host's bytes (`OutInv`). `SocketInv` and `LanInv` keep connections apart: a
  listening socket has nothing left of the last one, and a LAN stream there is was
  dialled for this one. A request is found at the start of the receive buffer only where
  the greeting has just been consumed (`RequestPlace`), which is why the payload after it
  begins at its first byte. `EndingInv` ties the reason a relay ended to what was read,
  and gives `RequestComplete` and, with the count of answers, `ResponseComplete`. For
  `ImplementsPipe` each action is shown to connect, send, receive or stutter in
  `BytePipe` (`PipeStep`); a dial is a stutter because nothing was sent on a stream that
  was not there.

Every invariant and every action property that a passing run checks is proved. Only
model-checked: the liveness properties (fairness and `ENABLED` are outside the prover),
`CreditReturned` among them. That the starts of a script grow is assumed with `Laid`
rather than derived from the sizes: it takes induction over the parts. TLC evaluates it on
every script of the run.

## Not modelled

Cryptography and key encodings; the text of JSON, HTTP and HPACK, and the scanner
over it, which keeps no state between calls; TLS; the LEDs, USB and log output; the
host's registration, a fixed sequence of requests with printed output;
`host/state.rs`, which reads or writes one file at start; the disco and TSMP codecs,
which keep no state.

## Plan

1. Done: session, peer, firmware node, tunnel pool and its workers' bytes, host
   datapath and tunnel, control connection, HTTP/2 reader and netmaps, boot and
   supervisor, relay connection, mDNS proxy.
2. Proofs. Done: session, peer, tunnel pool, mDNS proxy, both nodes, boot and
   supervisor, control connection, HTTP/2 reader and netmaps, relay connection, the bytes of a tunnel
   socket.
3. A pair of `WgPeer`s over a lossy link; `HostNode` with their clock, and the
   return path of `FwNode`.
