# TLA+ models of rofl-common's connection core

This directory holds TLA+ specifications of the OpenFlow connection core in
`src/src/rofl/common`, the TLC configurations that check them, and
`PROJECT.json`, which records for each definition the source lines it
translates, the runs, the mutants that show each property can fail, the
findings, and the hazards.

## The system

rofl-common is a C++ OpenFlow library. An application derives from
`crofbase` and receives upcalls from it. The core of the library is the
per-connection state machines and the arbitration between connections.

| Part | Source | State | Operations |
|---|---|---|---|
| Datapath connection (controller side) | `openflow/cofdpt.cc` | cfsm state (DISCONNECTED, WAIT_FEATURES, WAIT_GET_CONFIG, WAIT_TABLE_STATS, CONNECTED); flags HELLO_SENT / HELLO_RCVD / ACTIVE_SOCKET; ciosrv timers; per-type xid stores; reconnect_in_seconds and reconnect_counter; read fragment | socket events (`handle_connected`, `handle_connect_refused`, `handle_read`, `handle_closed`); `handle_message` and one `*_rcvd` per message type; `send_message` and one `*_sent` hook per request type; `handle_timeout` for each timer; `try_to_connect` |
| Frame reassembly | `cofdpt::handle_read` | fragment, msg_bytes_read | read a header, then the body, deliver whole frames |
| Controller connection (datapath side) | `openflow/cofctrl.cc` | role, cached generation id, role_initialized | `role_request_rcvd`; slave policy in `packet_out_rcvd`, `flow_mod_rcvd`, `group_mod_rcvd`, `port_mod_rcvd`, `table_mod_rcvd` |
| Core | `crofcore.cc` | the set of controllers and datapaths; generation_is_defined, cached_generation_id | `role_request_rcvd` (role arbitration among controllers); async fan-out (`send_packet_in_message` and the others); `handle_established` routing; listen and accept |
| Application interface | `crofbase.h` | none | virtual upcalls: `handle_dpt_open`, `handle_dpt_close`, `handle_packet_in`, reply and timeout handlers |
| Counters | `openflow/cofbucketcounter.h` | packet and byte counts | pack and unpack |
| Example | `examples/tcpserver/tcpserver.h` | none | listens and stops on `handle_dpt_close` |

These parts interact as follows:

- A cofdpt reports to the application only through `crofbase` upcalls.
- crofcore owns the controller connections and arbitrates their roles.
- Every connection runs on one event loop. Handlers run to completion, so the concurrency is the interleaving of socket events, timer expiries and the peer's messages.

## Modules

### `OFDpt.tla` (cofdpt) and `MC_OFDpt.tla`

OFDpt models one cofdpt with its switch and the application as the
environment.

**State.** The VARIABLES correspond to the code as follows:

- `state`, `flags` and `timers` are the cfsm state, the flag bits and the pending timers.
- `sock` is the csocket.
- `out` and `in` are the frames in flight in each direction.
- `xidstore` maps the two request types with timers (STATS and BARRIER) to their outstanding xids.
- `reconnectIn` and `reconnectCounter` are the two reconnect fields.

Five variables record history for the properties:

- `nOpen` and `nClose` count the calls of `handle_dpt_open` and `handle_dpt_close`.
- `upcall` is the upcall made by the last step. The handshake reply timers have the code's own upcalls, `features_reply_timeout` and `get_config_reply_timeout` (`StallUpcall`).
- `firstSent` is the first frame written on the current socket.
- `dropped` records that the switch left a FEATURES, GET_CONFIG or STATS request of the current socket unanswered.

**Actions.** Each handler is one action, and it includes everything the handler calls:

- `ReadMessage` is `handle_read` delivering a frame. It dispatches through `HandleMessage` (`handle_message`) to the `*Rcvd` operator of that message type.
- `ReadFailed` is a `handle_read` that ends in `handle_closed`.
- There is one `Timeout*` action per timer. `TimeoutStatsReply` and `TimeoutBarrierReply` share the restart loop `ExpireXids`.
- The `*_sent` hooks that time a handshake or echo reply are operators on the timer set: `FeaturesRequestSent`, `GetConfigRequestSent` and `EchoRequestSent`.
- The `send_message` gate before the peer's HELLO is the operator `Gate`.
- `send_message_via_socket` is the operator `Transmit`.
- `try_to_connect` is the operator `TryToConnect`.

**Abstractions.**

- Time is abstract: any pending timer may fire at any moment. This covers every order of a timer against the socket events it races with.
- A message is its header type, its xid where the code correlates replies, and the one body field the code inspects: the HELLO version, or whether the FEATURES port list is malformed.
- A PACKET_IN is assumed to carry its in_port, as OF1.2 requires, so the `eOFmatchNotFound` path of `packet_in_rcvd` is not taken.

**Environment.**

- The switch (`PeerSendHello`, `PeerServe`, `PeerSendPacketIn`) answers each request, or stays silent if `PeerDrops` is TRUE. It may also close the socket at any time, which is `ReadFailed`.
- The application (`AppRequest`) sends STATS and BARRIER requests once it has been told the datapath is open.
- `Accept` replaces a destroyed passive cofdpt with a freshly accepted one.

**Bounds.** All bounds are CONSTANTS given in the cfg:

- `MaxPeerHellos` is the number of HELLOs per socket.
- `MaxConnects` is the number of reconnect attempts.
- `MaxQueue` is the number of frames in flight. It is enough for two outstanding requests, or for a PACKET_IN overtaking the handshake.
- `Xids` holds one or two xids, and two are what make an xid collision or a second outstanding request possible.

### `FrameChannel.tla`: what frame reassembly promises

FrameChannel is the abstract view of the reader contract (spec 4.1). `sent`
is the sequence of frames the peer wrote on the connection, and `got` the
frames handed on. `Deliver` hands on the oldest frame not yet handed on,
and only if its declared length is at least the header size `HDR`. `Renew`
starts a new connection with both empty. FrameChannel models no code.

### `FrameReader.tla` (cofdpt::handle_read) and `MC_FrameReader.tla`

FrameReader models the reassembly loop of `cofdpt::handle_read` against a
peer that writes frames, TCP that hands the bytes to the socket in chunks
of any size, and reconnection.

**State.**

- `fragment` is the `fragment` buffer together with `msg_bytes_read`: the bytes read so far, the buffer size `memlen`, and the length field once read.
- `nRead` and `nArrived` are how far the reader and TCP are in the byte stream.
- `sockOpen` is the socket, and `finSent` whether the peer has sent its FIN.
- `frames` is what the peer wrote on this connection, and `ep` the connection number.
- `delivered` (history) is what `handle_message` received.
- `overrun` records a read past the end of the buffer.

A byte is a record of its connection, its frame, its offset and its frame's
declared length. The reader looks only at the two length-field bytes. Two
bytes at buffer offsets 2 and 3 that are not the length field of one frame
give a value from `GarbageLens`.

**Actions.**

- `HandleRead` is one whole call of `handle_read`. The event loop runs it to completion, so it is one step. The while loop is the RECURSIVE operator `ReadLoop`, which returns every way the call may end: EAGAIN (the buffer is kept), a complete frame, end of stream, a read error, or an overrun.
- A negative read count (`msg_len - msg_bytes_read` with the length field below the bytes read) is undefined in effect. The build may fail it with EINVAL, or read what is there past the buffer. Both are outcomes.
- `FragmentAfter` is what the loop leaves in `fragment`. It is kept on EAGAIN, and also on a read error when the call started from a kept fragment, because `handle_closed` does not touch it.
- `PeerSend`, `Arrive` and `PeerClose` are the peer and TCP.
- `Reconnect` is the fresh socket an active cofdpt gets after `handle_closed` (`handle_connected`). The peer's stream starts again, but `fragment` is a member of the cofdpt and is left as it is.

**Refinement.** `Channel == INSTANCE FrameChannel WITH sent <- ..., got <- delivered`
maps the frames written to records `[f, len]`, and `ImplementsFrameChannel`
is `Channel!Spec` as a PROPERTY.

**Bounds.** `HDR = 8`. There are at most 2 frames per connection and 2
connections. Chunks are from 1 to 9 bytes. With lengths 8 and 9, frames end
on and past the header, and every split of header and body is reached.

### `PortTable.tla` (cofdpt::ports) and `MC_PortTable.tla`

PortTable models the port table of an active cofdpt against a switch whose
ports change at any time.

**State.**

- `ports` is `cofdpt::ports`, and `swPorts` the switch's ports. Each is a function from port to description, or `None`.
- `toCtl` is the FIFO of FEATURES replies and PORT_STATUS messages to the cofdpt. `toSw` is the FIFO of FEATURES_REQUESTs to the switch.
- `sockOpen` is the socket.
- Two history variables: `synced` (a FEATURES reply was read on this connection) and `lost` (a PORT_STATUS was dropped after that).

**Actions.**

- `FeaturesReplyRcvd` (`features_reply_rcvd`): the table is rebuilt from the reply (`Replaced`).
- `PortStatusRcvd` (`port_status_rcvd`): applies ADD to an absent port, and DELETE or MODIFY to a present one (`PortStatusApplied`). Any other PORT_STATUS changes nothing and is not handed on (`HandedOn`).
- `AppFeaturesRequest`: the application's `send_features_request`.
- `HandleClosed` (`handle_closed`): closes the socket, drops what is in flight, and leaves the table.
- `Reconnect`: the RECONNECT timer connects again, and the handshake sends FEATURES_REQUEST.
- The switch actions are `SwitchFeaturesReply` (a snapshot of its ports at the moment it reads the request) and `SwitchPortChange`. A change made while disconnected is reported to nobody.

The rest of `features_reply_rcvd` (dpid, timers, the state change) and the
HELLO exchange are in OFDpt. The switch sends HELLO first, so the
HELLO_RCVD gate of `handle_message` drops none of its reports.

**Bounds.** 2 ports and 2 descriptions, as model values. At most 3
messages in flight each way, 2 reconnects, and 1 extra FEATURES_REQUEST.
With 3 messages in flight, a reply can sit between two reports, and two
replies can be in flight at once. Two ports are enough for a reply that is
right about one port and stale about the other. The run checks a liveness
property, so it uses no symmetry: TLC's symmetry reduction is unsound for
liveness.

**Fairness.** `FairSpec` puts weak fairness on `FeaturesReplyRcvd`,
`PortStatusRcvd`, `Reconnect` and `SwitchFeaturesReply`. The event loop
runs a read handler while a message is readable, and fires a pending
RECONNECT timer. A switch answers a FEATURES_REQUEST it has read. Port
changes, closes and application requests get no fairness: they may stop.

### `RoleSpec.tla`: what role arbitration promises

RoleSpec is the abstract view of spec section 4.5. Its state is the set of attached controllers and their roles.

- `Attach(c)`: a controller joins with role EQUAL.
- `Grant(c, r)`: a controller is given the role it asked for. When r is MASTER, every other MASTER becomes SLAVE.

Refused and NOCHANGE requests are stuttering steps. RoleSpec models no code and has no map entries. RoleCore and RoleCtrl are each checked against it with `INSTANCE RoleSpec` as a PROPERTY.

### `RoleCore.tla` (crofcore role arbitration)

RoleCore models `crofcore::role_request_rcvd` and the MODE_DATAPATH branch of `handle_established`, which attaches a controller.

**State:**

- `genDefined` and `cachedGen` are `generation_is_defined` and `cached_generation_id`. The initial value -1 is `2^W - 1`.
- `role` is each crofctl's role.
- `reply` is the answer to the last request.

**Generation ids.** They are W-bit numbers compared by the signed wrap-around distance (`Distance`). `cofrole::distance` is not in the repository, so `Distance` is modelled from the spec's definition.

**Requests:**

- A stale MASTER or SLAVE request is refused and changes nothing.
- A stale EQUAL or NOCHANGE request keeps the cached id.
- Any other request caches its id.
- A MASTER request demotes the other masters (`Demoted`).

The refinement mapping is the identity on `attached` and `role`.

RoleCore has no MC module of its own. It is checked inside `Core`, where controllers attach through connections.

### `Core.tla` (crofcore) and `MC_Core.tla`

Core composes the crofcore connection handling with RoleCore. It uses `R == INSTANCE RoleCore`, which shares RoleCore's variables.

**State, per crofconn:**

- `phase`: free, accepting (the core is its environment) or established.
- `mode`: MODE_DATAPATH for `dpt_sockets`, MODE_CONTROLLER for `ctl_sockets`.
- `dpidOf`: the dpid its peer reported.
- `owner`: the endpoint it was added to.

**State, for the core:**

- `listeners`: the modes with a listening socket.
- `dpts` and `dptDpid`: the crofdpt objects and their dpids.
- `lastAsync`: the last async send.

**Actions:**

- `Listen(m)`: `listen`.
- `HandleReadEvent(m, c)`: `handle_read_event` creates a conn in the socket's mode.
- `HandleEstablished(c)`: routing. A MODE_CONTROLLER conn goes to the crofdpt of its dpid, and `add_dpt` makes a new one when `HasDpt` is false. A MODE_DATAPATH conn gets a new crofctl (`R!HandleEstablished`).
- `HandleAcceptFailed`, `HandleNegotiationFailed`, `HandleClosed`: delete a conn that is still accepting.
- `ConnClosed(c)`: an established conn closes and its endpoint drops it. This is modelled from spec 4.5, since crofchan is not in the repository.
- `RoleRequestRcvd`: a ROLE_REQUEST on an established controller.
- `SendAsync(kind)`: the three async senders. They reach every established controller, and raise NotConnected when there is none.

A controller whose connection closes stays in `rofctls`, keeping its role, as in the code.

### `RoleCtrl.tla` (cofctrl) and `MC_RoleCtrl.tla`

RoleCtrl models the role handling of the datapath-side `cofctrl` class:

- `role_request_rcvd`;
- the slave test of the five mod handlers, as one action `ModRcvd(c, k)`.

`CtrlOpen` is the constructor of a new cofctrl, and `CtrlClose` is its destructor, which leaves `ofctrl_list`. A controller that reconnects therefore starts with no cached generation id.

It differs from crofcore in three ways:

- Every controller has its own `role_initialized` and `cached_generation_id`.
- The distance `Dist` is computed in unsigned arithmetic modulo `2^W - 1`, with a wrap-around branch that adds the cached id.
- The requested role is stored as it came, NOCHANGE included, and the loop that demotes other masters runs for every request (`StoredRoles`).

The history variable `lastRole` keeps the last real role stored for each controller. `EffectiveRole` reads a stored NOCHANGE as that role, which is what NOCHANGE means in the spec.

The model also shows two behaviours that no run states:

- A MASTER that sent NOCHANGE escapes the demotion loop. This is the same line-334 cause that `RoleCtrl_nochange_slave` shows.
- A SLAVE or EQUAL request demotes the other masters. This is a hazard in PROJECT.json.

### Planned modules

1. **Core, further:** the crofctl async-config filter and `send` failures in the fan-out. crofctl is not in the repository, so these would be modelled from spec 4.5.
2. **OFDpt composed with Core:** one OFDpt instance per crofdpt.

## Runs

The OFDpt runs use `MC_OFDpt`. Its passing runs are:

| Run (cfg) | Checks | Bounds | Result |
|---|---|---|---|
| `OFDpt_passive.cfg` | TypeOK, HelloFirst, EchoArmed | passive; 2 xids; versions OF1.2 and OF1.3; well-formed and malformed FEATURES; 2 HELLOs; queue 2 | passes, about 4.1M states, 80 s |
| `OFDpt_active.cfg` | ReconnectScheduled | active; 1 xid; 1 reconnect | passes, about 1.5M states, 25 s (queue 1) |
| `OFDpt_liveness.cfg` | HandshakeCompletes, HandshakeStallReported under `FairSpec` | passive; 1 xid; the switch may drop any request; queue 2 | passes, about 11K states, 3 s |

`FairSpec` makes each socket handler and timer the event loop dispatches
weakly fair. This includes the FEATURES and GET_CONFIG reply timers: a
pending ciosrv timer stays pending until it fires or is cancelled. Whether
the switch answers is not made fair.

What the passing runs show:

- **HelloFirst:** the first frame on a socket is HELLO, or the HELLO_FAILED error.
- **EchoArmed:** once both HELLOs are exchanged, an ECHO request is always scheduled or being timed.
- **ReconnectScheduled:** an active cofdpt whose socket is closed has a reconnect pending.
- **HandshakeCompletes:** every open connection ends in `handle_dpt_open`, or is closed, as long as the switch has answered every handshake request on it.
- **HandshakeStallReported:** when the switch drops a FEATURES or GET_CONFIG request but keeps answering ECHO requests, the cofdpt waits in that state for good. Nothing re-sends the request: `COFDPT_TIMER_FEATURES_REQUEST` has a case in `handle_timeout`, but no code registers it. The property shows that the stall is at least reported: while the cofdpt waits there, the application gets that state's reply timeout.

The violation runs each check one property, and each is a finding in PROJECT.json:

| Run (cfg) | Property | What TLC shows |
|---|---|---|
| `OFDpt_xid_timer.cfg` | XidRequestsTimed | One STATS reply cancels the single reply timer while another xid is outstanding. That request never times out. |
| `OFDpt_active_stale_hello.cfg` | HelloFirst | The HELLO flags survive `handle_closed`. After a reconnect, FEATURES_REQUEST precedes HELLO. |

Three behaviours of cofdpt are recorded as hazards without a run, because a
sequential unit test reaches them:

- A duplicate HELLO on an established connection restarts the handshake.
- A malformed FEATURES reply does not lead to a reconnect.
- `try_to_connect` resets its counter at 4 before the `> 3` test, so the backoff never reaches its maximum.

For each property of a passing run, PROJECT.json names a mutant: an operator
in `OFDpt.tla` that changes one handler the way a plausible bug would. TLC
finds the property violated under the mutant:

| Mutant | Change | Property it breaks |
|---|---|---|
| `HelloRcvd_unguarded` | drops the HELLO_SENT test | HelloFirst |
| `HelloRcvd_wrongTimer` | registers the FEATURES_REQUEST timer id | TypeOK |
| `FeaturesRequestSent_noTimer` | `features_request_sent` registers no reply timer | HandshakeStallReported |
| `EchoReplyRcvd_noRearm` | does not schedule the next ECHO | EchoArmed |
| `HandleClosed_noReconnect` | skips `try_to_connect` | ReconnectScheduled |
| `TimeoutSendHello_helloOnly` | no handshake from the timer | HandshakeCompletes |

### Frame reassembly runs

Both use `MC_FrameReader`.

| Run (cfg) | Checks | Result |
|---|---|---|
| `FrameReader.cfg` | NoBufferOverrun, ImplementsFrameChannel, FramesDelivered under `FairSpec`; lengths 8 and 9 | passes, about 3.2K states, 20 s |
| `FrameReader_reset.cfg` | ImplementsFrameChannel; lengths 8 and 9; ECONNRESET possible | violated: a read error after EAGAIN keeps the partial frame, and the reconnected socket's frame is glued onto it |

What the passing run shows:

- **NoBufferOverrun:** no read writes past `mem`.
- **ImplementsFrameChannel:** whole frames are handed on in order, for every way the bytes are split.
- **FramesDelivered:** every frame that reaches the socket is handed on before the reader closes, under weak fairness of the read handler. The mutant `MsgLen_le` moves the header boundary by one byte, and a frame is then left undelivered.

With a declared length of 7 in `Lens`, TLC finds ImplementsFrameChannel
violated: the frame is handed on once 7 bytes are read, because
`handle_read` compares the length field only with the bytes read. The
spec's own test case for a declared length of 7 shows the same, so no run
is kept for it (PROJECT.json, hazard at cofdpt.cc:244).

Its mutants are:

| Mutant | Change | Property it breaks |
|---|---|---|
| `Resized_never` | the buffer is never enlarged to the length field | NoBufferOverrun |
| `FragmentAfter_noSave` | the buffer is not kept on EAGAIN | ImplementsFrameChannel |
| `MsgLen_le` | the header is read for up to and including 8 bytes | FramesDelivered |

### Port table run

| Run (cfg) | Checks | Result |
|---|---|---|
| `PortTable.cfg` (`MC_PortTable`) | PortsMirrored, NoPortStatusLost, PortsConverge | passes, about 88K states, 7 s |

- **PortsMirrored:** once a FEATURES reply was read on the open connection and nothing is in flight, `ports` equals the switch's ports. This holds whatever changed while the cofdpt was disconnected, and however reports and replies interleave.
- **NoPortStatusLost:** after that reply, every PORT_STATUS finds the port its reason needs and reaches `handle_port_status`.
- **PortsConverge:** if the switch eventually stops changing its ports and the connection eventually stays open, then `ports` eventually equals the switch's ports for good. `handle_closed` leaves the old table, and only the FEATURES_REQUEST sent by the new connection's handshake repairs it.

Before the reply, a stale table can drop a report. That report is then
neither handed on nor freed (a hazard in PROJECT.json).

| Mutant | Change | Property it breaks |
|---|---|---|
| `Replaced_merge` | the reply's ports are merged into the old table instead of replacing it | PortsMirrored |
| `PortStatusApplied_keep` | DELETE leaves the port in the table | NoPortStatusLost |
| `Reconnect_noRequest` | the new connection's handshake sends no FEATURES_REQUEST | PortsConverge |

### Role arbitration runs

The passing runs use 3-bit generation ids (all eight values). With three bits, wrap-around, the half-range boundary and every stale case are reachable.

| Run (cfg) | Module | Checks | Result |
|---|---|---|---|
| `Core.cfg` | `MC_Core` | TypeOK, AtMostOneMaster, ImplementsRoleSpec; two controllers, two conns, one switch and two crofdpt slots, 3 role requests | passes, about 321K states, about 1 min |
| `RoleCtrl.cfg` | `MC_RoleCtrl` | AtMostOneMaster; three controllers that open and close; no NOCHANGE requests; 5 requests | passes, about 1.3M states, 70 s |

The properties are:

- **AtMostOneMaster:** no two attached controllers hold MASTER.
- **ImplementsRoleSpec:** every step is a RoleSpec step, or a stuttering step.

Two properties are not checked by these passing runs, because they only
restate a guard:

- A property that no two crofdpt objects share a dpid would restate the
  `has_dpt` guard of `handle_established`. That handler is one atomic step
  of the event loop, and no code in the repository removes or re-keys a
  crofdpt.
- A property that the cached generation id of crofcore only moves forward
  would use the same signed distance as the staleness test, because
  `cofrole::distance` is not in the repository. It would hold by the shape
  of the guard.

SlaveCannotModify is checked only where NOCHANGE can be sent
(`RoleCtrl_nochange_slave.cfg`). Without NOCHANGE it would restate the
slave test of the mod handlers.

The cofctrl violation runs use two controllers. Each is a finding in PROJECT.json:

| Run (cfg) | Property | What TLC shows |
|---|---|---|
| `RoleCtrl_nochange_slave.cfg` | SlaveCannotModify | A SLAVE sends NOCHANGE, and its next mod request is served. |
| `RoleCtrl_stale.cfg` | GenerationMonotone | With id 2 cached, a request with id 1 is accepted through the `+ cached` wrap branch. |

The mutants of the role modules are:

| Mutant | Change | Property it breaks |
|---|---|---|
| `NewRole_storeAny` (RoleCore) | stores NOCHANGE as a role | TypeOK |
| `Demoted_none` (RoleCore) | leaves out the demotion loop | AtMostOneMaster |
| `NewRole_demoteAlways` (RoleCore) | demotes on every request | ImplementsRoleSpec |
| `StoredRoles_noDemote` (RoleCtrl) | leaves out the demotion loop | AtMostOneMaster |

## Fairness

`FairSpec` assumes weak fairness of the following:

- **ReadMessage, HandleConnected, and the SEND_HELLO, SEND_ECHO_REQUEST, RECONNECT, FEATURES_REPLY and GET_CONFIG_REPLY timers.** The ciosrv event loop dispatches every readable socket and every expired timer. A pending timer stays pending until it fires or is cancelled, and these timers are registered with finite timeouts. The FEATURES_REPLY and GET_CONFIG_REPLY timeouts only notify the application, so making them fair closes no connection.
- **The switch reading its socket and sending its HELLO.** These are assumptions about a correct peer.

There is no fairness on the following:

- **The STATS and BARRIER reply timeouts and the ECHO_REPLY timeout.** The ECHO_REPLY timeout closes the socket, and a fair one would close every connection eventually. No liveness property is about the STATS and BARRIER timeouts.
- **ReadFailed.** A close by the peer is not forced.
- **AppRequest.** The application is not forced to send requests.

PortTable's `FairSpec` is described with that module.

FrameReader's `FairSpec` assumes weak fairness of `HandleRead`, because the event loop dispatches a readable socket, and of `Arrive`, because TCP delivers the bytes written. There is no fairness on the peer writing or closing.

## Not modelled

- cofbucketcounter: a header-only data class with getters and setters.
  `pack` and `unpack` are declared, but their bodies are not in the
  repository, and nothing in `src/` uses the class.
- The tcpserver example is written against a crofbase API that this
  repository's `crofbase.h` does not declare: `dpt_sock_listen`,
  `handle_dpt_open(crofdpt&)`, `crofdpt` and `cdptid`. It cannot be
  translated against the code that is here. Its one piece of control
  logic, stopping on `handle_dpt_close`, is the application side of
  OFDpt's `dpt_close` upcall.
- Socket I/O in `crofcore::listen` and `handle_read_event`.
- In cofctrl, what a served mod does to the flow, group and port tables. Only the slave policy is modelled.
- The crofctl side of the async fan-out of crofcore. This is planned, as listed above.
- In `handle_read`: the `eOFpacketInval` catch, which only `handle_message` can reach, and the ECONNREFUSED branch, which a read on a connected socket does not return.
- The message codecs: only the fields the core inspects are kept.
- In cofdpt, the bookkeeping of flow, group and table mods and the `fsp_*` calls. They only send messages or log.
- `cofdpt::port_mod_sent`, which would update a cofport optimistically. No code in the repository calls it: `send_message` treats PORT_MOD as asynchronous, with no hook. `find_cofport` only reads the table.
- `crofbase.h`: declarations of the upcalls, whose default bodies delete the message. Only `send_features_request` is an action (PortTable).
