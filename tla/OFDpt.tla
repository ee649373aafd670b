-------------------------------- MODULE OFDpt --------------------------------
(***************************************************************************)
(* One controller-side datapath connection: class cofdpt                   *)
(* (src/src/rofl/common/openflow/cofdpt.cc).                               *)
(*                                                                         *)
(* The cofdpt drives the OpenFlow control channel to one switch: the HELLO *)
(* exchange, the FEATURES -> GET_CONFIG -> TABLE_STATS handshake that ends *)
(* in rofbase->handle_dpt_open(), ECHO liveness probing, the per-type xid  *)
(* stores for STATS and BARRIER requests, and reconnection of actively     *)
(* opened sockets.  Every handler runs to completion on the event loop, so *)
(* each handler is one atomic action.  Time is abstracted: a pending       *)
(* timer may expire at any moment, which covers every ordering of a timer  *)
(* against the socket events it races with.                                *)
(*                                                                         *)
(* The switch at the other end and the application calling rofbase are    *)
(* the environment: the switch answers requests (or, if PeerDrops, stays   *)
(* silent), sends its HELLO, PACKET_IN events and may close the socket;    *)
(* the application sends STATS and BARRIER requests once it was told the   *)
(* datapath is open.  Frame reassembly is modelled in FrameReader; here a  *)
(* message arrives whole.                                                  *)
(***************************************************************************)
EXTENDS Naturals, Sequences, FiniteSets

CONSTANTS
    Active,         \* COFDPT_FLAG_ACTIVE_SOCKET: this cofdpt connected out
    Xids,           \* xids the rofbase allocator may hand out
    PeerVersions,   \* protocol versions the switch may put in its HELLO
    FeaturesBodies, \* "ports_ok", and "ports_malformed" if the switch may send bad ports
    PeerDrops,      \* TRUE: the switch may leave a request unanswered
    MaxPeerHellos,  \* bound: HELLOs the switch sends on one socket
    MaxConnects,    \* bound: connection attempts after the first (active side)
    MaxQueue        \* bound: messages queued in one direction by PACKET_IN / app requests

OFP12 == "OFP12_VERSION" \* the only version cofdpt accepts
NoXid == 0
START == "RECONNECT_START_TIMEOUT"
MAX   == "RECONNECT_MAX_TIMEOUT"

ASSUME Active \in BOOLEAN /\ PeerDrops \in BOOLEAN
ASSUME NoXid \notin Xids /\ Xids # {}

VARIABLES
    state,            \* cfsm state of the cofdpt
    flags,            \* COFDPT_FLAG_HELLO_SENT / COFDPT_FLAG_HELLO_RCVD
    timers,           \* pending ciosrv timers of this cofdpt
    sock,             \* csocket: "connecting", "open" or "closed"
    out,              \* frames written to the socket, not yet read by the switch
    in,               \* frames sent by the switch, not yet read by handle_read
    firstSent,        \* type of the first frame written on the current socket
    xidstore,         \* xidstore[OFPT_STATS_REQUEST] / xidstore[OFPT_BARRIER_REQUEST]
    reconnectIn,      \* reconnect_in_seconds
    reconnectCounter, \* reconnect_counter
    nOpen,            \* calls of rofbase->handle_dpt_open(this)
    nClose,           \* calls of rofbase->handle_dpt_close(this)
    upcall,           \* the application upcall made by the last step
    alive,            \* FALSE once a passive cofdpt was handed back to rofbase
    connects,         \* reconnection attempts made (bounded by MaxConnects)
    peerHellos,       \* HELLOs the switch sent on the current socket
    dropped           \* history: the switch left a FEATURES, GET_CONFIG or
                      \* STATS request of the current socket unanswered

vars == <<state, flags, timers, sock, out, in, firstSent, xidstore, reconnectIn,
          reconnectCounter, nOpen, nClose, upcall, alive, connects, peerHellos, dropped>>

States == {"DISCONNECTED", "WAIT_FEATURES", "WAIT_GET_CONFIG",
           "WAIT_TABLE_STATS", "CONNECTED"}
Timers == {"SEND_HELLO", "FEATURES_REPLY", "GET_CONFIG_REPLY", "STATS_REPLY",
           "BARRIER_REPLY", "RECONNECT", "SEND_ECHO_REQUEST", "ECHO_REPLY"}
EchoTimers == {"ECHO_REPLY", "SEND_ECHO_REQUEST"}
MsgTypes == {"HELLO", "ERROR", "ECHO_REQUEST", "ECHO_REPLY", "FEATURES_REQUEST",
             "FEATURES_REPLY", "GET_CONFIG_REQUEST", "GET_CONFIG_REPLY",
             "STATS_REQUEST", "STATS_REPLY", "BARRIER_REQUEST", "BARRIER_REPLY",
             "PACKET_IN"}
Upcalls == {"none", "dpt_open", "dpt_close", "packet_in", "get_config_reply",
            "stats_reply", "barrier_reply", "request_timeout",
            "features_reply_timeout", "get_config_reply_timeout"}

\* The upcall by which each reply timer of the handshake tells the
\* application: rofbase->handle_features_reply_timeout and
\* rofbase->handle_get_config_reply_timeout.
StallUpcall == [WAIT_FEATURES   |-> "features_reply_timeout",
                WAIT_GET_CONFIG |-> "get_config_reply_timeout"]

\* A message is abstracted to its header type, its xid where the code
\* correlates it, and the one body field the code inspects.
Msg(t)      == [type |-> t, xid |-> NoXid, body |-> "none"]
Req(t, x)   == [type |-> t, xid |-> x, body |-> "none"]
Hello(v)    == [type |-> "HELLO", xid |-> NoXid, body |-> v]
Messages    == [type : MsgTypes, xid : Xids \cup {NoXid},
                body : {"none"} \cup PeerVersions \cup {OFP12} \cup FeaturesBodies]

\* The reply a switch gives to each request type it reads.
ReplyTo == [FEATURES_REQUEST |-> "FEATURES_REPLY", GET_CONFIG_REQUEST |-> "GET_CONFIG_REPLY",
            STATS_REQUEST |-> "STATS_REPLY", BARRIER_REQUEST |-> "BARRIER_REPLY",
            ECHO_REQUEST |-> "ECHO_REPLY"]

TypeOK ==
    /\ state \in States
    /\ flags \subseteq {"HELLO_SENT", "HELLO_RCVD"}
    /\ timers \subseteq Timers
    /\ sock \in {"connecting", "open", "closed"}
    /\ out \in Seq(Messages) /\ in \in Seq(Messages)
    /\ firstSent \in MsgTypes \cup {"none"}
    /\ xidstore \in [{"STATS", "BARRIER"} -> SUBSET Xids]
    /\ reconnectIn \in {START, MAX}
    /\ reconnectCounter \in 0..4
    /\ nOpen \in Nat /\ nClose \in Nat
    /\ upcall \in Upcalls
    /\ alive \in BOOLEAN
    /\ connects \in 0..MaxConnects
    /\ peerHellos \in 0..MaxPeerHellos
    /\ dropped \in BOOLEAN

-----------------------------------------------------------------------------
(* Helpers shared by the handlers.                                         *)

\* send_message_via_socket: the packed frames go to the socket; on a socket
\* that is not connected they are lost.
Transmit(ms) ==
    /\ out' = IF sock = "open" THEN out \o ms ELSE out
    /\ firstSent' = IF sock = "open" /\ firstSent = "none" /\ ms # <<>>
                    THEN ms[1].type ELSE firstSent

\* send_message: before the peer's HELLO only a HELLO may leave.
Gate(ms) == SelectSeq(ms, LAMBDA m : "HELLO_RCVD" \in flags \/ m.type = "HELLO")

\* try_to_connect(reset_timeout), given the timer set t the caller left.
TryToConnect(t, reset) ==
    IF "RECONNECT" \in t
    THEN /\ timers' = t
         /\ UNCHANGED <<reconnectIn, reconnectCounter>>
    ELSE LET wrap == reset \/ reconnectCounter = 4
             c0   == IF wrap THEN 0 ELSE reconnectCounter
             in0  == IF wrap THEN START ELSE reconnectIn
         IN /\ reconnectIn' = IF c0 > 3 THEN MAX ELSE in0
            /\ timers' = t \cup {"RECONNECT"}
            /\ reconnectCounter' = c0 + 1

\* rofbase->handle_dpt_close(this): the application is told; a passively
\* accepted cofdpt is then destroyed, an active one stays to reconnect.
DptClose ==
    /\ nClose' = nClose + 1
    /\ upcall' = "dpt_close"
    /\ alive' = Active

\* Mutant: handle_closed without the try_to_connect of an active socket.
HandleClosed_noReconnect(t) ==
    /\ sock' = "closed"
    /\ timers' = t \ EchoTimers
    /\ IF Active THEN /\ upcall' = "none" /\ UNCHANGED <<nClose, alive>>
                 ELSE DptClose
    /\ UNCHANGED <<reconnectIn, reconnectCounter>>

\* handle_closed(), with t the timers left by the caller.
HandleClosed(t) ==
    /\ sock' = "closed"
    /\ IF Active
       THEN /\ TryToConnect(t \ EchoTimers, FALSE)
            /\ upcall' = "none"
            /\ UNCHANGED <<nClose, alive>>
       ELSE /\ timers' = t \ EchoTimers
            /\ DptClose
            /\ UNCHANGED <<reconnectIn, reconnectCounter>>

\* stats_request_sent / barrier_request_sent for a request with xid x, and
\* the request itself; an xid already in the store raises eXidStoreXidBusy,
\* which is swallowed: the request is sent but neither stored nor timed.
XidRequest(kind, x, t, timer) ==
    /\ IF x \in xidstore[kind]
       THEN /\ timers' = t /\ UNCHANGED xidstore
       ELSE /\ xidstore' = [xidstore EXCEPT ![kind] = @ \cup {x}]
            /\ timers' = t \cup {timer}

\* Mutant: features_request_sent without the FEATURES_REPLY timer.
FeaturesRequestSent_noTimer(t) == t

\* features_request_sent, get_config_request_sent and echo_request_sent:
\* the hooks send_message calls after each request, which time its reply.
FeaturesRequestSent(t) == t \cup {"FEATURES_REPLY"}
GetConfigRequestSent(t) == t \cup {"GET_CONFIG_REPLY"}
EchoRequestSent(t) == t \cup {"ECHO_REPLY"}

-----------------------------------------------------------------------------
Init ==
    /\ state = "DISCONNECTED"
    /\ flags = {}
    /\ timers = IF Active THEN {} ELSE {"SEND_HELLO"}
    /\ sock = IF Active THEN "connecting" ELSE "open"
    /\ out = <<>> /\ in = <<>>
    /\ firstSent = "none"
    /\ xidstore = [k \in {"STATS", "BARRIER"} |-> {}]
    /\ reconnectIn = START /\ reconnectCounter = 0
    /\ nOpen = 0 /\ nClose = 0
    /\ upcall = "none"
    /\ alive = TRUE
    /\ connects = 0
    /\ peerHellos = 0
    /\ dropped = FALSE

-----------------------------------------------------------------------------
(* Socket events.                                                          *)

\* handle_connected: the active connect succeeded; a HELLO is due at once.
HandleConnected ==
    /\ alive /\ sock = "connecting"
    /\ sock' = "open"
    /\ timers' = timers \cup {"SEND_HELLO"}
    /\ out' = <<>> /\ in' = <<>> /\ firstSent' = "none" /\ peerHellos' = 0
    /\ dropped' = FALSE
    /\ upcall' = "none"
    /\ UNCHANGED <<state, flags, xidstore, reconnectIn, reconnectCounter,
                   nOpen, nClose, alive, connects>>

\* handle_connect_refused
HandleConnectRefused ==
    /\ alive /\ sock = "connecting"
    /\ sock' = "closed"
    /\ state' = "DISCONNECTED"
    /\ IF Active THEN TryToConnect(timers, FALSE)
                 ELSE UNCHANGED <<timers, reconnectIn, reconnectCounter>>
    /\ upcall' = "none"
    /\ UNCHANGED <<flags, out, in, firstSent, xidstore, nOpen, nClose, alive,
                   connects, peerHellos, dropped>>

\* handle_read ending in handle_closed: the switch closed the socket (read
\* returns 0), the read failed (ECONNRESET and the default errno branch),
\* or the frame was invalid (eOFpacketInval).  The cfsm state is left as is.
ReadFailed ==
    /\ alive /\ sock = "open"
    /\ HandleClosed(timers)
    /\ UNCHANGED <<state, flags, out, in, firstSent, xidstore, nOpen, connects,
                   peerHellos, dropped>>

-----------------------------------------------------------------------------
(* handle_message and the *_rcvd handlers it dispatches to, for a message  *)
(* m read whole from the socket.                                           *)

\* Mutant: hello_rcvd starting the handshake without testing HELLO_SENT.
HelloRcvd_unguarded(m) ==
    IF m.body # OFP12
    THEN /\ state' = "DISCONNECTED"
         /\ Transmit(<<Msg("ERROR")>>)
         /\ HandleClosed(timers)
         /\ UNCHANGED <<flags, xidstore, nOpen>>
    ELSE /\ flags' = flags \cup {"HELLO_RCVD"}
         /\ state' = "WAIT_FEATURES"
         /\ Transmit(<<Msg("FEATURES_REQUEST")>>)
         /\ timers' = timers \cup {"FEATURES_REPLY", "SEND_ECHO_REQUEST"}
         /\ upcall' = "none"
         /\ UNCHANGED <<sock, xidstore, reconnectIn, reconnectCounter, nOpen,
                        nClose, alive>>

\* Mutant: hello_rcvd registering COFDPT_TIMER_FEATURES_REQUEST, an id
\* handle_timeout knows, in place of COFDPT_TIMER_FEATURES_REPLY.
HelloRcvd_wrongTimer(m) ==
    IF m.body # OFP12
    THEN /\ state' = "DISCONNECTED"
         /\ Transmit(<<Msg("ERROR")>>)
         /\ HandleClosed(timers)
         /\ UNCHANGED <<flags, xidstore, nOpen>>
    ELSE /\ flags' = flags \cup {"HELLO_RCVD"}
         /\ state' = "WAIT_FEATURES"
         /\ IF "HELLO_SENT" \in flags
            THEN /\ Transmit(<<Msg("FEATURES_REQUEST")>>)
                 /\ timers' = timers \cup {"FEATURES_REQUEST", "SEND_ECHO_REQUEST"}
            ELSE UNCHANGED <<out, firstSent, timers>>
         /\ upcall' = "none"
         /\ UNCHANGED <<sock, xidstore, reconnectIn, reconnectCounter, nOpen,
                        nClose, alive>>

\* hello_rcvd
HelloRcvd(m) ==
    IF m.body # OFP12
    THEN \* HELLO_FAILED/INCOMPATIBLE goes out unguarded, then handle_closed
         /\ state' = "DISCONNECTED"
         /\ Transmit(<<Msg("ERROR")>>)
         /\ HandleClosed(timers)
         /\ UNCHANGED <<flags, xidstore, nOpen>>
    ELSE /\ flags' = flags \cup {"HELLO_RCVD"}
         /\ state' = "WAIT_FEATURES"
         /\ IF "HELLO_SENT" \in flags
            THEN /\ Transmit(<<Msg("FEATURES_REQUEST")>>)
                 /\ timers' = FeaturesRequestSent(timers) \cup {"SEND_ECHO_REQUEST"}
            ELSE UNCHANGED <<out, firstSent, timers>>
         /\ upcall' = "none"
         /\ UNCHANGED <<sock, xidstore, reconnectIn, reconnectCounter, nOpen,
                        nClose, alive>>

\* echo_request_rcvd: the ECHO_REPLY carries the request's body back.
EchoRequestRcvd(m) ==
    /\ Transmit(Gate(<<Msg("ECHO_REPLY")>>))
    /\ upcall' = "none"
    /\ UNCHANGED <<state, flags, timers, sock, xidstore, reconnectIn,
                   reconnectCounter, nOpen, nClose, alive>>

\* Mutant: echo_reply_rcvd cancelling the reply timer without scheduling
\* the next ECHO request.
EchoReplyRcvd_noRearm(m) ==
    /\ timers' = timers \ {"ECHO_REPLY"}
    /\ upcall' = "none"
    /\ UNCHANGED <<state, flags, sock, out, firstSent, xidstore, reconnectIn,
                   reconnectCounter, nOpen, nClose, alive>>

\* echo_reply_rcvd
EchoReplyRcvd(m) ==
    /\ timers' = (timers \ {"ECHO_REPLY"}) \cup {"SEND_ECHO_REQUEST"}
    /\ upcall' = "none"
    /\ UNCHANGED <<state, flags, sock, out, firstSent, xidstore, reconnectIn,
                   reconnectCounter, nOpen, nClose, alive>>

\* features_reply_rcvd; a malformed port list (eOFportMalformed) closes the
\* socket and reports the datapath closed, without handle_closed.
FeaturesReplyRcvd(m) ==
    LET t == timers \ {"FEATURES_REPLY"} IN
    IF m.body = "ports_malformed"
    THEN /\ sock' = "closed"
         /\ state' = "DISCONNECTED"
         /\ timers' = t
         /\ DptClose
         /\ UNCHANGED <<flags, out, firstSent, xidstore, reconnectIn,
                        reconnectCounter, nOpen>>
    ELSE /\ IF state = "WAIT_FEATURES"
            THEN /\ Transmit(Gate(<<Msg("GET_CONFIG_REQUEST")>>))
                 /\ timers' = GetConfigRequestSent(t)
                 /\ state' = "WAIT_GET_CONFIG"
            ELSE /\ timers' = t
                 /\ UNCHANGED <<out, firstSent, state>>
         /\ upcall' = "none"
         /\ UNCHANGED <<flags, sock, xidstore, reconnectIn, reconnectCounter,
                        nOpen, nClose, alive>>

\* get_config_reply_rcvd: the reply goes to the application; during the
\* handshake the TABLE stats request follows (send_stats_request draws an xid).
GetConfigReplyRcvd(m) ==
    LET t == timers \ {"GET_CONFIG_REPLY"} IN
    /\ IF state = "WAIT_GET_CONFIG"
       THEN \E x \in Xids :
               /\ XidRequest("STATS", x, t, "STATS_REPLY")
               /\ Transmit(Gate(<<Req("STATS_REQUEST", x)>>))
               /\ state' = "WAIT_TABLE_STATS"
       ELSE /\ timers' = t
            /\ UNCHANGED <<xidstore, out, firstSent, state>>
    /\ upcall' = "get_config_reply"
    /\ UNCHANGED <<flags, sock, reconnectIn, reconnectCounter, nOpen, nClose, alive>>

\* stats_reply_rcvd: cancels the one STATS_REPLY timer, whatever else is
\* still outstanding; the first stats reply of the handshake opens the
\* datapath to the application.
StatsReplyRcvd(m) ==
    /\ timers' = timers \ {"STATS_REPLY"}
    /\ xidstore' = [xidstore EXCEPT !["STATS"] = @ \ {m.xid}]
    /\ IF state = "WAIT_TABLE_STATS"
       THEN /\ state' = "CONNECTED"
            /\ nOpen' = nOpen + 1
            /\ upcall' = "dpt_open"
       ELSE /\ upcall' = "stats_reply"
            /\ UNCHANGED <<state, nOpen>>
    /\ UNCHANGED <<flags, sock, out, firstSent, reconnectIn, reconnectCounter,
                   nClose, alive>>

\* barrier_reply_rcvd
BarrierReplyRcvd(m) ==
    /\ timers' = timers \ {"BARRIER_REPLY"}
    /\ xidstore' = [xidstore EXCEPT !["BARRIER"] = @ \ {m.xid}]
    /\ upcall' = "barrier_reply"
    /\ UNCHANGED <<state, flags, sock, out, firstSent, reconnectIn,
                   reconnectCounter, nOpen, nClose, alive>>

\* packet_in_rcvd: handed to rofbase->handle_packet_in.
PacketInRcvd(m) ==
    /\ upcall' = "packet_in"
    /\ UNCHANGED <<state, flags, timers, sock, out, firstSent, xidstore,
                   reconnectIn, reconnectCounter, nOpen, nClose, alive>>

\* A message dropped without effect.
Dropped ==
    /\ upcall' = "none"
    /\ UNCHANGED <<state, flags, timers, sock, out, firstSent, xidstore,
                   reconnectIn, reconnectCounter, nOpen, nClose, alive>>

\* handle_message: before the peer's HELLO every other message is dropped.
HandleMessage(m) ==
    IF "HELLO_RCVD" \notin flags /\ m.type # "HELLO" THEN Dropped
    ELSE CASE m.type = "HELLO"            -> HelloRcvd(m)
           [] m.type = "ECHO_REQUEST"     -> EchoRequestRcvd(m)
           [] m.type = "ECHO_REPLY"       -> EchoReplyRcvd(m)
           [] m.type = "FEATURES_REPLY"   -> FeaturesReplyRcvd(m)
           [] m.type = "GET_CONFIG_REPLY" -> GetConfigReplyRcvd(m)
           [] m.type = "STATS_REPLY"      -> StatsReplyRcvd(m)
           [] m.type = "BARRIER_REPLY"    -> BarrierReplyRcvd(m)
           [] m.type = "PACKET_IN"        -> PacketInRcvd(m)
           [] OTHER                       -> Dropped

\* handle_read delivering one complete frame.
ReadMessage ==
    /\ alive /\ sock = "open" /\ in # <<>>
    /\ in' = Tail(in)
    /\ HandleMessage(Head(in))
    /\ UNCHANGED <<connects, peerHellos, dropped>>

-----------------------------------------------------------------------------
(* handle_timeout: one action per timer.  A fired timer is no longer       *)
(* pending unless the handler registers it again.                          *)

\* Mutant: handle_timeout(SEND_HELLO) sending only the HELLO.
TimeoutSendHello_helloOnly ==
    /\ alive /\ "SEND_HELLO" \in timers
    /\ flags' = flags \cup {"HELLO_SENT"}
    /\ Transmit(<<Msg("HELLO")>>)
    /\ timers' = timers \ {"SEND_HELLO"}
    /\ upcall' = "none"
    /\ UNCHANGED <<state, sock, in, xidstore, reconnectIn, reconnectCounter,
                   nOpen, nClose, alive, connects, peerHellos, dropped>>

\* COFDPT_TIMER_SEND_HELLO: send our HELLO; if the peer's HELLO is already
\* in, the handshake and the echo probing start here.
TimeoutSendHello ==
    /\ alive /\ "SEND_HELLO" \in timers
    /\ flags' = flags \cup {"HELLO_SENT"}
    /\ IF "HELLO_RCVD" \in flags
       THEN /\ Transmit(<<Msg("HELLO"), Msg("FEATURES_REQUEST"), Msg("ECHO_REQUEST")>>)
            /\ timers' = EchoRequestSent(FeaturesRequestSent(timers \ {"SEND_HELLO"}))
       ELSE /\ Transmit(<<Msg("HELLO")>>)
            /\ timers' = timers \ {"SEND_HELLO"}
    /\ upcall' = "none"
    /\ UNCHANGED <<state, sock, in, xidstore, reconnectIn, reconnectCounter,
                   nOpen, nClose, alive, connects, peerHellos, dropped>>

\* COFDPT_TIMER_FEATURES_REPLY / _GET_CONFIG_REPLY: only the application is
\* told (handle_features_reply_timeout, handle_get_config_reply_timeout).
TimeoutHandshakeReply ==
    /\ alive
    /\ \E tm \in {"FEATURES_REPLY", "GET_CONFIG_REPLY"} \cap timers :
          /\ timers' = timers \ {tm}
          /\ upcall' = IF tm = "FEATURES_REPLY" THEN "features_reply_timeout"
                                               ELSE "get_config_reply_timeout"
    /\ UNCHANGED <<state, flags, sock, out, in, firstSent, xidstore, reconnectIn,
                   reconnectCounter, nOpen, nClose, alive, connects, peerHellos, dropped>>

\* The restart loop of handle_stats_reply_timeout and
\* handle_barrier_reply_timeout: every expired entry of the kind is reported
\* and removed; which entries have expired is left open (time is abstract).
\* The timer is re-armed because the outer xidstore map is not empty once a
\* request type was used.
ExpireXids(kind, timer) ==
    /\ alive /\ timer \in timers
    /\ \E expired \in SUBSET xidstore[kind] :
         /\ xidstore' = [xidstore EXCEPT ![kind] = @ \ expired]
         /\ upcall' = IF expired = {} THEN "none" ELSE "request_timeout"

\* COFDPT_TIMER_STATS_REPLY: handle_stats_reply_timeout.
TimeoutStatsReply ==
    /\ ExpireXids("STATS", "STATS_REPLY")
    /\ UNCHANGED <<state, flags, timers, sock, out, in, firstSent, reconnectIn,
                   reconnectCounter, nOpen, nClose, alive, connects, peerHellos, dropped>>

\* COFDPT_TIMER_BARRIER_REPLY: handle_barrier_reply_timeout.
TimeoutBarrierReply ==
    /\ ExpireXids("BARRIER", "BARRIER_REPLY")
    /\ UNCHANGED <<state, flags, timers, sock, out, in, firstSent, reconnectIn,
                   reconnectCounter, nOpen, nClose, alive, connects, peerHellos, dropped>>

\* COFDPT_TIMER_RECONNECT: socket->cconnect() to the same peer.
TimeoutReconnect ==
    /\ alive /\ "RECONNECT" \in timers
    /\ connects < MaxConnects
    /\ timers' = timers \ {"RECONNECT"}
    /\ sock' = "connecting"
    /\ connects' = connects + 1
    /\ upcall' = "none"
    /\ UNCHANGED <<state, flags, out, in, firstSent, xidstore, reconnectIn,
                   reconnectCounter, nOpen, nClose, alive, peerHellos, dropped>>

\* COFDPT_TIMER_SEND_ECHO_REQUEST: send_echo_request -> echo_request_sent.
TimeoutSendEchoRequest ==
    /\ alive /\ "SEND_ECHO_REQUEST" \in timers
    /\ LET ms == Gate(<<Msg("ECHO_REQUEST")>>) IN
         /\ Transmit(ms)
         /\ timers' = IF ms = <<>> THEN timers \ {"SEND_ECHO_REQUEST"}
                       ELSE EchoRequestSent(timers \ {"SEND_ECHO_REQUEST"})
    /\ upcall' = "none"
    /\ UNCHANGED <<state, flags, sock, in, xidstore, reconnectIn, reconnectCounter,
                   nOpen, nClose, alive, connects, peerHellos, dropped>>

\* COFDPT_TIMER_ECHO_REPLY: handle_echo_reply_timeout closes the socket,
\* reconnects an active cofdpt from the start timeout, and reports the
\* datapath closed in either case.
TimeoutEchoReply ==
    /\ alive /\ "ECHO_REPLY" \in timers
    /\ sock' = "closed"
    /\ state' = "DISCONNECTED"
    /\ IF Active THEN TryToConnect(timers \ {"ECHO_REPLY"}, TRUE)
                 ELSE /\ timers' = timers \ {"ECHO_REPLY"}
                      /\ UNCHANGED <<reconnectIn, reconnectCounter>>
    /\ DptClose
    /\ UNCHANGED <<flags, out, in, firstSent, xidstore, nOpen, connects, peerHellos, dropped>>

-----------------------------------------------------------------------------
(* The application: requests through rofbase->send_stats_request and      *)
(* send_barrier_request, on a datapath it was told is open.               *)

AppRequest ==
    /\ alive /\ nOpen > nClose /\ Len(out) + Len(in) < MaxQueue
    /\ \E kind \in {"STATS", "BARRIER"}, x \in Xids :
         LET ms == Gate(<<Req(kind \o "_REQUEST", x)>>) IN
         /\ IF ms = <<>>
            THEN UNCHANGED <<timers, xidstore>>
            ELSE XidRequest(kind, x, timers, kind \o "_REPLY")
         /\ Transmit(ms)
    /\ upcall' = "none"
    /\ UNCHANGED <<state, flags, sock, in, reconnectIn, reconnectCounter, nOpen,
                   nClose, alive, connects, peerHellos, dropped>>

\* rofbase accepts a new connection on its listening socket: a fresh
\* passive cofdpt (constructor with newsd) replaces the destroyed one.
Accept ==
    /\ ~alive /\ ~Active
    /\ state' = "DISCONNECTED" /\ flags' = {} /\ timers' = {"SEND_HELLO"}
    /\ sock' = "open" /\ out' = <<>> /\ in' = <<>> /\ firstSent' = "none"
    /\ xidstore' = [k \in {"STATS", "BARRIER"} |-> {}]
    /\ reconnectIn' = START /\ reconnectCounter' = 0
    /\ nOpen' = 0 /\ nClose' = 0 /\ upcall' = "none" /\ alive' = TRUE
    /\ connects' = 0 /\ peerHellos' = 0 /\ dropped' = FALSE

-----------------------------------------------------------------------------
(* The switch.                                                             *)

PeerSendHello ==
    /\ alive /\ sock = "open" /\ peerHellos < MaxPeerHellos
    /\ \E v \in PeerVersions : in' = Append(in, Hello(v))
    /\ peerHellos' = peerHellos + 1
    /\ upcall' = "none"
    /\ UNCHANGED <<state, flags, timers, sock, out, firstSent, xidstore, reconnectIn,
                   reconnectCounter, nOpen, nClose, alive, connects, dropped>>

\* Requests whose loss stops the handshake (an unanswered ECHO request
\* does not: its reply timer is not needed for progress).
HandshakeRequests == {"FEATURES_REQUEST", "GET_CONFIG_REQUEST", "STATS_REQUEST"}

\* The switch reads our next frame and answers it, or (PeerDrops) not.
PeerServe ==
    /\ alive /\ sock = "open" /\ out # <<>>
    /\ out' = Tail(out)
    /\ LET m == Head(out) IN
       IF m.type \in DOMAIN ReplyTo
       THEN \/ /\ \E b \in (IF m.type = "FEATURES_REQUEST" THEN FeaturesBodies ELSE {"none"}) :
                    in' = Append(in, [type |-> ReplyTo[m.type], xid |-> m.xid, body |-> b])
               /\ UNCHANGED dropped
            \/ /\ PeerDrops /\ UNCHANGED in
               /\ dropped' = (dropped \/ m.type \in HandshakeRequests)
       ELSE UNCHANGED <<in, dropped>>
    /\ upcall' = "none"
    /\ UNCHANGED <<state, flags, timers, sock, firstSent, xidstore, reconnectIn,
                   reconnectCounter, nOpen, nClose, alive, connects, peerHellos>>

PeerSendPacketIn ==
    /\ alive /\ sock = "open" /\ Len(in) < MaxQueue
    /\ in' = Append(in, Msg("PACKET_IN"))
    /\ upcall' = "none"
    /\ UNCHANGED <<state, flags, timers, sock, out, firstSent, xidstore, reconnectIn,
                   reconnectCounter, nOpen, nClose, alive, connects, peerHellos, dropped>>

-----------------------------------------------------------------------------
DptNext ==
    \/ HandleConnected \/ HandleConnectRefused \/ ReadFailed \/ ReadMessage
    \/ TimeoutSendHello \/ TimeoutHandshakeReply
    \/ TimeoutStatsReply \/ TimeoutBarrierReply
    \/ TimeoutReconnect \/ TimeoutSendEchoRequest \/ TimeoutEchoReply

EnvNext ==
    \/ AppRequest \/ Accept
    \/ PeerSendHello \/ PeerServe \/ PeerSendPacketIn

Next == DptNext \/ EnvNext

Spec == Init /\ [][Next]_vars

\* The event loop dispatches every ready socket and every expired timer, so
\* each handler that stays enabled is eventually run: a pending ciosrv timer
\* stays pending until it fires or is cancelled.  The switch is assumed to
\* read what it is sent and to send its HELLO; whether it answers is not
\* made fair (PeerDrops).
Fairness ==
    /\ WF_vars(ReadMessage) /\ WF_vars(HandleConnected)
    /\ WF_vars(TimeoutSendHello) /\ WF_vars(TimeoutSendEchoRequest)
    /\ WF_vars(TimeoutHandshakeReply)
    /\ WF_vars(TimeoutReconnect)
    /\ WF_vars(PeerServe) /\ WF_vars(PeerSendHello)

FairSpec == Spec /\ Fairness

-----------------------------------------------------------------------------
(* Properties.                                                             *)

\* On every socket the first frame cofdpt writes is its HELLO (or the
\* HELLO_FAILED error answering a bad HELLO): OpenFlow requires HELLO first,
\* and hello_rcvd / handle_timeout(SEND_HELLO) only start the FEATURES and
\* ECHO traffic once both HELLO_SENT and HELLO_RCVD are set.
HelloFirst == firstSent \in {"none", "HELLO", "ERROR"}

\* Once both HELLOs are exchanged on an open socket, liveness probing is
\* armed: an ECHO request is scheduled or its reply is being timed.  The
\* echo timers are set in hello_rcvd, handle_timeout(SEND_HELLO),
\* echo_request_sent and echo_reply_rcvd; a gap means a dead switch is
\* never detected.
EchoArmed ==
    (sock = "open" /\ {"HELLO_SENT", "HELLO_RCVD"} \subseteq flags)
        => timers \cap EchoTimers # {}

\* Every outstanding STATS or BARRIER xid is being timed: the reply timer of
\* its type is pending (spec: every outbound request registers an xid and a
\* deadline and expires with a timeout callback).
XidRequestsTimed ==
    /\ xidstore["STATS"] # {} => "STATS_REPLY" \in timers
    /\ xidstore["BARRIER"] # {} => "BARRIER_REPLY" \in timers

\* An active cofdpt whose socket is gone always has a reconnect pending,
\* unless the bound on attempts is used up: the active side never gives up
\* (spec section 7: transport and liveness failures reconnect).
ReconnectScheduled ==
    (Active /\ sock = "closed" /\ connects < MaxConnects) => "RECONNECT" \in timers

\* A passively accepted connection whose switch sends its HELLO and answers
\* every request of the handshake is eventually announced with
\* handle_dpt_open, or closed: whichever HELLO comes first, hello_rcvd or
\* handle_timeout(SEND_HELLO) starts the FEATURES request.
HandshakeCompletes ==
    (sock = "open" /\ ~dropped) ~> (nOpen > 0 \/ sock = "closed" \/ dropped)

\* A handshake that stalls for good in WAIT_FEATURES or WAIT_GET_CONFIG on
\* an open socket (the switch dropped the request but keeps answering ECHO
\* requests) is reported: while waiting there the application was told
\* that this state's reply timed out.  Nothing in cofdpt re-sends the
\* request, so the reply timer armed by features_request_sent /
\* get_config_request_sent is the only sign of the stall.
HandshakeStallReported ==
    \A s \in DOMAIN StallUpcall :
        <>[](sock = "open" /\ state = s)
            => <>(sock = "open" /\ state = s /\ upcall = StallUpcall[s])

=============================================================================
