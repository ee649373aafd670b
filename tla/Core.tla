--------------------------------- MODULE Core ---------------------------------
(***************************************************************************)
(* The connection core, class crofcore (src/src/rofl/common/crofcore.cc), *)
(* composed with its role arbitration (module RoleCore).                  *)
(*                                                                         *)
(* listen() opens a listening socket for one mode; handle_read_event       *)
(* accepts on it and creates a crofconn in MODE_DATAPATH (dpt_sockets) or   *)
(* MODE_CONTROLLER (ctl_sockets).  Until the conn is established the core  *)
(* is its environment: handle_accept_failed, handle_negotiation_failed and *)
(* handle_closed delete it.  handle_established routes an established      *)
(* MODE_CONTROLLER conn to the crofdpt of its dpid, creating one if there  *)
(* is none, and gives every MODE_DATAPATH conn a new crofctl.  The async   *)
(* senders deliver to every established controller.  All handlers run on  *)
(* the core's thread, one at a time.                                       *)
(***************************************************************************)
EXTENDS Naturals, FiniteSets

CONSTANTS
    Ctls, W, Gens, MaxRequests, NoCtl,   \* as in RoleCore
    Conns,      \* crofconn objects that may exist at one time
    Dpids,      \* datapath ids the switches may report
    DptIds,     \* crofdpt objects add_dpt may create
    NoOwner     \* a conn that no endpoint holds

ASSUME NoOwner \notin Ctls \cup DptIds

Modes == {"MODE_DATAPATH", "MODE_CONTROLLER"}
NoMode == "none"                  \* a free conn has no mode or dpid
NoDpid == CHOOSE d \in Dpids : TRUE
AsyncKinds == {"PACKET_IN", "FLOW_REMOVED", "PORT_STATUS"}

VARIABLES
    attached, role, genDefined, cachedGen, reply, nRequests,  \* RoleCore
    listeners,  \* modes with a listening socket (dpt_sockets, ctl_sockets)
    phase,      \* per conn: free, accepting (core is its env), established
    mode,       \* per conn: crofconn::get_mode()
    dpidOf,     \* per conn: crofconn::get_dpid()
    dpts,       \* rofdpts: crofdpt objects created
    dptDpid,    \* the dpid of every crofdpt
    owner,      \* the endpoint (crofdpt or crofctl) a conn was added to
    lastAsync   \* the last async send: controllers reached, error

roleVars == <<attached, role, genDefined, cachedGen, reply, nRequests>>
connVars == <<listeners, phase, mode, dpidOf, dpts, dptDpid, owner>>
vars == <<roleVars, connVars, lastAsync>>

R == INSTANCE RoleCore

TypeOK ==
    /\ R!TypeOK
    /\ listeners \subseteq Modes
    /\ phase \in [Conns -> {"free", "accepting", "established"}]
    /\ mode \in [Conns -> Modes \cup {NoMode}]
    /\ dpidOf \in [Conns -> Dpids]
    /\ dpts \subseteq DptIds /\ dptDpid \in [DptIds -> Dpids]
    /\ owner \in [Conns -> Ctls \cup DptIds \cup {NoOwner}]
    /\ lastAsync \in [to : SUBSET Ctls, notConnected : BOOLEAN]

\* crofctl::is_established(): its main conn is established.
CtlEstablished(k) == \E c \in Conns : owner[c] = k /\ phase[c] = "established"

\* has_dpt(cdpid(conn.get_dpid())).
HasDpt(d) == \E e \in dpts : dptDpid[e] = d

-----------------------------------------------------------------------------
Init ==
    /\ R!Init
    /\ listeners = {}
    /\ phase = [c \in Conns |-> "free"]
    /\ mode = [c \in Conns |-> NoMode]
    /\ dpidOf = [c \in Conns |-> NoDpid]
    /\ dpts = {}
    /\ dptDpid = [e \in DptIds |-> NoDpid]
    /\ owner = [c \in Conns |-> NoOwner]
    /\ lastAsync = [to |-> {}, notConnected |-> FALSE]

\* listen(baddr) and the registration of the socket for read events.  A
\* failing system call throws eSysCall and leaves no listener.
Listen(m) ==
    /\ m \notin listeners
    /\ listeners' = listeners \cup {m}
    /\ UNCHANGED <<roleVars, phase, mode, dpidOf, dpts, dptDpid, owner, lastAsync>>

\* handle_read_event on a listening socket: a new crofconn accepts the
\* connection in the socket's mode; the peer's dpid is whatever it reports.
HandleReadEvent(m, c) ==
    /\ m \in listeners /\ phase[c] = "free"
    /\ phase' = [phase EXCEPT ![c] = "accepting"]
    /\ mode' = [mode EXCEPT ![c] = m]
    /\ \E d \in Dpids : dpidOf' = [dpidOf EXCEPT ![c] = d]
    /\ UNCHANGED <<roleVars, listeners, dpts, dptDpid, owner, lastAsync>>

\* handle_established: MODE_CONTROLLER goes to the crofdpt of its dpid,
\* created by add_dpt() if has_dpt is false; MODE_DATAPATH gets a new
\* crofctl from add_ctl().
HandleEstablished(c) ==
    /\ phase[c] = "accepting"
    /\ phase' = [phase EXCEPT ![c] = "established"]
    /\ \/ /\ mode[c] = "MODE_CONTROLLER" /\ HasDpt(dpidOf[c])
          /\ owner' = [owner EXCEPT ![c] = CHOOSE e \in dpts : dptDpid[e] = dpidOf[c]]
          /\ UNCHANGED <<roleVars, dpts, dptDpid>>
       \/ /\ mode[c] = "MODE_CONTROLLER" /\ ~HasDpt(dpidOf[c])
          /\ \E e \in DptIds \ dpts :
                /\ dpts' = dpts \cup {e}
                /\ dptDpid' = [dptDpid EXCEPT ![e] = dpidOf[c]]
                /\ owner' = [owner EXCEPT ![c] = e]
          /\ UNCHANGED roleVars
       \/ /\ mode[c] = "MODE_DATAPATH"
          /\ \E k \in Ctls \ attached :
                /\ R!HandleEstablished(k)
                /\ owner' = [owner EXCEPT ![c] = k]
          /\ UNCHANGED <<dpts, dptDpid>>
    /\ UNCHANGED <<listeners, mode, dpidOf, lastAsync>>

\* delete &conn, for a conn the core is still the environment of.
DeleteConn(c) ==
    /\ phase[c] = "accepting"
    /\ phase' = [phase EXCEPT ![c] = "free"]
    /\ mode' = [mode EXCEPT ![c] = NoMode] /\ dpidOf' = [dpidOf EXCEPT ![c] = NoDpid]
    /\ UNCHANGED <<roleVars, listeners, dpts, dptDpid, owner, lastAsync>>

HandleAcceptFailed(c) == DeleteConn(c)
HandleNegotiationFailed(c) == DeleteConn(c)
HandleClosed(c) == DeleteConn(c)

\* An established conn closes and its endpoint drops it (spec 4.5,
\* remove_conn).  The endpoint stays in rofdpts or rofctls.
ConnClosed(c) ==
    /\ phase[c] = "established"
    /\ phase' = [phase EXCEPT ![c] = "free"]
    /\ owner' = [owner EXCEPT ![c] = NoOwner]
    /\ mode' = [mode EXCEPT ![c] = NoMode] /\ dpidOf' = [dpidOf EXCEPT ![c] = NoDpid]
    /\ UNCHANGED <<roleVars, listeners, dpts, dptDpid, lastAsync>>

\* A ROLE_REQUEST arrives on an established controller.
RoleRequestRcvd(k, r, g) ==
    /\ CtlEstablished(k)
    /\ R!RoleRequestRcvd(k, r, g)
    /\ UNCHANGED <<connVars, lastAsync>>

\* send_packet_in_message, send_flow_removed_message and
\* send_port_status_message: the loop over rofctls skips every controller
\* that is not established and sends to the others; with none sent to, it
\* throws eRofCoreNotConnected.  The three differ only in the message.
SendAsync(kind) ==
    /\ LET to == {k \in attached : CtlEstablished(k)}
       IN  lastAsync' = [to |-> to, notConnected |-> to = {}]
    /\ UNCHANGED <<roleVars, connVars>>

Next ==
    \/ \E m \in Modes : Listen(m)
    \/ \E m \in Modes, c \in Conns : HandleReadEvent(m, c)
    \/ \E c \in Conns :
          \/ HandleEstablished(c)
          \/ HandleAcceptFailed(c) \/ HandleNegotiationFailed(c) \/ HandleClosed(c)
          \/ ConnClosed(c)
    \/ \E k \in Ctls, r \in R!Roles \cup {R!OFPCR_ROLE_NOCHANGE}, g \in Gens :
          RoleRequestRcvd(k, r, g)
    \/ \E kind \in AsyncKinds : SendAsync(kind)

Spec == Init /\ [][Next]_vars

-----------------------------------------------------------------------------
(* Properties.                                                             *)

\* Role arbitration keeps its guarantees with controllers attached and
\* detached by connections: at most one MASTER, and every role change a
\* step of RoleSpec.
AtMostOneMaster == R!AtMostOneMaster
ImplementsRoleSpec == R!ImplementsRoleSpec

=============================================================================
