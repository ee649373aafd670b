------------------------------ MODULE PortTable ------------------------------
(***************************************************************************)
(* The port table of an active cofdpt (cofdpt::ports,                      *)
(* src/src/rofl/common/openflow/cofdpt.cc) kept against the switch's ports. *)
(*                                                                         *)
(* The switch adds, deletes and modifies ports at any time and reports     *)
(* each change with a PORT_STATUS on the open connection; a change made    *)
(* while no connection is open is reported to nobody.  features_reply_rcvd *)
(* replaces the whole table with the ports of a FEATURES reply, which the  *)
(* switch builds when it reads the request; port_status_rcvd applies one   *)
(* change.  handle_closed leaves the table as it is, and the active side   *)
(* connects again and sends FEATURES_REQUEST in its handshake; the         *)
(* application may send more.  TCP keeps each direction in order.  A      *)
(* port's description is a model value: the reports carry it whole.       *)
(***************************************************************************)
EXTENDS Naturals, Sequences

CONSTANTS
    Ports,        \* port numbers
    Descs,        \* port descriptions (config and state bits)
    MaxQueue,     \* bound: messages in flight in one direction
    MaxConnects,  \* bound: connections
    MaxRequests,  \* bound: FEATURES_REQUESTs the application sends
    None          \* no such port

ASSUME None \notin Descs

Reasons == {"OFPPR_ADD", "OFPPR_DELETE", "OFPPR_MODIFY"}

VARIABLES
    swPorts,    \* the switch's ports: port -> description or None
    ports,      \* cofdpt::ports
    toCtl,      \* FEATURES replies and PORT_STATUS in flight to the cofdpt
    toSw,       \* FEATURES_REQUESTs in flight to the switch
    sockOpen,   \* the csocket is connected
    synced,     \* history: a FEATURES reply was read on this connection
    lost,       \* history: a PORT_STATUS read on a synced connection was dropped
    connects,   \* connections made after the first
    requests    \* FEATURES_REQUESTs the application sent

vars == <<swPorts, ports, toCtl, toSw, sockOpen, synced, lost, connects, requests>>

Table == [Ports -> Descs \cup {None}]

\* The switch reports a change on the open connection; otherwise it is lost.
Report(m) ==
    toCtl' = IF sockOpen THEN Append(toCtl, m) ELSE toCtl

\* Mutant: the old table is not cleared before the reply's ports go in.
Replaced_merge(old, reply) ==
    [p \in Ports |-> IF reply[p] # None THEN reply[p] ELSE old[p]]

\* features_reply_rcvd: every cofport is deleted, ports is cleared, and a
\* cofport is made for every port of the reply.
Replaced(old, reply) == reply

\* Mutant: OFPPR_DELETE hands the message on but keeps the port.
PortStatusApplied_keep(old, m) ==
    CASE m.reason = "OFPPR_ADD"    /\ old[m.port] = None -> [old EXCEPT ![m.port] = m.desc]
      [] m.reason = "OFPPR_MODIFY" /\ old[m.port] # None -> [old EXCEPT ![m.port] = m.desc]
      [] OTHER -> old

\* port_status_rcvd: ADD makes a cofport for a port not in ports, DELETE
\* deletes and erases a port in ports, MODIFY overwrites a port in ports;
\* any other PORT_STATUS changes nothing.
PortStatusApplied(old, m) ==
    CASE m.reason = "OFPPR_ADD"    /\ old[m.port] = None -> [old EXCEPT ![m.port] = m.desc]
      [] m.reason = "OFPPR_DELETE" /\ old[m.port] # None -> [old EXCEPT ![m.port] = None]
      [] m.reason = "OFPPR_MODIFY" /\ old[m.port] # None -> [old EXCEPT ![m.port] = m.desc]
      [] OTHER -> old

\* The PORT_STATUS reaches rofbase->handle_port_status: the port was found
\* (or, for ADD, not found) in ports.
HandedOn(old, m) ==
    IF m.reason = "OFPPR_ADD" THEN old[m.port] = None ELSE old[m.port] # None

-----------------------------------------------------------------------------
Init ==
    /\ \E t \in Table : swPorts = t
    /\ ports = [p \in Ports |-> None]
    /\ toCtl = <<>>
    /\ toSw = <<"FEATURES_REQUEST">>   \* sent by the first handshake
    /\ sockOpen = TRUE
    /\ synced = FALSE /\ lost = FALSE
    /\ connects = 0 /\ requests = 0

\* features_reply_rcvd with a well-formed port list.
FeaturesReplyRcvd ==
    /\ sockOpen /\ toCtl # <<>> /\ Head(toCtl).type = "FEATURES_REPLY"
    /\ ports' = Replaced(ports, Head(toCtl).ports)
    /\ toCtl' = Tail(toCtl)
    /\ synced' = TRUE
    /\ UNCHANGED <<swPorts, toSw, sockOpen, lost, connects, requests>>

\* port_status_rcvd.
PortStatusRcvd ==
    /\ sockOpen /\ toCtl # <<>> /\ Head(toCtl).type = "PORT_STATUS"
    /\ LET m == Head(toCtl)
       IN  /\ ports' = PortStatusApplied(ports, m)
           /\ lost' = (lost \/ (synced /\ ~HandedOn(ports, m)))
    /\ toCtl' = Tail(toCtl)
    /\ UNCHANGED <<swPorts, toSw, sockOpen, synced, connects, requests>>

\* rofbase->send_features_request from the application.
AppFeaturesRequest ==
    /\ sockOpen /\ requests < MaxRequests /\ Len(toSw) < MaxQueue
    /\ toSw' = Append(toSw, "FEATURES_REQUEST")
    /\ requests' = requests + 1
    /\ UNCHANGED <<swPorts, ports, toCtl, sockOpen, synced, lost, connects>>

\* handle_closed (peer close or read error): the socket is closed; ports,
\* and everything still in flight on the old connection, are left behind.
HandleClosed ==
    /\ sockOpen
    /\ sockOpen' = FALSE
    /\ toCtl' = <<>> /\ toSw' = <<>>
    /\ UNCHANGED <<swPorts, ports, synced, lost, connects, requests>>

\* Mutant: the handshake on the new socket sends no FEATURES_REQUEST.
Reconnect_noRequest ==
    /\ ~sockOpen /\ connects < MaxConnects
    /\ sockOpen' = TRUE
    /\ toSw' = <<>>
    /\ synced' = FALSE
    /\ connects' = connects + 1
    /\ UNCHANGED <<swPorts, ports, toCtl, lost, requests>>

\* The RECONNECT timer connects again, and the handshake on the new
\* socket sends FEATURES_REQUEST (features_request_sent).
Reconnect ==
    /\ ~sockOpen /\ connects < MaxConnects
    /\ sockOpen' = TRUE
    /\ toSw' = <<"FEATURES_REQUEST">>
    /\ synced' = FALSE
    /\ connects' = connects + 1
    /\ UNCHANGED <<swPorts, ports, toCtl, lost, requests>>

\* The switch answers a FEATURES_REQUEST with its ports at that moment.
SwitchFeaturesReply ==
    /\ sockOpen /\ toSw # <<>> /\ Len(toCtl) < MaxQueue
    /\ toSw' = Tail(toSw)
    /\ toCtl' = Append(toCtl, [type |-> "FEATURES_REPLY", ports |-> swPorts])
    /\ UNCHANGED <<swPorts, ports, sockOpen, synced, lost, connects, requests>>

\* A port appears, disappears or changes on the switch.
SwitchPortChange(p, reason, d) ==
    /\ Len(toCtl) < MaxQueue
    /\ \/ reason = "OFPPR_ADD" /\ swPorts[p] = None
       \/ reason = "OFPPR_DELETE" /\ swPorts[p] # None /\ d = swPorts[p]
       \/ reason = "OFPPR_MODIFY" /\ swPorts[p] \notin {None, d}
    /\ swPorts' = [swPorts EXCEPT ![p] = IF reason = "OFPPR_DELETE" THEN None ELSE d]
    /\ Report([type |-> "PORT_STATUS", reason |-> reason, port |-> p, desc |-> d])
    /\ UNCHANGED <<ports, toSw, sockOpen, synced, lost, connects, requests>>

Next ==
    \/ FeaturesReplyRcvd \/ PortStatusRcvd \/ AppFeaturesRequest
    \/ HandleClosed \/ Reconnect \/ SwitchFeaturesReply
    \/ \E p \in Ports, r \in Reasons, d \in Descs : SwitchPortChange(p, r, d)

Spec == Init /\ [][Next]_vars

\* The event loop runs the read handlers while messages are readable and
\* fires the RECONNECT timer; the switch answers the FEATURES_REQUESTs it
\* reads.  Port changes and closes are not made fair: they may stop.
FairSpec ==
    /\ Spec
    /\ WF_vars(FeaturesReplyRcvd) /\ WF_vars(PortStatusRcvd)
    /\ WF_vars(SwitchFeaturesReply) /\ WF_vars(Reconnect)

-----------------------------------------------------------------------------
(* Properties.                                                             *)

\* Once a FEATURES reply was read on the open connection and nothing is in
\* flight either way, the cofdpt's ports are exactly the switch's ports,
\* whatever the switch changed while it was disconnected and however its
\* reports interleave with the FEATURES replies.
PortsMirrored ==
    (sockOpen /\ synced /\ toCtl = <<>> /\ toSw = <<>>) => ports = swPorts

\* After the FEATURES reply of a connection, no PORT_STATUS is dropped:
\* every one finds the port (or, for ADD, its absence) that its reason
\* needs in ports, and reaches rofbase->handle_port_status.
NoPortStatusLost == ~lost

\* Once the switch stops changing its ports and the connection stays open,
\* the cofdpt's table comes to equal the switch's ports and stays so: the
\* handshake of every connection asks for a FEATURES reply, which repairs
\* whatever was missed while disconnected, and the PORT_STATUS reports
\* after it keep the table in step.
PortsConverge ==
    (<>[]sockOpen /\ <>[][UNCHANGED swPorts]_vars) => <>[](ports = swPorts)

=============================================================================
