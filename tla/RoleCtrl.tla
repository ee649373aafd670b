------------------------------- MODULE RoleCtrl -------------------------------
(***************************************************************************)
(* The controller connections of a forwarding element: class cofctrl      *)
(* (src/src/rofl/common/openflow/cofctrl.cc).  Every cofctrl keeps its own *)
(* role, role_initialized flag and cached_generation_id; role_request_rcvd *)
(* checks a MASTER or SLAVE request against the requester's own cached id  *)
(* with unsigned W-bit arithmetic (W = 64 in the code), stores the         *)
(* requested role as it came, and demotes every other MASTER in            *)
(* ofctrl_list.  The mod handlers refuse requests of a SLAVE with          *)
(* BAD_REQUEST/IS_SLAVE.                                                   *)
(*                                                                         *)
(* The history variable lastRole keeps the last role other than NOCHANGE *)
(* stored for each controller: in the spec's sense NOCHANGE leaves the    *)
(* role as it was, so that is the role the controller still holds.        *)
(***************************************************************************)
EXTENDS Naturals

CONSTANTS
    Ctls,          \* controllers that may connect
    W,             \* width of a generation id in bits
    Gens,          \* generation ids the controllers may send
    RequestRoles,  \* roles the controllers may request
    MaxRequests,   \* bound: ROLE_REQUESTs and mod requests handled
    NoCtl          \* no controller: the addressee of the initial answer

Mod == 2 ^ W
UMax == Mod - 1                   \* std::numeric_limits<uint64_t>::max()

Roles == {"MASTER", "SLAVE", "EQUAL"}
OFPCR_ROLE_NOCHANGE == "NOCHANGE"
ModKinds == {"PACKET_OUT", "FLOW_MOD", "GROUP_MOD", "PORT_MOD", "TABLE_MOD"}

ASSUME W \in Nat \ {0} /\ Gens \subseteq 0..UMax /\ MaxRequests \in Nat
ASSUME RequestRoles \subseteq Roles \cup {OFPCR_ROLE_NOCHANGE} /\ NoCtl \notin Ctls

VARIABLES
    attached,     \* ofctrl_list
    role,         \* cofctrl::role
    roleInit,     \* cofctrl::role_initialized
    cachedGen,    \* cofctrl::cached_generation_id
    answer,       \* what the last request led to
    nRequests,    \* requests handled so far
    lastRole      \* history: the last role other than NOCHANGE stored

vars == <<attached, role, roleInit, cachedGen, answer, nRequests, lastRole>>

Answers == [kind : {"none", "STALE", "ROLE_REPLY", "IS_SLAVE", "HANDLED"},
            to : Ctls \cup {NoCtl}]

\* The dist computed in role_request_rcvd, in uint64_t arithmetic.
Dist(g, cached) ==
    IF g > cached THEN (g - cached) % UMax
    ELSE ((g + UMax + cached) % Mod) % UMax

IsStale(c, g) == roleInit[c] /\ Dist(g, cachedGen[c]) >= UMax \div 2

\* Mutant: the loop over ofctrl_list left out.
StoredRoles_noDemote(c, r) == [role EXCEPT ![c] = r]

\* role = requested role, then the loop over ofctrl_list: every other
\* MASTER becomes SLAVE.
StoredRoles(c, r) ==
    [d \in Ctls |-> IF d = c THEN r
                    ELSE IF d \in attached /\ role[d] = "MASTER" THEN "SLAVE"
                    ELSE role[d]]

\* The role a controller holds in the spec's sense.
EffectiveRole(c) == IF role[c] = OFPCR_ROLE_NOCHANGE THEN lastRole[c] ELSE role[c]

-----------------------------------------------------------------------------
\* cofctrl(): role_initialized(false), role(OFPCR_ROLE_EQUAL),
\* cached_generation_id(0).
Init ==
    /\ attached = {}
    /\ role = [c \in Ctls |-> "EQUAL"]
    /\ roleInit = [c \in Ctls |-> FALSE]
    /\ cachedGen = [c \in Ctls |-> 0]
    /\ answer = [kind |-> "none", to |-> NoCtl]
    /\ nRequests = 0
    /\ lastRole = [c \in Ctls |-> "EQUAL"]

\* The constructor of a new cofctrl for controller c: role EQUAL, no
\* generation id cached, entered into ofctrl_list.
CtrlOpen(c) ==
    /\ c \notin attached
    /\ attached' = attached \cup {c}
    /\ role' = [role EXCEPT ![c] = "EQUAL"]
    /\ roleInit' = [roleInit EXCEPT ![c] = FALSE]
    /\ cachedGen' = [cachedGen EXCEPT ![c] = 0]
    /\ lastRole' = [lastRole EXCEPT ![c] = "EQUAL"]
    /\ UNCHANGED <<answer, nRequests>>

\* ~cofctrl: handle_ctrl_close, then the controller leaves ofctrl_list.
CtrlClose(c) ==
    /\ c \in attached
    /\ attached' = attached \ {c}
    /\ UNCHANGED <<role, roleInit, cachedGen, answer, nRequests, lastRole>>

\* role_request_rcvd.  A MASTER or SLAVE request is checked for staleness
\* once role_initialized is set, and its id cached; then, whatever was
\* requested, the role is stored and every other MASTER becomes SLAVE.
RoleRequestRcvd(c, r, g) ==
    /\ c \in attached /\ nRequests < MaxRequests
    /\ nRequests' = nRequests + 1
    /\ IF r \in {"MASTER", "SLAVE"} /\ IsStale(c, g)
       THEN /\ answer' = [kind |-> "STALE", to |-> c]
            /\ UNCHANGED <<role, roleInit, cachedGen, lastRole>>
       ELSE /\ IF r \in {"MASTER", "SLAVE"}
               THEN /\ roleInit' = [roleInit EXCEPT ![c] = TRUE]
                    /\ cachedGen' = [cachedGen EXCEPT ![c] = g]
               ELSE UNCHANGED <<roleInit, cachedGen>>
            /\ role' = StoredRoles(c, r)
            /\ lastRole' = [d \in Ctls |-> IF role'[d] \in Roles THEN role'[d] ELSE lastRole[d]]
            /\ answer' = [kind |-> "ROLE_REPLY", to |-> c]
    /\ UNCHANGED attached

\* packet_out_rcvd, flow_mod_rcvd, group_mod_rcvd, port_mod_rcvd and
\* table_mod_rcvd: a SLAVE gets BAD_REQUEST/IS_SLAVE, anyone else is served.
ModRcvd(c, k) ==
    /\ c \in attached /\ nRequests < MaxRequests
    /\ nRequests' = nRequests + 1
    /\ answer' = [kind |-> IF role[c] = "SLAVE" THEN "IS_SLAVE" ELSE "HANDLED", to |-> c]
    /\ UNCHANGED <<attached, role, roleInit, cachedGen, lastRole>>

Next ==
    \E c \in Ctls :
       \/ CtrlOpen(c)
       \/ CtrlClose(c)
       \/ \E r \in RequestRoles, g \in Gens : RoleRequestRcvd(c, r, g)
       \/ \E k \in ModKinds : ModRcvd(c, k)

Spec == Init /\ [][Next]_vars

-----------------------------------------------------------------------------
(* Properties.                                                             *)

\* The spec's signed wrap-around distance between generation ids.
SpecDistance(a, b) ==
    LET d == (a - b) % Mod IN IF d >= Mod \div 2 THEN d - Mod ELSE d

\* At most one controller holds the MASTER role (spec section 5);
\* role_request_rcvd demotes every other MASTER in ofctrl_list.
AtMostOneMaster ==
    \A c, d \in attached : EffectiveRole(c) = "MASTER" /\ EffectiveRole(d) = "MASTER" => c = d

\* A controller holding the SLAVE role never has a modifying request
\* (PACKET_OUT, FLOW_MOD, GROUP_MOD, PORT_MOD, TABLE_MOD) served: the mod
\* handlers answer BAD_REQUEST/IS_SLAVE (spec section 4.5, scenario 5).
SlaveCannotModify ==
    answer.kind = "HANDLED" => EffectiveRole(answer.to) # "SLAVE"

\* A controller's cached generation id never moves backwards in the signed
\* wrap-around order: a MASTER or SLAVE request older than the last one is
\* refused as stale (spec: role monotonicity, scenario 4).
GenerationMonotone ==
    [][\A c \in Ctls : roleInit[c] => SpecDistance(cachedGen'[c], cachedGen[c]) >= 0]_vars

=============================================================================
