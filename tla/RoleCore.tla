------------------------------- MODULE RoleCore -------------------------------
(***************************************************************************)
(* Role arbitration in the datapath-side core: crofcore::role_request_rcvd *)
(* and crofcore::handle_established (src/src/rofl/common/crofcore.cc).     *)
(*                                                                         *)
(* Controllers attach when a MODE_DATAPATH connection is established and  *)
(* then send ROLE_REQUESTs with a role and a generation id.  Generation    *)
(* ids are W-bit numbers (64 in the code) compared by the signed          *)
(* wrap-around distance of cofrole::distance.  Each request is handled to  *)
(* completion on the core's thread, so one request is one step.            *)
(***************************************************************************)
EXTENDS Naturals

CONSTANTS
    Ctls,        \* controllers that may attach (add_ctl)
    W,           \* width of a generation id in bits
    Gens,        \* generation ids the controllers may send
    MaxRequests, \* bound: ROLE_REQUESTs handled
    NoCtl        \* no controller: the addressee of the initial reply

Mod == 2 ^ W

ASSUME W \in Nat \ {0} /\ Gens \subseteq 0..(Mod - 1) /\ MaxRequests \in Nat
ASSUME NoCtl \notin Ctls

OFPCR_ROLE_NOCHANGE == "NOCHANGE"
Roles == {"MASTER", "SLAVE", "EQUAL"}

VARIABLES
    attached,      \* rofctls: controllers the core knows
    role,          \* crofctl role of every controller
    genDefined,    \* generation_is_defined
    cachedGen,     \* cached_generation_id
    reply,         \* the answer to the last ROLE_REQUEST
    nRequests      \* ROLE_REQUESTs handled so far

vars == <<attached, role, genDefined, cachedGen, reply, nRequests>>

Replies == [kind : {"none", "STALE", "ROLE_REPLY"}, to : Ctls \cup {NoCtl}, gen : 0..(Mod - 1)]

TypeOK ==
    /\ attached \subseteq Ctls
    /\ role \in [Ctls -> Roles]
    /\ genDefined \in BOOLEAN
    /\ cachedGen \in 0..(Mod - 1)
    /\ reply \in Replies
    /\ nRequests \in 0..MaxRequests

\* cofrole::distance(a, b): (a - b) taken modulo 2^W and read as a signed
\* W-bit number.
Distance(a, b) ==
    LET d == (a - b) % Mod IN IF d >= Mod \div 2 THEN d - Mod ELSE d

\* The test at the top of role_request_rcvd.
IsStale(g) == genDefined /\ Distance(g, cachedGen) < 0

\* Mutant: the loop over rofctls left out.
Demoted_none(c) == role

\* The loop over rofctls: every other MASTER is set back to SLAVE.
Demoted(c) ==
    [d \in Ctls |-> IF d # c /\ role[d] = "MASTER" THEN "SLAVE" ELSE role[d]]

\* Mutant: the requested role stored as it came, NOCHANGE included.
NewRole_storeAny(c, r) ==
    IF r = "MASTER" THEN [Demoted(c) EXCEPT ![c] = "MASTER"] ELSE [role EXCEPT ![c] = r]

\* Mutant: every other MASTER demoted whatever role was requested.
NewRole_demoteAlways(c, r) ==
    IF r \in Roles THEN [Demoted(c) EXCEPT ![c] = r] ELSE Demoted(c)

\* The switch on the requested role.
NewRole(c, r) ==
    CASE r = "MASTER" -> [Demoted(c) EXCEPT ![c] = "MASTER"]
      [] r \in {"SLAVE", "EQUAL"} -> [role EXCEPT ![c] = r]
      [] OTHER -> role

-----------------------------------------------------------------------------
\* crofcore(): generation_is_defined(false), cached_generation_id(-1).
Init ==
    /\ attached = {}
    /\ role = [c \in Ctls |-> "EQUAL"]
    /\ genDefined = FALSE
    /\ cachedGen = Mod - 1
    /\ reply = [kind |-> "none", to |-> NoCtl, gen |-> 0]
    /\ nRequests = 0

\* handle_established for a MODE_DATAPATH connection: add_ctl() creates a
\* new controller; a crofctl starts in role EQUAL.
HandleEstablished(c) ==
    /\ c \notin attached
    /\ attached' = attached \cup {c}
    /\ UNCHANGED <<role, genDefined, cachedGen, reply, nRequests>>

\* role_request_rcvd(ctl, role, rcvd_generation_id).  A stale MASTER or
\* SLAVE request throws eRoleRequestStale before anything is changed; a
\* stale EQUAL or NOCHANGE request leaves the cached id alone; any other
\* request records its id.  The controller's reply carries the cached id.
RoleRequestRcvd(c, r, g) ==
    /\ c \in attached /\ nRequests < MaxRequests
    /\ nRequests' = nRequests + 1
    /\ IF IsStale(g) /\ r \in {"MASTER", "SLAVE"}
       THEN /\ reply' = [kind |-> "STALE", to |-> c, gen |-> cachedGen]
            /\ UNCHANGED <<role, genDefined, cachedGen>>
       ELSE /\ cachedGen' = IF IsStale(g) THEN cachedGen ELSE g
            /\ genDefined' = TRUE
            /\ role' = NewRole(c, r)
            /\ reply' = [kind |-> "ROLE_REPLY", to |-> c, gen |-> cachedGen']
    /\ UNCHANGED attached

Next ==
    \E c \in Ctls :
       \/ HandleEstablished(c)
       \/ \E r \in Roles \cup {OFPCR_ROLE_NOCHANGE}, g \in Gens : RoleRequestRcvd(c, r, g)

Spec == Init /\ [][Next]_vars

-----------------------------------------------------------------------------
(* Properties.                                                             *)

\* At most one controller is MASTER (spec section 5): a MASTER request in
\* role_request_rcvd demotes every other MASTER before it takes the role.
AtMostOneMaster == \A c, d \in Ctls : role[c] = "MASTER" /\ role[d] = "MASTER" => c = d

\* role_request_rcvd implements the abstract role arbitration of RoleSpec:
\* roles change only by a controller's own request or by demotion of the
\* old MASTER when another controller becomes MASTER.
Abstract == INSTANCE RoleSpec
ImplementsRoleSpec == Abstract!Spec

=============================================================================
