------------------------------- MODULE RoleSpec -------------------------------
(***************************************************************************)
(* What role arbitration promises the controllers attached to one          *)
(* datapath (spec section 4.5): a controller's role changes only when it   *)
(* asks for a role, or when another controller becomes MASTER and the old  *)
(* MASTER is demoted to SLAVE.  Refused (stale) and NOCHANGE requests are  *)
(* stuttering steps.  Generation ids are not part of this view.            *)
(***************************************************************************)
CONSTANTS Ctls

VARIABLES
    attached,   \* controllers the core knows
    role        \* role of every controller

Roles == {"MASTER", "SLAVE", "EQUAL"}

Init ==
    /\ attached = {}
    /\ role = [c \in Ctls |-> "EQUAL"]

\* A new controller joins with role EQUAL.
Attach(c) ==
    /\ c \notin attached
    /\ attached' = attached \cup {c}
    /\ UNCHANGED role

\* Controller c is granted role r; becoming MASTER demotes every other MASTER.
Grant(c, r) ==
    /\ c \in attached
    /\ role' = [d \in Ctls |->
                  IF d = c THEN r
                  ELSE IF r = "MASTER" /\ role[d] = "MASTER" THEN "SLAVE"
                  ELSE role[d]]
    /\ UNCHANGED attached

Next == \E c \in Ctls : Attach(c) \/ \E r \in Roles : Grant(c, r)

Spec == Init /\ [][Next]_<<attached, role>>

=============================================================================
