------------------------------ MODULE PortSet ------------------------------
(***************************************************************************)
(* What the port management promises the callers of add_port and           *)
(* remove_port, whatever tables describe a port and however calls of       *)
(* several tasks overlap or fail: a port is listed, or it is not; a listed *)
(* port is served, but for the end of its own removal; one port at a time  *)
(* comes or goes; no two have an identifier or a TCP port in common.  The  *)
(* exception is an add with the table full, after which nothing is listed  *)
(* and nothing changes any more.                                           *)
(***************************************************************************)
EXTENDS Integers, FiniteSets

CONSTANTS Ids, Tcps,   \* a port is an identifier and a TCP port
          Capacity     \* how many ports there may be

VARIABLES listed,   \* the ports a caller finds in the port table
          served,   \* the ports with a UART, a session layer and an open socket
          lost      \* an add has found the table full

pvars == <<listed, served, lost>>

Shares(p, q) == p[1] = q[1] \/ p[2] = q[2]

Settled == ~lost /\ listed = served

Init ==
    /\ listed \subseteq Ids \X Tcps /\ Cardinality(listed) <= Capacity
    /\ \A p, q \in listed : Shares(p, q) => p = q
    /\ served = listed
    /\ lost = FALSE

Open(p) ==
    /\ Settled /\ Cardinality(listed) < Capacity
    /\ ~\E q \in listed : Shares(p, q)
    /\ served' = served \cup {p}
    /\ UNCHANGED <<listed, lost>>

List(p) ==
    /\ ~lost /\ p \in served \ listed
    /\ listed' = listed \cup {p}
    /\ UNCHANGED <<served, lost>>

Close(p) ==
    /\ Settled /\ p \in served
    /\ served' = served \ {p}
    /\ UNCHANGED <<listed, lost>>

Unlist(p) ==
    /\ ~lost /\ p \in listed \ served
    /\ listed' = listed \ {p}
    /\ UNCHANGED <<served, lost>>

Overflow ==
    /\ Settled /\ Cardinality(listed) = Capacity
    /\ listed' = {} /\ lost' = TRUE
    /\ UNCHANGED served

Next ==
    \/ \E p \in Ids \X Tcps : Open(p) \/ List(p) \/ Close(p) \/ Unlist(p)
    \/ Overflow

Spec == Init /\ [][Next]_pvars
=============================================================================
