------------------------- MODULE PortTablesRefines -------------------------
(***************************************************************************)
(* PortTables implements PortSet: a port is listed while the port table    *)
(* has it, and served while both registries have it and a listener with an *)
(* interface is open on its TCP port.                                      *)
(***************************************************************************)
EXTENDS PortTables

Listens(k) ==
    \E j \in DOMAIN listeners :
        /\ KeyOf(listeners[j]) = k
        /\ listeners[j].net # 0 /\ nets[listeners[j].net] = k[2]

servedPorts == {k \in KeysIn(sess) \cap KeysIn(serial) : Listens(k)}

Set == INSTANCE PortSet WITH
    Capacity <- MaxPorts,
    listed <- KeysIn(ports), served <- servedPorts, lost <- lock = Gone

\* Every step of the calls is a step the set of ports allows, or changes
\* nothing in it: a call adds or removes one whole port, beside no other call
\* that does, and a call that fails or interleaves with set_port_mode adds and
\* removes none (runtime.c add_port, remove_port).
ImplementsPortSet == Set!Spec
=============================================================================
