----------------------------- MODULE PortTables -----------------------------
(***************************************************************************)
(* The tables that describe the ports at run time and the calls that       *)
(* change them: add_port and remove_port, which hold port_lock, and        *)
(* set_port_mode, which does not.  Each port is in five of them: the       *)
(* port table and the listeners of runtime.c, the session layer's port     *)
(* registry, the serial adapter's registry and the TCP adapter's pool of   *)
(* interfaces.  The control shell keeps a port count of its own.           *)
(*                                                                         *)
(* Arrays with a count are sequences.  An index kept across a step may     *)
(* point behind the count: there the code reads a zeroed entry, and what   *)
(* it writes there is overwritten by the next add.                         *)
(***************************************************************************)
EXTENDS Integers, Sequences, FiniteSets, SequencesExt

CONSTANTS MaxPorts,     \* SER2NET_MAX_PORTS
          MaxId,        \* runtime_allocate_port_id tries 0..MaxId
          Tcps,         \* TCP port numbers
          Modes,        \* framing modes
          Admins,       \* tasks that call the API
          Shell,        \* the control shell among them, or None
          None,         \* nobody holds port_lock
          Gone          \* port_lock overwritten with NULL

ASSUME PortAssumption ==
    /\ MaxPorts \in Nat \ {0}
    /\ MaxId \in Nat
    /\ MaxId >= MaxPorts
    /\ Tcps \subseteq Nat \ {0}
    /\ None \notin Admins /\ Gone \notin Admins \cup {None}

Ids   == 0..MaxId
AutoId == -1            \* the caller leaves the identifier to add_port
Slots == 1..MaxPorts

Port == [id : Ids, tcp : Tcps, mode : Modes, on : BOOLEAN]
Listener == [id : Ids, tcp : Tcps, mode : Modes, on : BOOLEAN,
             net : Slots \cup {0}]

VARIABLES
    ports,      \* port_table[0 .. port_count)
    listeners,  \* listeners[0 .. listener_count)
    sess,       \* session layer: id, tcp and mode of each registered port
    serial,     \* serial adapter: id and tcp of each registered port
    nets,       \* TCP adapter: the port an interface in use listens on, or 0
    stray,      \* history: ports a failed add left in both registries
    lock,       \* the holder of port_lock
    call,       \* the call each admin is inside
    shell       \* control_context.port_count; 0: the shell does not run

regs == <<ports, listeners, sess, serial, nets, stray>>
vars == <<regs, lock, call, shell>>

Idle == [op |-> "idle"]

\* Where a loop over a table stops: the first match.
First(S) == {i \in S : \A j \in S : i <= j}
IdAt(reg, id)   == First({i \in DOMAIN reg : reg[i].id = id})
TcpAt(reg, tcp) == First({i \in DOMAIN reg : reg[i].tcp = tcp})

Calls ==
    {Idle}
    \cup [op : {"publish"}, port : Port]
    \cup [op : {"drain", "shift", "table"}, tcp : Tcps]
    \cup [op : {"session", "entry", "copy", "own"}, tcp : Tcps, at : Slots,
          row : Slots \cup {0}, mode : Modes, on : BOOLEAN]

TypeOK ==
    /\ ports \in Seq(Port) /\ Len(ports) <= MaxPorts
    /\ listeners \in Seq(Listener) /\ Len(listeners) <= MaxPorts
    /\ sess \in Seq([id : Ids, tcp : Tcps, mode : Modes]) /\ Len(sess) <= MaxPorts
    /\ serial \in Seq([id : Ids, tcp : Tcps]) /\ Len(serial) <= MaxPorts
    /\ nets \in [Slots -> Tcps \cup {0}]
    /\ stray \subseteq Ids \X Tcps
    /\ lock \in Admins \cup {None, Gone}
    /\ call \in [Admins -> Calls]
    /\ shell \in 0..MaxPorts

\* What identifies a port, and the ports of a table.
KeyOf(e)    == <<e.id, e.tcp>>
KeysIn(reg) == {KeyOf(reg[i]) : i \in DOMAIN reg}

\* The entry a table keeps of a port.
Listening(p, s) == [id |-> p.id, tcp |-> p.tcp, mode |-> p.mode, on |-> p.on, net |-> s]
InSession(p)    == [id |-> p.id, tcp |-> p.tcp, mode |-> p.mode]
InSerial(p)     == [id |-> p.id, tcp |-> p.tcp]

\* runtime_start with the configuration of the JSON loader, which numbers the
\* ports in load order.  Without listeners the shell is not started.
Init ==
    /\ \E n \in 0..MaxPorts : \E t \in [1..n -> Tcps], m \in Modes :
         /\ \A i, j \in 1..n : t[i] = t[j] => i = j
         /\ ports = [i \in 1..n |-> [id |-> i - 1, tcp |-> t[i], mode |-> m, on |-> TRUE]]
         /\ nets = [s \in Slots |-> IF s <= n THEN t[s] ELSE 0]
         /\ shell = IF Shell = None THEN 0 ELSE n
    /\ listeners = [i \in DOMAIN ports |-> Listening(ports[i], i)]
    /\ sess = [i \in DOMAIN ports |-> InSession(ports[i])]
    /\ serial = [i \in DOMAIN ports |-> InSerial(ports[i])]
    /\ stray = {}
    /\ lock = None
    /\ call = [a \in Admins |-> Idle]

---------------------------------------------------------------------------
(* add_port.  A call refused before it registers anything changes nothing. *)

Unused == First(Ids \ {ports[i].id : i \in DOMAIN ports})

\* The description a call comes with, its identifier chosen when left open.
Described(id) == {p \in Port : p.id \in IF id = AutoId THEN Unused ELSE {id}}

CanRegister(reg, p) ==
    /\ Len(reg) < MaxPorts
    /\ \A i \in DOMAIN reg : reg[i].id # p.id /\ reg[i].tcp # p.tcp

\* Unregistering an identifier that is not there does nothing.
Without(reg, id) ==
    IF IdAt(reg, id) = {} THEN reg
    ELSE RemoveAt(reg, CHOOSE i \in IdAt(reg, id) : TRUE)

\* The control shell always leaves the identifier open.
MayAdd(a, id, p) ==
    /\ call[a] = Idle /\ lock = None
    /\ a = Shell => shell > 0 /\ id = AutoId /\ p.on
    /\ CanRegister(ports, p) /\ Len(listeners) < MaxPorts
    /\ CanRegister(serial, p)

\* Everything registered, listening and published to the listener task.
AddPublish(a, id, p) ==
    /\ MayAdd(a, id, p)
    /\ CanRegister(sess, p)
    /\ serial' = Append(serial, InSerial(p))
    /\ sess' = Append(sess, InSession(p))
    /\ \E s \in First({t \in Slots : nets[t] = 0}) :
         /\ nets' = [nets EXCEPT ![s] = p.tcp]
         /\ listeners' = Append(listeners, Listening(p, s))
    /\ lock' = a
    /\ call' = [call EXCEPT ![a] = [op |-> "publish", port |-> p]]
    /\ UNCHANGED <<ports, stray, shell>>

\* Mutant: the shell counts on without a limit.
CommitUnbounded(a) ==
    /\ call[a].op = "publish"
    /\ ports' = Append(ports, call[a].port)
    /\ shell' = IF a = Shell THEN shell + 1 ELSE shell
    /\ lock' = None
    /\ call' = [call EXCEPT ![a] = Idle]
    /\ UNCHANGED <<listeners, sess, serial, nets, stray>>

\* The port is counted and the lock released; the shell counts the ports it
\* created itself.
AddCommit(a) ==
    /\ call[a].op = "publish"
    /\ ports' = Append(ports, call[a].port)
    /\ shell' = IF a = Shell /\ shell < MaxPorts THEN shell + 1 ELSE shell
    /\ lock' = None
    /\ call' = [call EXCEPT ![a] = Idle]
    /\ UNCHANGED <<listeners, sess, serial, nets, stray>>

\* Mutant: the roll-back forgets the serial adapter.
AddAbortsHalfway(a, id, p) ==
    /\ MayAdd(a, id, p)
    /\ serial' = Append(serial, InSerial(p))
    /\ sess' = IF CanRegister(sess, p)
               THEN Without(Append(sess, InSession(p)), id) ELSE sess
    /\ stray' = IF id = AutoId THEN stray \cup {KeyOf(p)} ELSE stray
    /\ UNCHANGED <<ports, listeners, nets, lock, call, shell>>

\* The session layer refuses the port, or its socket cannot be opened: what
\* was registered is unregistered under the identifier of the caller's
\* description.  When add_port chose the identifier that is -1, and the port
\* stays in the registries.
AddAborts(a, id, p) ==
    /\ MayAdd(a, id, p)
    /\ serial' = Without(Append(serial, InSerial(p)), id)
    /\ sess' = IF CanRegister(sess, p)
               THEN Without(Append(sess, InSession(p)), id) ELSE sess
    /\ stray' = IF id = AutoId THEN stray \cup {KeyOf(p)} ELSE stray
    /\ UNCHANGED <<ports, listeners, nets, lock, call, shell>>

\* With the table full the clean-up clears the entry behind its end, which is
\* where port_count and port_lock are.
AddFull(a) ==
    /\ call[a] = Idle /\ lock = None
    /\ Len(ports) = MaxPorts
    /\ ports' = <<>>
    /\ lock' = Gone
    /\ UNCHANGED <<listeners, sess, serial, nets, stray, call, shell>>

AddSteps(a) ==
    \/ AddCommit(a)
    \/ AddFull(a)
    \/ \E id \in Ids \cup {AutoId} : \E p \in Described(id) :
         AddPublish(a, id, p) \/ AddAborts(a, id, p)

---------------------------------------------------------------------------
(* remove_port.  The shell has no command for it.                          *)

RemoveFind(a, tcp) ==
    /\ call[a] = Idle /\ lock = None
    /\ a # Shell
    /\ TcpAt(ports, tcp) # {} /\ TcpAt(listeners, tcp) # {}
    /\ lock' = a
    /\ call' = [call EXCEPT ![a] = [op |-> "drain", tcp |-> tcp]]
    /\ UNCHANGED <<regs, shell>>

\* Sessions of the port are still listed, or counted by the session layer.
RemoveRefused(a) ==
    /\ call[a].op = "drain"
    /\ lock' = None
    /\ call' = [call EXCEPT ![a] = Idle]
    /\ UNCHANGED <<regs, shell>>

\* Mutant: the serial adapter keeps the port.
RemoveLeavesSerial(a) ==
    /\ call[a].op = "drain"
    /\ \E i \in TcpAt(ports, call[a].tcp), j \in TcpAt(listeners, call[a].tcp) :
         /\ IdAt(sess, ports[i].id) # {}
         /\ sess' = Without(sess, ports[i].id)
         /\ nets' = [nets EXCEPT ![listeners[j].net] = 0]
         /\ listeners' = [listeners EXCEPT ![j].net = 0]
    /\ call' = [call EXCEPT ![a].op = "shift"]
    /\ UNCHANGED <<ports, serial, stray, lock, shell>>

\* Mutant: the interface is not given back.
RemoveKeepsInterface(a) ==
    /\ call[a].op = "drain"
    /\ \E i \in TcpAt(ports, call[a].tcp), j \in TcpAt(listeners, call[a].tcp) :
         /\ IdAt(sess, ports[i].id) # {}
         /\ sess' = Without(sess, ports[i].id)
         /\ serial' = Without(serial, ports[i].id)
         /\ listeners' = [listeners EXCEPT ![j].net = 0]
    /\ call' = [call EXCEPT ![a].op = "shift"]
    /\ UNCHANGED <<ports, nets, stray, lock, shell>>

RemoveUnregister(a) ==
    /\ call[a].op = "drain"
    /\ \E i \in TcpAt(ports, call[a].tcp), j \in TcpAt(listeners, call[a].tcp) :
         /\ IdAt(sess, ports[i].id) # {}
         /\ sess' = Without(sess, ports[i].id)
         /\ serial' = Without(serial, ports[i].id)
         /\ nets' = [nets EXCEPT ![listeners[j].net] = 0]
         /\ listeners' = [listeners EXCEPT ![j].net = 0]
    /\ call' = [call EXCEPT ![a].op = "shift"]
    /\ UNCHANGED <<ports, stray, lock, shell>>

\* Mutant: the count goes down, and the entries behind stay where they are.
RemoveLastListener(a) ==
    /\ call[a].op = "shift"
    /\ TcpAt(listeners, call[a].tcp) # {}
    /\ listeners' = Front(listeners)
    /\ call' = [call EXCEPT ![a].op = "table"]
    /\ UNCHANGED <<ports, sess, serial, nets, stray, lock, shell>>

RemoveListener(a) ==
    /\ call[a].op = "shift"
    /\ \E j \in TcpAt(listeners, call[a].tcp) : listeners' = RemoveAt(listeners, j)
    /\ call' = [call EXCEPT ![a].op = "table"]
    /\ UNCHANGED <<ports, sess, serial, nets, stray, lock, shell>>

RemovePort(a) ==
    /\ call[a].op = "table"
    /\ \E i \in TcpAt(ports, call[a].tcp) : ports' = RemoveAt(ports, i)
    /\ lock' = None
    /\ call' = [call EXCEPT ![a] = Idle]
    /\ UNCHANGED <<listeners, sess, serial, nets, stray, shell>>

RemoveSteps(a) ==
    \/ \E tcp \in Tcps : RemoveFind(a, tcp)
    \/ RemoveRefused(a)
    \/ RemoveUnregister(a)
    \/ RemoveListener(a)
    \/ RemovePort(a)

---------------------------------------------------------------------------
(* set_port_mode, up to its disconnect loop.  It takes no lock.            *)

\* The shell looks the port up in the part of the table it counts, and keeps
\* the row it found.
SetFind(a, tcp, mode, on) ==
    LET Counted == {i \in DOMAIN ports : i <= shell /\ ports[i].tcp = tcp} IN
    /\ call[a] = Idle
    /\ \E j \in TcpAt(listeners, tcp),
          row \in IF a = Shell THEN First(Counted) ELSE {0} :
         call' = [call EXCEPT ![a] = [op |-> "session", tcp |-> tcp, at |-> j,
                                      row |-> row, mode |-> mode, on |-> on]]
    /\ UNCHANGED <<regs, lock, shell>>

\* The identifier is read from the listener entry, zeroed or not.
SetSession(a) ==
    LET at == call[a].at
        id == IF at \in DOMAIN listeners THEN listeners[at].id ELSE 0
    IN /\ call[a].op = "session"
       /\ IF IdAt(sess, id) = {}
          THEN call' = [call EXCEPT ![a] = Idle] /\ UNCHANGED sess
          ELSE /\ call' = [call EXCEPT ![a].op = "entry"]
               /\ \E i \in IdAt(sess, id) :
                    sess' = [sess EXCEPT ![i].mode = call[a].mode]
       /\ UNCHANGED <<ports, listeners, serial, nets, stray, lock, shell>>

SetEntry(a) ==
    LET at == call[a].at IN
    /\ call[a].op = "entry"
    /\ listeners' = IF at \in DOMAIN listeners
                    THEN [listeners EXCEPT ![at].mode = call[a].mode,
                                           ![at].on = call[a].on]
                    ELSE listeners
    /\ call' = [call EXCEPT ![a].op = "copy"]
    /\ UNCHANGED <<ports, sess, serial, nets, stray, lock, shell>>

\* A port entry with what the call asks for.
Asked(e, c) == [e EXCEPT !.mode = c.mode, !.on = c.on]

\* The port table's own entry, found by its TCP port.
SetCopy(a) ==
    /\ call[a].op = "copy"
    /\ ports' = [i \in DOMAIN ports |->
                    IF ports[i].tcp = call[a].tcp THEN Asked(ports[i], call[a])
                    ELSE ports[i]]
    /\ call' = [call EXCEPT ![a] = IF a = Shell THEN [@ EXCEPT !.op = "own"] ELSE Idle]
    /\ UNCHANGED <<listeners, sess, serial, nets, stray, lock, shell>>

\* The shell writes the row it found before the call once more, whatever port
\* is there by now.
SetOwn(a) ==
    LET row == call[a].row IN
    /\ call[a].op = "own"
    /\ ports' = IF row \in DOMAIN ports
                THEN [ports EXCEPT ![row] = Asked(@, call[a])] ELSE ports
    /\ call' = [call EXCEPT ![a] = Idle]
    /\ UNCHANGED <<listeners, sess, serial, nets, stray, lock, shell>>

SetSteps(a) ==
    \/ \E tcp \in Tcps, m \in Modes, on \in BOOLEAN : SetFind(a, tcp, m, on)
    \/ SetSession(a)
    \/ SetEntry(a)
    \/ SetCopy(a)
    \/ SetOwn(a)

Next == \E a \in Admins : AddSteps(a) \/ RemoveSteps(a) \/ SetSteps(a)

Spec == Init /\ [][Next]_vars

---------------------------------------------------------------------------
(* Properties.                                                             *)

SamePorts(reg) ==
    /\ Len(reg) = Len(ports)
    /\ \A i \in DOMAIN reg : reg[i].id = ports[i].id /\ reg[i].tcp = ports[i].tcp

\* No identifier and no TCP port is there twice.
Once(reg) ==
    \A i, j \in DOMAIN reg : reg[i].id = reg[j].id \/ reg[i].tcp = reg[j].tcp => i = j

\* Whenever port_lock is free the port table and the listeners have the same
\* ports in the same order, and both registries have those ports, once each,
\* and nothing else but the ports of failed adds that had chosen the identifier
\* themselves, which the roll-back does not find (runtime.c add_port,
\* remove_port; the exception is runtime.c:978-980).  Whatever overlapped or
\* failed before, no such rest stands in the way of a listed port.
RegistriesAgree ==
    lock = None =>
        /\ SamePorts(listeners) /\ Once(ports)
        /\ Once(sess) /\ KeysIn(sess) = KeysIn(ports) \cup stray
        /\ Once(serial) /\ KeysIn(serial) = KeysIn(ports) \cup stray
        /\ KeysIn(ports) \cap stray = {}

\* Whenever port_lock is free an interface of the TCP adapter is in use exactly
\* when one listener has it, and it listens on that listener's port: no socket
\* stays open for a port that is gone and no slot of the pool is lost.
InterfacesMatch ==
    lock = None =>
        \A s \in Slots :
            LET Holders == {j \in DOMAIN listeners : listeners[j].net = s} IN
            IF nets[s] = 0 THEN Holders = {}
            ELSE Cardinality(Holders) = 1 /\ \A j \in Holders : listeners[j].tcp = nets[s]

\* An add_port that fails after it has registered something undoes it: a step
\* that neither begins nor ends a call changes no table.  The exception is the
\* add that chose the identifier itself: it leaves one port in both registries,
\* the new one, and nothing elsewhere (runtime.c:978-980 unregisters -1).
FailedAddUndone ==
    [][call' = call /\ lock' = None =>
        /\ UNCHANGED <<ports, listeners, nets>>
        /\ \/ UNCHANGED <<sess, serial>>
           \/ \E p \in Described(AutoId) : /\ sess' = Append(sess, InSession(p))
                                         /\ serial' = Append(serial, InSerial(p))]_vars
=============================================================================
