----------------------------- MODULE SerialPorts -----------------------------
(***************************************************************************)
(* The serial adapter of the ESP32 under the session tasks: who installs   *)
(* and deletes the UART driver of a port, the unlocked session counters,   *)
(* and remove_port with the handles that sessions still hold.              *)
(*                                                                         *)
(* Sessions of a port share its driver through ports[i].driver_installed.  *)
(* A handle is a pointer to ports[i], so here it is the index i; the entry *)
(* it points to changes when the table is compacted, and behind the end of *)
(* the table its cfg is NULL.  A port, its identifier and its UART are one.*)
(***************************************************************************)
EXTENDS Integers, Sequences, FiniteSets, SequencesExt

CONSTANTS MaxPorts,       \* SER2NET_MAX_PORTS
          Ids,            \* ports that can exist
          Workers,        \* session tasks
          MaxActive,      \* bound: no job is taken while a port is counted this often
          Final           \* bound: slips after which no job or call begins

ASSUME SerialAssumption ==
    /\ MaxPorts \in Nat \ {0}
    /\ MaxActive \in Nat \ {0}
    /\ IsFiniteSet(Workers)
    /\ Final \subseteq {"moved", "raced", "starved"}

Slots == 1..MaxPorts

VARIABLES
    storage,   \* storage[0 .. num_ports): the registered ports
    flag,      \* ports[i].driver_installed
    driver,    \* the UARTs with an IDF driver
    registry,  \* session layer: id and active_sessions of each port
    task,      \* per worker: its place in session_task, job.port_id, the handle
               \* at, pidx and the value of active_sessions[pidx] it loaded
    removal,   \* the remove_port in progress
    halted,    \* a NULL pointer was dereferenced
    slips      \* history: "moved" when a removal hit an entry in use by a
               \* session, "raced" when two updates of a counter overlapped,
               \* "starved" when an open without memory left a flag unsettled

vars == <<storage, flag, driver, registry, task, removal, halted, slips>>

Waiting == [pc |-> "receive"]
None    == [op |-> "none"]

Tasks ==
    {Waiting}
    \cup [pc : {"install", "mark", "flush", "initialise", "register", "io",
                "uncount", "delete", "unmark"}, id : Ids, at : Slots]
    \cup [pc : {"add"}, id : Ids, at : Slots, pidx : Slots, seen : Nat]
    \cup [pc : {"subtract"}, id : Ids, at : Slots, pidx : Slots, seen : Nat \ {0}]

TypeOK ==
    /\ storage \in Seq(Ids) /\ Len(storage) <= MaxPorts
    /\ flag \in [Slots -> BOOLEAN]
    /\ driver \subseteq Ids
    /\ registry \in Seq([id : Ids, active : Nat]) /\ Len(registry) <= MaxPorts
    /\ task \in [Workers -> Tasks]
    /\ removal \in {None} \cup [op : {"drain", "check", "session", "serial"}, id : Ids]
    /\ halted \in BOOLEAN
    /\ slips \subseteq {"moved", "raced", "starved"}

Init ==
    /\ storage \in {s \in BoundedSeq(Ids, MaxPorts) : IsInjective(s)}
    /\ flag = [i \in Slots |-> FALSE]
    /\ driver = {}
    /\ registry = [i \in DOMAIN storage |-> [id |-> storage[i], active |-> 0]]
    /\ task = [w \in Workers |-> Waiting]
    /\ removal = None
    /\ halted = FALSE
    /\ slips = {}

First(S) == {i \in S : \A j \in S : i <= j}
InStorage(id)  == First({i \in DOMAIN storage : storage[i] = id})
InRegistry(id) == First({i \in DOMAIN registry : registry[i].id = id})

At(w, places) == task[w].pc \in places
Goto(w, pc)   == task' = [task EXCEPT ![w].pc = pc]
Leaves(w)     == task' = [task EXCEPT ![w] = Waiting]

\* Whether handle->state->cfg is there to be read, and the UART it names.
HasCfg(w) == task[w].at \in DOMAIN storage
Uart(w)   == storage[task[w].at]

\* Bound: jobs and calls begin while every counter is within MaxActive and no
\* slip is final; what has begun goes on.
MayBegin == /\ slips \cap Final = {}
            /\ \A i \in DOMAIN registry : registry[i].active < MaxActive

---------------------------------------------------------------------------
(* open_serial.                                                            *)

OpenFind(w, id) ==
    /\ At(w, {"receive"})
    /\ MayBegin
    /\ \E i \in InStorage(id) :
         task' = [task EXCEPT ![w] = [pc |-> IF flag[i] THEN "flush" ELSE "install",
                                      id |-> id, at |-> i]]
    /\ UNCHANGED <<storage, flag, driver, registry, slips>>

\* uart_driver_install refuses a UART that has a driver.
OpenInstall(w) ==
    /\ At(w, {"install"}) /\ HasCfg(w)
    /\ Uart(w) \notin driver
    /\ driver' = driver \cup {Uart(w)}
    /\ Goto(w, "mark")
    /\ UNCHANGED <<storage, flag, registry, slips>>

\* Mutant: the flag is set before the driver is there.
OpenFailsMarked(w) ==
    /\ At(w, {"install"}) /\ HasCfg(w)
    /\ flag' = [flag EXCEPT ![task[w].at] = TRUE]
    /\ Leaves(w)
    /\ UNCHANGED <<storage, driver, registry, slips>>

OpenFails(w) ==
    /\ At(w, {"install"}) /\ HasCfg(w)
    /\ Leaves(w)
    /\ UNCHANGED <<storage, flag, driver, registry, slips>>

OpenMark(w) ==
    /\ At(w, {"mark"})
    /\ flag' = [flag EXCEPT ![task[w].at] = TRUE]
    /\ Goto(w, "flush")
    /\ UNCHANGED <<storage, driver, registry, slips>>

Holds(w) == ~At(w, {"receive"})

\* Once the closes that the workers of S have begun are done, the flag of entry
\* i tells whether its UART has a driver, or one of them has its own close
\* still before it, which clears both.
Settled(i, S) ==
    LET on == {w \in S : Holds(w) /\ task[w].at = i} IN
    \/ \E w \in on : ~At(w, {"install", "unmark"})
    \/ (flag[i] /\ \A w \in on : ~At(w, {"unmark"})) <=> storage[i] \in driver

OpenHandle(w) ==
    /\ At(w, {"flush"}) /\ HasCfg(w)
    /\ Goto(w, "initialise")
    /\ UNCHANGED <<storage, flag, driver, registry, slips>>

\* Without memory for a handle the open fails and the driver stays installed,
\* for the next open; the flag may be one that another's close clears, or one
\* set after another's close deleted the driver.
OpenStarves(w) ==
    /\ At(w, {"flush"}) /\ HasCfg(w)
    /\ Leaves(w)
    /\ slips' = IF Settled(task[w].at, Workers \ {w}) THEN slips ELSE slips \cup {"starved"}
    /\ UNCHANGED <<storage, flag, driver, registry>>

---------------------------------------------------------------------------
(* initialise, with the ++ of the counter in two steps, and the listing.   *)

\* Mutant: a session that was not counted is taken off the count too.
InitialiseFailsUncounts(w) ==
    /\ At(w, {"initialise"})
    /\ Goto(w, "uncount")
    /\ UNCHANGED <<storage, flag, driver, registry, slips>>

\* No memory for the context: handle_disconnect has nothing to do.
InitialiseFails(w) ==
    /\ At(w, {"initialise"})
    /\ Goto(w, "delete")
    /\ UNCHANGED <<storage, flag, driver, registry, slips>>

\* Load the counter of the session's port, or go on without one.
Load(w, I, counting, otherwise) ==
    IF I = {} THEN Goto(w, otherwise)
    ELSE \E i \in I : task' = [task EXCEPT ![w] =
            [pc |-> counting, id |-> task[w].id, at |-> task[w].at,
             pidx |-> i, seen |-> registry[i].active]]

Overlaps(w) ==
    \E v \in Workers \ {w} : At(v, {"add", "subtract"}) /\ task[v].pidx = task[w].pidx

\* Store the counter; behind the end of the table the value is lost.
Store(w, n, next) ==
    LET i == task[w].pidx IN
    /\ registry' = IF i \in DOMAIN registry
                   THEN [registry EXCEPT ![i].active = n] ELSE registry
    /\ slips' = IF Overlaps(w) THEN slips \cup {"raced"} ELSE slips
    /\ task' = [task EXCEPT ![w] = [pc |-> next, id |-> task[w].id, at |-> task[w].at]]

InitialiseLoad(w) ==
    /\ At(w, {"initialise"}) /\ HasCfg(w)
    /\ Load(w, InRegistry(task[w].id), "add", "register")
    /\ UNCHANGED <<storage, flag, driver, registry, slips>>

InitialiseStore(w) ==
    /\ At(w, {"add"})
    /\ Store(w, task[w].seen + 1, "register")
    /\ UNCHANGED <<storage, flag, driver>>

Register(w) ==
    /\ At(w, {"register"})
    /\ Goto(w, "io")
    /\ UNCHANGED <<storage, flag, driver, registry, slips>>

---------------------------------------------------------------------------
(* The end of a session.                                                   *)

\* The client hung up or was disconnected.
ClientEnds(w) ==
    /\ At(w, {"io"}) /\ HasCfg(w)
    /\ Goto(w, "uncount")
    /\ UNCHANGED <<storage, flag, driver, registry, slips>>

\* Mutant: an error of serial_read is not the end, as one of recv is not.
IoGoesOn(w) ==
    /\ At(w, {"io"}) /\ HasCfg(w)
    /\ Uart(w) \notin driver
    /\ Goto(w, "io")
    /\ UNCHANGED <<storage, flag, driver, registry, slips>>

\* Reading a UART without a driver is an error, which ends the session.
IoFails(w) ==
    /\ At(w, {"io"}) /\ HasCfg(w)
    /\ Uart(w) \notin driver
    /\ Goto(w, "uncount")
    /\ UNCHANGED <<storage, flag, driver, registry, slips>>

\* Mutant: the counter is taken below zero.
DisconnectUnguarded(w) ==
    /\ At(w, {"uncount"})
    /\ Load(w, InRegistry(task[w].id), "subtract", "delete")
    /\ UNCHANGED <<storage, flag, driver, registry, slips>>

DisconnectLoad(w) ==
    /\ At(w, {"uncount"})
    /\ Load(w, {i \in InRegistry(task[w].id) : registry[i].active > 0}, "subtract", "delete")
    /\ UNCHANGED <<storage, flag, driver, registry, slips>>

DisconnectStore(w) ==
    /\ At(w, {"subtract"})
    /\ Store(w, task[w].seen - 1, "delete")
    /\ UNCHANGED <<storage, flag, driver>>

CloseDelete(w) ==
    /\ At(w, {"delete"}) /\ HasCfg(w)
    /\ driver' = driver \ {Uart(w)}
    /\ Goto(w, "unmark")
    /\ UNCHANGED <<storage, flag, registry, slips>>

CloseUnmark(w) ==
    /\ At(w, {"unmark"})
    /\ flag' = [flag EXCEPT ![task[w].at] = FALSE]
    /\ Leaves(w)
    /\ UNCHANGED <<storage, driver, registry, slips>>

\* The task reads handle->state->cfg->uart_num of an entry without cfg.
Fault(w) ==
    /\ At(w, {"install", "flush", "initialise", "io", "delete"}) /\ ~HasCfg(w)
    /\ halted' = TRUE
    /\ UNCHANGED <<storage, flag, driver, registry, task, slips>>

\* What a worker does on its own, once it has a job.
Serve(w) ==
    \/ OpenInstall(w) \/ OpenFails(w) \/ OpenMark(w) \/ OpenHandle(w) \/ OpenStarves(w)
    \/ InitialiseFails(w) \/ InitialiseLoad(w) \/ InitialiseStore(w)
    \/ Register(w) \/ IoFails(w)
    \/ DisconnectLoad(w) \/ DisconnectStore(w)
    \/ CloseDelete(w) \/ CloseUnmark(w)

SessionTask(w) ==
    /\ ~halted /\ UNCHANGED removal
    /\ \/ UNCHANGED halted /\ (Serve(w) \/ ClientEnds(w) \/ \E id \in Ids : OpenFind(w, id))
       \/ Fault(w)

---------------------------------------------------------------------------
(* add_port and remove_port, as far as the two layers below see them.      *)
(* port_lock admits one call at a time.                                    *)

Listed(id) == \E w \in Workers : At(w, {"io"}) /\ task[w].id = id

AddPort(id) ==
    /\ removal = None /\ MayBegin
    /\ InStorage(id) = {} /\ Len(storage) < MaxPorts
    /\ storage' = Append(storage, id)
    /\ flag' = [flag EXCEPT ![Len(storage) + 1] = FALSE]
    /\ registry' = Append(registry, [id |-> id, active |-> 0])
    /\ UNCHANGED <<driver, removal, slips>>

RemoveFind(id) ==
    /\ removal = None /\ MayBegin
    /\ InStorage(id) # {}
    /\ removal' = [op |-> "drain", id |-> id]
    /\ UNCHANGED <<storage, flag, driver, registry, slips>>

\* The disconnect loop ends when no session of the port is listed.
RemoveDrained ==
    /\ removal.op = "drain"
    /\ ~Listed(removal.id)
    /\ removal' = [removal EXCEPT !.op = "check"]
    /\ UNCHANGED <<storage, flag, driver, registry, slips>>

RemoveCheck ==
    /\ removal.op = "check"
    /\ removal' = IF Listed(removal.id) THEN None ELSE [removal EXCEPT !.op = "session"]
    /\ UNCHANGED <<storage, flag, driver, registry, slips>>

\* The session layer refuses a port whose counter is not 0.
RemoveSession ==
    /\ removal.op = "session"
    /\ \E i \in InRegistry(removal.id) :
         IF registry[i].active > 0 THEN removal' = None /\ UNCHANGED <<registry, slips>>
         ELSE /\ registry' = RemoveAt(registry, i)
              /\ slips' = IF \E w \in Workers : At(w, {"add", "subtract"}) /\ task[w].pidx >= i
                          THEN slips \cup {"moved"} ELSE slips
              /\ removal' = [removal EXCEPT !.op = "serial"]
    /\ UNCHANGED <<storage, flag, driver>>

\* The flags after the entries behind i moved up by one.
Compacted(i) ==
    [j \in Slots |-> IF j < i \/ j > Len(storage) THEN flag[j]
                     ELSE j < Len(storage) /\ flag[j + 1]]

RemoveSerial ==
    /\ removal.op = "serial"
    /\ \E i \in InStorage(removal.id) :
         /\ driver' = IF flag[i] THEN driver \ {removal.id} ELSE driver
         /\ storage' = RemoveAt(storage, i)
         /\ flag' = Compacted(i)
         /\ slips' = IF \E w \in Workers : Holds(w) /\ task[w].at >= i
                     THEN slips \cup {"moved"} ELSE slips
    /\ removal' = None
    /\ UNCHANGED registry

Administration ==
    /\ ~halted /\ UNCHANGED <<halted, task>>
    /\ \/ \E id \in Ids : AddPort(id) \/ RemoveFind(id)
       \/ RemoveDrained \/ RemoveCheck \/ RemoveSession \/ RemoveSerial

Next == Administration \/ \E w \in Workers : SessionTask(w)

\* A worker with a job is scheduled; clients and administration owe nothing.
Fairness == \A w \in Workers : WF_vars(SessionTask(w) /\ Serve(w))

Spec == Init /\ [][Next]_vars /\ Fairness

---------------------------------------------------------------------------
(* Properties.                                                             *)

Stranded(w) == At(w, {"io"}) /\ HasCfg(w) /\ Uart(w) \notin driver

Quiet == ~halted /\ \A w \in Workers : ~Holds(w)

\* When no worker holds a handle, the flags of the adapter say which UARTs have
\* a driver, and no port that is gone left one behind, whatever the opens and
\* closes of its sessions did to each other (esp32_open_serial,
\* esp32_close_serial, ser2net_esp32_unregister_port).  Excepted are removals
\* under a session, and an open that found no memory for its handle
\* (ser2net_serial_esp32.c:82) and left a flag that another's close then clears,
\* whereupon the port refuses every session, or one without a driver.
FlagsAgree ==
    Quiet /\ slips \cap {"moved", "starved"} = {} /\ removal = None =>
        /\ \A i \in DOMAIN storage : flag[i] <=> storage[i] \in driver
        /\ driver \subseteq ToSet(storage)

\* active_sessions, on which remove_port relies, is the number of sessions of
\* the port: every way a session ends takes it off exactly when it was counted,
\* and the counters move with their port.  Only overlapping updates, which
\* nothing prevents, and removals under a session are excepted.
CountsExact ==
    slips \cap {"moved", "raced"} = {} =>
        \A i \in DOMAIN registry :
            registry[i].active =
                Cardinality({w \in Workers : /\ At(w, {"register", "io", "uncount", "subtract"})
                                             /\ task[w].id = registry[i].id})

\* A session whose driver another session's close has deleted fails on its next
\* read, closes and gives its worker back, unless the next open of the port
\* installs the driver again (esp32_close_serial, session_task).
StrandedSessionEnds ==
    \A w \in Workers :
        Stranded(w) ~> (At(w, {"receive"}) \/ "moved" \in slips \/ Uart(w) \in driver)

\* ser2net_serial_esp32.c:33 - open "Locate[s] the requested UART, install[s] the
\* driver, and return[s] a handle": the handle of a session names the UART of
\* its port.  Unregistering a port moves the entries behind it, under sessions
\* of other ports, and clears the last one.
HandleNamesItsPort ==
    \A w \in Workers : Holds(w) => HasCfg(w) /\ Uart(w) = task[w].id
=============================================================================
