------------------------------- MODULE Startup -------------------------------
(***************************************************************************)
(* From a JSON configuration to a running service and back: the loader     *)
(* takes an interface slot per port, runtime_start opens the listeners and *)
(* creates the shell, the queue and the tasks, runtime_stop takes them     *)
(* down.  Any step may fail, and what it leaves behind is there for the    *)
(* next configuration.                                                     *)
(***************************************************************************)
EXTENDS Integers, Sequences, FiniteSets, SequencesExt

CONSTANTS MaxPorts,      \* SER2NET_MAX_PORTS: interface slots, listeners, ports
          TcpPorts,      \* TCP ports a configuration may name
          MaxItems,      \* bound: serial items of a configuration
          MaxSessions,   \* sessions.max of every configuration
          Workers        \* bound: session tasks there can be in all

ASSUME StartupAssumption ==
    /\ MaxPorts \in Nat \ {0} /\ MaxItems \in Nat
    /\ MaxSessions \in Nat \ {0}

Slots   == 1..MaxPorts
Items   == [tcp : TcpPorts, on : BOOLEAN]
Configs == [items : BoundedSeq(Items, MaxItems), control : {"absent", "given", "invalid"}]

VARIABLES
    pool,      \* g_esp32_network_entries: in_use, the TCP port, listen_fd >= 0
    config,    \* the configuration given to the loader
    wanted,    \* app_cfg.runtime_cfg.listeners: TCP port and slot
    entries,   \* runtime_state.listeners[0 .. listener_count)
    phase,     \* where the application is: loading, starting, running, stopping
    shell,     \* the control port runs
    queue,     \* runtime_state.job_queue is there
    listener,  \* the listener task runs
    worker,    \* per session task: "none", at the queue, busy with a session, or
               \* blocked on a queue that was deleted
    halted,    \* a queue that is not there was used
    failures   \* history: the steps that failed after slots were taken

vars == <<pool, config, wanted, entries, phase, shell, queue, listener, worker, halted,
          failures>>
tasks == <<shell, queue, listener, worker>>

FreeSlot == [used |-> FALSE, tcp |-> 0, fd |-> FALSE]
NoConfig == [items |-> <<>>, control |-> "absent"]

TypeOK ==
    /\ pool \in [Slots -> [used : BOOLEAN, tcp : TcpPorts \cup {0}, fd : BOOLEAN]]
    /\ config \in Configs
    /\ wanted \in BoundedSeq([tcp : TcpPorts, slot : Slots], MaxPorts)
    /\ \A i, j \in DOMAIN wanted : wanted[i].slot = wanted[j].slot => i = j
    /\ entries \in BoundedSeq([tcp : TcpPorts, slot : Slots, enabled : BOOLEAN], MaxPorts)
    /\ phase \in {"unloaded", "slots", "loaded", "open", "queue", "listener", "workers",
                  "running", "failed", "stopListener", "stopQueue", "release"}
    /\ shell \in BOOLEAN /\ queue \in BOOLEAN /\ listener \in BOOLEAN /\ halted \in BOOLEAN
    /\ worker \in [Workers -> {"none", "receive", "busy", "stuck"}]
    /\ failures \subseteq {"load", "open"}

Init ==
    /\ pool = [s \in Slots |-> FreeSlot]
    /\ config = NoConfig /\ wanted = <<>> /\ entries = <<>>
    /\ phase = "unloaded"
    /\ shell = FALSE /\ queue = FALSE /\ listener = FALSE
    /\ worker = [w \in Workers |-> "none"]
    /\ halted = FALSE /\ failures = {}

First(S) == {i \in S : \A j \in S : i <= j}

---------------------------------------------------------------------------
(* ser2net_load_config_json_esp32.  An item that does not parse fails the  *)
(* load before the first slot is taken.                                    *)

\* The items that become ports; the rest is ignored.
Loaded(c) == SubSeq(c.items, 1, IF Len(c.items) < MaxPorts THEN Len(c.items) ELSE MaxPorts)

Parse(c) ==
    /\ phase = "unloaded"
    /\ config' = c /\ wanted' = <<>> /\ phase' = "slots"
    /\ UNCHANGED <<pool, entries, tasks, failures>>

\* Mutant: the slot is not marked as in use.
TakeSlotUnmarked ==
    /\ phase = "slots" /\ Len(wanted) < Len(Loaded(config))
    /\ \E s \in First({s \in Slots : ~pool[s].used}) :
         LET tcp == config.items[Len(wanted) + 1].tcp IN
         /\ pool' = [pool EXCEPT ![s] = [used |-> FALSE, tcp |-> tcp, fd |-> FALSE]]
         /\ wanted' = Append(wanted, [tcp |-> tcp, slot |-> s])
    /\ UNCHANGED <<config, entries, phase, tasks, failures>>

TakeSlot ==
    /\ phase = "slots" /\ Len(wanted) < Len(Loaded(config))
    /\ \E s \in First({s \in Slots : ~pool[s].used}) :
         LET tcp == config.items[Len(wanted) + 1].tcp IN
         /\ pool' = [pool EXCEPT ![s] = [used |-> TRUE, tcp |-> tcp, fd |-> FALSE]]
         /\ wanted' = Append(wanted, [tcp |-> tcp, slot |-> s])
    /\ UNCHANGED <<config, entries, phase, tasks, failures>>

LoadFails ==
    /\ phase' = "unloaded" /\ wanted' = <<>> /\ config' = NoConfig
    /\ failures' = IF wanted = <<>> THEN failures ELSE failures \cup {"load"}
    /\ UNCHANGED <<pool, entries, tasks>>

NoSlot ==
    /\ phase = "slots" /\ Len(wanted) < Len(Loaded(config))
    /\ \A s \in Slots : pool[s].used
    /\ LoadFails

LoadControl ==
    /\ phase = "slots" /\ Len(wanted) = Len(Loaded(config))
    /\ config.control # "invalid"
    /\ phase' = "loaded"
    /\ UNCHANGED <<pool, config, wanted, entries, tasks, failures>>

ControlInvalid ==
    /\ phase = "slots" /\ Len(wanted) = Len(Loaded(config))
    /\ config.control = "invalid"
    /\ LoadFails

---------------------------------------------------------------------------
(* ser2net_runtime_start.                                                  *)

StartBegin ==
    /\ phase = "loaded"
    /\ entries' = <<>> /\ phase' = "open"
    /\ UNCHANGED <<pool, config, wanted, tasks, failures>>

\* No memory for the session table or a mutex.
StartMemory ==
    /\ phase = "loaded"
    /\ entries' = <<>> /\ phase' = "failed"
    /\ failures' = IF wanted = <<>> THEN failures ELSE failures \cup {"open"}
    /\ UNCHANGED <<pool, config, wanted, tasks>>

\* port_table is filled from the control context, which a configuration
\* without a control section leaves empty.
PortTable == IF config.control = "absent" THEN <<>> ELSE Loaded(config)

\* Mutant: the first entry of the port table is taken for the port's own.
EnabledOfFirst(tcp) == PortTable = <<>> \/ PortTable[1].on

Enabled(tcp) ==
    \A j \in First({j \in DOMAIN PortTable : PortTable[j].tcp = tcp}) : PortTable[j].on

Listening(tcp) == \E s \in Slots : pool[s].fd /\ pool[s].tcp = tcp

OpenListener ==
    LET n == Len(entries) + 1 IN
    /\ phase = "open" /\ n <= Len(wanted)
    /\ ~Listening(wanted[n].tcp)
    /\ pool' = [pool EXCEPT ![wanted[n].slot].fd = TRUE]
    /\ entries' = Append(entries, [tcp |-> wanted[n].tcp, slot |-> wanted[n].slot,
                                   enabled |-> Enabled(wanted[n].tcp)])
    /\ UNCHANGED <<config, wanted, phase, tasks, failures>>

\* The entry that fails and those behind it are not counted.
OpenFails ==
    /\ phase = "open" /\ Len(entries) < Len(wanted)
    /\ phase' = "failed"
    /\ failures' = failures \cup {"open"}
    /\ UNCHANGED <<pool, config, wanted, entries, tasks>>

\* The start of the shell may fail without failing the start.
StartShell ==
    /\ phase = "open" /\ Len(entries) = Len(wanted)
    /\ shell' \in {FALSE, entries # <<>> /\ config.control = "given"}
    /\ phase' = "queue"
    /\ UNCHANGED <<pool, config, wanted, entries, queue, listener, worker, failures>>

StartQueue ==
    /\ phase = "queue"
    /\ queue' = TRUE /\ phase' = "listener"
    /\ UNCHANGED <<pool, config, wanted, entries, shell, listener, worker, failures>>

\* Mutant: what was opened is no longer counted.
StartFailsUncounted ==
    /\ phase \in {"queue", "listener"}
    /\ phase' = "failed"
    /\ entries' = <<>>
    /\ UNCHANGED <<pool, config, wanted, tasks, failures>>

\* No queue or no listener task: what there is already is left as it is.
StartFails ==
    /\ phase \in {"queue", "listener"}
    /\ phase' = "failed"
    /\ UNCHANGED <<pool, config, wanted, entries, tasks, failures>>

StartListener ==
    /\ phase = "listener"
    /\ listener' = TRUE /\ phase' = "workers"
    /\ UNCHANGED <<pool, config, wanted, entries, shell, queue, worker, failures>>

Create(n) ==
    \E new \in SUBSET {w \in Workers : worker[w] = "none"} :
        /\ Cardinality(new) = n
        /\ worker' = [w \in Workers |-> IF w \in new THEN "receive" ELSE worker[w]]

\* The workers that could be created are left running.
WorkersFail ==
    /\ phase = "workers"
    /\ \E n \in 0..MaxSessions - 1 : Create(n)
    /\ phase' = "failed"
    /\ UNCHANGED <<pool, config, wanted, entries, shell, queue, listener, failures>>

\* Bound: a start needs as many tasks as it creates to be left in Workers.
StartWorkers ==
    /\ phase = "workers"
    /\ Create(MaxSessions)
    /\ phase' = "running"
    /\ UNCHANGED <<pool, config, wanted, entries, shell, queue, listener, failures>>

---------------------------------------------------------------------------
(* ser2net_runtime_stop.                                                   *)

\* Mutant: only a service that ran has a shell to stop.
StopOfRunning ==
    /\ phase \in {"running", "failed"}
    /\ shell' = (shell /\ phase = "failed") /\ phase' = "stopListener"
    /\ UNCHANGED <<pool, config, wanted, entries, queue, listener, worker, failures>>

Stop ==
    /\ phase \in {"running", "failed"}
    /\ shell' = FALSE /\ phase' = "stopListener"
    /\ UNCHANGED <<pool, config, wanted, entries, queue, listener, worker, failures>>

\* Mutant: the listener task is left running.
StopListenerNot ==
    /\ phase = "stopListener"
    /\ phase' = "stopQueue"
    /\ UNCHANGED <<pool, config, wanted, entries, tasks, failures>>

StopListener ==
    /\ phase = "stopListener"
    /\ listener' = FALSE /\ phase' = "stopQueue"
    /\ UNCHANGED <<pool, config, wanted, entries, shell, queue, worker, failures>>

\* The workers are not deleted: those that wait for a job stay blocked.
StopQueue ==
    /\ phase = "stopQueue"
    /\ queue' = FALSE /\ phase' = "release"
    /\ worker' = [w \in Workers |-> IF worker[w] = "receive" THEN "stuck" ELSE worker[w]]
    /\ UNCHANGED <<pool, config, wanted, entries, shell, listener, failures>>

Release ==
    /\ phase = "release"
    /\ pool' = [s \in Slots |-> IF \E i \in DOMAIN entries : entries[i].slot = s
                                THEN FreeSlot ELSE pool[s]]
    /\ entries' = <<>> /\ wanted' = <<>> /\ config' = NoConfig /\ phase' = "unloaded"
    /\ UNCHANGED <<tasks, failures>>

---------------------------------------------------------------------------
(* The workers, as far as the queue is concerned.                          *)

TakeJob(w) ==
    /\ worker[w] = "receive" /\ queue /\ listener
    /\ \E i \in DOMAIN entries : entries[i].enabled
    /\ worker' = [worker EXCEPT ![w] = "busy"]
    /\ UNCHANGED <<pool, config, wanted, entries, phase, shell, queue, listener, failures>>

\* A session may outlive the runtime it was accepted by; its worker then takes
\* the queue of the next one, if there is one.
EndJob(w) ==
    /\ worker[w] = "busy" /\ queue
    /\ worker' = [worker EXCEPT ![w] = "receive"]
    /\ UNCHANGED <<pool, config, wanted, entries, phase, shell, queue, listener, failures>>

EndJobFault(w) ==
    /\ worker[w] = "busy" /\ ~queue
    /\ halted' = TRUE
    /\ UNCHANGED <<pool, config, wanted, entries, phase, tasks, failures>>

Application ==
    \/ \E c \in Configs : Parse(c)
    \/ TakeSlot \/ NoSlot \/ LoadControl \/ ControlInvalid
    \/ StartBegin \/ StartMemory \/ OpenListener \/ OpenFails \/ StartShell
    \/ StartQueue \/ StartFails \/ StartListener \/ WorkersFail \/ StartWorkers
    \/ Stop \/ StopListener \/ StopQueue \/ Release

Next ==
    /\ ~halted
    /\ \/ (Application \/ \E w \in Workers : TakeJob(w) \/ EndJob(w)) /\ UNCHANGED halted
       \/ \E w \in Workers : EndJobFault(w)

Spec == Init /\ [][Next]_vars

---------------------------------------------------------------------------
(* Properties.                                                             *)

\* When the service is down no socket listens, whatever was started, and every
\* interface slot is back in the pool, after any sequence of loads, starts that
\* failed for want of a queue or a task, and stops.  Only a load or a listener
\* that fails after slots were taken loses them (runtime_start, runtime_stop,
\* release_network_if).
StopReturnsSlots ==
    phase = "unloaded" =>
        /\ \A s \in Slots : ~pool[s].fd
        /\ failures = {} => \A s \in Slots : ~pool[s].used

\* A service that runs listens on the ports of its configuration, in order, and
\* a port the configuration disables is disabled.  Without a control section
\* the port table is empty and every port is enabled.
ListenersFollowConfig ==
    phase = "running" =>
        /\ Len(entries) = Len(Loaded(config))
        /\ \A i \in DOMAIN entries :
             /\ entries[i].tcp = config.items[i].tcp
             /\ config.control # "absent" => entries[i].enabled = config.items[i].on

\* While the listener task runs, the queue it sends to and the socket of each
\* listener are there, however the start ended and at every step of the stop:
\* it is created after them and deleted before them.
ListenerHasWhatItUses ==
    listener =>
        /\ queue
        /\ \A i \in DOMAIN entries :
             pool[entries[i].slot] = [used |-> TRUE, tcp |-> entries[i].tcp, fd |-> TRUE]

\* The shell runs only while there are listeners to administer, and a stop ends
\* it also when the start it belonged to had failed.
ShellHasListeners == shell => entries # <<>>

\* runtime.c:504 - stop "cancels listener/worker tasks": when it is done no task
\* of the service is left.
StopCancelsWorkers ==
    phase = "unloaded" => ~listener /\ \A w \in Workers : worker[w] = "none"
=============================================================================
