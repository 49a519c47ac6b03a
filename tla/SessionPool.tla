---------------------------- MODULE SessionPool ----------------------------
(***************************************************************************)
(* The session pool of runtime.c: one listener task, a bounded queue of    *)
(* accepted clients, a pool of worker tasks, the table of active sessions  *)
(* and the administrative calls that read that table (disconnect, disable, *)
(* live reconfiguration).                                                  *)
(*                                                                         *)
(* One action is one step a task takes between two points where another    *)
(* task can run: a critical section under active_lock, a queue operation   *)
(* or one adapter call.  Listeners are the fixed ones of runtime_start;    *)
(* a listener, its TCP port and its serial port are one number here.       *)
(***************************************************************************)
EXTENDS Integers, Sequences, FiniteSets

CONSTANTS NumPorts,      \* listeners opened by runtime_start
          MaxSessions,   \* cfg.max_sessions: workers, queue length and table size
          Handles,       \* addresses malloc can return for client handles
          Ctxs,          \* addresses malloc can return for session contexts
          Admins,        \* tasks that call the administrative API
          MaxMatches,    \* SER2NET_MAX_PORTS, the snapshot array of an update
          PeersReset,    \* whether a peer may reset a connection
          None           \* the NULL handle or context

ASSUME PoolAssumption ==
    /\ NumPorts \in Nat \ {0}
    /\ MaxSessions \in Nat \ {0}
    /\ MaxMatches \in Nat \ {0}
    /\ PeersReset \in BOOLEAN
    /\ None \notin Handles \cup Ctxs

Ports   == 1..NumPorts
Workers == 1..MaxSessions
Slots   == 1..MaxSessions

Job   == [tcp : Ports, client : Handles]
NoJob == [tcp |-> 0, client |-> None]

SessionEntry == [tcp : Ports, client : Handles, ctx : Ctxs]
FreeSlot     == [tcp |-> 0, client |-> None, ctx |-> None]

Command ==
    [op : {"idle", "once", "scan", "drain", "apply"}, tcp : Ports \cup {0},
     client : Handles \cup {None}, todo : SUBSET (Slots \X Ctxs)]
NoCommand == [op |-> "idle", tcp |-> 0, client |-> None, todo |-> {}]

VARIABLES
    conn,      \* socket behind each handle; "free": the handle is not allocated
    enabled,   \* listeners[i].enabled
    lpc,       \* listener task: about to "check", "accept" or "send"
    scan,      \* listener task: loop index i
    held,      \* listener task: job.client between accept and queue send
    queue,     \* job_queue
    wpc,       \* where each worker is in session_task
    job,       \* the worker's copy of its job
    ctx,       \* the worker's session_ctx pointer
    slots,     \* runtime_state.sessions
    cmd        \* the administrative call each admin task is inside

lvars == <<lpc, scan, held>>
wvars == <<wpc, job, ctx>>
vars  == <<conn, enabled, lvars, queue, wvars, slots, cmd>>

TypeOK ==
    /\ conn \in [Handles -> {"free", "up", "closed", "shut", "reset"}]
    /\ enabled \in [Ports -> BOOLEAN]
    /\ lpc \in {"check", "accept", "send"}
    /\ scan \in Ports
    /\ held \in Handles \cup {None}
    /\ queue \in Seq(Job)
    /\ Len(queue) <= MaxSessions
    /\ wpc \in [Workers -> {"receive", "setup", "register", "io", "unregister",
                            "dispose", "close"}]
    /\ job \in [Workers -> Job \cup {NoJob}]
    /\ ctx \in [Workers -> Ctxs \cup {None}]
    /\ slots \in [Slots -> SessionEntry \cup {FreeSlot}]
    /\ cmd \in [Admins -> Command]
    \* What a task's position says of the pointers it holds.
    /\ held # None <=> lpc = "send"
    /\ \A w \in Workers :
         /\ job[w] # NoJob <=> wpc[w] # "receive"
         /\ ctx[w] # None <=> wpc[w] \in {"register", "io", "unregister", "dispose"}

Init ==
    /\ conn = [h \in Handles |-> "free"]
    /\ enabled \in [Ports -> BOOLEAN]
    /\ lpc = "check"
    /\ scan = 1
    /\ held = None
    /\ queue = <<>>
    /\ wpc = [w \in Workers |-> "receive"]
    /\ job = [w \in Workers |-> NoJob]
    /\ ctx = [w \in Workers |-> None]
    /\ slots = [s \in Slots |-> FreeSlot]
    /\ cmd = [a \in Admins |-> NoCommand]

InUse(s) == slots[s] # FreeSlot

\* Where a loop over the table stops: the lowest of the slots it matches.
Lowest(S) == {s \in S : \A t \in S : s <= t}

---------------------------------------------------------------------------
(* The listener task.                                                      *)

NextListener == scan' = (scan % NumPorts) + 1

SkipDisabled ==
    /\ lpc = "check"
    /\ ~enabled[scan]
    /\ NextListener
    /\ UNCHANGED <<conn, enabled, lpc, held, queue, wvars, slots, cmd>>

CheckEnabled ==
    /\ lpc = "check"
    /\ enabled[scan]
    /\ lpc' = "accept"
    /\ UNCHANGED <<conn, enabled, scan, held, queue, wvars, slots, cmd>>

\* No connection within the poll time, or no memory for a handle.
AcceptFails ==
    /\ lpc = "accept"
    /\ lpc' = "check"
    /\ NextListener
    /\ UNCHANGED <<conn, enabled, held, queue, wvars, slots, cmd>>

Accept(h) ==
    /\ lpc = "accept"
    /\ conn[h] = "free"
    /\ conn' = [conn EXCEPT ![h] = "up"]
    /\ held' = h
    /\ lpc' = "send"
    /\ UNCHANGED <<enabled, scan, queue, wvars, slots, cmd>>

\* Mutant: the send does not notice that the queue is full.
EnqueueUnbounded ==
    /\ lpc = "send"
    /\ queue' = Append(queue, [tcp |-> scan, client |-> held])
    /\ held' = None
    /\ lpc' = "check"
    /\ NextListener
    /\ UNCHANGED <<conn, enabled, wvars, slots, cmd>>

Enqueue ==
    /\ lpc = "send"
    /\ Len(queue) < MaxSessions
    /\ queue' = Append(queue, [tcp |-> scan, client |-> held])
    /\ held' = None
    /\ lpc' = "check"
    /\ NextListener
    /\ UNCHANGED <<conn, enabled, wvars, slots, cmd>>

\* Mutant: the client that does not fit is dropped without close_client.
RefuseLeaks ==
    /\ lpc = "send"
    /\ Len(queue) = MaxSessions
    /\ held' = None
    /\ lpc' = "check"
    /\ NextListener
    /\ UNCHANGED <<conn, enabled, queue, wvars, slots, cmd>>

\* The queue is full: the zero-timeout send fails and the client is closed.
Refuse ==
    /\ lpc = "send"
    /\ Len(queue) = MaxSessions
    /\ conn' = [conn EXCEPT ![held] = "free"]
    /\ held' = None
    /\ lpc' = "check"
    /\ NextListener
    /\ UNCHANGED <<enabled, queue, wvars, slots, cmd>>

Listener ==
    \/ SkipDisabled
    \/ CheckEnabled
    \/ AcceptFails
    \/ \E h \in Handles : Accept(h)
    \/ Enqueue
    \/ Refuse

---------------------------------------------------------------------------
(* A worker task.                                                          *)

Goto(w, from, to) == wpc[w] = from /\ wpc' = [wpc EXCEPT ![w] = to]

\* close_client: the socket is closed and its handle goes back to the heap.
CloseClient(w) ==
    /\ conn' = [conn EXCEPT ![job[w].client] = "free"]
    /\ job' = [job EXCEPT ![w] = NoJob]

\* Mutant: the newest job is served first.
ReceiveNewest(w) ==
    /\ Goto(w, "receive", "setup")
    /\ queue # <<>>
    /\ job' = [job EXCEPT ![w] = queue[Len(queue)]]
    /\ queue' = SubSeq(queue, 1, Len(queue) - 1)
    /\ UNCHANGED <<conn, enabled, lvars, ctx, slots, cmd>>

Receive(w) ==
    /\ Goto(w, "receive", "setup")
    /\ queue # <<>>
    /\ job' = [job EXCEPT ![w] = Head(queue)]
    /\ queue' = Tail(queue)
    /\ UNCHANGED <<conn, enabled, lvars, ctx, slots, cmd>>

\* open_serial, then initialise, which allocates the context.
Setup(w, c) ==
    /\ Goto(w, "setup", "register")
    /\ \A v \in Workers : ctx[v] # c
    /\ ctx' = [ctx EXCEPT ![w] = c]
    /\ UNCHANGED <<conn, enabled, lvars, queue, job, slots, cmd>>

\* open_serial failed, or initialise failed before it stored a context:
\* handle_disconnect then finds nothing to release.
SetupFails(w) ==
    /\ Goto(w, "setup", "receive")
    /\ CloseClient(w)
    /\ UNCHANGED <<enabled, lvars, queue, ctx, slots, cmd>>

EntryOf(w) == [tcp |-> job[w].tcp, client |-> job[w].client, ctx |-> ctx[w]]

\* Mutant: the first slot is taken without looking whether it is in use.
RegisterFirstSlot(w) ==
    /\ Goto(w, "register", "io")
    /\ slots' = [slots EXCEPT ![1] = EntryOf(w)]
    /\ UNCHANGED <<conn, enabled, lvars, queue, job, ctx, cmd>>

\* active_sessions_register.  Its result is ignored: with no free slot the
\* session runs unlisted.
Register(w) ==
    LET Free == {s \in Slots : ~InUse(s)} IN
    /\ Goto(w, "register", "io")
    /\ IF Free = {}
       THEN UNCHANGED slots
       ELSE \E s \in Lowest(Free) : slots' = [slots EXCEPT ![s] = EntryOf(w)]
    /\ UNCHANGED <<conn, enabled, lvars, queue, job, ctx, cmd>>

\* Mutant: only the peer's own close ends the loop.
RecvPeerClosed(w) ==
    /\ Goto(w, "io", "unregister")
    /\ conn[job[w].client] = "closed"
    /\ UNCHANGED <<conn, enabled, lvars, queue, job, ctx, slots, cmd>>

\* process_io: recv reports an orderly end of the stream.
RecvClosed(w) ==
    /\ Goto(w, "io", "unregister")
    /\ conn[job[w].client] \in {"closed", "shut"}
    /\ UNCHANGED <<conn, enabled, lvars, queue, job, ctx, slots, cmd>>

\* Mutant: the error path of the loop skips active_sessions_unregister.
IoFailsListed(w) ==
    /\ Goto(w, "io", "dispose")
    /\ UNCHANGED <<conn, enabled, lvars, queue, job, ctx, slots, cmd>>

\* process_io: the UART fails, or a send to the client does.  An error from
\* recv (a reset connection) is not among the reasons to stop.
IoFails(w) ==
    /\ Goto(w, "io", "unregister")
    /\ UNCHANGED <<conn, enabled, lvars, queue, job, ctx, slots, cmd>>

\* Mutant: the entry is looked up by its TCP port alone.
UnregisterByPort(w) ==
    LET Mine == {s \in Slots : InUse(s) /\ slots[s].tcp = job[w].tcp} IN
    /\ Goto(w, "unregister", "dispose")
    /\ \E s \in Lowest(Mine) : slots' = [slots EXCEPT ![s] = FreeSlot]
    /\ UNCHANGED <<conn, enabled, lvars, queue, job, ctx, cmd>>

\* active_sessions_unregister
Unregister(w) ==
    LET Mine == {s \in Slots : InUse(s) /\ slots[s].tcp = job[w].tcp
                                        /\ slots[s].client = job[w].client} IN
    /\ Goto(w, "unregister", "dispose")
    /\ IF Mine = {}
       THEN UNCHANGED slots
       ELSE \E s \in Lowest(Mine) : slots' = [slots EXCEPT ![s] = FreeSlot]
    /\ UNCHANGED <<conn, enabled, lvars, queue, job, ctx, cmd>>

\* handle_disconnect frees the session context.
Dispose(w) ==
    /\ Goto(w, "dispose", "close")
    /\ ctx' = [ctx EXCEPT ![w] = None]
    /\ UNCHANGED <<conn, enabled, lvars, queue, job, slots, cmd>>

Close(w) ==
    /\ Goto(w, "close", "receive")
    /\ CloseClient(w)
    /\ UNCHANGED <<enabled, lvars, queue, ctx, slots, cmd>>

\* What a worker does without a fault from the outside.
Worker(w) ==
    \/ Receive(w)
    \/ \E c \in Ctxs : Setup(w, c)
    \/ SetupFails(w)
    \/ Register(w)
    \/ RecvClosed(w)
    \/ Unregister(w)
    \/ Dispose(w)
    \/ Close(w)

---------------------------------------------------------------------------
(* Administrative calls: the control shell or an application task.         *)

\* The sessions a scan of the table for a TCP port matches.
SessionsOn(p) == {s \in Slots : InUse(s) /\ slots[s].tcp = p}

\* client_shutdown on the handle picked earlier.  A live socket stops in both
\* directions.  When the handle has been freed since, the descriptor read from
\* it is garbage: nothing happens, or any open connection is shut down.
ClientShutdown(h) ==
    LET Hit == IF conn[h] = "free" THEN Handles ELSE {h} IN
    \/ \E g \in Hit : conn[g] = "up" /\ conn' = [conn EXCEPT ![g] = "shut"]
    \/ conn[h] # "up" /\ UNCHANGED conn

\* disconnect_tcp_port up to the unlock; with no match the call returns false
\* and nothing changes.
Disconnect(a, p) ==
    /\ cmd[a].op = "idle"
    /\ \E s \in Lowest(SessionsOn(p)) :
         cmd' = [cmd EXCEPT ![a] = [@ EXCEPT !.op = "once", !.tcp = p,
                                             !.client = slots[s].client]]
    /\ UNCHANGED <<conn, enabled, lvars, queue, wvars, slots>>

ShutdownOnce(a) ==
    /\ cmd[a].op = "once"
    /\ ClientShutdown(cmd[a].client)
    /\ cmd' = [cmd EXCEPT ![a] = NoCommand]
    /\ UNCHANGED <<enabled, lvars, queue, wvars, slots>>

\* set_port_mode with enable = true
Enable(a, p) ==
    /\ cmd[a].op = "idle"
    /\ enabled' = [enabled EXCEPT ![p] = TRUE]
    /\ UNCHANGED <<conn, lvars, queue, wvars, slots, cmd>>

\* Mutant: the listener is not disabled before its sessions are dropped.
DisableKeepsAccepting(a, p) ==
    /\ cmd[a].op = "idle"
    /\ cmd' = [cmd EXCEPT ![a] = [@ EXCEPT !.op = "scan", !.tcp = p]]
    /\ UNCHANGED <<conn, enabled, lvars, queue, wvars, slots>>

\* set_port_mode with enable = false, up to its disconnect loop
Disable(a, p) ==
    /\ cmd[a].op = "idle"
    /\ enabled' = [enabled EXCEPT ![p] = FALSE]
    /\ cmd' = [cmd EXCEPT ![a] = [@ EXCEPT !.op = "scan", !.tcp = p]]
    /\ UNCHANGED <<conn, lvars, queue, wvars, slots>>

\* One call of disconnect_tcp_port in the loop: pick, unlock, shut down; the
\* loop and the call end when no session of the port is listed.
DrainPick(a) ==
    LET On == SessionsOn(cmd[a].tcp) IN
    /\ cmd[a].op = "scan"
    /\ \/ On = {} /\ cmd' = [cmd EXCEPT ![a] = NoCommand]
       \/ \E s \in Lowest(On) :
            cmd' = [cmd EXCEPT ![a] = [@ EXCEPT !.op = "drain",
                                                !.client = slots[s].client]]
    /\ UNCHANGED <<conn, enabled, lvars, queue, wvars, slots>>

DrainShutdown(a) ==
    /\ cmd[a].op = "drain"
    /\ ClientShutdown(cmd[a].client)
    /\ cmd' = [cmd EXCEPT ![a] = [@ EXCEPT !.op = "scan", !.client = None]]
    /\ UNCHANGED <<enabled, lvars, queue, wvars, slots>>

\* update_serial_config with apply_active: the contexts it copies under the
\* lock, at most MaxMatches of them.
Matches(p) ==
    {<<s, slots[s].ctx>> : s \in {t \in SessionsOn(p) :
        Cardinality({u \in SessionsOn(p) : u <= t}) <= MaxMatches}}

Update(a, p) ==
    /\ cmd[a].op = "idle"
    /\ SessionsOn(p) # {}
    /\ cmd' = [cmd EXCEPT ![a] = [@ EXCEPT !.op = "apply", !.tcp = p,
                                           !.todo = Matches(p)]]
    /\ UNCHANGED <<conn, enabled, lvars, queue, wvars, slots>>

\* The copied contexts are applied in table order, after the unlock.
ApplyOne(a) ==
    /\ cmd[a].op = "apply"
    /\ \E m \in cmd[a].todo :
         LET rest == cmd[a].todo \ {m} IN
         /\ \A n \in rest : m[1] < n[1]
         /\ cmd' = [cmd EXCEPT ![a] = IF rest = {} THEN NoCommand
                                      ELSE [@ EXCEPT !.todo = rest]]
    /\ UNCHANGED <<conn, enabled, lvars, queue, wvars, slots>>

\* A call in progress goes on.
Admin(a) ==
    \/ ShutdownOnce(a)
    \/ DrainPick(a)
    \/ DrainShutdown(a)
    \/ ApplyOne(a)

Call(a, p) ==
    \/ Disconnect(a, p)
    \/ Enable(a, p)
    \/ Disable(a, p)
    \/ Update(a, p)

---------------------------------------------------------------------------
(* The peers.                                                              *)

PeerClose(h) ==
    /\ conn[h] = "up"
    /\ conn' = [conn EXCEPT ![h] = "closed"]
    /\ UNCHANGED <<enabled, lvars, queue, wvars, slots, cmd>>

\* After a reset recv reports an error, not the end of the stream.
PeerReset(h) ==
    /\ PeersReset
    /\ conn[h] = "up"
    /\ conn' = [conn EXCEPT ![h] = "reset"]
    /\ UNCHANGED <<enabled, lvars, queue, wvars, slots, cmd>>

Next ==
    \/ Listener
    \/ \E w \in Workers : Worker(w) \/ IoFails(w)
    \/ \E a \in Admins : Admin(a) \/ \E p \in Ports : Call(a, p)
    \/ \E h \in Handles : PeerClose(h) \/ PeerReset(h)

Spec == Init /\ [][Next]_vars

\* The scheduler runs every task that is ready, so a task that can take a step
\* takes one.  Peers, faults and new calls are never obliged to happen.
Fairness ==
    /\ WF_vars(Listener)
    /\ \A w \in Workers : WF_vars(Worker(w))
    /\ \A a \in Admins : WF_vars(Admin(a))

FairSpec == Spec /\ Fairness

---------------------------------------------------------------------------
(* Properties.                                                             *)

Queued(h) == \E i \in DOMAIN queue : queue[i].client = h
Served(h) == \E w \in Workers : job[w].client = h

\* A client handle has exactly one owner from accept to close_client, whichever
\* of the listener, the queue and the workers has it: it is never leaked,
\* closed twice or served by two workers.  Nor do two sessions share a context
\* (runtime.c listener_task, session_task).
OneOwner ==
    /\ \A h \in Handles : conn[h] # "free" <=> held = h \/ Queued(h) \/ Served(h)
    /\ ~Queued(held) /\ (held # None => ~Served(held))
    /\ \A i, j \in DOMAIN queue : queue[i].client = queue[j].client => i = j
    /\ \A i \in DOMAIN queue : ~Served(queue[i].client)
    /\ \A v, w \in Workers : job[v].client = job[w].client => v = w \/ job[v] = NoJob
    /\ \A v, w \in Workers : ctx[v] = ctx[w] => v = w \/ ctx[v] = None

\* A worker whose session is in the table.
Listed(w) == wpc[w] \in {"io", "unregister"}

\* The session table lists exactly the sessions of the workers inside their I/O
\* loop, once each, with the worker's own client and context, so a reader under
\* active_lock never sees a freed handle or context (active_sessions_register
\* and _unregister bracket the lifetime of what they publish).
TableMatchesWorkers ==
    /\ \A w \in Workers : Listed(w) =>
         \E s \in Slots :
            /\ slots[s] = EntryOf(w)
            /\ \A t \in Slots : slots[t].client = job[w].client => t = s
    /\ \A s \in Slots : InUse(s) =>
         \E w \in Workers : Listed(w) /\ job[w].client = slots[s].client

\* A worker that comes to register always finds a free slot, which is what
\* makes it harmless that session_task ignores the result.
RegisterFindsSlot ==
    \A w \in Workers : wpc[w] = "register" => \E s \in Slots : ~InUse(s)

\* A listed session leaves the table only by the worker that serves it: no
\* other task, and no reuse of its handle's address, overwrites or clears it.
SlotClearedByOwner ==
    [][\A s \in Slots : InUse(s) /\ slots'[s] # slots[s] =>
         /\ slots'[s] = FreeSlot
         /\ \E w \in Workers : /\ job[w].client = slots[s].client
                               /\ wpc[w] = "unregister" /\ wpc'[w] = "dispose"]_vars

\* A session whose client hung up, or was shut down, gives its handle back.
EndedSessionIsReleased ==
    \A w \in Workers :
        (Listed(w) /\ conn[job[w].client] \in {"closed", "shut"})
            ~> (wpc[w] = "receive")

\* set_port_mode(enable = false) returns: its disconnect loop ends although
\* clients accepted earlier still come out of the queue.
DisableReturns ==
    \A a \in Admins : (cmd[a].op \in {"scan", "drain"}) ~> (cmd[a].op = "idle")

\* runtime.c:235-237 - a worker "keeps pumping data until either side
\* disconnects".  A reset makes recv fail with -1, which process_io ignores:
\* refuted.
ResetSessionEnds ==
    \A w \in Workers :
        (Listed(w) /\ conn[job[w].client] = "reset") ~> (wpc[w] = "receive")
=============================================================================
