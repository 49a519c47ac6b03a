------------------------- MODULE SessionPoolProofs -------------------------
(***************************************************************************)
(* Theorems about SessionPool for every number of listeners, workers,      *)
(* client handles and administrative tasks.                                *)
(***************************************************************************)
EXTENDS SessionPool, FiniteSetTheorems, TLAPS

\* The idle values of the records are typed as the type invariant expects.
LEMMA IdleValues ==
    /\ NoJob \notin Job
    /\ FreeSlot \notin SessionEntry
    /\ NoCommand \in Command
  BY PoolAssumption DEF NoJob, Job, FreeSlot, SessionEntry, NoCommand, Command

\* A command keeps its type when the fields a call sets are well typed.
LEMMA CommandFields ==
    ASSUME NEW c \in Command,
           NEW op \in {"idle", "once", "scan", "drain", "apply"},
           NEW p \in Ports, NEW h \in Handles \cup {None},
           NEW todo \in SUBSET (Slots \X Ctxs)
    PROVE  /\ [c EXCEPT !.op = op, !.tcp = p, !.client = h] \in Command
           /\ [c EXCEPT !.op = op, !.tcp = p] \in Command
           /\ [c EXCEPT !.op = op, !.client = h] \in Command
           /\ [c EXCEPT !.op = op, !.tcp = p, !.todo = todo] \in Command
           /\ [c EXCEPT !.todo = todo] \in Command
  BY DEF Command

\* A scan of the table for a port finds typed entries.
LEMMA SessionsOnEntries ==
    ASSUME TypeOK, NEW p, NEW s \in SessionsOn(p)
    PROVE  s \in Slots /\ slots[s] \in SessionEntry
  BY DEF SessionsOn, InUse, TypeOK

---------------------------------------------------------------------------
(* The type invariant.                                                     *)

\* The listener's steps keep every variable typed.
LEMMA TypeListener == TypeOK /\ Listener => TypeOK'
  <1> SUFFICES ASSUME TypeOK, Listener PROVE TypeOK'
    OBVIOUS
  <1> USE PoolAssumption DEF TypeOK, lvars, wvars
  <1>1. scan' = scan \/ NextListener => scan' \in Ports
    BY DEF NextListener, Ports
  <1>2. CASE SkipDisabled \/ CheckEnabled \/ AcceptFails
    BY <1>1, <1>2 DEF SkipDisabled, CheckEnabled, AcceptFails
  <1>3. ASSUME NEW h \in Handles, Accept(h) PROVE TypeOK'
    BY <1>3 DEF Accept
  <1>4. CASE Enqueue
    <2>1. [tcp |-> scan, client |-> held] \in Job
      BY <1>4 DEF Enqueue, Job
    <2>2. queue' \in Seq(Job) /\ Len(queue') <= MaxSessions
      BY <1>4, <2>1 DEF Enqueue
    <2> QED BY <1>1, <1>4, <2>2 DEF Enqueue
  <1>5. CASE Refuse
    BY <1>1, <1>5 DEF Refuse
  <1> QED BY <1>2, <1>3, <1>4, <1>5 DEF Listener

\* So do a worker's.
LEMMA TypeWorker ==
    ASSUME TypeOK, NEW w \in Workers, Worker(w) \/ IoFails(w)
    PROVE  TypeOK'
  <1> USE PoolAssumption, IdleValues DEF TypeOK, lvars, wvars, Goto
  <1>1. CASE Receive(w)
    <2>1. Head(queue) \in Job /\ queue' \in Seq(Job) /\ Len(queue') <= MaxSessions
      BY <1>1 DEF Receive
    <2> QED BY <1>1, <2>1 DEF Receive
  <1>2. ASSUME NEW c \in Ctxs, Setup(w, c) PROVE TypeOK'
    BY <1>2 DEF Setup
  <1>3. CASE SetupFails(w)
    BY <1>3 DEF SetupFails, CloseClient
  <1>4. CASE Register(w)
    <2>1. EntryOf(w) \in SessionEntry
      BY <1>4 DEF Register, EntryOf, SessionEntry, Job, NoJob
    <2>2. slots' \in [Slots -> SessionEntry \cup {FreeSlot}]
      BY <1>4, <2>1 DEF Register, Lowest
    <2> QED BY <1>4, <2>2 DEF Register
  <1>5. CASE RecvClosed(w) \/ IoFails(w)
    BY <1>5 DEF RecvClosed, IoFails
  <1>6. CASE Unregister(w)
    <2>1. slots' \in [Slots -> SessionEntry \cup {FreeSlot}]
      BY <1>6 DEF Unregister, Lowest
    <2> QED BY <1>6, <2>1 DEF Unregister
  <1>7. CASE Dispose(w)
    BY <1>7 DEF Dispose
  <1>8. CASE Close(w)
    BY <1>8 DEF Close, CloseClient
  <1> QED BY <1>1, <1>2, <1>3, <1>4, <1>5, <1>6, <1>7, <1>8 DEF Worker

\* A client_shutdown leaves every socket with a status, and changes none of a
\* handle that is free.
LEMMA ShutdownKeepsAllocation ==
    ASSUME TypeOK, NEW h \in Handles \cup {None}, ClientShutdown(h)
    PROVE  /\ conn' \in [Handles -> {"free", "up", "closed", "shut", "reset"}]
           /\ \A g \in Handles : conn'[g] = "free" <=> conn[g] = "free"
  BY DEF ClientShutdown, TypeOK

\* So do the administrative calls.
LEMMA TypeAdmin ==
    ASSUME TypeOK, NEW a \in Admins,
           Admin(a) \/ \E p \in Ports : Call(a, p)
    PROVE  TypeOK'
  <1> USE PoolAssumption, IdleValues DEF TypeOK, lvars, wvars
  <1>1. SUFFICES cmd' \in [Admins -> Command] /\ enabled' \in [Ports -> BOOLEAN]
                 /\ conn' \in [Handles -> {"free", "up", "closed", "shut", "reset"}]
    BY DEF Admin, Call, ShutdownOnce, DrainPick, DrainShutdown, ApplyOne,
           Disconnect, Enable, Disable, Update
  <1>2. cmd[a].client \in Handles \cup {None} /\ cmd[a].todo \subseteq Slots \X Ctxs
        /\ cmd[a] \in Command
    BY DEF Command
  <1>3. CASE ShutdownOnce(a)
    BY <1>2, <1>3, ShutdownKeepsAllocation DEF ShutdownOnce
  <1>4. CASE DrainPick(a)
    <2>1. ASSUME NEW s \in Lowest(SessionsOn(cmd[a].tcp))
          PROVE  [cmd[a] EXCEPT !.op = "drain", !.client = slots[s].client] \in Command
      <3>1. slots[s].client \in Handles
        BY SessionsOnEntries DEF Lowest, SessionEntry
      <3> QED BY <1>2, <3>1 DEF Command
    <2> QED BY <1>4, <2>1 DEF DrainPick
  <1>5. CASE DrainShutdown(a)
    <2>1. [cmd[a] EXCEPT !.op = "scan", !.client = None] \in Command
      BY <1>2 DEF Command
    <2> QED BY <1>2, <1>5, <2>1, ShutdownKeepsAllocation DEF DrainShutdown
  <1>6. CASE ApplyOne(a)
    <2>1. PICK rest \in SUBSET cmd[a].todo :
            cmd' = [cmd EXCEPT ![a] = IF rest = {} THEN NoCommand
                                      ELSE [cmd[a] EXCEPT !.todo = rest]]
      BY <1>6 DEF ApplyOne
    <2>2. [cmd[a] EXCEPT !.todo = rest] \in Command
      BY <1>2 DEF Command
    <2>3. UNCHANGED <<conn, enabled>>
      BY <1>6 DEF ApplyOne
    <2> QED BY <2>1, <2>2, <2>3
  <1>7. ASSUME NEW p \in Ports, Disconnect(a, p)
        PROVE  TypeOK'
    <2>1. ASSUME NEW s \in Lowest(SessionsOn(p))
          PROVE  [cmd[a] EXCEPT !.op = "once", !.tcp = p,
                                !.client = slots[s].client] \in Command
      <3>1. slots[s].client \in Handles
        BY SessionsOnEntries DEF Lowest, SessionEntry
      <3> QED BY <1>2, <3>1, CommandFields
    <2> QED BY <1>7, <2>1 DEF Disconnect
  <1>8. ASSUME NEW p \in Ports, Enable(a, p) \/ Disable(a, p)
        PROVE  TypeOK'
    <2>1. [cmd[a] EXCEPT !.op = "scan", !.tcp = p] \in Command
      BY <1>2, CommandFields
    <2> QED BY <1>8, <2>1 DEF Enable, Disable
  <1>9. ASSUME NEW p \in Ports, Update(a, p)
        PROVE  TypeOK'
    <2>1. ASSUME NEW m \in Matches(p) PROVE m \in Slots \X Ctxs
      <3>1. PICK s \in SessionsOn(p) : m = <<s, slots[s].ctx>>
        BY <2>1 DEF Matches
      <3> QED BY <3>1, SessionsOnEntries DEF SessionEntry
    <2>2. [cmd[a] EXCEPT !.op = "apply", !.tcp = p, !.todo = Matches(p)] \in Command
      BY <1>2, <2>1, CommandFields
    <2> QED BY <1>9, <2>2 DEF Update
  <1> QED BY <1>3, <1>4, <1>5, <1>6, <1>7, <1>8, <1>9 DEF Admin, Call

\* Every variable keeps its type, the queue its bound, and each task holds a
\* handle, a job or a context exactly where its code has one.
THEOREM TypeCorrect == Spec => []TypeOK
  <1>1. Init => TypeOK
    BY PoolAssumption, IdleValues DEF Init, TypeOK, Ports
  <1>2. TypeOK /\ [Next]_vars => TypeOK'
    <2> SUFFICES ASSUME TypeOK, [Next]_vars PROVE TypeOK'
      OBVIOUS
    <2>1. CASE Listener
      BY <2>1, TypeListener
    <2>2. CASE \E w \in Workers : Worker(w) \/ IoFails(w)
      BY <2>2, TypeWorker
    <2>3. CASE \E a \in Admins : Admin(a) \/ \E p \in Ports : Call(a, p)
      BY <2>3, TypeAdmin
    <2>4. CASE \E h \in Handles : PeerClose(h) \/ PeerReset(h)
      BY <2>4 DEF PeerClose, PeerReset, TypeOK, lvars, wvars
    <2>5. CASE UNCHANGED vars
      BY <2>5 DEF vars, TypeOK, lvars, wvars
    <2> QED BY <2>1, <2>2, <2>3, <2>4, <2>5 DEF Next
  <1> QED BY <1>1, <1>2, PTL DEF Spec
---------------------------------------------------------------------------
(* Ownership of client handles and contexts.                               *)

\* Every queued job names a client handle.
LEMMA QueuedClients ==
    ASSUME TypeOK
    PROVE  /\ \A i \in DOMAIN queue : queue[i].client \in Handles
           /\ ~Queued(None)
  <1>1. \A i \in DOMAIN queue : queue[i] \in Job
    BY DEF TypeOK
  <1>2. \A j \in Job : j.client \in Handles
    BY DEF Job
  <1> QED BY <1>1, <1>2, PoolAssumption DEF Queued

\* A step that moves no handle and no context from one owner to another.
LEMMA OwnersUnchanged ==
    ASSUME OneOwner, UNCHANGED <<held, queue, job, ctx>>,
           \A h \in Handles : conn'[h] = "free" <=> conn[h] = "free"
    PROVE  OneOwner'
  BY DEF OneOwner, Queued, Served

\* Accept takes a free handle; enqueuing and refusing hand it on.
LEMMA OwnerListener == TypeOK /\ OneOwner /\ Listener => OneOwner'
  <1> SUFFICES ASSUME TypeOK, OneOwner, Listener PROVE OneOwner'
    OBVIOUS
  <1> USE PoolAssumption DEF lvars, wvars
  <1>1. CASE SkipDisabled \/ CheckEnabled \/ AcceptFails
    BY <1>1, OwnersUnchanged DEF SkipDisabled, CheckEnabled, AcceptFails
  <1>2. ASSUME NEW h \in Handles, Accept(h) PROVE OneOwner'
    <2>1. held = None /\ ~Queued(h) /\ ~Served(h)
      BY <1>2 DEF Accept, TypeOK, OneOwner
    <2> QED BY <1>2, <2>1 DEF Accept, TypeOK, OneOwner, Queued, Served
  <1>3. CASE Enqueue
    <2> DEFINE n == Len(queue)
    <2>1. n \in Nat /\ Len(queue') = n + 1 /\ held \in Handles
      BY <1>3 DEF Enqueue, TypeOK
    <2>2. \A i \in 1..n : queue'[i] = queue[i]
      BY <1>3 DEF Enqueue, TypeOK
    <2>3. queue'[n + 1].client = held
      BY <1>3 DEF Enqueue, TypeOK
    <2>4. DOMAIN queue = 1..n /\ DOMAIN queue' = 1..(n + 1)
      BY <1>3, <2>1 DEF Enqueue, TypeOK
    <2>5. \A h : Queued(h)' <=> Queued(h) \/ h = held
      BY <2>1, <2>2, <2>3, <2>4 DEF Queued
    <2>6. UNCHANGED <<conn, job, ctx>> /\ held' = None
      BY <1>3 DEF Enqueue
    <2>7. ~Queued(None)
      BY QueuedClients
    <2>8. \A i, j \in DOMAIN queue' : queue'[i].client = queue'[j].client => i = j
      <3> SUFFICES ASSUME NEW i \in 1..(n + 1), NEW j \in 1..(n + 1),
                          queue'[i].client = queue'[j].client
                   PROVE  i = j
        BY <2>4
      <3>1. CASE i \in 1..n /\ j \in 1..n
        BY <3>1, <2>2, <2>4 DEF OneOwner
      <3>2. ASSUME NEW k \in 1..n PROVE queue'[k].client # queue'[n + 1].client
        BY <3>2, <2>2, <2>3, <2>4 DEF OneOwner, Queued
      <3> QED BY <2>1, <3>1, <3>2
    <2>9. \A h : Served(h)' <=> Served(h)
      BY <2>6 DEF Served
    <2>10. \A i \in DOMAIN queue' : ~Served(queue'[i].client)
      BY <2>1, <2>2, <2>3, <2>4, PoolAssumption DEF OneOwner
    <2> QED BY <2>1, <2>5, <2>6, <2>7, <2>8, <2>9, <2>10, PoolAssumption DEF OneOwner
  <1>4. CASE Refuse
    <2>1. held \in Handles /\ ~Queued(held) /\ ~Served(held)
      BY <1>4 DEF Refuse, TypeOK, OneOwner
    <2>2. ~Queued(None)
      BY QueuedClients
    <2> QED BY <1>4, <2>1, <2>2 DEF Refuse, TypeOK, OneOwner, Queued, Served
  <1> QED BY <1>1, <1>2, <1>3, <1>4 DEF Listener

\* A worker takes its handle from the queue and only it gives it back.
LEMMA OwnerWorker ==
    ASSUME TypeOK, OneOwner, NEW w \in Workers, Worker(w) \/ IoFails(w)
    PROVE  OneOwner'
  <1> USE PoolAssumption DEF lvars, wvars, Goto
  <1>1. CASE Receive(w)
    <2> DEFINE n == Len(queue)
    <2>1. n \in Nat \ {0} /\ Len(queue') = n - 1 /\ DOMAIN queue = 1..n
          /\ DOMAIN queue' = 1..(n - 1)
      BY <1>1 DEF Receive, TypeOK
    <2>2. \A i \in 1..(n - 1) : queue'[i] = queue[i + 1]
      BY <1>1 DEF Receive, TypeOK
    <2>3. job[w] = NoJob /\ job' = [job EXCEPT ![w] = queue[1]]
          /\ UNCHANGED <<conn, held, ctx>>
      BY <1>1 DEF Receive, TypeOK
    <2>4. \A h : Queued(h) <=> Queued(h)' \/ h = queue[1].client
      <3>1. ASSUME NEW h, NEW i \in 1..n, queue[i].client = h
            PROVE  Queued(h)' \/ h = queue[1].client
        <4>1. CASE i = 1
          BY <3>1, <4>1
        <4>2. CASE i # 1
          <5>1. i - 1 \in 1..(n - 1) /\ queue'[i - 1] = queue[i]
            BY <2>1, <2>2, <4>2
          <5> QED BY <5>1, <2>1, <3>1 DEF Queued
        <4> QED BY <4>1, <4>2
      <3>2. ASSUME NEW h, NEW i \in 1..(n - 1), queue'[i].client = h
            PROVE  Queued(h)
        BY <2>1, <2>2, <3>2 DEF Queued
      <3>3. Queued(queue[1].client)
        BY <2>1 DEF Queued
      <3> QED BY <2>1, <3>1, <3>2, <3>3 DEF Queued
    <2>5. \A h \in Handles : Served(h)' <=> Served(h) \/ h = queue[1].client
      BY <2>3, <2>1 DEF Served, TypeOK, NoJob
    <2>6. queue[1].client \in Handles /\ ~Served(queue[1].client)
      BY <2>1, QueuedClients DEF OneOwner
    <2>7. \A i \in DOMAIN queue' : queue'[i].client \in Handles
                                   /\ queue'[i].client # queue[1].client
      BY <2>1, <2>2, QueuedClients DEF OneOwner
    <2>8. \A i, j \in DOMAIN queue' : queue'[i].client = queue'[j].client => i = j
      BY <2>1, <2>2 DEF OneOwner
    <2>9. \A i \in DOMAIN queue' : ~Served(queue'[i].client)
      BY <2>1, <2>2 DEF OneOwner
    <2>10. \A u, v \in Workers :
             job'[u].client = job'[v].client => u = v \/ job'[u] = NoJob
      <3> SUFFICES ASSUME NEW u \in Workers, NEW v \in Workers,
                          job'[u].client = job'[v].client, u # v
                   PROVE  job'[u] = NoJob
        OBVIOUS
      <3>1. \A x \in Workers : x # w => job'[x] = job[x]
        BY <2>3 DEF TypeOK
      <3>2. job'[w] = queue[1]
        BY <2>3 DEF TypeOK
      <3>3. CASE u # w /\ v # w
        BY <3>1, <3>3 DEF OneOwner
      <3>4. CASE u = w
        BY <3>1, <3>2, <3>4, <2>6 DEF Served
      <3>5. CASE v = w
        BY <3>1, <3>2, <3>5, <2>6 DEF Served
      <3> QED BY <3>3, <3>4, <3>5
    <2>11. \A h \in Handles : conn'[h] # "free" <=> held' = h \/ Queued(h)' \/ Served(h)'
      BY <2>3, <2>4, <2>5 DEF OneOwner
    <2>12. ~Queued(held)' /\ (held' # None => ~Served(held)')
      <3>1. ~Queued(held)'
        BY <2>3, <2>4 DEF OneOwner, Queued
      <3>2. held # None => held \in Handles /\ held # queue[1].client
        BY <2>4 DEF OneOwner, TypeOK
      <3> QED BY <2>3, <2>5, <3>1, <3>2 DEF OneOwner, Served
    <2> QED BY <2>3, <2>5, <2>7, <2>8, <2>9, <2>10, <2>11, <2>12 DEF OneOwner
  <1>2. ASSUME NEW c \in Ctxs, Setup(w, c) PROVE OneOwner'
    BY <1>2 DEF Setup, TypeOK, OneOwner, Queued, Served
  <1>3. CASE SetupFails(w) \/ Close(w)
    <2>1. job[w] \in Job /\ job' = [job EXCEPT ![w] = NoJob]
          /\ conn' = [conn EXCEPT ![job[w].client] = "free"]
          /\ UNCHANGED <<held, queue, ctx>>
      BY <1>3 DEF SetupFails, Close, CloseClient, TypeOK
    <2>2. job[w].client \in Handles
      BY <2>1 DEF Job
    <2>3. held # job[w].client /\ ~Queued(job[w].client)
      BY <2>2 DEF OneOwner, Served, Queued
    <2>4. \A h \in Handles : Served(h)' <=> Served(h) /\ h # job[w].client
      BY <2>1, <2>2 DEF Served, OneOwner, TypeOK, NoJob
    <2>5. \A h \in Handles : Queued(h)' <=> Queued(h)
      BY <2>1 DEF Queued
    <2>6. \A h \in Handles : conn'[h] # "free" <=> held' = h \/ Queued(h)' \/ Served(h)'
      BY <2>1, <2>2, <2>3, <2>4, <2>5 DEF OneOwner, TypeOK
    <2>7. \A u, v \in Workers :
            job'[u].client = job'[v].client => u = v \/ job'[u] = NoJob
      BY <2>1 DEF OneOwner, TypeOK, NoJob, Job
    <2>8. \A i \in DOMAIN queue : queue[i].client \in Handles
      BY QueuedClients
    <2> QED BY <2>1, <2>4, <2>5, <2>6, <2>7, <2>8 DEF OneOwner, Queued, TypeOK
  <1>4. CASE Register(w) \/ RecvClosed(w) \/ IoFails(w) \/ Unregister(w)
    BY <1>4, OwnersUnchanged DEF Register, RecvClosed, IoFails, Unregister
  <1>5. CASE Dispose(w)
    BY <1>5 DEF Dispose, TypeOK, OneOwner, Queued, Served
  <1> QED BY <1>1, <1>2, <1>3, <1>4, <1>5 DEF Worker

\* A shutdown, even one that reads a freed handle, moves no handle.
LEMMA OwnerAdmin ==
    ASSUME TypeOK, OneOwner, NEW a \in Admins,
           Admin(a) \/ \E p \in Ports : Call(a, p)
    PROVE  OneOwner'
  <1>1. cmd[a].client \in Handles \cup {None}
    BY DEF TypeOK, Command
  <1>2. CASE ShutdownOnce(a) \/ DrainShutdown(a)
    BY <1>1, <1>2, ShutdownKeepsAllocation, OwnersUnchanged
       DEF ShutdownOnce, DrainShutdown, lvars, wvars
  <1>3. CASE DrainPick(a) \/ ApplyOne(a) \/ \E p \in Ports : Call(a, p)
    BY <1>3, OwnersUnchanged
       DEF DrainPick, ApplyOne, Call, Disconnect, Enable, Disable, Update, lvars, wvars
  <1> QED BY <1>2, <1>3 DEF Admin

\* Ownership is inductive relative to the types.
LEMMA OwnerInductive == TypeOK /\ OneOwner /\ [Next]_vars => OneOwner'
  <1> SUFFICES ASSUME TypeOK, OneOwner, [Next]_vars PROVE OneOwner'
    OBVIOUS
  <1>1. CASE Listener
    BY <1>1, OwnerListener
  <1>2. CASE \E w \in Workers : Worker(w) \/ IoFails(w)
    BY <1>2, OwnerWorker
  <1>3. CASE \E a \in Admins : Admin(a) \/ \E p \in Ports : Call(a, p)
    BY <1>3, OwnerAdmin
  <1>4. CASE \E h \in Handles : PeerClose(h) \/ PeerReset(h)
    BY <1>4, OwnersUnchanged DEF PeerClose, PeerReset, TypeOK, lvars, wvars
  <1>5. CASE UNCHANGED vars
    BY <1>5, OwnersUnchanged DEF vars, lvars, wvars
  <1> QED BY <1>1, <1>2, <1>3, <1>4, <1>5 DEF Next

\* No client handle is leaked, closed twice or shared, and no session context
\* is shared, for any number of workers, listeners and handles.
THEOREM HandlesOwnedOnce == Spec => []OneOwner
  <1>1. Init => OneOwner
    BY PoolAssumption DEF Init, OneOwner, Queued, Served, NoJob
  <1>2. TypeOK /\ OneOwner /\ [Next]_vars => OneOwner'
    BY OwnerInductive
  <1> QED BY <1>1, <1>2, TypeCorrect, PTL DEF Spec
---------------------------------------------------------------------------
(* The session table.                                                      *)

\* The inductive invariant: the table can only be trusted because handles have
\* one owner, and ownership because every task's pointers follow its position.
IInv == TypeOK /\ OneOwner /\ TableMatchesWorkers

\* A job in the hands of a worker names a handle; a listed worker has one.
LEMMA ListedJob ==
    ASSUME TypeOK, NEW w \in Workers, wpc[w] # "receive"
    PROVE  job[w] \in Job /\ job[w].client \in Handles /\ job[w].client # None
  BY PoolAssumption DEF TypeOK, Job

\* Read from the slot: it is the entry of one listed worker, and that worker's
\* client is in no other slot.
LEMMA SlotHasWorker ==
    ASSUME TypeOK, TableMatchesWorkers, NEW s \in Slots, InUse(s)
    PROVE  \E w \in Workers :
             /\ Listed(w) /\ slots[s] = EntryOf(w)
             /\ slots[s].client = job[w].client
             /\ \A t \in Slots : slots[t].client = job[w].client => t = s
  <1>1. PICK w \in Workers : Listed(w) /\ job[w].client = slots[s].client
    BY DEF TableMatchesWorkers
  <1>2. PICK r \in Slots : /\ slots[r] = EntryOf(w)
                           /\ \A t \in Slots : slots[t].client = job[w].client => t = r
    BY <1>1 DEF TableMatchesWorkers
  <1> QED BY <1>1, <1>2

\* With every slot taken by a different worker there would be one worker too
\* many: the one about to register.
LEMMA FreeSlotExists == TypeOK /\ TableMatchesWorkers => RegisterFindsSlot
  <1> SUFFICES ASSUME TypeOK, TableMatchesWorkers, NEW w \in Workers,
                      wpc[w] = "register", \A s \in Slots : InUse(s)
               PROVE  FALSE
    BY DEF RegisterFindsSlot
  <1> DEFINE Serves(v, s) == Listed(v) /\ slots[s].client = job[v].client
                          /\ \A t \in Slots : slots[t].client = job[v].client => t = s
             f == [s \in Slots |-> CHOOSE v \in Workers : Serves(v, s)]
  <1>1. \A s \in Slots : f[s] \in Workers /\ Serves(f[s], s)
    <2> SUFFICES ASSUME NEW s \in Slots PROVE \E v \in Workers : Serves(v, s)
      OBVIOUS
    <2> QED BY SlotHasWorker
  <1>2. \A s \in Slots : f[s] # w
    BY <1>1 DEF Listed
  <1>3. f \in [Slots -> Workers \ {w}]
    BY <1>1, <1>2
  <1>4. IsFiniteSet(Slots) /\ Cardinality(Slots) = MaxSessions
    BY FS_Interval, PoolAssumption DEF Slots
  <1>5. IsFiniteSet(Workers) /\ Cardinality(Workers) = MaxSessions
    BY FS_Interval, PoolAssumption DEF Workers
  <1>6. IsFiniteSet(Workers \ {w}) /\ Cardinality(Workers \ {w}) < Cardinality(Slots)
    <2>1. IsFiniteSet(Workers \ {w}) /\ Cardinality(Workers \ {w}) = MaxSessions - 1
      BY <1>5, FS_RemoveElement
    <2> QED BY <1>4, <2>1, PoolAssumption
  <1>7. PICK s \in Slots, t \in Slots : s # t /\ f[s] = f[t]
    <2> HIDE DEF f
    <2> QED BY <1>3, <1>4, <1>6, FS_PigeonHole
  <1>8. Serves(f[s], s) /\ Serves(f[s], t)
    BY <1>1, <1>7
  <1> QED BY <1>7, <1>8

\* A step that changes no slot, no listed worker and nothing it published.
LEMMA TableUnchanged ==
    ASSUME TableMatchesWorkers, UNCHANGED slots,
           \A w \in Workers : Listed(w)' <=> Listed(w),
           \A w \in Workers : Listed(w) => job'[w] = job[w] /\ ctx'[w] = ctx[w]
    PROVE  TableMatchesWorkers'
  BY DEF TableMatchesWorkers, EntryOf, InUse

\* A worker adds its own entry and clears its own entry.
LEMMA TableWorker ==
    ASSUME IInv, NEW w \in Workers, Worker(w) \/ IoFails(w)
    PROVE  TableMatchesWorkers'
  <1> USE PoolAssumption DEF IInv, lvars, wvars, Goto
  <1>1. CASE Receive(w) \/ (\E c \in Ctxs : Setup(w, c)) \/ SetupFails(w)
             \/ RecvClosed(w) \/ IoFails(w) \/ Dispose(w) \/ Close(w)
    BY <1>1, TableUnchanged
       DEF Receive, Setup, SetupFails, RecvClosed, IoFails, Dispose, Close,
           CloseClient, Listed, TypeOK
  <1>2. CASE Register(w)
    <2>1. PICK s \in Slots : ~InUse(s) /\ slots' = [slots EXCEPT ![s] = EntryOf(w)]
      BY <1>2, FreeSlotExists DEF Register, Lowest, RegisterFindsSlot
    <2>2. wpc[w] = "register" /\ wpc' = [wpc EXCEPT ![w] = "io"]
          /\ UNCHANGED <<job, ctx>>
      BY <1>2 DEF Register
    <2>3. job[w] # NoJob /\ job[w].client \in Handles
      BY <2>2, ListedJob DEF TypeOK
    <2>4. \A t \in Slots : slots[t].client # job[w].client
      <3> SUFFICES ASSUME NEW t \in Slots, slots[t].client = job[w].client
                   PROVE  FALSE
        OBVIOUS
      <3>1. InUse(t)
        BY <2>3 DEF InUse, FreeSlot
      <3>2. PICK v \in Workers : Listed(v) /\ job[v].client = slots[t].client
        BY <3>1 DEF TableMatchesWorkers
      <3>3. v # w
        BY <2>2, <3>2 DEF Listed
      <3> QED BY <2>3, <3>2, <3>3 DEF OneOwner
    <2>5. \A v \in Workers : Listed(v)' <=> Listed(v) \/ v = w
      BY <2>2 DEF Listed, TypeOK
    <2>6. \A t \in Slots : slots'[t] = IF t = s THEN EntryOf(w) ELSE slots[t]
      BY <2>1 DEF TypeOK
    <2>7. \A v \in Workers : EntryOf(v)' = EntryOf(v) /\ EntryOf(v).client = job[v].client
      BY <2>2 DEF EntryOf
    <2>8. ASSUME NEW v \in Workers, Listed(v)'
          PROVE  \E r \in Slots :
                   /\ slots'[r] = EntryOf(v)'
                   /\ \A t \in Slots : slots'[t].client = job[v].client => t = r
      <3>1. CASE v = w
        BY <2>4, <2>6, <2>7, <3>1
      <3>2. CASE v # w
        <4>1. PICK r \in Slots :
                /\ slots[r] = EntryOf(v)
                /\ \A t \in Slots : slots[t].client = job[v].client => t = r
          BY <2>5, <2>8, <3>2 DEF TableMatchesWorkers
        <4>2. job[v].client # job[w].client
          BY <2>3, <3>2 DEF OneOwner
        <4>3. job[v].client \in Handles
          BY <2>5, <2>8, <3>2, ListedJob DEF Listed
        <4>4. InUse(r)
          BY <4>1, <4>3, <2>7 DEF InUse, FreeSlot
        <4> QED BY <2>1, <2>6, <2>7, <4>1, <4>2, <4>4
      <3> QED BY <3>1, <3>2
    <2>9. ASSUME NEW t \in Slots, InUse(t)'
          PROVE  \E v \in Workers : Listed(v)' /\ job[v].client = slots'[t].client
      <3>1. CASE t = s
        BY <2>5, <2>6, <2>7, <3>1
      <3>2. CASE t # s
        BY <2>5, <2>6, <2>9, <3>2 DEF TableMatchesWorkers, InUse
      <3> QED BY <3>1, <3>2
    <2> QED BY <2>2, <2>8, <2>9 DEF TableMatchesWorkers
  <1>3. CASE Unregister(w)
    <2>1. wpc[w] = "unregister" /\ wpc' = [wpc EXCEPT ![w] = "dispose"]
          /\ UNCHANGED <<job, ctx>>
      BY <1>3 DEF Unregister
    <2>2. PICK s \in Slots :
            /\ slots[s] = EntryOf(w)
            /\ \A t \in Slots : slots[t].client = job[w].client => t = s
      BY <2>1 DEF TableMatchesWorkers, Listed
    <2>3. job[w].client \in Handles
      BY <2>1, ListedJob
    <2>4. InUse(s) /\ slots[s].tcp = job[w].tcp /\ slots[s].client = job[w].client
      BY <2>2, <2>3 DEF InUse, FreeSlot, EntryOf
    <2>5. slots' = [slots EXCEPT ![s] = FreeSlot]
      BY <1>3, <2>2, <2>4 DEF Unregister, Lowest
    <2>6. \A v \in Workers : Listed(v)' <=> Listed(v) /\ v # w
      BY <2>1 DEF Listed, TypeOK
    <2>7. \A t \in Slots : slots'[t] = IF t = s THEN FreeSlot ELSE slots[t]
      BY <2>5 DEF TypeOK
    <2>8. ASSUME NEW v \in Workers, Listed(v)'
          PROVE  \E r \in Slots :
                   /\ slots'[r] = EntryOf(v)'
                   /\ \A t \in Slots : slots'[t].client = job[v].client => t = r
      <3>1. Listed(v) /\ v # w /\ job[v].client \in Handles
        BY <2>6, <2>8, ListedJob DEF Listed
      <3>2. PICK r \in Slots :
              /\ slots[r] = EntryOf(v)
              /\ \A t \in Slots : slots[t].client = job[v].client => t = r
        BY <3>1 DEF TableMatchesWorkers
      <3>3. job[v].client # job[w].client
        BY <2>1, <3>1 DEF OneOwner, TypeOK
      <3>4. r # s
        BY <2>4, <3>2, <3>3 DEF EntryOf
      <3>5. FreeSlot.client # job[v].client
        BY <3>1 DEF FreeSlot
      <3> QED BY <2>1, <2>7, <3>2, <3>4, <3>5 DEF EntryOf
    <2>9. ASSUME NEW t \in Slots, InUse(t)'
          PROVE  \E v \in Workers : Listed(v)' /\ job[v].client = slots'[t].client
      <3>1. t # s /\ slots'[t] = slots[t] /\ InUse(t)
        BY <2>7, <2>9 DEF InUse
      <3>2. PICK v \in Workers : Listed(v) /\ job[v].client = slots[t].client
        BY <3>1 DEF TableMatchesWorkers
      <3>3. v # w
        BY <2>2, <3>1, <3>2
      <3> QED BY <2>6, <3>1, <3>2, <3>3
    <2> QED BY <2>1, <2>8, <2>9 DEF TableMatchesWorkers
  <1> QED BY <1>1, <1>2, <1>3 DEF Worker

\* The table's agreement with the workers is inductive relative to IInv.
LEMMA TableInductive == IInv /\ [Next]_vars => TableMatchesWorkers'
  <1> SUFFICES ASSUME IInv, [Next]_vars PROVE TableMatchesWorkers'
    OBVIOUS
  <1> USE DEF IInv, lvars, wvars
  <1>1. ASSUME UNCHANGED <<slots, wvars>> PROVE TableMatchesWorkers'
    BY <1>1, TableUnchanged DEF Listed
  <1>2. CASE Listener
    BY <1>1, <1>2
       DEF Listener, SkipDisabled, CheckEnabled, AcceptFails, Accept, Enqueue, Refuse
  <1>3. CASE \E w \in Workers : Worker(w) \/ IoFails(w)
    BY <1>3, TableWorker
  <1>4. CASE \E a \in Admins : Admin(a) \/ \E p \in Ports : Call(a, p)
    BY <1>1, <1>4
       DEF Admin, Call, ShutdownOnce, DrainPick, DrainShutdown, ApplyOne,
           Disconnect, Enable, Disable, Update
  <1>5. CASE \E h \in Handles : PeerClose(h) \/ PeerReset(h)
    BY <1>1, <1>5 DEF PeerClose, PeerReset
  <1>6. CASE UNCHANGED vars
    BY <1>1, <1>6 DEF vars
  <1> QED BY <1>2, <1>3, <1>4, <1>5, <1>6 DEF Next

\* The three invariants together are inductive.
LEMMA Invariant == Spec => []IInv
  <1>1. Init => TableMatchesWorkers
    BY DEF Init, TableMatchesWorkers, Listed, InUse
  <1>2. IInv /\ [Next]_vars => TableMatchesWorkers'
    BY TableInductive
  <1>3. IInv <=> TypeOK /\ OneOwner /\ TableMatchesWorkers
    BY DEF IInv
  <1> QED BY <1>1, <1>2, <1>3, TypeCorrect, HandlesOwnedOnce, PTL DEF Spec

\* For any pool size the session table holds exactly the sessions inside their
\* I/O loop: readers under active_lock see no freed client and no freed context.
THEOREM TableCorrect == Spec => []TableMatchesWorkers
  <1>1. IInv => TableMatchesWorkers
    BY DEF IInv
  <1> QED BY <1>1, Invariant, PTL

\* The result session_task ignores is never a failure: as many slots as workers
\* are enough, whatever order sessions come and go in.
THEOREM RegistrationSucceeds == Spec => []RegisterFindsSlot
  <1>1. IInv => RegisterFindsSlot
    BY FreeSlotExists DEF IInv
  <1> QED BY <1>1, Invariant, PTL

\* The step in which a listed session leaves the table, whatever else happens.
ClearedByOwner ==
    \A s \in Slots : InUse(s) /\ slots'[s] # slots[s] =>
        /\ slots'[s] = FreeSlot
        /\ \E w \in Workers : /\ job[w].client = slots[s].client
                              /\ wpc[w] = "unregister" /\ wpc'[w] = "dispose"

\* An entry is never overwritten, and only its own worker clears it: the search
\* by port and client in active_sessions_unregister cannot hit another session.
THEOREM EntriesAreStable == Spec => SlotClearedByOwner
  <1>1. ASSUME IInv, [Next]_vars PROVE ClearedByOwner
    <2> USE <1>1 DEF ClearedByOwner, lvars, wvars, Goto
    <2>1. CASE UNCHANGED slots
      BY <2>1
    <2>2. ASSUME NEW w \in Workers, Register(w) PROVE ClearedByOwner
      BY <2>2 DEF Register, Lowest, IInv, TypeOK
    <2>3. ASSUME NEW w \in Workers, Unregister(w) PROVE ClearedByOwner
      BY <2>3 DEF Unregister, Lowest, IInv, TypeOK
    <2>4. CASE \E w \in Workers : Worker(w) \/ IoFails(w)
      BY <2>1, <2>2, <2>3, <2>4
         DEF Worker, Receive, Setup, SetupFails, RecvClosed, IoFails, Dispose, Close
    <2>5. CASE Listener
      BY <2>1, <2>5
         DEF Listener, SkipDisabled, CheckEnabled, AcceptFails, Accept, Enqueue, Refuse
    <2>6. CASE \E a \in Admins : Admin(a) \/ \E p \in Ports : Call(a, p)
      BY <2>1, <2>6
         DEF Admin, Call, ShutdownOnce, DrainPick, DrainShutdown, ApplyOne,
             Disconnect, Enable, Disable, Update
    <2>7. CASE \E h \in Handles : PeerClose(h) \/ PeerReset(h)
      BY <2>1, <2>7 DEF PeerClose, PeerReset
    <2>8. CASE UNCHANGED vars
      BY <2>1, <2>8 DEF vars
    <2> QED BY <2>4, <2>5, <2>6, <2>7, <2>8 DEF Next
  <1>2. IInv /\ [Next]_vars => [ClearedByOwner]_vars
    BY <1>1
  <1> QED BY <1>2, Invariant, PTL DEF Spec, SlotClearedByOwner, ClearedByOwner
=============================================================================
