---------------------- MODULE SessionPoolRefinesProofs ----------------------
(***************************************************************************)
(* SessionPool implements ClientService, for every number of listeners,    *)
(* workers, client handles and administrative tasks: where the client of a *)
(* handle is can be read from the queue, the table and the workers, each   *)
(* of which has it at most once, and every step of a task moves at most    *)
(* one client one stage on.                                                *)
(***************************************************************************)
EXTENDS SessionPoolRefines, SessionPoolProofs, SequenceTheorems

\* The stage of the client a worker serves.
StageOfWorker(w) ==
    CASE wpc[w] \in {"setup", "register"} -> "starting"
      [] Listed(w) -> "visible"
      [] OTHER -> "leaving"

\* The stage of every client, by who has it.
StagesAre ==
    \A h \in Handles :
        /\ Queued(h) => stageOf[h] = "waiting"
        /\ \A w \in Workers : job[w].client = h => stageOf[h] = StageOfWorker(w)
        /\ ~Queued(h) /\ ~Served(h) => stageOf[h] = "out"

\* A handle is in the table exactly while the worker that has it is listed, and
\* no other worker has it.
LEMMA StagesByOwner == IInv => StagesAre
  <1> SUFFICES ASSUME IInv, NEW h \in Handles
               PROVE  /\ Queued(h) => stageOf[h] = "waiting"
                      /\ \A w \in Workers : job[w].client = h => stageOf[h] = StageOfWorker(w)
                      /\ ~Queued(h) /\ ~Served(h) => stageOf[h] = "out"
    BY DEF StagesAre
  <1>1. h # None /\ TypeOK /\ OneOwner /\ TableMatchesWorkers
    BY PoolAssumption DEF IInv
  <1>3. ASSUME InTable(h) PROVE \E w \in Workers : Listed(w) /\ job[w].client = h
    <2>1. PICK s \in Slots : slots[s].client = h
      BY <1>3 DEF InTable
    <2>2. InUse(s)
      BY <1>1, <2>1 DEF InUse, FreeSlot
    <2> QED BY <1>1, <2>1, <2>2 DEF TableMatchesWorkers
  <1>2. ASSUME Queued(h) PROVE stageOf[h] = "waiting"
    <2>1. ~Served(h)
      BY <1>1, <1>2 DEF OneOwner, Queued
    <2>2. ~InTable(h) /\ \A pcs : ~ServedAt(h, pcs)
      BY <1>3, <2>1 DEF ServedAt, Served
    <2> QED BY <1>2, <2>2 DEF stageOf
  <1>4. ASSUME NEW w \in Workers, job[w].client = h PROVE stageOf[h] = StageOfWorker(w)
    <2>1. job[w] # NoJob /\ wpc[w] # "receive"
      BY <1>1, <1>4 DEF TypeOK, NoJob
    <2>2. \A v \in Workers : job[v].client = h => v = w
      BY <1>1, <1>4 DEF OneOwner, NoJob
    <2>3. ~Queued(h)
      BY <1>1, <1>4 DEF OneOwner, Queued, Served
    <2>4. InTable(h) <=> Listed(w)
      <3>1. ASSUME Listed(w) PROVE InTable(h)
        <4>1. PICK s \in Slots : slots[s] = EntryOf(w)
          BY <1>1, <3>1 DEF TableMatchesWorkers
        <4> QED BY <1>4, <4>1 DEF InTable, EntryOf
      <3> QED BY <1>3, <2>2, <3>1
    <2>5. \A pcs : ServedAt(h, pcs) <=> wpc[w] \in pcs
      BY <1>4, <2>2 DEF ServedAt
    <2>6. wpc[w] \in {"setup", "register", "io", "unregister", "dispose", "close"}
      BY <1>1, <2>1 DEF TypeOK
    <2> QED BY <2>3, <2>4, <2>5, <2>6 DEF stageOf, StageOfWorker, Listed
  <1>5. ASSUME ~Queued(h), ~Served(h) PROVE stageOf[h] = "out"
    <2>1. ~InTable(h)
      BY <1>3, <1>5 DEF Served
    <2>2. \A pcs : ~ServedAt(h, pcs)
      BY <1>5 DEF ServedAt, Served
    <2> QED BY <1>5, <2>1, <2>2 DEF stageOf
  <1> QED BY <1>2, <1>4, <1>5

\* So it is after a step.
LEMMA StagesByOwnerNext == IInv' => StagesAre'
  BY StagesByOwner, PTL

\* The line is the queue without its TCP ports.
LineIsQueue ==
    /\ lineOf \in Seq(Handles) /\ Len(lineOf) = Len(queue)
    /\ \A i \in 1..Len(queue) : lineOf[i] = queue[i].client

\* A typed queue gives such a line.
LEMMA LineIs == TypeOK => LineIsQueue
  <1> SUFFICES ASSUME TypeOK PROVE LineIsQueue
    OBVIOUS
  <1>1. queue \in Seq(Job) /\ DOMAIN queue = 1..Len(queue) /\ Len(queue) \in Nat
    BY DEF TypeOK
  <1>2. \A i \in DOMAIN queue : queue[i].client \in Handles
    BY QueuedClients
  <1> QED BY <1>1, <1>2 DEF lineOf, LineIsQueue

\* So it is after a step.
LEMMA LineIsNext == TypeOK' => LineIsQueue'
  BY LineIs, PTL

\* A step after which the queue and what each worker has of its client are the
\* same is none for the clients.
LEMMA Invisible ==
    ASSUME IInv, IInv', queue' = queue, job' = job,
           \A w \in Workers : job[w] # NoJob => StageOfWorker(w)' = StageOfWorker(w)
    PROVE  UNCHANGED <<lineOf, stageOf>>
  <1>1. StagesAre /\ StagesAre'
    BY StagesByOwner, StagesByOwnerNext
  <1>2. \A h \in Handles : (Queued(h)' <=> Queued(h)) /\ (Served(h)' <=> Served(h))
    BY DEF Queued, Served
  <1>3. ASSUME NEW h \in Handles PROVE stageOf'[h] = stageOf[h]
    <2>1. CASE Queued(h)
      BY <2>1, <1>1, <1>2 DEF StagesAre
    <2>2. CASE Served(h)
      <3>1. PICK w \in Workers : job[w].client = h
        BY <2>2 DEF Served
      <3>2. job[w] # NoJob
        BY <3>1, PoolAssumption DEF NoJob
      <3> QED BY <3>1, <3>2, <1>1 DEF StagesAre
    <2>3. CASE ~Queued(h) /\ ~Served(h)
      BY <2>3, <1>1, <1>2 DEF StagesAre
    <2> QED BY <2>1, <2>2, <2>3
  <1>4. stageOf' = stageOf
    <2>1. stageOf = [h \in Handles |-> stageOf[h]] /\ stageOf' = [h \in Handles |-> stageOf'[h]]
      BY DEF stageOf
    <2> QED BY <1>3, <2>1
  <1>5. lineOf' = lineOf
    BY DEF lineOf
  <1> QED BY <1>4, <1>5

\* A step of one worker with a client it keeps or closes moves no other client.
LEMMA OthersStay ==
    ASSUME IInv, IInv', NEW w \in Workers, job[w] # NoJob, queue' = queue,
           job'[w] = job[w] \/ job'[w] = NoJob,
           \A v \in Workers \ {w} : job'[v] = job[v] /\ wpc'[v] = wpc[v]
    PROVE  /\ lineOf' = lineOf
           /\ job[w].client \in Handles
           /\ stageOf[job[w].client] = StageOfWorker(w)
           /\ stageOf' = [stageOf EXCEPT ![job[w].client] =
                IF job'[w] = NoJob THEN "out" ELSE StageOfWorker(w)']
  <1>1. StagesAre /\ StagesAre' /\ OneOwner /\ TypeOK
    BY StagesByOwner, StagesByOwnerNext DEF IInv
  <1>2. PICK c \in Handles : c = job[w].client /\ c # None
    BY <1>1, ListedJob DEF TypeOK
  <1>3. \A h \in Handles : Queued(h)' <=> Queued(h)
    BY DEF Queued
  <1>4. \A v \in Workers \ {w} : job[v].client # c
    BY <1>1, <1>2 DEF OneOwner
  <1>5. ~Queued(c)
    BY <1>1, <1>2 DEF OneOwner, Queued, Served
  <1>6. ASSUME NEW h \in Handles, h # c PROVE stageOf'[h] = stageOf[h]
    <2>1. CASE Queued(h)
      BY <2>1, <1>1, <1>3 DEF StagesAre
    <2>2. CASE Served(h)
      <3>1. PICK v \in Workers : job[v].client = h
        BY <2>2 DEF Served
      <3>2. v # w
        BY <3>1, <1>2, <1>6
      <3>3. job'[v].client = h /\ StageOfWorker(v)' = StageOfWorker(v)
        BY <3>1, <3>2 DEF StageOfWorker, Listed
      <3> QED BY <3>1, <3>3, <1>1 DEF StagesAre
    <2>3. CASE ~Queued(h) /\ ~Served(h)
      <3>1. ~Served(h)'
        BY <2>3, PoolAssumption DEF Served, NoJob
      <3> QED BY <2>3, <3>1, <1>1, <1>3 DEF StagesAre
    <2> QED BY <2>1, <2>2, <2>3
  <1>7. stageOf'[c] = IF job'[w] = NoJob THEN "out" ELSE StageOfWorker(w)'
    <2>1. CASE job'[w] = NoJob
      <3>1. ~Served(c)'
        BY <2>1, <1>2, <1>4 DEF Served, NoJob
      <3> QED BY <2>1, <3>1, <1>1, <1>2, <1>3, <1>5 DEF StagesAre
    <2>2. CASE job'[w] # NoJob
      BY <2>2, <1>1, <1>2 DEF StagesAre
    <2> QED BY <2>1, <2>2
  <1>8. stageOf = [h \in Handles |-> stageOf[h]] /\ stageOf' = [h \in Handles |-> stageOf'[h]]
    BY DEF stageOf
  <1>9. stageOf[c] = StageOfWorker(w)
    BY <1>1, <1>2 DEF StagesAre
  <1>10. lineOf' = lineOf
    BY DEF lineOf
  <1>11. stageOf' = [stageOf EXCEPT ![c] = stageOf'[c]]
    BY <1>2, <1>6, <1>8
  <1> QED BY <1>2, <1>7, <1>9, <1>10, <1>11

\* The instance's own copy of the library operator is the same operator.
LEMMA SameCardinality ==
    ASSUME NEW S PROVE Service!Cardinality(S) = Cardinality(S)
  BY DEF Service!Cardinality, Cardinality

\* A worker that receives a job is not itself serving, so that fewer clients
\* than workers are in service.
LEMMA RoomInService ==
    ASSUME IInv, NEW w \in Workers, job[w] = NoJob
    PROVE  Cardinality(Service!InService) < MaxSessions
  <1>1. StagesAre /\ TypeOK
    BY StagesByOwner DEF IInv
  <1>2. ASSUME NEW h \in Service!InService
        PROVE  h \in Handles /\ \E v \in Workers \ {w} : job[v].client = h
    <2>1. h \in Handles /\ stageOf[h] \in {"starting", "visible", "leaving"}
      BY DEF Service!InService
    <2>2. Served(h)
      BY <2>1, <1>1 DEF StagesAre
    <2> QED BY <2>1, <2>2, PoolAssumption DEF Served, NoJob
  <1> DEFINE f == [h \in Service!InService |-> CHOOSE v \in Workers \ {w} : job[v].client = h]
  <1>3. \A h \in Service!InService : f[h] \in Workers \ {w} /\ job[f[h]].client = h
    BY <1>2
  <1>4. f \in [Service!InService -> Workers \ {w}]
    BY <1>3
  <1>5. \A g, h \in Service!InService : f[g] = f[h] => g = h
    BY <1>3
  <1> HIDE DEF f
  <1>6. f \in Injection(Service!InService, Workers \ {w})
    BY <1>4, <1>5 DEF Injection, IsInjective
  <1>7. IsFiniteSet(Workers) /\ Cardinality(Workers) = MaxSessions
    BY FS_Interval, PoolAssumption DEF Workers
  <1>8. IsFiniteSet(Workers \ {w}) /\ Cardinality(Workers \ {w}) = MaxSessions - 1
    BY <1>7, FS_RemoveElement
  <1>9. Cardinality(Service!InService) <= MaxSessions - 1 /\ IsFiniteSet(Service!InService)
    BY <1>6, <1>8, FS_Injection
  <1>10. Cardinality(Service!InService) \in Nat
    BY <1>9, FS_CardinalityType
  <1> QED BY <1>9, <1>10, PoolAssumption

---------------------------------------------------------------------------
(* The steps.                                                              *)

\* Sending a job to the queue admits its client.
LEMMA EnqueueAdmits ==
    ASSUME IInv, IInv', Enqueue
    PROVE  Service!Admit(held)
  <1> DEFINE n == Len(queue)
  <1>1. TypeOK /\ TypeOK' /\ OneOwner /\ StagesAre /\ StagesAre'
    BY StagesByOwner, StagesByOwnerNext DEF IInv
  <1>2. /\ held \in Handles /\ n < MaxSessions
        /\ queue' = Append(queue, [tcp |-> scan, client |-> held])
        /\ job' = job /\ wpc' = wpc
    BY <1>1, PoolAssumption DEF Enqueue, TypeOK, wvars
  <1>3. /\ queue \in Seq(Job) /\ n \in Nat /\ Len(queue') = n + 1
        /\ DOMAIN queue = 1..n /\ DOMAIN queue' = 1..n + 1
        /\ queue'[n + 1].client = held /\ \A i \in 1..n : queue'[i] = queue[i]
    BY <1>1, <1>2 DEF TypeOK
  <1>4. /\ lineOf \in Seq(Handles) /\ Len(lineOf) = n
        /\ \A i \in 1..n : lineOf[i] = queue[i].client
    BY <1>1, LineIs DEF LineIsQueue
  <1>5. /\ lineOf' \in Seq(Handles) /\ Len(lineOf') = n + 1
        /\ \A i \in 1..n : lineOf'[i] = lineOf[i]
        /\ lineOf'[n + 1] = held
    BY <1>1, <1>3, <1>4, LineIsNext DEF LineIsQueue
  <1> HIDE DEF n
  <1>6. lineOf' = Append(lineOf, held)
    <2>1. /\ Append(lineOf, held) \in Seq(Handles) /\ Len(Append(lineOf, held)) = n + 1
          /\ \A i \in 1..n : Append(lineOf, held)[i] = lineOf[i]
          /\ Append(lineOf, held)[n + 1] = held
      BY <1>2, <1>4, AppendProperties
    <2>2. \A i \in 1..n + 1 : lineOf'[i] = Append(lineOf, held)[i]
      BY <1>3, <1>5, <2>1
    <2> QED BY <1>5, <2>1, <2>2, SeqEqual
  <1>7. ~Queued(held) /\ ~Served(held)
    BY <1>1, <1>2, PoolAssumption DEF OneOwner
  <1>8. \A h \in Handles : /\ Queued(h)' <=> Queued(h) \/ h = held
                           /\ Served(h)' <=> Served(h)
    BY <1>2, <1>3 DEF Queued, Served
  <1>9. stageOf[held] = "out" /\ stageOf'[held] = "waiting"
    BY <1>1, <1>2, <1>7, <1>8 DEF StagesAre
  <1>10. ASSUME NEW h \in Handles, h # held PROVE stageOf'[h] = stageOf[h]
    <2>1. CASE Queued(h)
      BY <2>1, <1>1, <1>8 DEF StagesAre
    <2>2. CASE Served(h)
      <3>1. PICK v \in Workers : job[v].client = h
        BY <2>2 DEF Served
      <3>2. StageOfWorker(v)' = StageOfWorker(v)
        BY <1>2 DEF StageOfWorker, Listed
      <3> QED BY <3>1, <3>2, <1>1, <1>2 DEF StagesAre
    <2>3. CASE ~Queued(h) /\ ~Served(h)
      BY <2>3, <1>1, <1>8, <1>10 DEF StagesAre
    <2> QED BY <2>1, <2>2, <2>3
  <1>11. stageOf = [h \in Handles |-> stageOf[h]] /\ stageOf' = [h \in Handles |-> stageOf'[h]]
    BY DEF stageOf
  <1>12. stageOf' = [stageOf EXCEPT ![held] = "waiting"]
    BY <1>2, <1>9, <1>10, <1>11
  <1> QED BY <1>2, <1>4, <1>6, <1>9, <1>12 DEF Service!Admit, Service!Move

\* Receiving a job starts the service of the client that waited longest.
LEMMA ReceiveStarts ==
    ASSUME IInv, IInv', NEW w \in Workers, Receive(w)
    PROVE  Service!Start(Head(queue).client)
  <1> DEFINE n == Len(queue)
  <1>1. TypeOK /\ TypeOK' /\ OneOwner /\ OneOwner' /\ StagesAre /\ StagesAre'
    BY StagesByOwner, StagesByOwnerNext DEF IInv
  <1>2. /\ queue \in Seq(Job) /\ queue # <<>> /\ queue' = Tail(queue)
        /\ job' = [job EXCEPT ![w] = Head(queue)]
        /\ wpc[w] = "receive" /\ wpc' = [wpc EXCEPT ![w] = "setup"]
    BY <1>1 DEF Receive, Goto, TypeOK
  <1>3. /\ n \in Nat \ {0} /\ Len(queue') = n - 1
        /\ DOMAIN queue = 1..n /\ DOMAIN queue' = 1..n - 1
        /\ Head(queue) = queue[1] /\ \A i \in 1..n - 1 : queue'[i] = queue[i + 1]
    BY <1>2
  <1>4. /\ lineOf \in Seq(Handles) /\ Len(lineOf) = n
        /\ \A i \in 1..n : lineOf[i] = queue[i].client
    BY <1>1, LineIs DEF LineIsQueue
  <1>5. PICK c \in Handles : c = Head(queue).client /\ c = queue[1].client /\ Queued(c)
    BY <1>1, <1>3, QueuedClients DEF Queued
  <1>6. /\ lineOf' \in Seq(Handles) /\ Len(lineOf') = n - 1
        /\ \A i \in 1..n - 1 : lineOf'[i] = lineOf[i + 1]
    BY <1>1, <1>3, <1>4, LineIsNext DEF LineIsQueue
  <1>7. job[w] = NoJob /\ job'[w] = Head(queue) /\ wpc'[w] = "setup"
        /\ \A v \in Workers \ {w} : job'[v] = job[v] /\ wpc'[v] = wpc[v]
    BY <1>1, <1>2 DEF TypeOK
  <1>8. stageOf[c] = "waiting" /\ stageOf'[c] = "starting"
    <2>1. StageOfWorker(w)' = "starting"
      BY <1>7 DEF StageOfWorker, Listed
    <2>2. job'[w].client = c
      BY <1>5, <1>7
    <2> QED BY <2>1, <2>2, <1>1, <1>5 DEF StagesAre
  <1>9. \A h \in Handles : h # c => (Queued(h)' <=> Queued(h))
    <2>1. ASSUME NEW h \in Handles, h # c, Queued(h) PROVE Queued(h)'
      <3>1. PICK i \in 1..n : queue[i].client = h
        BY <2>1, <1>3 DEF Queued
      <3>2. i # 1
        BY <2>1, <3>1, <1>5
      <3>3. i - 1 \in 1..n - 1 /\ queue'[i - 1] = queue[i]
        BY <3>2, <1>3
      <3> QED BY <3>1, <3>3, <1>3 DEF Queued
    <2>2. ASSUME NEW h \in Handles, Queued(h)' PROVE Queued(h)
      <3>1. PICK i \in 1..n - 1 : queue'[i].client = h
        BY <2>2, <1>3 DEF Queued
      <3>2. i + 1 \in 1..n /\ queue[i + 1].client = h
        BY <3>1, <1>3
      <3> QED BY <3>2, <1>3 DEF Queued
    <2> QED BY <2>1, <2>2
  <1> HIDE DEF n
  <1>10. lineOf # <<>> /\ c = Head(lineOf) /\ lineOf' = Tail(lineOf)
    <2>1. lineOf # <<>> /\ c = Head(lineOf)
      BY <1>3, <1>4, <1>5
    <2>2. /\ Tail(lineOf) \in Seq(Handles) /\ Len(Tail(lineOf)) = n - 1
          /\ \A i \in 1..n - 1 : Tail(lineOf)[i] = lineOf[i + 1]
      BY <2>1, <1>4, HeadTailProperties
    <2> QED BY <1>6, <2>1, <2>2, SeqEqual
  <1>11. ASSUME NEW h \in Handles, h # c PROVE stageOf'[h] = stageOf[h]
    <2>1. CASE Queued(h)
      BY <2>1, <1>1, <1>9, <1>11 DEF StagesAre
    <2>2. CASE Served(h)
      <3>1. PICK v \in Workers : job[v].client = h
        BY <2>2 DEF Served
      <3>2. v # w
        BY <3>1, <1>7, PoolAssumption DEF NoJob
      <3>3. job'[v].client = h /\ StageOfWorker(v)' = StageOfWorker(v)
        BY <3>1, <3>2, <1>7 DEF StageOfWorker, Listed
      <3> QED BY <3>1, <3>3, <1>1 DEF StagesAre
    <2>3. CASE ~Queued(h) /\ ~Served(h)
      <3>1. ~Served(h)'
        BY <2>3, <1>5, <1>7, <1>11 DEF Served
      <3> QED BY <2>3, <3>1, <1>1, <1>9, <1>11 DEF StagesAre
    <2> QED BY <2>1, <2>2, <2>3
  <1>12. stageOf = [h \in Handles |-> stageOf[h]] /\ stageOf' = [h \in Handles |-> stageOf'[h]]
    BY DEF stageOf
  <1>13. stageOf' = [stageOf EXCEPT ![c] = "starting"]
    BY <1>5, <1>8, <1>11, <1>12
  <1>14. Cardinality(Service!InService) < MaxSessions
    BY <1>7, RoomInService
  <1> QED BY <1>5, <1>8, <1>10, <1>13, <1>14, SameCardinality DEF Service!Start, Service!Move

\* Every other step of a worker moves its own client, or none.
LEMMA WorkerServes ==
    ASSUME IInv, IInv', NEW w \in Workers, Worker(w) \/ IoFails(w)
    PROVE  Service!Next \/ UNCHANGED <<lineOf, stageOf>>
  <1> DEFINE c == job[w].client
  <1>0. TypeOK
    BY DEF IInv
  <1>1. CASE Receive(w)
    <2>1. Head(queue).client \in Handles
      <3>1. queue # <<>> /\ queue \in Seq(Job)
        BY <1>0, <1>1 DEF Receive, TypeOK
      <3>2. Head(queue) \in Job
        BY <3>1
      <3> QED BY <3>2 DEF Job
    <2> QED BY <1>1, <2>1, ReceiveStarts DEF Service!Next
  <1>2. CASE \/ (\E x \in Ctxs : Setup(w, x)) \/ RecvClosed(w) \/ IoFails(w) \/ Dispose(w)
    <2>1. queue' = queue /\ job' = job
      BY <1>2 DEF Setup, RecvClosed, IoFails, Dispose
    <2>2. \A v \in Workers \ {w} : wpc'[v] = wpc[v]
      BY <1>0, <1>2 DEF Setup, RecvClosed, IoFails, Dispose, Goto, TypeOK
    <2>3. \/ wpc[w] = "setup" /\ wpc'[w] = "register"
          \/ wpc[w] = "io" /\ wpc'[w] = "unregister"
          \/ wpc[w] = "dispose" /\ wpc'[w] = "close"
      BY <1>0, <1>2 DEF Setup, RecvClosed, IoFails, Dispose, Goto, TypeOK
    <2>4. \A v \in Workers : StageOfWorker(v)' = StageOfWorker(v)
      BY <2>2, <2>3 DEF StageOfWorker, Listed
    <2> QED BY <2>1, <2>4, Invisible
  <1>3. CASE Register(w) \/ Unregister(w)
    <2>1. /\ queue' = queue /\ job' = job /\ job[w] # NoJob
          /\ \A v \in Workers \ {w} : wpc'[v] = wpc[v]
      BY <1>0, <1>3 DEF Register, Unregister, Goto, TypeOK
    <2>2. /\ lineOf' = lineOf /\ c \in Handles /\ stageOf[c] = StageOfWorker(w)
          /\ stageOf' = [stageOf EXCEPT ![c] = StageOfWorker(w)']
      BY <2>1, OthersStay
    <2>3. \/ StageOfWorker(w) = "starting" /\ StageOfWorker(w)' = "visible"
          \/ StageOfWorker(w) = "visible" /\ StageOfWorker(w)' = "leaving"
      BY <1>0, <1>3 DEF Register, Unregister, Goto, TypeOK, StageOfWorker, Listed
    <2>4. Service!Publish(c) \/ Service!Withdraw(c)
      BY <2>2, <2>3 DEF Service!Publish, Service!Withdraw, Service!Move
    <2> QED BY <2>2, <2>4 DEF Service!Next
  <1>4. CASE SetupFails(w) \/ Close(w)
    <2>1. /\ queue' = queue /\ job[w] # NoJob /\ job'[w] = NoJob
          /\ \A v \in Workers \ {w} : wpc'[v] = wpc[v] /\ job'[v] = job[v]
      BY <1>0, <1>4 DEF SetupFails, Close, CloseClient, Goto, TypeOK
    <2>2. /\ lineOf' = lineOf /\ c \in Handles /\ stageOf[c] = StageOfWorker(w)
          /\ stageOf' = [stageOf EXCEPT ![c] = "out"]
      BY <2>1, OthersStay
    <2>3. StageOfWorker(w) \in {"starting", "leaving"}
      BY <1>0, <1>4 DEF SetupFails, Close, Goto, StageOfWorker, Listed
    <2>4. Service!Finish(c)
      BY <2>2, <2>3 DEF Service!Finish, Service!Move
    <2> QED BY <2>2, <2>4 DEF Service!Next
  <1> QED BY <1>1, <1>2, <1>3, <1>4 DEF Worker

\* Every step of the pool is one of the service, or nothing to its clients.
LEMMA StepServes ==
    IInv /\ IInv' /\ [Next]_vars => [Service!Next]_<<lineOf, stageOf>>
  <1> SUFFICES ASSUME IInv, IInv', [Next]_vars
               PROVE  Service!Next \/ UNCHANGED <<lineOf, stageOf>>
    OBVIOUS
  <1>1. ASSUME UNCHANGED <<queue, wvars>> PROVE UNCHANGED <<lineOf, stageOf>>
    BY <1>1, Invisible DEF wvars, StageOfWorker, Listed
  <1>2. CASE Enqueue
    <2>1. held \in Handles
      BY <1>2 DEF IInv, TypeOK, Enqueue
    <2> QED BY <1>2, <2>1, EnqueueAdmits DEF Service!Next
  <1>3. CASE SkipDisabled \/ CheckEnabled \/ AcceptFails \/ Refuse \/ \E h \in Handles : Accept(h)
    BY <1>1, <1>3 DEF SkipDisabled, CheckEnabled, AcceptFails, Refuse, Accept
  <1>4. CASE \E w \in Workers : Worker(w) \/ IoFails(w)
    BY <1>4, WorkerServes
  <1>5. CASE \E a \in Admins : Admin(a) \/ \E p \in Ports : Call(a, p)
    BY <1>1, <1>5
       DEF Admin, Call, ShutdownOnce, DrainPick, DrainShutdown, ApplyOne,
           Disconnect, Enable, Disable, Update
  <1>6. CASE \E h \in Handles : PeerClose(h) \/ PeerReset(h)
    BY <1>1, <1>6 DEF PeerClose, PeerReset
  <1>7. CASE UNCHANGED vars
    BY <1>1, <1>7 DEF vars
  <1> QED BY <1>2, <1>3, <1>4, <1>5, <1>6, <1>7 DEF Next, Listener

\* For any pool size the listener task, the queue, the workers, the table and
\* the administrative calls keep what ClientService promises: admitted clients
\* are served in their turn, at most one per worker, are visible only while
\* served, and leave only through the end of their own service.
THEOREM PoolImplementsService == Spec => ImplementsService
  <1>1. Init => Service!Init
    <2> SUFFICES ASSUME Init PROVE Service!Init
      OBVIOUS
    <2>1. queue = <<>> /\ DOMAIN <<>> = {}
      BY DEF Init
    <2>2. lineOf = <<>>
      BY <2>1 DEF lineOf
    <2>3. ASSUME NEW h \in Handles PROVE stageOf[h] = "out"
      <3>1. ~Queued(h) /\ ~InTable(h) /\ \A pcs : ~ServedAt(h, pcs)
        BY <2>1, PoolAssumption DEF Init, Queued, InTable, ServedAt, NoJob, FreeSlot
      <3> QED BY <3>1 DEF stageOf
    <2>4. stageOf = [h \in Handles |-> "out"]
      BY <2>3 DEF stageOf
    <2> QED BY <2>2, <2>4 DEF Service!Init
  <1>2. IInv /\ IInv' /\ [Next]_vars => [Service!Next]_(Service!svars)
    BY StepServes DEF Service!svars
  <1> QED BY <1>1, <1>2, Invariant, PTL DEF Spec, ImplementsService, Service!Spec
=============================================================================
