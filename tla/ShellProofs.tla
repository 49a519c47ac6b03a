------------------------------ MODULE ShellProofs ------------------------------
(***************************************************************************)
(* Theorems about Shell for every number of sinks, sessions, channels and  *)
(* chunks and every depth of the queue: what an operator sees of a stream  *)
(* has no gap inside a read, nothing is monitored without an operator, a   *)
(* sink is called once for what is fed, and a stop of the shell gives its  *)
(* port back.                                                              *)
(***************************************************************************)
EXTENDS Shell, FiniteSetTheorems, TLAPS

---------------------------------------------------------------------------
(* The inductive invariant.                                                *)

\* Between its calls the application has a task that runs or none;
\* control_running is set before the task is there.
Phases ==
    /\ caller = "idle" => (running <=> task # "none")
    /\ caller = "launch" => running
    /\ caller \notin {"idle", "launch"} => ~running
    /\ caller \in {"register", "launch", "queue", "unregister"} => task = "none"

\* Unless a stop came before the task had published its socket, the descriptor
\* that the next stop closes is that of the socket; the stop that has closed it
\* found the task behind its bind.
SocketKept ==
    ~orphan =>
      /\ caller \in {"idle", "register", "launch", "socket"} =>
           /\ task \in {"none", "bind"} => ~bound /\ ~listening
           /\ task = "publish" => ~listening
           /\ task \notin {"none", "bind", "publish"} => (bound => listening)
      /\ caller \in {"kill", "queue", "unregister"} =>
           ~bound /\ ~listening /\ task \notin {"bind", "publish"}

\* A sink that was never registered twice has one place in the table and one
\* in each copy of it.
Once(s) ==
    /\ \A i, j \in 1..MaxSinks : table[i] = s /\ table[j] = s => i = j
    /\ \A f \in Feeders : \A i, j \in 1..Len(feed[f].sinks) :
         feed[f].sinks[i] = s /\ feed[f].sinks[j] = s => i = j

ListedOnce == \A s \in Sinks \ relisted : Once(s)

\* The chunk to be sent next follows the last one queued or, if there is none,
\* the last one shown.
NextFits ==
    \A f \in Feeders : Sending(f) =>
        /\ Own(f) = {} => Follows(feed[f].chunk, shown[f])
        /\ \A i \in Own(f) :
             (\A k \in Own(f) : k <= i) => Follows(feed[f].chunk, queue[i].chunk)

\* A message of another stream than the operator's comes before those of the
\* operator's, and before the operator got anything of that feeder: it was sent
\* by a feed that began before the last reset.
StrayFirst ==
    \A f \in Feeders :
        /\ \A j \in Own(f) : queue[j].chan # filter =>
             shown[f] = 0 /\ \A i \in Own(f) : i < j => queue[i].chan # filter
        /\ Sending(f) /\ feed[f].chan # filter =>
             shown[f] = 0 /\ \A i \in Own(f) : queue[i].chan # filter

Stream == OnlyTailsAreLost /\ NextFits /\ StrayFirst

IInv ==
    /\ TypeOK
    /\ Phases /\ MonitorHasOperator /\ SocketKept
    /\ ListedOnce
    /\ Stream

---------------------------------------------------------------------------
(* The application and the control task.                                   *)

\* What the steps of a session task leave alone.
LEMMA FeederLeaves ==
    ASSUME NEW f \in Feeders, SessionTask(f)
    PROVE  UNCHANGED <<table, filter, created, running, handle, listening, bound, task, caller,
                       shown, relisted>>
  BY DEF SessionTask, Feeding, CallOther, FeedEnd, SinkCheck, SinkGivesUp, SinkSend, FeedBegin,
         shellVars

\* Every step but those of the application and of the control task.
Elsewhere ==
    UNCHANGED <<filter, running, listening, bound, task, caller, orphan>>

\* The phases of start and stop are kept, and with them the end of the monitor
\* and of the socket.
LEMMA ControlKeeps ==
    ASSUME TypeOK, Phases, MonitorHasOperator, SocketKept,
           Application \/ (ControlTask /\ UNCHANGED orphan) \/ Elsewhere
    PROVE  Phases' /\ MonitorHasOperator' /\ SocketKept'
  <1> USE DEF Phases, MonitorHasOperator, SocketKept
  <1>1. CASE Application
    <2>1. CASE StartQueue
      BY <2>1 DEF StartQueue
    <2>2. CASE StartRegister
      BY <2>2 DEF StartRegister
    <2>3. CASE StartTask
      BY <2>3 DEF StartTask
    <2>4. CASE StartFails
      BY <2>4 DEF StartFails
    <2>5. CASE StopBegin
      BY <2>5 DEF StopBegin
    <2>6. CASE StopSocket
      <3>1. ~orphan' => ~bound' /\ ~listening' /\ task \notin {"bind", "publish"}
        BY <2>6 DEF StopSocket, Unpublished
      <3> QED BY <2>6, <3>1 DEF StopSocket
    <2>7. CASE StopTask
      BY <2>7 DEF StopTask
    <2>8. CASE StopQueue
      BY <2>8 DEF StopQueue
    <2>9. CASE StopUnregister
      BY <2>9 DEF StopUnregister
    <2>10. CASE \E s \in Others : Other(s)
      BY <2>10 DEF Other, shellVars
    <2> QED BY <1>1, <2>1, <2>2, <2>3, <2>4, <2>5, <2>6, <2>7, <2>8, <2>9, <2>10 DEF Application
  <1>2. CASE ControlTask /\ UNCHANGED orphan
    <2> USE <1>2 DEF TypeOK
    <2>1. CASE BindFails
      BY <2>1 DEF BindFails
    <2>2. CASE Bind
      BY <2>2 DEF Bind
    <2>3. CASE Publish
      BY <2>3 DEF Publish
    <2>4. CASE Accept
      BY <2>4 DEF Accept
    <2>5. CASE AcceptFails
      BY <2>5 DEF AcceptFails
    <2>6. CASE Flush
      BY <2>6 DEF Flush, Show
    <2>7. CASE Poll \/ Hangup
      BY <2>7 DEF Poll, Hangup
    <2>8. CASE MonitorOff \/ \E chan \in Channels : MonitorOn(chan)
      BY <2>8 DEF MonitorOff, MonitorOn
    <2>9. CASE GoneFlush
      BY <2>9 DEF GoneFlush, Show
    <2>10. CASE Leave
      BY <2>10 DEF Leave, Show
    <2>11. CASE CloseClient
      BY <2>11 DEF CloseClient
    <2>12. CASE Exit
      BY <2>12 DEF Exit
    <2> QED BY <2>1, <2>2, <2>3, <2>4, <2>5, <2>6, <2>7, <2>8, <2>9, <2>10, <2>11, <2>12
            DEF ControlTask, Serves
  <1>3. CASE Elsewhere
    BY <1>3 DEF Elsewhere
  <1> QED BY <1>1, <1>2, <1>3

---------------------------------------------------------------------------
(* The sinks.                                                              *)

\* The sizes and the names.
LEMMA Bounds ==
    /\ MaxSinks \in Nat \ {0} /\ Depth \in Nat \ {0} /\ MaxChunks \in Nat \ {0}
    /\ Sizes \subseteq 1..MaxChunks
    /\ Free \notin Sinks /\ Control \in Sinks
  BY ShellAssumption DEF Sinks, Free, Control

\* A registration takes at most one slot, and one that finds the sink in the
\* table is on record.
LEMMA RegisterIs ==
    ASSUME TypeOK, NEW s \in Sinks, Register(s)
    PROVE  /\ table' \in [1..MaxSinks -> Sinks \cup {Free}]
           /\ relisted' \subseteq Sinks /\ relisted \subseteq relisted'
           /\ \A i \in 1..MaxSinks : table'[i] = table[i] \/ (table'[i] = s /\ table[i] = Free)
           /\ s \notin relisted' =>
                \A i, j \in 1..MaxSinks : table'[i] = s /\ table'[j] = s => i = j
  <1> DEFINE before == {i \in Entries(Free) : \A j \in Entries(s) : i < j}
  <1>1. /\ table \in [1..MaxSinks -> Sinks \cup {Free}] /\ relisted \subseteq Sinks
        /\ table' = [i \in 1..MaxSinks |-> IF i \in First(before) THEN s ELSE table[i]]
        /\ relisted' = IF Entries(s) = {} THEN relisted ELSE relisted \cup {s}
    BY DEF TypeOK, Register
  <1>2. /\ \A i \in First(before) : i \in 1..MaxSinks /\ table[i] = Free
        /\ \A i, j \in First(before) : i <= j /\ j <= i
    BY DEF First, Entries
  <1>3. \A i, j \in First(before) : i = j
    BY <1>2, Bounds
  <1>4. s \notin relisted' => \A i \in 1..MaxSinks : table[i] # s
    BY <1>1 DEF Entries
  <1> HIDE DEF before
  <1>5. s \notin relisted' => \A i, j \in 1..MaxSinks : table'[i] = s /\ table'[j] = s => i = j
    BY <1>1, <1>3, <1>4
  <1> QED BY <1>1, <1>2, <1>5

\* An unregistration only frees slots.
LEMMA UnregisterIs ==
    ASSUME TypeOK, NEW s \in Sinks, Unregister(s)
    PROVE  /\ table' \in [1..MaxSinks -> Sinks \cup {Free}]
           /\ \A i \in 1..MaxSinks : table'[i] \in {table[i], Free}
  BY DEF TypeOK, Unregister

\* What the application does to the table.
LEMMA ApplicationSinks ==
    ASSUME TypeOK, Application
    PROVE  /\ UNCHANGED feed
           /\ \/ UNCHANGED <<table, relisted>>
              \/ \E s \in Sinks : Register(s)
              \/ \E s \in Sinks : Unregister(s) /\ UNCHANGED relisted
  BY Bounds DEF Application, StartQueue, StartRegister, StartTask, StartFails, StopBegin,
     StopSocket, StopTask, StopQueue, StopUnregister, Other, Sinks

\* A sink that is called is the first of the copy.
LEMMA CallIs ==
    ASSUME TypeOK, NEW f \in Feeders, NEW s, Calls(f, s)
    PROVE  /\ feed[f] \in Feeds /\ feed[f].sinks \in Seq(Sinks)
           /\ Len(feed[f].sinks) \in Nat \ {0} /\ Len(feed[f].sinks) <= MaxSinks
           /\ feed[f].chunk \in 0..MaxChunks /\ feed[f].size \in 1..MaxChunks
           /\ feed[f].chunk <= feed[f].size /\ feed[f].chan \in Channels
  <1>1. feed[f] \in Feeds
    BY DEF TypeOK, Calls, Fed
  <1>2. /\ feed[f].sinks \in Seq(Sinks) /\ feed[f].chunk \in 0..MaxChunks
        /\ feed[f].size \in 1..MaxChunks /\ feed[f].chan \in Channels
    BY <1>1, Bounds DEF Feeds
  <1>3. Len(feed[f].sinks) \in Nat \ {0}
    BY <1>2 DEF Calls
  <1> QED BY <1>1, <1>2, <1>3 DEF TypeOK

\* A step of one feed.
FeedBecomes(f, r) ==
    /\ feed' \in [Feeders -> Feeds \cup {Idle}] /\ feed'[f] = r
    /\ \A g \in Feeders \ {f} : feed'[g] = feed[g]

\* The feed goes on to the next sink of its copy.
LEMMA NextSinkIs ==
    ASSUME TypeOK, NEW f \in Feeders, NEW s, Calls(f, s), NextSink(f)
    PROVE  \E r \in Feeds :
             /\ FeedBecomes(f, r) /\ r.chunk = 0 /\ r.size = feed[f].size
             /\ Len(r.sinks) = Len(feed[f].sinks) - 1
             /\ \A i \in 1..Len(r.sinks) : r.sinks[i] = feed[f].sinks[i + 1]
  <1> DEFINE r == [feed[f] EXCEPT !.sinks = Tail(feed[f].sinks), !.chunk = 0]
             q == feed[f].sinks
  <1>1. feed[f] \in Feeds /\ q \in Seq(Sinks) /\ Len(q) \in Nat \ {0}
    BY CallIs
  <1>2. /\ Tail(q) \in Seq(Sinks) /\ Len(Tail(q)) = Len(q) - 1
        /\ \A i \in 1..Len(q) - 1 : Tail(q)[i] = q[i + 1]
    <2>1. q # <<>>
      BY <1>1
    <2> QED BY <1>1, <2>1
  <1>3. 0 \in 0..MaxChunks
    BY Bounds
  <1>4. r \in Feeds /\ r.chunk = 0 /\ r.size = feed[f].size /\ r.sinks = Tail(q)
    <2> HIDE DEF q
    <2>1. Tail(feed[f].sinks) \in Seq(Sinks)
      BY <1>2 DEF q
    <2> QED BY <1>1, <1>2, <1>3, <2>1 DEF Feeds, q
  <1>5. feed' = [feed EXCEPT ![f] = r]
    BY DEF NextSink
  <1> HIDE DEF r
  <1>6. FeedBecomes(f, r)
    BY <1>4, <1>5 DEF TypeOK, FeedBecomes
  <1> HIDE DEF q
  <1>7. Len(r.sinks) = Len(q) - 1 /\ \A i \in 1..Len(r.sinks) : r.sinks[i] = q[i + 1]
    BY <1>2, <1>4
  <1> QED BY <1>4, <1>6, <1>7 DEF q

\* It goes on to the next chunk for the sink.
LEMMA NextChunkIs ==
    ASSUME TypeOK, NEW f \in Feeders, NEW s, Calls(f, s), NEW c \in 0..MaxChunks,
           feed' = [feed EXCEPT ![f].chunk = c]
    PROVE  \E r \in Feeds :
             /\ FeedBecomes(f, r) /\ r.chunk = c /\ r.size = feed[f].size /\ r.chan = feed[f].chan
             /\ r.sinks = feed[f].sinks
  <1> DEFINE r == [feed[f] EXCEPT !.chunk = c]
  <1>1. feed[f] \in Feeds
    BY CallIs
  <1>2. /\ r \in Feeds /\ r.chunk = c /\ r.size = feed[f].size /\ r.chan = feed[f].chan
        /\ r.sinks = feed[f].sinks
    BY <1>1 DEF Feeds
  <1>3. feed' = [feed EXCEPT ![f] = r]
    OBVIOUS
  <1> HIDE DEF r
  <1>4. FeedBecomes(f, r)
    BY <1>2, <1>3 DEF TypeOK, FeedBecomes
  <1> QED BY <1>2, <1>4

\* A feed begins with a copy of the entries, each once.
LEMMA FeedBeginIs ==
    ASSUME TypeOK, NEW f \in Feeders, NEW chan \in Channels, NEW size \in Sizes,
           FeedBegin(f, chan, size)
    PROVE  \E r \in Feeds :
             /\ FeedBecomes(f, r) /\ r.chunk = 0 /\ r.chunk <= r.size
             /\ Len(r.sinks) <= MaxSinks
             /\ \E slot \in [1..Len(r.sinks) -> 1..MaxSinks] :
                  /\ \A i \in 1..Len(r.sinks) : r.sinks[i] = table[slot[i]]
                  /\ \A i, j \in 1..Len(r.sinks) : slot[i] = slot[j] => i = j
  <1>0. PICK n \in 0..MaxSinks : \E slot \in [1..n -> 1..MaxSinks \ Entries(Free)] :
          /\ \A i, j \in 1..n : i < j => slot[i] < slot[j]
          /\ feed' = [feed EXCEPT ![f] =
                          [chan |-> chan, size |-> size, chunk |-> 0,
                           sinks |-> [i \in 1..n |-> table[slot[i]]]]]
    BY DEF FeedBegin
  <1>1. PICK slot \in [1..n -> 1..MaxSinks \ Entries(Free)] :
          /\ \A i, j \in 1..n : i < j => slot[i] < slot[j]
          /\ feed' = [feed EXCEPT ![f] =
                          [chan |-> chan, size |-> size, chunk |-> 0,
                           sinks |-> [i \in 1..n |-> table[slot[i]]]]]
    BY <1>0
  <1> DEFINE q == [i \in 1..n |-> table[slot[i]]]
             r == [chan |-> chan, size |-> size, chunk |-> 0, sinks |-> q]
  <1>2. n \in Nat /\ n <= MaxSinks
    BY Bounds
  <1>3. \A i \in 1..n : table[slot[i]] \in Sinks
    BY DEF TypeOK, Entries
  <1>4. q \in Seq(Sinks) /\ Len(q) = n /\ \A i \in 1..n : q[i] = table[slot[i]]
    BY <1>2, <1>3
  <1>5. \A i, j \in 1..n : slot[i] = slot[j] => i = j
    BY <1>1, <1>2
  <1> HIDE DEF q
  <1>6. 0 \in 0..MaxChunks /\ 0 <= size
    BY Bounds
  <1>7. r \in Feeds /\ r.chunk = 0 /\ r.size = size /\ r.sinks = q
    BY <1>4, <1>6 DEF Feeds
  <1>8. feed' = [feed EXCEPT ![f] = r]
    BY <1>1 DEF q
  <1> HIDE DEF r
  <1>9. FeedBecomes(f, r)
    BY <1>7, <1>8 DEF TypeOK, FeedBecomes
  <1>10. slot \in [1..Len(r.sinks) -> 1..MaxSinks]
    BY <1>4, <1>7
  <1> QED BY <1>2, <1>4, <1>5, <1>6, <1>7, <1>9, <1>10

\* What a step of a session task does to its feed and to the queue.
LEMMA FeedIs ==
    ASSUME TypeOK, NEW f \in Feeders, SessionTask(f)
    PROVE  \E r \in Feeds \cup {Idle} :
             /\ FeedBecomes(f, r)
             /\ r \in Feeds => r.chunk <= r.size /\ Len(r.sinks) <= MaxSinks
             /\ \A s \in Sinks : Once(s) =>
                  \A i, j \in 1..Len(r.sinks) : r.sinks[i] = s /\ r.sinks[j] = s => i = j
             /\ \/ queue' = queue /\ (r.chunk > 0 => r.chunk = 1 /\ r.chan = filter)
                \/ /\ Sending(f) /\ Len(queue) < Depth
                   /\ queue' = Append(queue, [chan |-> feed[f].chan, by |-> f,
                                              chunk |-> feed[f].chunk])
                   /\ r.chunk > 0 => r.chunk = feed[f].chunk + 1 /\ r.chan = feed[f].chan
  <1> DEFINE Uniquely(r) ==
               \A s \in Sinks : Once(s) =>
                 \A i, j \in 1..Len(r.sinks) : r.sinks[i] = s /\ r.sinks[j] = s => i = j
  <1>1. CASE \E chan \in Channels, size \in Sizes : FeedBegin(f, chan, size)
    <2>1. PICK chan \in Channels, size \in Sizes : FeedBegin(f, chan, size)
      BY <1>1
    <2>2. PICK r \in Feeds :
            /\ FeedBecomes(f, r) /\ r.chunk = 0 /\ r.chunk <= r.size
            /\ Len(r.sinks) <= MaxSinks
            /\ \E slot \in [1..Len(r.sinks) -> 1..MaxSinks] :
                 /\ \A i \in 1..Len(r.sinks) : r.sinks[i] = table[slot[i]]
                 /\ \A i, j \in 1..Len(r.sinks) : slot[i] = slot[j] => i = j
      BY <2>1, FeedBeginIs
    <2>3. queue' = queue
      BY <2>1 DEF FeedBegin, shellVars
    <2>4. Uniquely(r)
      <3>1. PICK slot \in [1..Len(r.sinks) -> 1..MaxSinks] :
              /\ \A i \in 1..Len(r.sinks) : r.sinks[i] = table[slot[i]]
              /\ \A i, j \in 1..Len(r.sinks) : slot[i] = slot[j] => i = j
        BY <2>2
      <3> QED BY <3>1 DEF Once
    <2>5. ~(r.chunk > 0)
      BY <2>2
    <2> QED BY <2>2, <2>3, <2>4, <2>5
  <1>2. ASSUME NEW s, Calls(f, s), NextSink(f),
               \/ queue' = queue
               \/ /\ Sending(f) /\ Len(queue) < Depth
                  /\ queue' = Append(queue, [chan |-> feed[f].chan, by |-> f,
                                             chunk |-> feed[f].chunk])
        PROVE  \E r \in Feeds :
                 /\ FeedBecomes(f, r) /\ r.chunk = 0 /\ r.chunk <= r.size
                 /\ Len(r.sinks) <= MaxSinks /\ Uniquely(r)
    <2>1. PICK r \in Feeds :
            /\ FeedBecomes(f, r) /\ r.chunk = 0 /\ r.size = feed[f].size
            /\ Len(r.sinks) = Len(feed[f].sinks) - 1
            /\ \A i \in 1..Len(r.sinks) : r.sinks[i] = feed[f].sinks[i + 1]
      BY <1>2, NextSinkIs
    <2>2. /\ Len(feed[f].sinks) \in Nat \ {0} /\ Len(feed[f].sinks) <= MaxSinks
          /\ feed[f].size \in 1..MaxChunks
      BY <1>2, CallIs
    <2>3. r.chunk <= r.size /\ Len(r.sinks) <= MaxSinks
      BY <2>1, <2>2, Bounds
    <2>4. \A i \in 1..Len(r.sinks) : i + 1 \in 1..Len(feed[f].sinks)
      BY <2>1, <2>2
    <2>5. Uniquely(r)
      <3> SUFFICES ASSUME NEW t \in Sinks, Once(t), NEW i \in 1..Len(r.sinks),
                          NEW j \in 1..Len(r.sinks), r.sinks[i] = t, r.sinks[j] = t
                   PROVE  i = j
        OBVIOUS
      <3>1. feed[f].sinks[i + 1] = t /\ feed[f].sinks[j + 1] = t
        BY <2>1
      <3>2. i + 1 = j + 1
        BY <2>4, <3>1 DEF Once
      <3> QED BY <2>1, <2>2, <3>2
    <2> QED BY <2>1, <2>3, <2>5
  <1>3. CASE CallOther(f) \/ SinkGivesUp(f) \/ (SinkCheck(f) /\ ~Wanted(f))
    <2>1. PICK s : Calls(f, s)
      BY <1>3 DEF CallOther, SinkGivesUp, SinkCheck, Sending
    <2>2. NextSink(f) /\ queue' = queue
      BY <1>3 DEF CallOther, SinkGivesUp, SinkCheck, shellVars
    <2>3. PICK r \in Feeds :
            /\ FeedBecomes(f, r) /\ r.chunk = 0 /\ r.chunk <= r.size
            /\ Len(r.sinks) <= MaxSinks /\ Uniquely(r)
      BY <1>2, <2>1, <2>2
    <2> QED BY <2>2, <2>3
  <1>4. CASE FeedEnd(f)
    <2>1. FeedBecomes(f, Idle) /\ queue' = queue
      BY <1>4 DEF FeedEnd, TypeOK, FeedBecomes, shellVars
    <2>2. Idle.chunk = 0 /\ Idle.sinks = <<>>
      BY DEF Idle
    <2>3. Idle \notin Feeds
      <3> SUFFICES ASSUME Idle \in Feeds PROVE FALSE
        OBVIOUS
      <3>1. DOMAIN Idle = {"chan", "size", "chunk", "sinks"}
        BY DEF Feeds
      <3>2. DOMAIN Idle = {"sinks", "chunk"}
        BY DEF Idle
      <3> QED BY <3>1, <3>2
    <2>4. Len(Idle.sinks) = 0
      BY <2>2
    <2>5. Uniquely(Idle)
      BY <2>4
    <2> QED BY <2>1, <2>2, <2>3, <2>5
  <1>5. CASE SinkCheck(f) /\ Wanted(f)
    <2>1. /\ Calls(f, Control) /\ feed' = [feed EXCEPT ![f].chunk = 1] /\ queue' = queue
          /\ feed[f].chan = filter
      BY <1>5 DEF SinkCheck, Wanted, shellVars
    <2>2. 1 \in 0..MaxChunks
      BY Bounds
    <2>3. PICK r \in Feeds :
            /\ FeedBecomes(f, r) /\ r.chunk = 1 /\ r.size = feed[f].size /\ r.chan = feed[f].chan
            /\ r.sinks = feed[f].sinks
      BY <2>1, <2>2, NextChunkIs
    <2>4. r.chunk <= r.size /\ Len(r.sinks) <= MaxSinks
      BY <2>1, <2>3, CallIs
    <2>5. Uniquely(r)
      BY <2>3 DEF Once
    <2> QED BY <2>1, <2>3, <2>4, <2>5
  <1>6. CASE SinkSend(f)
    <2>1. /\ Sending(f) /\ Len(queue) < Depth /\ Calls(f, Control)
          /\ queue' = Append(queue, [chan |-> feed[f].chan, by |-> f, chunk |-> feed[f].chunk])
      BY <1>6 DEF SinkSend, Sending
    <2>2. CASE feed[f].chunk = feed[f].size
      <3>1. NextSink(f)
        BY <1>6, <2>2 DEF SinkSend
      <3>2. PICK r \in Feeds :
              /\ FeedBecomes(f, r) /\ r.chunk = 0 /\ r.chunk <= r.size
              /\ Len(r.sinks) <= MaxSinks /\ Uniquely(r)
        BY <1>2, <2>1, <3>1
      <3> QED BY <2>1, <3>2
    <2>3. CASE feed[f].chunk # feed[f].size
      <3> DEFINE c == feed[f].chunk + 1
      <3>1. feed' = [feed EXCEPT ![f].chunk = c]
        BY <1>6, <2>3 DEF SinkSend
      <3>2. c \in 0..MaxChunks /\ c <= feed[f].size
        BY <2>1, <2>3, CallIs, Bounds
      <3> HIDE DEF c
      <3>3. PICK r \in Feeds :
              /\ FeedBecomes(f, r) /\ r.chunk = c /\ r.size = feed[f].size /\ r.chan = feed[f].chan
              /\ r.sinks = feed[f].sinks
        BY <2>1, <3>1, <3>2, NextChunkIs
      <3>4. r.chunk <= r.size /\ Len(r.sinks) <= MaxSinks
        BY <2>1, <3>2, <3>3, CallIs
      <3>5. Uniquely(r)
        BY <3>3 DEF Once
      <3> QED BY <2>1, <3>3, <3>4, <3>5 DEF c
    <2> QED BY <2>2, <2>3
  <1> QED BY <1>1, <1>3, <1>4, <1>5, <1>6 DEF SessionTask, Feeding

\* No sink gets a second entry but by a second registration.
LEMMA OnceKeeps ==
    ASSUME TypeOK, ListedOnce,
           \/ Application
           \/ \E f \in Feeders : SessionTask(f)
           \/ UNCHANGED <<table, feed, relisted>>
    PROVE  ListedOnce'
  <1>1. CASE UNCHANGED <<table, feed, relisted>>
    BY <1>1 DEF ListedOnce, Once
  <1>2. CASE Application
    <2>1. CASE \E t \in Sinks : Register(t)
      <3>1. PICK t \in Sinks : Register(t)
        BY <2>1
      <3>2. /\ relisted \subseteq relisted'
            /\ \A i \in 1..MaxSinks : table'[i] = table[i] \/ (table'[i] = t /\ table[i] = Free)
            /\ t \notin relisted' =>
                 \A i, j \in 1..MaxSinks : table'[i] = t /\ table'[j] = t => i = j
        BY <3>1, RegisterIs
      <3>3. UNCHANGED feed
        BY <1>2, ApplicationSinks
      <3> SUFFICES ASSUME NEW s \in Sinks \ relisted' PROVE Once(s)'
        BY DEF ListedOnce
      <3>4. Once(s)
        BY <3>2 DEF ListedOnce
      <3>5. \A i, j \in 1..MaxSinks : table'[i] = s /\ table'[j] = s => i = j
        <4>1. CASE s = t
          BY <3>2, <4>1
        <4>2. CASE s # t
          BY <3>2, <3>4, <4>2 DEF Once
        <4> QED BY <4>1, <4>2
      <3> QED BY <3>3, <3>4, <3>5 DEF Once
    <2>2. CASE \E t \in Sinks : Unregister(t) /\ UNCHANGED relisted
      <3>1. PICK t \in Sinks : Unregister(t) /\ UNCHANGED relisted
        BY <2>2
      <3>2. \A i \in 1..MaxSinks : table'[i] \in {table[i], Free}
        BY <3>1, UnregisterIs
      <3>3. UNCHANGED feed
        BY <1>2, ApplicationSinks
      <3> SUFFICES ASSUME NEW s \in Sinks \ relisted PROVE Once(s)'
        BY <3>1 DEF ListedOnce
      <3>4. s # Free /\ Once(s)
        BY Bounds DEF ListedOnce
      <3> QED BY <3>2, <3>3, <3>4 DEF Once
    <2> QED BY <1>1, <1>2, <2>1, <2>2, ApplicationSinks
  <1>3. CASE \E f \in Feeders : SessionTask(f)
    <2>1. PICK f \in Feeders : SessionTask(f)
      BY <1>3
    <2>2. UNCHANGED <<table, relisted>>
      BY <2>1, FeederLeaves
    <2>3. PICK r \in Feeds \cup {Idle} :
            /\ FeedBecomes(f, r)
            /\ \A s \in Sinks : Once(s) =>
                 \A i, j \in 1..Len(r.sinks) : r.sinks[i] = s /\ r.sinks[j] = s => i = j
      BY <2>1, FeedIs
    <2> SUFFICES ASSUME NEW s \in Sinks \ relisted PROVE Once(s)'
      BY <2>2 DEF ListedOnce
    <2>4. Once(s)
      BY DEF ListedOnce
    <2> QED BY <2>2, <2>3, <2>4 DEF Once, FeedBecomes
  <1> QED BY <1>1, <1>2, <1>3

---------------------------------------------------------------------------
(* The types.                                                              *)

\* A message in the queue.
LEMMA QueueIs ==
    ASSUME TypeOK
    PROVE  /\ queue \in Seq(Messages) /\ Len(queue) \in Nat /\ DOMAIN queue = 1..Len(queue)
           /\ \A i \in 1..Len(queue) :
                /\ queue[i] \in Messages /\ queue[i].by \in Feeders
                /\ queue[i].chan \in Channels /\ queue[i].chunk \in 1..MaxChunks
  <1>1. \A m \in Messages : m.by \in Feeders /\ m.chan \in Channels /\ m.chunk \in 1..MaxChunks
    BY DEF Messages
  <1> QED BY <1>1 DEF TypeOK

\* flush_monitor_queue takes the first message, and shows it if it is of the
\* operator's stream.
LEMMA ShowIs ==
    ASSUME TypeOK, NEW next, Show(next)
    PROVE  \/ queue = <<>> /\ task' = next /\ UNCHANGED <<queue, shown>>
           \/ /\ queue # <<>> /\ queue' = Tail(queue) /\ task' = task
              /\ \A f \in Feeders :
                   shown'[f] = IF queue[1].by = f /\ queue[1].chan = filter
                               THEN queue[1].chunk ELSE shown[f]
              /\ shown' \in [Feeders -> 0..MaxChunks]
  <1>1. CASE queue = <<>>
    BY <1>1 DEF Show
  <1>2. CASE queue # <<>>
    <2>1. 1 \in 1..Len(queue) /\ Head(queue) = queue[1]
      BY <1>2, QueueIs
    <2>2. /\ queue[1].by \in Feeders /\ queue[1].chunk \in 0..MaxChunks
      BY <2>1, QueueIs, Bounds
    <2>3. /\ queue' = Tail(queue) /\ task' = task
          /\ shown' = IF queue[1].chan = filter
                      THEN [shown EXCEPT ![queue[1].by] = queue[1].chunk] ELSE shown
      BY <1>2, <2>1 DEF Show
    <2> QED BY <1>2, <2>2, <2>3 DEF TypeOK
  <1> QED BY <1>1, <1>2

\* Every step keeps the types.
LEMMA TypesKeep ==
    ASSUME TypeOK, [Next]_vars
    PROVE  TypeOK'
  <1> DEFINE Shown0 == [f \in Feeders |-> 0]
  <1>1. Shown0 \in [Feeders -> 0..MaxChunks] /\ <<>> \in Seq(Messages) /\ Len(<<>>) <= Depth
    BY Bounds
  <1> HIDE DEF Shown0
  <1>2. CASE Application /\ UNCHANGED halted
    <2>1. feed' = feed /\ table' \in [1..MaxSinks -> Sinks \cup {Free}] /\ relisted' \subseteq Sinks
      BY <1>2, ApplicationSinks, RegisterIs, UnregisterIs DEF TypeOK
    <2>2. (queue' = queue /\ shown' = shown) \/ (queue' = <<>> /\ shown' = Shown0)
      BY <1>2 DEF Application, StartQueue, StartRegister, StartTask, StartFails, StopBegin,
         StopSocket, StopTask, StopQueue, StopUnregister, Other, shellVars, Shown0
    <2>3. queue' \in Seq(Messages) /\ Len(queue') <= Depth /\ shown' \in [Feeders -> 0..MaxChunks]
      BY <1>1, <2>2 DEF TypeOK
    <2>4. /\ filter' \in {filter, Nothing} /\ created' \in BOOLEAN /\ running' \in BOOLEAN
          /\ listening' \in BOOLEAN /\ bound' \in BOOLEAN /\ orphan' \in BOOLEAN
          /\ handle' \in {handle, "none", "task"} /\ task' \in {task, "none", "bind"}
          /\ caller' \in {caller, "idle", "register", "launch", "socket", "kill", "queue",
                          "unregister"}
      BY <1>2 DEF TypeOK, Application, StartQueue, StartRegister, StartTask, StartFails, StopBegin,
         StopSocket, StopTask, StopQueue, StopUnregister, Other, shellVars, Unpublished
    <2> QED BY <1>2, <2>1, <2>3, <2>4 DEF TypeOK
  <1>3. CASE ControlTask /\ UNCHANGED <<table, feed, halted, relisted, orphan>>
    <2>1. \/ queue' = queue /\ shown' = shown
          \/ queue' = <<>> /\ shown' = Shown0
          \/ \E next : Show(next) /\ queue # <<>>
      BY <1>3 DEF ControlTask, Serves, BindFails, Bind, Publish, Accept, AcceptFails, Flush, Poll,
         MonitorOn, MonitorOff, Hangup, GoneFlush, Leave, CloseClient, Exit, Reset, Shown0, Show
    <2>2. queue' \in Seq(Messages) /\ Len(queue') <= Depth /\ shown' \in [Feeders -> 0..MaxChunks]
      <3>1. ASSUME NEW next, Show(next), queue # <<>>
            PROVE  queue' \in Seq(Messages) /\ Len(queue') <= Depth
                   /\ shown' \in [Feeders -> 0..MaxChunks]
        <4>1. queue' = Tail(queue) /\ shown' \in [Feeders -> 0..MaxChunks]
          BY <3>1, ShowIs
        <4>2. Tail(queue) \in Seq(Messages) /\ Len(Tail(queue)) = Len(queue) - 1
          BY <3>1, QueueIs
        <4> QED BY <4>1, <4>2, QueueIs, Bounds DEF TypeOK
      <3> QED BY <1>1, <2>1, <3>1 DEF TypeOK
    <2>3. /\ filter' \in Channels \cup {Nothing} /\ created' = created /\ running' \in BOOLEAN
          /\ listening' \in BOOLEAN /\ bound' \in BOOLEAN /\ caller' = caller
          /\ handle' \in {handle, "none", "stale"}
          /\ task' \in {task, "none", "publish", "accept", "flush", "recv", "gone", "leave",
                        "close", "exit"}
      BY <1>3 DEF TypeOK, ControlTask, Serves, BindFails, Bind, Publish, Accept, AcceptFails,
         Flush, Poll, MonitorOn, MonitorOff, Hangup, GoneFlush, Leave, CloseClient, Exit, Show
    <2> QED BY <1>3, <2>2, <2>3 DEF TypeOK
  <1>4. CASE \E f \in Feeders : SessionTask(f) /\ UNCHANGED <<halted, orphan>>
    <2>1. PICK f \in Feeders : SessionTask(f) /\ UNCHANGED <<halted, orphan>>
      BY <1>4
    <2>2. UNCHANGED <<table, filter, created, running, handle, listening, bound, task, caller,
                      shown, relisted, halted, orphan>>
      BY <2>1, FeederLeaves
    <2>3. PICK r \in Feeds \cup {Idle} :
             /\ FeedBecomes(f, r)
             /\ r \in Feeds => r.chunk <= r.size /\ Len(r.sinks) <= MaxSinks
             /\ \/ queue' = queue
                \/ /\ Sending(f) /\ Len(queue) < Depth
                   /\ queue' = Append(queue, [chan |-> feed[f].chan, by |-> f,
                                              chunk |-> feed[f].chunk])
      BY <2>1, FeedIs
    <2>4. /\ feed' \in [Feeders -> Feeds \cup {Idle}]
          /\ \A g \in Feeders : feed'[g] \in Feeds =>
               feed'[g].chunk <= feed'[g].size /\ Len(feed'[g].sinks) <= MaxSinks
      BY <2>3 DEF FeedBecomes, TypeOK
    <2>5. queue' \in Seq(Messages) /\ Len(queue') <= Depth
      <3>1. CASE Sending(f) /\ Len(queue) < Depth
        <4> DEFINE m == [chan |-> feed[f].chan, by |-> f, chunk |-> feed[f].chunk]
        <4>1. feed[f].chunk \in 1..MaxChunks /\ feed[f].chan \in Channels
          BY <3>1, CallIs, Bounds DEF Sending
        <4>2. m \in Messages
          BY <4>1 DEF Messages
        <4> HIDE DEF m
        <4>3. Append(queue, m) \in Seq(Messages) /\ Len(Append(queue, m)) = Len(queue) + 1
          BY <4>2, QueueIs
        <4>4. Len(queue) + 1 <= Depth
          BY <3>1, QueueIs, Bounds
        <4>5. queue' = queue \/ queue' = Append(queue, m)
          BY <2>3 DEF m
        <4> QED BY <4>3, <4>4, <4>5 DEF TypeOK
      <3>2. CASE queue' = queue
        BY <3>2 DEF TypeOK
      <3> QED BY <2>3, <3>1, <3>2
    <2> QED BY <2>2, <2>4, <2>5 DEF TypeOK
  <1>5. CASE Halts
    BY <1>5 DEF Halts, shellVars, TypeOK
  <1>6. CASE UNCHANGED vars
    BY <1>6 DEF vars, shellVars, TypeOK
  <1> QED BY <1>2, <1>3, <1>4, <1>5, <1>6 DEF Next

---------------------------------------------------------------------------
(* The stream an operator gets.                                            *)

\* Nothing is required of a stream that begins anew.
LEMMA ResetKeeps ==
    ASSUME TypeOK, queue' = <<>>, \A f \in Feeders : shown'[f] = 0
    PROVE  Stream'
  <1>1. \A f \in Feeders : Own(f)' = {}
    BY DEF Own
  <1>2. OnlyTailsAreLost'
    BY <1>1 DEF OnlyTailsAreLost, First
  <1>3. NextFits' /\ StrayFirst'
    BY <1>1 DEF NextFits, StrayFirst, Follows
  <1> QED BY <1>2, <1>3 DEF Stream

\* Without a new message or an operator's command, a feed may begin, or end.
LEMMA SameQueueKeeps ==
    ASSUME Stream, UNCHANGED <<queue, filter, shown>>,
           \A f \in Feeders : Sending(f)' =>
             \/ Sending(f) /\ feed'[f].chunk = feed[f].chunk /\ feed'[f].chan = feed[f].chan
             \/ feed'[f].chunk = 1 /\ feed'[f].chan = filter
    PROVE  Stream'
  <1>1. \A f : Own(f)' = Own(f)
    BY DEF Own
  <1>2. OnlyTailsAreLost'
    BY <1>1 DEF Stream, OnlyTailsAreLost, First
  <1>3. NextFits'
    BY <1>1 DEF Stream, NextFits, Follows
  <1>4. StrayFirst'
    BY <1>1 DEF Stream, StrayFirst
  <1> QED BY <1>2, <1>3, <1>4 DEF Stream

\* The sink has queued a chunk, and goes on to the next.
LEMMA SendKeeps ==
    ASSUME TypeOK, Stream, NEW f \in Feeders, Sending(f), UNCHANGED <<filter, shown>>,
           queue' = Append(queue, [chan |-> feed[f].chan, by |-> f, chunk |-> feed[f].chunk]),
           \A g \in Feeders \ {f} : feed'[g] = feed[g],
           Sending(f)' => feed'[f].chunk = feed[f].chunk + 1 /\ feed'[f].chan = feed[f].chan
    PROVE  Stream'
  <1> DEFINE n == Len(queue)
             c == feed[f].chunk
             m == [chan |-> feed[f].chan, by |-> f, chunk |-> c]
  <1>1. n \in Nat /\ DOMAIN queue = 1..n /\ queue \in Seq(Messages)
    BY QueueIs
  <1>2. c \in Nat /\ c > 0
    BY CallIs, Bounds DEF Sending
  <1>3. m.chan = feed[f].chan /\ m.by = f /\ m.chunk = c
    OBVIOUS
  <1>4. /\ DOMAIN queue' = 1..n + 1 /\ queue'[n + 1] = m
        /\ \A i \in 1..n : queue'[i] = queue[i]
    <2> HIDE DEF m, n
    <2> QED BY <1>1 DEF m, n
  <1> HIDE DEF m, n, c
  <1>5. \A g \in Feeders : \A i \in Own(g) : i \in 1..n /\ i < n + 1 /\ queue'[i] = queue[i]
    BY <1>1, <1>4 DEF Own
  <1>6. \A g \in Feeders \ {f} : Own(g)' = Own(g)
    BY <1>1, <1>3, <1>4 DEF Own
  <1>7. Own(f)' = Own(f) \cup {n + 1}
    BY <1>1, <1>3, <1>4 DEF Own
  <1>8. ASSUME NEW i \in Own(f), NEW j \in Own(f), i < j,
               \A k \in Own(f) : k <= i \/ k >= j
        PROVE  Follows(queue[j].chunk, queue[i].chunk)
    BY <1>8 DEF Stream, OnlyTailsAreLost
  <1>9. /\ Own(f) = {} => Follows(c, shown[f])
        /\ \A i \in Own(f) : (\A k \in Own(f) : k <= i) => Follows(c, queue[i].chunk)
    BY DEF Stream, NextFits, c
  <1>10. OnlyTailsAreLost'
    <2>1. ASSUME NEW g \in Feeders \ {f}
          PROVE  /\ \A j \in First(Own(g)) : Follows(queue'[j].chunk, shown[g])
                 /\ \A i, j \in Own(g) :
                      i < j /\ (\A k \in Own(g) : k <= i \/ k >= j) =>
                        Follows(queue'[j].chunk, queue'[i].chunk)
      BY <1>5 DEF Stream, OnlyTailsAreLost, First
    <2>2. ASSUME NEW j \in First(Own(f)')
          PROVE  Follows(queue'[j].chunk, shown[f])
      <3>1. CASE Own(f) = {}
        BY <1>3, <1>4, <1>7, <1>9, <3>1 DEF First
      <3>2. CASE Own(f) # {}
        <4>1. j \in First(Own(f))
          BY <1>1, <1>5, <1>7, <3>2 DEF First
        <4> QED BY <4>1, <1>5 DEF First, Stream, OnlyTailsAreLost
      <3> QED BY <3>1, <3>2
    <2>3. ASSUME NEW i \in Own(f)', NEW j \in Own(f)', i < j,
                 \A k \in Own(f)' : k <= i \/ k >= j
          PROVE  Follows(queue'[j].chunk, queue'[i].chunk)
      <3>1. i \in Own(f)
        BY <1>1, <1>5, <1>7, <2>3
      <3>2. CASE j \in Own(f)
        BY <1>5, <1>7, <1>8, <2>3, <3>1, <3>2
      <3>3. CASE j = n + 1
        <4>1. \A k \in Own(f) : k <= i
          BY <1>1, <1>5, <1>7, <2>3, <3>3
        <4>2. Follows(c, queue[i].chunk)
          BY <1>9, <3>1, <4>1
        <4> QED BY <1>3, <1>4, <1>5, <3>1, <3>3, <4>2
      <3> QED BY <1>7, <2>3, <3>2, <3>3
    <2> SUFFICES ASSUME NEW g \in Feeders
                 PROVE  /\ \A j \in First(Own(g)') : Follows(queue'[j].chunk, shown[g])
                        /\ \A i, j \in Own(g)' :
                             i < j /\ (\A k \in Own(g)' : k <= i \/ k >= j) =>
                               Follows(queue'[j].chunk, queue'[i].chunk)
      BY DEF OnlyTailsAreLost
    <2>4. CASE g = f
      BY <2>2, <2>3, <2>4
    <2>5. CASE g # f
      <3>1. Own(g)' = Own(g)
        BY <1>6, <2>5
      <3>2. /\ \A j \in First(Own(g)) : Follows(queue'[j].chunk, shown[g])
            /\ \A i, j \in Own(g) :
                 i < j /\ (\A k \in Own(g) : k <= i \/ k >= j) =>
                   Follows(queue'[j].chunk, queue'[i].chunk)
        BY <2>1, <2>5
      <3> QED BY <3>1, <3>2
    <2> QED BY <2>4, <2>5
  <1>11. NextFits'
    <2>1. ASSUME NEW g \in Feeders \ {f}, Sending(g)'
          PROVE  /\ Own(g) = {} => Follows(feed'[g].chunk, shown[g])
                 /\ \A i \in Own(g) : (\A k \in Own(g) : k <= i) =>
                      Follows(feed'[g].chunk, queue'[i].chunk)
      <3>1. Sending(g) /\ feed'[g] = feed[g]
        BY <2>1 DEF Sending, Calls, Fed
      <3> QED BY <1>5, <3>1 DEF Stream, NextFits
    <2>2. ASSUME Sending(f)', NEW i \in Own(f)', \A k \in Own(f)' : k <= i
          PROVE  Follows(feed'[f].chunk, queue'[i].chunk)
      <3>1. i = n + 1
        BY <1>1, <1>5, <1>7, <2>2
      <3>2. queue'[i].chunk = c /\ feed'[f].chunk = c + 1
        BY <1>3, <1>4, <2>2, <3>1 DEF c
      <3> QED BY <3>2 DEF Follows
    <2> QED BY <1>6, <1>7, <2>1, <2>2 DEF NextFits
  <1>12. StrayFirst'
    <2>1. ASSUME NEW g \in Feeders \ {f}
          PROVE  /\ \A j \in Own(g) : queue'[j].chan # filter =>
                      shown[g] = 0 /\ \A i \in Own(g) : i < j => queue'[i].chan # filter
                 /\ Sending(g)' /\ feed'[g].chan # filter =>
                      shown[g] = 0 /\ \A i \in Own(g) : queue'[i].chan # filter
      <3>1. Sending(g)' => Sending(g) /\ feed'[g] = feed[g]
        BY <2>1 DEF Sending, Calls, Fed
      <3> QED BY <1>5, <3>1 DEF Stream, StrayFirst
    <2>2. feed[f].chan # filter =>
            shown[f] = 0 /\ \A i \in Own(f) : queue'[i].chan # filter
      BY <1>5 DEF Stream, StrayFirst
    <2>3. ASSUME NEW j \in Own(f)', queue'[j].chan # filter
          PROVE  shown[f] = 0 /\ \A i \in Own(f)' : i < j => queue'[i].chan # filter
      <3>1. CASE j \in Own(f)
        <4>1. \A i \in Own(f)' : i < j => i \in Own(f)
          BY <1>1, <1>5, <1>7, <3>1
        <4> QED BY <1>5, <2>3, <3>1, <4>1 DEF Stream, StrayFirst
      <3>2. CASE j = n + 1
        <4>1. \A i \in Own(f)' : i < j => i \in Own(f)
          BY <1>1, <1>7, <3>2
        <4> QED BY <1>3, <1>4, <2>2, <2>3, <3>2, <4>1
      <3> QED BY <1>7, <2>3, <3>1, <3>2
    <2>4. Sending(f)' /\ feed'[f].chan # filter =>
            shown[f] = 0 /\ \A i \in Own(f)' : queue'[i].chan # filter
      BY <1>3, <1>4, <1>7, <2>2
    <2> SUFFICES ASSUME NEW g \in Feeders
                 PROVE  /\ \A j \in Own(g)' : queue'[j].chan # filter =>
                             shown[g] = 0 /\ \A i \in Own(g)' : i < j => queue'[i].chan # filter
                        /\ Sending(g)' /\ feed'[g].chan # filter =>
                             shown[g] = 0 /\ \A i \in Own(g)' : queue'[i].chan # filter
      BY DEF StrayFirst
    <2>5. CASE g = f
      BY <2>3, <2>4, <2>5
    <2>6. CASE g # f
      <3>1. Own(g)' = Own(g)
        BY <1>6, <2>6
      <3>2. /\ \A j \in Own(g) : queue'[j].chan # filter =>
                 shown[g] = 0 /\ \A i \in Own(g) : i < j => queue'[i].chan # filter
            /\ Sending(g)' /\ feed'[g].chan # filter =>
                 shown[g] = 0 /\ \A i \in Own(g) : queue'[i].chan # filter
        BY <2>1, <2>6
      <3> QED BY <3>1, <3>2
    <2> QED BY <2>5, <2>6
  <1> QED BY <1>10, <1>11, <1>12 DEF Stream

\* The first message is taken, and shown or not.
LEMMA TakeKeeps ==
    ASSUME TypeOK, Stream, UNCHANGED <<filter, feed>>, queue # <<>>, queue' = Tail(queue),
           \A f \in Feeders :
             shown'[f] = IF queue[1].by = f /\ queue[1].chan = filter
                         THEN queue[1].chunk ELSE shown[f]
    PROVE  Stream'
  <1> DEFINE n == Len(queue)
  <1>1. n \in Nat \ {0} /\ DOMAIN queue = 1..n /\ queue \in Seq(Messages)
    BY QueueIs
  <1>2. DOMAIN queue' = 1..n - 1 /\ \A i \in 1..n - 1 : queue'[i] = queue[i + 1]
    BY <1>1
  <1> HIDE DEF n
  <1> SUFFICES ASSUME NEW f \in Feeders
               PROVE  /\ \A j \in First(Own(f)') : Follows(queue'[j].chunk, shown'[f])
                      /\ \A i, j \in Own(f)' :
                           i < j /\ (\A k \in Own(f)' : k <= i \/ k >= j) =>
                             Follows(queue'[j].chunk, queue'[i].chunk)
                      /\ Sending(f) =>
                           /\ Own(f)' = {} => Follows(feed[f].chunk, shown'[f])
                           /\ \A i \in Own(f)' : (\A k \in Own(f)' : k <= i) =>
                                Follows(feed[f].chunk, queue'[i].chunk)
                      /\ \A j \in Own(f)' : queue'[j].chan # filter =>
                           shown'[f] = 0 /\ \A i \in Own(f)' : i < j => queue'[i].chan # filter
                      /\ Sending(f) /\ feed[f].chan # filter =>
                           shown'[f] = 0 /\ \A i \in Own(f)' : queue'[i].chan # filter
    BY DEF Stream, OnlyTailsAreLost, NextFits, StrayFirst, Sending, Calls, Fed
  <1>3. \A i \in Own(f)' : i \in 1..n - 1 /\ i + 1 \in Own(f) /\ queue'[i] = queue[i + 1]
    BY <1>1, <1>2 DEF Own
  <1>4. \A i \in Own(f) : i \in 1..n /\ (i = 1 \/ i - 1 \in Own(f)')
    <2> SUFFICES ASSUME NEW i \in Own(f), i # 1 PROVE i \in 1..n /\ i - 1 \in Own(f)'
      BY <1>1 DEF Own
    <2>1. i \in 1..n /\ queue[i].by = f
      BY <1>1 DEF Own
    <2>2. i - 1 \in 1..n - 1 /\ (i - 1) + 1 = i
      BY <1>1, <2>1
    <2>3. queue'[i - 1].by = f
      BY <1>2, <2>1, <2>2
    <2> QED BY <1>2, <2>1, <2>2, <2>3 DEF Own
  <1>5. /\ \A j \in First(Own(f)) : Follows(queue[j].chunk, shown[f])
        /\ \A i, j \in Own(f) :
             i < j /\ (\A k \in Own(f) : k <= i \/ k >= j) =>
               Follows(queue[j].chunk, queue[i].chunk)
        /\ Sending(f) =>
             /\ Own(f) = {} => Follows(feed[f].chunk, shown[f])
             /\ \A i \in Own(f) : (\A k \in Own(f) : k <= i) =>
                  Follows(feed[f].chunk, queue[i].chunk)
        /\ \A j \in Own(f) : queue[j].chan # filter =>
             shown[f] = 0 /\ \A i \in Own(f) : i < j => queue[i].chan # filter
        /\ Sending(f) /\ feed[f].chan # filter =>
             shown[f] = 0 /\ \A i \in Own(f) : queue[i].chan # filter
    BY DEF Stream, OnlyTailsAreLost, NextFits, StrayFirst
  <1>6. 1 \in Own(f) <=> queue[1].by = f
    BY <1>1 DEF Own
  <1>7. ASSUME NEW i \in Own(f)', NEW j \in Own(f)', i < j,
               \A k \in Own(f)' : k <= i \/ k >= j
        PROVE  Follows(queue'[j].chunk, queue'[i].chunk)
    <2>1. /\ i + 1 \in Own(f) /\ j + 1 \in Own(f) /\ i + 1 < j + 1
          /\ \A k \in Own(f) : k <= i + 1 \/ k >= j + 1
      BY <1>1, <1>3, <1>4, <1>7
    <2> QED BY <1>3, <1>5, <2>1
  <1>8. ASSUME Sending(f), NEW i \in Own(f)', \A k \in Own(f)' : k <= i
        PROVE  Follows(feed[f].chunk, queue'[i].chunk)
    <2>1. i + 1 \in Own(f) /\ \A k \in Own(f) : k <= i + 1
      BY <1>1, <1>3, <1>4, <1>8
    <2> QED BY <1>3, <1>5, <1>8, <2>1
  <1>9. ASSUME NEW j \in Own(f)', queue'[j].chan # filter
        PROVE  \A i \in Own(f)' : i < j => queue'[i].chan # filter
    <2>1. j + 1 \in Own(f) /\ queue[j + 1].chan # filter
      BY <1>3, <1>9
    <2>2. \A i \in Own(f)' : i < j => i + 1 < j + 1
      BY <1>3
    <2> QED BY <1>3, <1>5, <2>1, <2>2
  <1>10. Sending(f) /\ feed[f].chan # filter => \A i \in Own(f)' : queue'[i].chan # filter
    BY <1>3, <1>5
  <1>11. CASE queue[1].by = f /\ queue[1].chan = filter
    <2>1. shown'[f] = queue[1].chunk /\ 1 \in Own(f)
      BY <1>6, <1>11
    <2>2. ASSUME NEW j \in First(Own(f)')
          PROVE  Follows(queue'[j].chunk, shown'[f])
      <3>1. j \in Own(f)' /\ \A k \in Own(f)' : j <= k
        BY DEF First
      <3>2. j + 1 \in Own(f) /\ 1 < j + 1 /\ \A k \in Own(f) : k <= 1 \/ k >= j + 1
        BY <1>1, <1>3, <1>4, <3>1
      <3> QED BY <1>3, <1>5, <2>1, <3>1, <3>2
    <2>3. Sending(f) /\ Own(f)' = {} => Follows(feed[f].chunk, shown'[f])
      <3>1. Own(f)' = {} => \A k \in Own(f) : k <= 1
        BY <1>4
      <3> QED BY <1>5, <2>1, <3>1
    <2>4. \A j \in Own(f)' : queue'[j].chan = filter
      <3>1. \A j \in Own(f)' : 1 < j + 1
        BY <1>3
      <3> QED BY <1>3, <1>5, <1>11, <2>1, <3>1
    <2>5. ~(Sending(f) /\ feed[f].chan # filter)
      BY <1>5, <1>11, <2>1
    <2> QED BY <1>7, <1>8, <2>2, <2>3, <2>4, <2>5
  <1>12. CASE ~(queue[1].by = f /\ queue[1].chan = filter)
    <2>1. shown'[f] = shown[f]
      BY <1>12
    <2>2. 1 \in Own(f) => shown[f] = 0
      BY <1>5, <1>6, <1>12
    <2>3. ASSUME NEW j \in First(Own(f)')
          PROVE  Follows(queue'[j].chunk, shown'[f])
      <3>1. CASE 1 \in Own(f)
        BY <2>1, <2>2, <3>1 DEF Follows
      <3>2. CASE 1 \notin Own(f)
        <4>1. j \in Own(f)' /\ \A k \in Own(f)' : j <= k
          BY DEF First
        <4>2. j + 1 \in Own(f) /\ \A k \in Own(f) : j + 1 <= k
          BY <1>1, <1>3, <1>4, <3>2, <4>1
        <4> QED BY <1>3, <1>5, <2>1, <4>1, <4>2 DEF First
      <3> QED BY <3>1, <3>2
    <2>4. Sending(f) /\ Own(f)' = {} => Follows(feed[f].chunk, shown'[f])
      <3>1. CASE 1 \in Own(f)
        BY <2>1, <2>2, <3>1 DEF Follows
      <3>2. CASE 1 \notin Own(f)
        BY <1>4, <1>5, <2>1, <3>2
      <3> QED BY <3>1, <3>2
    <2>5. \A j \in Own(f)' : queue'[j].chan # filter => shown'[f] = 0
      BY <1>3, <1>5, <2>1
    <2> QED BY <1>5, <1>7, <1>8, <1>9, <1>10, <2>1, <2>3, <2>4, <2>5
  <1> QED BY <1>11, <1>12

\* The stream is kept by every step.
LEMMA StreamKeeps ==
    ASSUME TypeOK, Stream, [Next]_vars
    PROVE  Stream'
  <1>1. ASSUME UNCHANGED <<feed, queue, filter, shown>> PROVE Stream'
    BY <1>1, SameQueueKeeps DEF Sending, Calls, Fed
  <1>2. CASE Application
    <2>1. \/ UNCHANGED <<feed, queue, filter, shown>>
          \/ queue' = <<>> /\ shown' = [f \in Feeders |-> 0]
      BY <1>2 DEF Application, StartQueue, StartRegister, StartTask, StartFails, StopBegin,
         StopSocket, StopTask, StopQueue, StopUnregister, Other, shellVars
    <2> QED BY <1>1, <2>1, ResetKeeps
  <1>3. CASE ControlTask /\ feed' = feed
    <2>1. \/ UNCHANGED <<queue, filter, shown>>
          \/ queue' = <<>> /\ shown' = [f \in Feeders |-> 0]
          \/ (\E next : Show(next)) /\ queue # <<>> /\ filter' = filter
      BY <1>3 DEF ControlTask, Serves, BindFails, Bind, Publish, Accept, AcceptFails, Flush, Poll,
         MonitorOn, MonitorOff, Hangup, GoneFlush, Leave, CloseClient, Exit, Reset, Show
    <2>2. CASE (\E next : Show(next)) /\ queue # <<>> /\ filter' = filter
      <3>1. PICK next : Show(next)
        BY <2>2
      <3>2. /\ queue' = Tail(queue)
            /\ \A f \in Feeders :
                 shown'[f] = IF queue[1].by = f /\ queue[1].chan = filter
                             THEN queue[1].chunk ELSE shown[f]
        BY <2>2, <3>1, ShowIs
      <3> QED BY <1>3, <2>2, <3>2, TakeKeeps
    <2> QED BY <1>1, <1>3, <2>1, <2>2, ResetKeeps
  <1>4. CASE \E f \in Feeders : SessionTask(f)
    <2>1. PICK f \in Feeders : SessionTask(f)
      BY <1>4
    <2>2. UNCHANGED <<filter, shown>>
      BY <2>1, FeederLeaves
    <2>3. PICK r \in Feeds \cup {Idle} :
            /\ FeedBecomes(f, r)
            /\ \/ queue' = queue /\ (r.chunk > 0 => r.chunk = 1 /\ r.chan = filter)
               \/ /\ Sending(f) /\ Len(queue) < Depth
                  /\ queue' = Append(queue, [chan |-> feed[f].chan, by |-> f,
                                             chunk |-> feed[f].chunk])
                  /\ r.chunk > 0 => r.chunk = feed[f].chunk + 1 /\ r.chan = feed[f].chan
      BY <2>1, FeedIs
    <2>4. feed'[f] = r /\ \A g \in Feeders \ {f} : feed'[g] = feed[g]
      BY <2>3 DEF FeedBecomes
    <2>5. Sending(f)' => r.chunk > 0
      BY <2>4 DEF Sending
    <2>6. \A g \in Feeders \ {f} : Sending(g)' => Sending(g)
      BY <2>4 DEF Sending, Calls, Fed
    <2>7. CASE queue' = queue /\ (r.chunk > 0 => r.chunk = 1 /\ r.chan = filter)
      BY <2>2, <2>4, <2>5, <2>6, <2>7, SameQueueKeeps
    <2>8. CASE /\ Sending(f) /\ Len(queue) < Depth
               /\ queue' = Append(queue, [chan |-> feed[f].chan, by |-> f,
                                          chunk |-> feed[f].chunk])
               /\ r.chunk > 0 => r.chunk = feed[f].chunk + 1 /\ r.chan = feed[f].chan
      BY <2>2, <2>4, <2>5, <2>8, SendKeeps
    <2> QED BY <2>3, <2>7, <2>8
  <1>5. CASE Halts \/ UNCHANGED vars
    BY <1>1, <1>5 DEF Halts, vars, shellVars
  <1> QED BY <1>2, <1>3, <1>4, <1>5 DEF Next

---------------------------------------------------------------------------
(* The theorems.                                                           *)

\* The service begins without sinks, feeds and shell.
LEMMA InitInv == Init => IInv
  <1> SUFFICES ASSUME Init PROVE IInv
    OBVIOUS
  <1>1. Idle.sinks = <<>> /\ Idle.chunk = 0 /\ Idle \notin Feeds
    <2> SUFFICES ASSUME Idle \in Feeds PROVE FALSE
      BY DEF Idle
    <2>1. DOMAIN Idle = {"chan", "size", "chunk", "sinks"}
      BY DEF Feeds
    <2>2. DOMAIN Idle = {"sinks", "chunk"}
      BY DEF Idle
    <2> QED BY <2>1, <2>2
  <1>2. <<>> \in Seq(Messages) /\ Len(<<>>) <= Depth
    BY Bounds
  <1>3. TypeOK
    <2>1. \A f \in Feeders : feed[f] = Idle
      BY DEF Init
    <2>2. /\ feed \in [Feeders -> Feeds \cup {Idle}]
          /\ \A f \in Feeders : feed[f] \in Feeds =>
               feed[f].chunk <= feed[f].size /\ Len(feed[f].sinks) <= MaxSinks
      BY <1>1, <2>1 DEF Init
    <2>3. shown \in [Feeders -> 0..MaxChunks] /\ queue \in Seq(Messages) /\ Len(queue) <= Depth
      BY <1>2, Bounds DEF Init
    <2> QED BY <2>2, <2>3 DEF Init, TypeOK
  <1>4. Phases /\ MonitorHasOperator /\ SocketKept
    BY DEF Init, Phases, MonitorHasOperator, SocketKept
  <1>5. ListedOnce
    <2>1. Len(Idle.sinks) = 0
      BY <1>1
    <2> QED BY <2>1, Bounds DEF Init, ListedOnce, Once
  <1>6. Stream
    <2>1. \A f \in Feeders : Own(f) = {} /\ ~Sending(f)
      BY DEF Init, Own, Sending, Calls, Fed
    <2> QED BY <2>1 DEF Stream, OnlyTailsAreLost, NextFits, StrayFirst, First
  <1> QED BY <1>3, <1>4, <1>5, <1>6 DEF IInv

\* Each step keeps the invariant.
LEMMA NextKeeps == IInv /\ [Next]_vars => IInv'
  <1> SUFFICES ASSUME IInv, [Next]_vars PROVE IInv'
    OBVIOUS
  <1>1. TypeOK' /\ Stream'
    BY TypesKeep, StreamKeeps DEF IInv
  <1>2. \/ Application
        \/ ControlTask /\ UNCHANGED <<table, feed, relisted, orphan>>
        \/ \E f \in Feeders : SessionTask(f) /\ UNCHANGED orphan
        \/ Halts \/ UNCHANGED vars
    BY DEF Next
  <1>3. Application \/ (ControlTask /\ UNCHANGED orphan) \/ Elsewhere
    BY <1>2, FeederLeaves DEF Elsewhere, Halts, vars, shellVars
  <1>4. Phases' /\ MonitorHasOperator' /\ SocketKept'
    BY <1>3, ControlKeeps DEF IInv
  <1>5. \/ Application \/ \E f \in Feeders : SessionTask(f)
        \/ UNCHANGED <<table, feed, relisted>>
    BY <1>2 DEF Halts, vars
  <1>6. ListedOnce'
    BY <1>5, OnceKeeps DEF IInv
  <1> QED BY <1>1, <1>4, <1>6 DEF IInv

\* The invariant holds in every state.
LEMMA Inductive == Spec => []IInv
  BY InitInv, NextKeeps, PTL DEF Spec

\* The variables have their types: no chunk beyond the end of what is fed is
\* sent, no copy of the table has more sinks than it, and the queue holds no
\* more than its depth (control_monitor_sink, ser2net_monitor_feed).
THEOREM TypeCorrect == Spec => []TypeOK
  <1>1. IInv => TypeOK
    BY DEF IInv
  <1> QED BY <1>1, Inductive, PTL

\* Nothing is monitored without the operator who asked for it, whenever the
\* application stops and starts the shell (serve_client, ser2net_control_start,
\* ser2net_control_stop).
THEOREM MonitorServed == Spec => []MonitorHasOperator
  <1>1. IInv => MonitorHasOperator
    BY DEF IInv
  <1> QED BY <1>1, Inductive, PTL

\* What an operator misses of a read is its end, never its middle, for any
\* number of sessions, any depth of the queue and reads of any size
\* (control_monitor_sink, flush_monitor_queue).
THEOREM TailsLost == Spec => []OnlyTailsAreLost
  <1>1. IInv => OnlyTailsAreLost
    BY DEF IInv, Stream
  <1> QED BY <1>1, Inductive, PTL

\* A sink that no one registered twice has one entry and is called once for what
\* is fed, for any number of sinks (ser2net_monitor_register_sink,
\* ser2net_monitor_unregister_sink, ser2net_monitor_feed).
THEOREM SinksCalledOnce == Spec => []CalledOnce
  <1>1. ASSUME NEW S, \A i, j \in S : i = j PROVE Cardinality(S) <= 1
    <2>1. CASE S = {}
      BY <2>1, FS_EmptySet
    <2>2. CASE S # {}
      <3>1. PICK x \in S : S = {x}
        BY <1>1, <2>2
      <3> QED BY <3>1, FS_Singleton
    <2> QED BY <2>1, <2>2
  <1>2. IInv => CalledOnce
    <2> SUFFICES ASSUME IInv, NEW s \in Sinks \ relisted
                 PROVE  /\ Cardinality(Entries(s)) <= 1
                        /\ \A f \in Feeders :
                             Cardinality({i \in DOMAIN feed[f].sinks : feed[f].sinks[i] = s}) <= 1
      BY DEF CalledOnce
    <2>1. Once(s)
      BY DEF IInv, ListedOnce
    <2>2. Cardinality(Entries(s)) <= 1
      <3>1. \A i, j \in Entries(s) : i = j
        BY <2>1 DEF Entries, Once
      <3> QED BY <1>1, <3>1
    <2>3. ASSUME NEW f \in Feeders
          PROVE  Cardinality({i \in DOMAIN feed[f].sinks : feed[f].sinks[i] = s}) <= 1
      <3> DEFINE S == {i \in DOMAIN feed[f].sinks : feed[f].sinks[i] = s}
      <3>1. DOMAIN feed[f].sinks = 1..Len(feed[f].sinks)
        <4>1. feed[f] \in Feeds => feed[f].sinks \in Seq(Sinks)
          BY DEF Feeds
        <4>2. Idle.sinks = <<>>
          BY DEF Idle
        <4>3. feed[f] \in Feeds \/ feed[f] = Idle
          BY DEF IInv, TypeOK
        <4> QED BY <4>1, <4>2, <4>3
      <3>2. \A i, j \in S : i = j
        BY <2>1, <3>1 DEF Once
      <3> HIDE DEF S
      <3>3. Cardinality(S) <= 1
        BY <1>1, <3>2
      <3> QED BY <3>3 DEF S
    <2> QED BY <2>2, <2>3
  <1> QED BY <1>2, Inductive, PTL

\* After ser2net_control_stop the shell's port can be bound again, wherever the
\* task was when it was deleted, unless the stop came before the task had stored
\* its socket in control_listen_fd (control_task, ser2net_control_stop).
THEOREM PortReleased == Spec => []StopReleasesPort
  <1>1. IInv => StopReleasesPort
    BY DEF IInv, SocketKept, StopReleasesPort
  <1> QED BY <1>1, Inductive, PTL
===============================================================================
