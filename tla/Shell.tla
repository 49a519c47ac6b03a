-------------------------------- MODULE Shell --------------------------------
(***************************************************************************)
(* The monitor bus and the control shell that listens to it: session tasks *)
(* feed what they read to the sinks, the shell's sink queues it in chunks, *)
(* the control task shows it to the operator, and the application starts   *)
(* and stops the shell, killing its task wherever it happens to be.        *)
(***************************************************************************)
EXTENDS Integers, Sequences, FiniteSets

CONSTANTS MaxSinks,    \* SER2NET_MONITOR_MAX_SINKS
          Depth,       \* MONITOR_QUEUE_DEPTH
          MaxChunks,   \* bound: the most chunks of MONITOR_CHUNK bytes fed at once
          Sizes,       \* what may be fed at once, in chunks
          Channels,    \* streams of ports
          Feeders,     \* session tasks
          Others       \* other sinks, registered by the application

Control == "control"   \* control_monitor_sink
Free    == "free"
Nothing == "nothing"   \* no filter
Sinks   == Others \cup {Control}

ASSUME ShellAssumption ==
    /\ MaxSinks \in Nat \ {0} /\ Depth \in Nat \ {0} /\ MaxChunks \in Nat \ {0}
    /\ Sizes \subseteq 1..MaxChunks
    /\ {Control, Free, Nothing} \cap (Others \cup Channels) = {}

VARIABLES
    table,     \* sink_table
    feed,      \* per feeder, the ser2net_monitor_feed in progress
    filter,    \* monitor_state
    queue,     \* what is in monitor_queue
    created,   \* monitor_queue is there
    running,   \* control_running
    handle,    \* control_task_handle: of the task, of a task that is gone, or none
    listening, \* control_listen_fd >= 0
    bound,     \* the shell's TCP port has a socket
    task,      \* where control_task is
    caller,    \* where the application is in control_start or control_stop
    halted,    \* a deleted queue or a deleted task was used
    shown,     \* history: per feeder, the last chunk the operator got since the
               \* queue was reset
    relisted,  \* history: the sinks registered while they were in the table
    orphan     \* history: a stop came before the task had published its socket

shellVars == <<filter, queue, created, running, handle, listening, bound, task, caller>>
vars == <<table, feed, shellVars, halted, shown, relisted, orphan>>

Idle     == [sinks |-> <<>>, chunk |-> 0]
Feeds    == [chan : Channels, size : Sizes, chunk : 0..MaxChunks, sinks : Seq(Sinks)]
Messages == [chan : Channels, by : Feeders, chunk : 1..MaxChunks]

TypeOK ==
    /\ table \in [1..MaxSinks -> Sinks \cup {Free}]
    /\ feed \in [Feeders -> Feeds \cup {Idle}]
    /\ \A f \in Feeders : feed[f] \in Feeds =>
         feed[f].chunk <= feed[f].size /\ Len(feed[f].sinks) <= MaxSinks
    /\ filter \in Channels \cup {Nothing}
    /\ queue \in Seq(Messages) /\ Len(queue) <= Depth
    /\ created \in BOOLEAN /\ running \in BOOLEAN /\ listening \in BOOLEAN /\ bound \in BOOLEAN
    /\ handle \in {"none", "task", "stale"}
    /\ task \in {"none", "bind", "publish", "accept", "flush", "recv", "gone", "leave",
                 "close", "exit"}
    /\ caller \in {"idle", "register", "launch", "socket", "kill", "queue", "unregister"}
    /\ halted \in BOOLEAN /\ orphan \in BOOLEAN
    /\ shown \in [Feeders -> 0..MaxChunks]
    /\ relisted \subseteq Sinks

Init ==
    /\ table = [i \in 1..MaxSinks |-> Free]
    /\ feed = [f \in Feeders |-> Idle]
    /\ filter = Nothing /\ queue = <<>> /\ created = FALSE
    /\ running = FALSE /\ handle = "none"
    /\ listening = FALSE /\ bound = FALSE
    /\ task = "none" /\ caller = "idle"
    /\ halted = FALSE /\ orphan = FALSE
    /\ shown = [f \in Feeders |-> 0] /\ relisted = {}

---------------------------------------------------------------------------
(* The monitor bus.                                                        *)

First(S) == {i \in S : \A j \in S : i <= j}
Entries(s) == {i \in 1..MaxSinks : table[i] = s}

\* Mutant: the scan does not remember that it has inserted the sink.
RegisterEverywhere(s) ==
    LET upto == IF Entries(s) = {} THEN 1..MaxSinks
                ELSE {i \in 1..MaxSinks : \A j \in Entries(s) : i < j} IN
    /\ table' = [i \in 1..MaxSinks |->
                    IF table[i] = Free /\ i \in upto THEN s ELSE table[i]]
    /\ relisted' = IF Entries(s) = {} THEN relisted ELSE relisted \cup {s}

\* The scan takes the first free slot and looks on for the sink behind it: a
\* sink that is already listed further back gets a second entry.
Register(s) ==
    LET before == {i \in Entries(Free) : \A j \in Entries(s) : i < j} IN
    /\ table' = [i \in 1..MaxSinks |-> IF i \in First(before) THEN s ELSE table[i]]
    /\ relisted' = IF Entries(s) = {} THEN relisted ELSE relisted \cup {s}

Unregister(s) ==
    table' = [i \in 1..MaxSinks |-> IF i \in First(Entries(s)) THEN Free ELSE table[i]]

Fed(f)      == feed[f] # Idle
Calls(f, s) == Fed(f) /\ feed[f].sinks # <<>> /\ Head(feed[f].sinks) = s

\* The sinks are called from a copy of the table, after the unlock: slot[i] is
\* the slot of the i-th sink.
FeedBegin(f, chan, size) ==
    /\ ~Fed(f)
    /\ \E n \in 0..MaxSinks : \E slot \in [1..n -> 1..MaxSinks \ Entries(Free)] :
         /\ \A i, j \in 1..n : i < j => slot[i] < slot[j]
         /\ \A k \in 1..MaxSinks \ Entries(Free) : \E i \in 1..n : slot[i] = k
         /\ feed' = [feed EXCEPT ![f] =
                         [chan |-> chan, size |-> size, chunk |-> 0,
                          sinks |-> [i \in 1..n |-> table[slot[i]]]]]
    /\ UNCHANGED <<table, shellVars, shown, relisted>>

NextSink(f) == feed' = [feed EXCEPT ![f].sinks = Tail(@), ![f].chunk = 0]

CallOther(f) ==
    /\ \E s \in Others : Calls(f, s)
    /\ NextSink(f)
    /\ UNCHANGED <<table, shellVars, shown, relisted>>

FeedEnd(f) ==
    /\ Fed(f) /\ feed[f].sinks = <<>>
    /\ feed' = [feed EXCEPT ![f] = Idle]
    /\ UNCHANGED <<table, shellVars, shown, relisted>>

---------------------------------------------------------------------------
(* control_monitor_sink, run by the session task.                          *)

Wanted(f) == running /\ created /\ filter = feed[f].chan

SinkCheck(f) ==
    /\ Calls(f, Control) /\ feed[f].chunk = 0
    /\ IF Wanted(f) THEN feed' = [feed EXCEPT ![f].chunk = 1] ELSE NextSink(f)
    /\ UNCHANGED <<table, shellVars, shown, relisted>>

Sending(f) == Calls(f, Control) /\ feed[f].chunk > 0

\* Mutant: a chunk that finds the queue full is left out.
SinkDropsChunk(f) ==
    /\ Sending(f) /\ created /\ Len(queue) = Depth
    /\ IF feed[f].chunk = feed[f].size THEN NextSink(f)
       ELSE feed' = [feed EXCEPT ![f].chunk = @ + 1]
    /\ UNCHANGED <<table, shellVars, shown, relisted>>

\* Mutant: the sink waits for room.
SinkWaits(f) ==
    /\ Sending(f) /\ created /\ Len(queue) = Depth
    /\ UNCHANGED <<table, feed, shellVars, shown, relisted>>

SinkGivesUp(f) ==
    /\ Sending(f) /\ created /\ Len(queue) = Depth
    /\ NextSink(f)
    /\ UNCHANGED <<table, shellVars, shown, relisted>>

\* Mutant: the end of what is fed is looked for one chunk too late.
SinkSendOneMore(f) ==
    /\ Sending(f) /\ created /\ Len(queue) < Depth
    /\ queue' = Append(queue, [chan |-> feed[f].chan, by |-> f, chunk |-> feed[f].chunk])
    /\ IF feed[f].chunk > feed[f].size THEN NextSink(f)
       ELSE feed' = [feed EXCEPT ![f].chunk = @ + 1]
    /\ UNCHANGED <<table, filter, created, running, handle, listening, bound, task, caller,
                   shown, relisted>>

SinkSend(f) ==
    /\ Sending(f) /\ created /\ Len(queue) < Depth
    /\ queue' = Append(queue, [chan |-> feed[f].chan, by |-> f, chunk |-> feed[f].chunk])
    /\ IF feed[f].chunk = feed[f].size THEN NextSink(f)
       ELSE feed' = [feed EXCEPT ![f].chunk = @ + 1]
    /\ UNCHANGED <<table, filter, created, running, handle, listening, bound, task, caller,
                   shown, relisted>>

\* The checks were made before control_stop deleted the queue.
SinkFault(f) == Sending(f) /\ ~created

Feeding(f) ==
    \/ CallOther(f) \/ FeedEnd(f) \/ SinkCheck(f) \/ SinkGivesUp(f) \/ SinkSend(f)

---------------------------------------------------------------------------
(* control_task and serve_client.                                          *)

Reset == queue' = <<>> /\ shown' = [f \in Feeders |-> 0]

\* socket, bind or listen fail: the task ends and its handle stays.
BindFails ==
    /\ task = "bind"
    /\ task' = "none" /\ handle' = "stale" /\ running' = FALSE
    /\ UNCHANGED <<filter, queue, created, listening, bound, caller, shown>>

Bind ==
    /\ task = "bind" /\ ~bound
    /\ bound' = TRUE /\ task' = "publish"
    /\ UNCHANGED <<filter, queue, created, running, handle, listening, caller, shown>>

Publish ==
    /\ task = "publish"
    /\ listening' = TRUE /\ task' = "accept"
    /\ UNCHANGED <<filter, queue, created, running, handle, bound, caller, shown>>

Accept ==
    /\ task = "accept" /\ bound
    /\ task' = "flush"
    /\ UNCHANGED <<filter, queue, created, running, handle, listening, bound, caller, shown>>

\* The socket was closed under the task; with control_running it tries again.
AcceptFails ==
    /\ task = "accept" /\ ~bound /\ ~running
    /\ task' = "exit"
    /\ UNCHANGED <<filter, queue, created, running, handle, listening, bound, caller, shown>>

Show(next) ==
    IF queue = <<>> THEN task' = next /\ UNCHANGED <<queue, shown>>
    ELSE LET msg == Head(queue) IN
         /\ queue' = Tail(queue)
         /\ shown' = IF msg.chan = filter THEN [shown EXCEPT ![msg.by] = msg.chunk] ELSE shown
         /\ UNCHANGED task

Flush ==
    /\ task = "flush"
    /\ IF running THEN Show("recv") ELSE task' = "leave" /\ UNCHANGED <<queue, shown>>
    /\ UNCHANGED <<filter, created, running, handle, listening, bound, caller>>

\* recv has nothing, or a command that does not concern the monitor.
Poll ==
    /\ task = "recv"
    /\ task' = "flush"
    /\ UNCHANGED <<filter, queue, created, running, handle, listening, bound, caller, shown>>

MonitorOn(chan) ==
    /\ task = "recv" /\ filter = Nothing
    /\ filter' = chan /\ Reset /\ task' = "flush"
    /\ UNCHANGED <<created, running, handle, listening, bound, caller>>

MonitorOff ==
    /\ task = "recv"
    /\ filter' = Nothing /\ Reset /\ task' = "flush"
    /\ UNCHANGED <<created, running, handle, listening, bound, caller>>

Hangup ==
    /\ task \in {"flush", "recv"}
    /\ task' = "gone"
    /\ UNCHANGED <<filter, queue, created, running, handle, listening, bound, caller, shown>>

\* Mutant: an end of the connection is tried again.
GoneAgain ==
    /\ task = "gone"
    /\ IF running THEN Show("gone") ELSE task' = "leave" /\ UNCHANGED <<queue, shown>>
    /\ UNCHANGED <<filter, created, running, handle, listening, bound, caller>>

\* quit, or the client that hung up is noticed.
GoneFlush ==
    /\ task = "gone"
    /\ IF running THEN Show("leave") ELSE task' = "leave" /\ UNCHANGED <<queue, shown>>
    /\ UNCHANGED <<filter, created, running, handle, listening, bound, caller>>

\* Mutant: the filter outlives its operator.
LeaveFilter ==
    /\ task = "leave"
    /\ IF queue = <<>>
       THEN task' = "close" /\ Reset
       ELSE Show("leave")
    /\ UNCHANGED <<filter, created, running, handle, listening, bound, caller>>

\* The last flush, and the end of the monitor.
Leave ==
    /\ task = "leave"
    /\ IF queue = <<>>
       THEN task' = "close" /\ filter' = Nothing /\ Reset
       ELSE Show("leave") /\ UNCHANGED filter
    /\ UNCHANGED <<created, running, handle, listening, bound, caller>>

CloseClient ==
    /\ task = "close"
    /\ task' = IF running THEN "accept" ELSE "exit"
    /\ UNCHANGED <<filter, queue, created, running, handle, listening, bound, caller, shown>>

Exit ==
    /\ task = "exit"
    /\ task' = "none" /\ handle' = "none" /\ running' = FALSE
    /\ listening' = FALSE /\ bound' = FALSE
    /\ UNCHANGED <<filter, queue, created, caller, shown>>

Serves ==
    \/ BindFails \/ Bind \/ Publish \/ AcceptFails \/ Flush \/ GoneFlush
    \/ Leave \/ CloseClient \/ Exit

ControlTask ==
    \/ Serves \/ Accept \/ Poll \/ MonitorOff \/ Hangup
    \/ \E chan \in Channels : MonitorOn(chan)

---------------------------------------------------------------------------
(* control_start and control_stop, called by the runtime.                  *)

StartQueue ==
    /\ caller = "idle" /\ ~running
    /\ filter' = Nothing /\ queue' = <<>> /\ created' = TRUE /\ shown' = [f \in Feeders |-> 0]
    /\ caller' = "register"
    /\ UNCHANGED <<table, running, handle, listening, bound, task, relisted, orphan>>

StartRegister ==
    /\ caller = "register"
    /\ Register(Control)
    /\ running' = TRUE /\ caller' = "launch"
    /\ UNCHANGED <<filter, queue, created, handle, listening, bound, task, shown, orphan>>

StartTask ==
    /\ caller = "launch"
    /\ handle' = "task" /\ task' = "bind" /\ caller' = "idle"
    /\ UNCHANGED <<table, filter, queue, created, running, listening, bound, shown, relisted, orphan>>

StartFails ==
    /\ caller = "launch"
    /\ running' = FALSE /\ handle' = "none" /\ caller' = "idle"
    /\ Unregister(Control)
    /\ UNCHANGED <<filter, queue, created, listening, bound, task, shown, relisted,
                   orphan>>

StopBegin ==
    /\ caller = "idle" /\ handle # "none"
    /\ running' = FALSE /\ caller' = "socket"
    /\ UNCHANGED <<table, filter, queue, created, handle, listening, bound, task, shown, relisted,
                   orphan>>

Unpublished == task \in {"bind", "publish"} \/ (orphan /\ ~listening)

\* Mutant: the descriptor is forgotten, not closed.
StopForgets ==
    /\ caller = "socket"
    /\ listening' = FALSE
    /\ orphan' = Unpublished
    /\ caller' = "kill"
    /\ UNCHANGED <<table, filter, queue, created, running, handle, bound, task, shown, relisted>>

StopSocket ==
    /\ caller = "socket"
    /\ bound' = (bound /\ ~listening) /\ listening' = FALSE
    /\ orphan' = Unpublished
    /\ caller' = "kill"
    /\ UNCHANGED <<table, filter, queue, created, running, handle, task, shown, relisted>>

\* The task is deleted wherever it is; its client's socket is not closed.
StopTask ==
    /\ caller = "kill" /\ handle # "stale"
    /\ task' = "none" /\ handle' = "none"
    /\ caller' = "queue"
    /\ UNCHANGED <<table, filter, queue, created, running, listening, bound, shown, relisted,
                   orphan>>

\* The handle of a task that ended when it could not bind.
StopFault == caller = "kill" /\ handle = "stale"

StopQueue ==
    /\ caller = "queue"
    /\ filter' = Nothing /\ queue' = <<>> /\ created' = FALSE /\ shown' = [f \in Feeders |-> 0]
    /\ caller' = "unregister"
    /\ UNCHANGED <<table, running, handle, listening, bound, task, relisted, orphan>>

StopUnregister ==
    /\ caller = "unregister"
    /\ Unregister(Control)
    /\ caller' = "idle"
    /\ UNCHANGED <<filter, queue, created, running, handle, listening, bound, task, shown, relisted,
                   orphan>>

Other(s) ==
    /\ Register(s) \/ (Unregister(s) /\ UNCHANGED relisted)
    /\ UNCHANGED <<shellVars, shown, orphan>>

Application ==
    /\ UNCHANGED feed
    /\ \/ StartQueue \/ StartRegister \/ StartTask \/ StartFails
       \/ StopBegin \/ StopSocket \/ StopTask \/ StopQueue \/ StopUnregister
       \/ \E s \in Others : Other(s)

SessionTask(f) == Feeding(f) \/ \E chan \in Channels, n \in Sizes : FeedBegin(f, chan, n)

Halts ==
    /\ halted' = TRUE
    /\ UNCHANGED <<table, feed, shellVars, shown, relisted, orphan>>

Next ==
    /\ ~halted
    /\ \/ Application /\ UNCHANGED halted
       \/ ControlTask /\ UNCHANGED <<table, feed, halted, relisted, orphan>>
       \/ \E f \in Feeders : SessionTask(f) /\ UNCHANGED <<halted, orphan>>
       \/ (StopFault \/ \E f \in Feeders : SinkFault(f)) /\ Halts

\* The tasks are scheduled; operators, session data and the application's
\* decisions owe nothing.
FeederGoes(f) == /\ ~halted
                 /\ \/ Feeding(f) /\ UNCHANGED <<halted, orphan>>
                    \/ SinkFault(f) /\ Halts
TaskGoes == ~halted /\ Serves /\ UNCHANGED <<table, feed, halted, relisted, orphan>>

Fairness == (\A f \in Feeders : WF_vars(FeederGoes(f))) /\ WF_vars(TaskGoes)

Spec == Init /\ [][Next]_vars /\ Fairness

---------------------------------------------------------------------------
(* Properties.                                                             *)

\* Something is monitored only while the operator who asked for it is served:
\* the end of the connection, the stop of the shell and its next start all end
\* it, and no operator gets the stream another one asked for (serve_client,
\* ser2net_control_start, ser2net_control_stop).
MonitorHasOperator ==
    filter # Nothing =>
        task \in {"flush", "recv", "gone", "leave"} \/ caller = "queue"

\* A chunk after another one of its feeder, 0 if there is none to come after.
Follows(chunk, last) == last # 0 => chunk \in {last + 1, 1}
Own(f) == {i \in DOMAIN queue : queue[i].by = f}

\* What an operator misses of a read is its end, never its middle: the chunks of
\* a feeder are shown and queued in their order without a gap, whatever other
\* session, `monitor' command or full queue came in between; after a reset the
\* stream may begin inside a read (control_monitor_sink, flush_monitor_queue).
OnlyTailsAreLost ==
    \A f \in Feeders :
        /\ \A j \in First(Own(f)) : Follows(queue[j].chunk, shown[f])
        /\ \A i, j \in Own(f) :
             i < j /\ (\A k \in Own(f) : k <= i \/ k >= j) =>
                 Follows(queue[j].chunk, queue[i].chunk)

\* A sink that no one registered twice has one entry and is called once for
\* what is fed, however the other entries came and went.
CalledOnce ==
    \A s \in Sinks \ relisted :
        /\ Cardinality(Entries(s)) <= 1
        /\ \A f \in Feeders : Cardinality({i \in DOMAIN feed[f].sinks : feed[f].sinks[i] = s}) <= 1

\* After ser2net_control_stop the shell's port can be bound again, whatever the
\* task was doing when it was deleted, unless the stop came before it had stored
\* its socket in control_listen_fd.
StopReleasesPort ==
    caller = "idle" /\ task = "none" /\ ~orphan => ~bound /\ ~listening

\* Monitoring never holds up a session: what it feeds is queued or dropped,
\* with or without an operator to take it (ser2net_monitor_feed).
FeedEnds == \A f \in Feeders : Fed(f) ~> (~Fed(f) \/ halted)

\* An operator who hangs up frees the shell for the next one, unless sessions
\* feed the queue faster than the task empties it (serve_client flushes until
\* it is empty before it looks at the socket), or the shell is being stopped.
ShellFreed == (task = "gone" ~> (task # "gone" \/ halted)) \/ []<>(queue # <<>>)
=============================================================================
