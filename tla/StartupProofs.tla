---------------------------- MODULE StartupProofs ----------------------------
(***************************************************************************)
(* Theorems about Startup for every number of slots, items, sessions and   *)
(* tasks: whatever is loaded, started, stopped and started again, and      *)
(* whichever step fails, what the listener task uses is there while it     *)
(* runs, the listeners are those of the configuration, and nothing that is *)
(* not accounted for as a failure is lost.                                 *)
(***************************************************************************)
EXTENDS Startup, TLAPS

\* The bounded sequences of the community modules are sequences with a bound.
LEMMA BoundedSeqIs ==
    ASSUME NEW S, NEW n \in Nat
    PROVE  BoundedSeq(S, n) = {s \in Seq(S) : Len(s) <= n}
  <1>1. ASSUME NEW s \in BoundedSeq(S, n) PROVE s \in Seq(S) /\ Len(s) <= n
    BY DEF BoundedSeq, SeqOf
  <1>2. ASSUME NEW s \in Seq(S), Len(s) <= n PROVE s \in BoundedSeq(S, n)
    <2>1. Len(s) \in 0..n /\ s \in [1..Len(s) -> S]
      BY <1>2
    <2> QED BY <2>1 DEF BoundedSeq, SeqOf
  <1> QED BY <1>1, <1>2

Wanted  == [tcp : TcpPorts, slot : Slots]
Entries == [tcp : TcpPorts, slot : Slots, enabled : BOOLEAN]

\* The configurations as records of a sequence.
LEMMA ConfigsAre ==
    /\ NoConfig \in Configs
    /\ \A c \in Configs : /\ c.items \in Seq(Items)
                          /\ c.control \in {"absent", "given", "invalid"}
  <1>1. MaxItems \in Nat
    BY StartupAssumption
  <1>2. Configs = [items : {s \in Seq(Items) : Len(s) <= MaxItems},
                   control : {"absent", "given", "invalid"}]
    BY <1>1, BoundedSeqIs DEF Configs
  <1>3. <<>> \in Seq(Items) /\ Len(<<>>) <= MaxItems
    BY <1>1
  <1> QED BY <1>2, <1>3 DEF NoConfig

\* What is loaded of a configuration: its items up to the number of slots.
LEMMA LoadedIs ==
    ASSUME NEW c \in Configs
    PROVE  /\ Loaded(c) \in Seq(Items)
           /\ Len(Loaded(c)) <= MaxPorts
           /\ Len(Loaded(c)) <= Len(c.items)
           /\ \A i \in 1..Len(Loaded(c)) : Loaded(c)[i] = c.items[i]
  <1> DEFINE n == IF Len(c.items) < MaxPorts THEN Len(c.items) ELSE MaxPorts
  <1>1. c.items \in Seq(Items) /\ MaxPorts \in Nat
    BY ConfigsAre, StartupAssumption
  <1>2. n \in 0..Len(c.items) /\ n <= MaxPorts
    BY <1>1
  <1>3. Loaded(c) = SubSeq(c.items, 1, n)
    BY DEF Loaded
  <1> HIDE DEF n
  <1> QED BY <1>1, <1>2, <1>3

---------------------------------------------------------------------------
(* The inductive invariant.                                                *)

\* The types, with the bounded sequences spelled out.
Typed ==
    /\ pool \in [Slots -> [used : BOOLEAN, tcp : TcpPorts \cup {0}, fd : BOOLEAN]]
    /\ config \in Configs
    /\ wanted \in Seq(Wanted) /\ Len(wanted) <= MaxPorts
    /\ \A i, j \in DOMAIN wanted : wanted[i].slot = wanted[j].slot => i = j
    /\ entries \in Seq(Entries) /\ Len(entries) <= MaxPorts
    /\ phase \in {"unloaded", "slots", "loaded", "open", "queue", "listener", "workers",
                  "running", "failed", "stopListener", "stopQueue", "release"}
    /\ shell \in BOOLEAN /\ queue \in BOOLEAN /\ listener \in BOOLEAN /\ halted \in BOOLEAN
    /\ worker \in [Workers -> {"none", "receive", "busy", "stuck"}]
    /\ failures \subseteq {"load", "open"}

\* The listeners of a configuration hold a slot each, of its own port.
WantedHeld ==
    /\ \A i \in DOMAIN wanted :
         /\ pool[wanted[i].slot].used
         /\ pool[wanted[i].slot].tcp = wanted[i].tcp
         /\ wanted[i].tcp = config.items[i].tcp

\* They are the items in order, all of them once the load is done.
WantedFollows ==
    /\ Len(wanted) <= Len(Loaded(config))
    /\ phase \notin {"unloaded", "slots"} => Len(wanted) = Len(Loaded(config))

\* Entries are made of them in order, and their sockets are open.
EntriesFollow ==
    /\ Len(entries) <= Len(wanted)
    /\ \A i \in DOMAIN entries :
         /\ entries[i].slot = wanted[i].slot /\ entries[i].tcp = wanted[i].tcp
         /\ pool[entries[i].slot].fd
         /\ config.control # "absent" => entries[i].enabled = config.items[i].on

\* No other socket is open, and without a failure no other slot is in use.
NothingElse ==
    /\ \A s \in Slots : pool[s].fd => \E i \in DOMAIN entries : entries[i].slot = s
    /\ failures = {} =>
         \A s \in Slots : pool[s].used => \E i \in DOMAIN wanted : wanted[i].slot = s
    /\ phase = "unloaded" => wanted = <<>>
    /\ phase \in {"unloaded", "slots", "loaded"} => entries = <<>>
    /\ phase \in {"queue", "listener", "workers", "running"} => Len(entries) = Len(wanted)
    /\ phase \in {"failed", "stopListener", "stopQueue", "release"} /\ failures = {} =>
         Len(entries) = Len(wanted)

\* What runs, and since when.
Running ==
    /\ listener => queue /\ phase \in {"workers", "running", "failed", "stopListener"}
    /\ phase = "listener" => queue
    /\ shell => /\ entries # <<>>
                /\ phase \in {"queue", "listener", "workers", "running", "failed"}

IInv ==
    /\ Typed
    /\ WantedHeld /\ WantedFollows
    /\ EntriesFollow /\ NothingElse
    /\ Running

---------------------------------------------------------------------------
(* The type invariant.                                                     *)

\* They are the types of the specification.
LEMMA TypeIs == TypeOK <=> Typed
  <1>1. MaxPorts \in Nat
    BY StartupAssumption
  <1>2. /\ BoundedSeq(Wanted, MaxPorts) = {s \in Seq(Wanted) : Len(s) <= MaxPorts}
        /\ BoundedSeq(Entries, MaxPorts) = {s \in Seq(Entries) : Len(s) <= MaxPorts}
    BY <1>1, BoundedSeqIs
  <1> QED BY <1>2 DEF TypeOK, Typed, Wanted, Entries

\* The elements of the two sequences are the records they are made of.
LEMMA Elements ==
    ASSUME Typed
    PROVE  /\ \A i \in 1..Len(wanted) : wanted[i].slot \in Slots
           /\ \A i \in 1..Len(entries) : entries[i].slot \in Slots
  <1>1. /\ \A i \in 1..Len(wanted) : wanted[i] \in Wanted
        /\ \A i \in 1..Len(entries) : entries[i] \in Entries
    BY DEF Typed
  <1>2. (\A r \in Wanted : r.slot \in Slots) /\ (\A r \in Entries : r.slot \in Slots)
    BY DEF Wanted, Entries
  <1> QED BY <1>1, <1>2

\* The slots after one was taken, and the listener it is for.
LEMMA SlotTaken ==
    ASSUME IInv, TakeSlot
    PROVE  \E s \in Slots :
             LET n == Len(wanted) + 1 IN
             /\ ~pool[s].used
             /\ n \in DOMAIN config.items /\ n <= MaxPorts /\ n <= Len(Loaded(config))
             /\ config.items[n] \in Items
             /\ pool' = [pool EXCEPT ![s] = [used |-> TRUE, tcp |-> config.items[n].tcp,
                                             fd |-> FALSE]]
             /\ wanted' = Append(wanted, [tcp |-> config.items[n].tcp, slot |-> s])
  <1>1. PICK s \in Slots :
          /\ ~pool[s].used
          /\ LET tcp == config.items[Len(wanted) + 1].tcp IN
             /\ pool' = [pool EXCEPT ![s] = [used |-> TRUE, tcp |-> tcp, fd |-> FALSE]]
             /\ wanted' = Append(wanted, [tcp |-> tcp, slot |-> s])
    BY DEF TakeSlot, First
  <1>2. config \in Configs /\ wanted \in Seq(Wanted)
    BY DEF IInv, Typed
  <1>3. Len(wanted) + 1 <= Len(Loaded(config))
    BY <1>2, LoadedIs DEF TakeSlot
  <1>4. Len(wanted) + 1 \in 1..Len(config.items) /\ Len(wanted) + 1 <= MaxPorts
    BY <1>2, <1>3, LoadedIs, ConfigsAre, StartupAssumption
  <1>5. Len(wanted) + 1 \in DOMAIN config.items /\ config.items[Len(wanted) + 1] \in Items
    BY <1>2, <1>4, ConfigsAre
  <1> WITNESS s \in Slots
  <1> QED BY <1>1, <1>3, <1>4, <1>5

\* Each step keeps every variable typed.
LEMMA TypeNext == IInv /\ [Next]_vars => Typed'
  <1> SUFFICES ASSUME IInv, [Next]_vars PROVE Typed'
    OBVIOUS
  <1>0. Typed
    BY DEF IInv
  <1>e. /\ <<>> \in Seq(Wanted) /\ <<>> \in Seq(Entries)
        /\ Len(<<>>) <= MaxPorts /\ DOMAIN <<>> = {}
    BY StartupAssumption
  <1> USE <1>0 DEF Typed, tasks
  <1>1. ASSUME NEW c \in Configs, Parse(c), UNCHANGED halted PROVE Typed'
    BY <1>1, <1>e DEF Parse
  <1>2. CASE TakeSlot /\ UNCHANGED halted
    <2>1. PICK s \in Slots :
            LET n == Len(wanted) + 1 IN
            /\ ~pool[s].used /\ n <= MaxPorts /\ config.items[n] \in Items
            /\ pool' = [pool EXCEPT ![s] = [used |-> TRUE, tcp |-> config.items[n].tcp,
                                            fd |-> FALSE]]
            /\ wanted' = Append(wanted, [tcp |-> config.items[n].tcp, slot |-> s])
      BY <1>2, SlotTaken
    <2>2. \A i \in DOMAIN wanted : wanted[i].slot # s
      BY <2>1 DEF IInv, WantedHeld
    <2>3. config.items[Len(wanted) + 1].tcp \in TcpPorts
      BY <2>1 DEF Items
    <2>4. /\ pool' \in [Slots -> [used : BOOLEAN, tcp : TcpPorts \cup {0}, fd : BOOLEAN]]
          /\ wanted' \in Seq(Wanted) /\ Len(wanted') <= MaxPorts
      BY <2>1, <2>3 DEF Wanted
    <2>5. \A i, j \in DOMAIN wanted' : wanted'[i].slot = wanted'[j].slot => i = j
      BY <2>1, <2>2
    <2> QED BY <1>2, <2>4, <2>5 DEF TakeSlot
  <1>3. CASE (NoSlot \/ ControlInvalid) /\ UNCHANGED halted
    BY <1>3, <1>e, ConfigsAre DEF NoSlot, ControlInvalid, LoadFails
  <1>4. CASE (LoadControl \/ StartBegin \/ StartMemory \/ OpenFails) /\ UNCHANGED halted
    BY <1>4, <1>e DEF LoadControl, StartBegin, StartMemory, OpenFails
  <1>5. CASE OpenListener /\ UNCHANGED halted
    <2> DEFINE n == Len(entries) + 1
    <2>1. n \in DOMAIN wanted /\ n <= MaxPorts /\ wanted[n] \in Wanted
      BY <1>5, StartupAssumption DEF OpenListener
    <2>2. Enabled(wanted[n].tcp) \in BOOLEAN
      BY DEF Enabled
    <2>3. [tcp |-> wanted[n].tcp, slot |-> wanted[n].slot,
           enabled |-> Enabled(wanted[n].tcp)] \in Entries
      BY <2>1, <2>2 DEF Wanted, Entries
    <2>4. entries' \in Seq(Entries) /\ Len(entries') <= MaxPorts
      BY <1>5, <2>1, <2>3 DEF OpenListener
    <2>5. pool' \in [Slots -> [used : BOOLEAN, tcp : TcpPorts \cup {0}, fd : BOOLEAN]]
      <3>1. wanted[n].slot \in Slots
        BY <2>1 DEF Wanted
      <3>2. pool' = [pool EXCEPT ![wanted[n].slot].fd = TRUE]
        BY <1>5 DEF OpenListener
      <3> DEFINE k == wanted[n].slot
      <3>3. pool[k] \in [used : BOOLEAN, tcp : TcpPorts \cup {0}, fd : BOOLEAN]
        BY <3>1
      <3>4. [pool[k] EXCEPT !.fd = TRUE] \in [used : BOOLEAN, tcp : TcpPorts \cup {0}, fd : BOOLEAN]
        BY <3>3
      <3>5. pool' = [pool EXCEPT ![k] = [pool[k] EXCEPT !.fd = TRUE]]
        BY <3>1, <3>2
      <3> HIDE DEF k
      <3> QED BY <3>1, <3>4, <3>5
    <2> QED BY <1>5, <2>4, <2>5 DEF OpenListener
  <1>6. CASE (StartShell \/ StartQueue \/ StartFails \/ StartListener) /\ UNCHANGED halted
    BY <1>6 DEF StartShell, StartQueue, StartFails, StartListener
  <1>7. CASE (WorkersFail \/ StartWorkers) /\ UNCHANGED halted
    BY <1>7 DEF WorkersFail, StartWorkers, Create
  <1>8. CASE (Stop \/ StopListener \/ StopQueue) /\ UNCHANGED halted
    BY <1>8 DEF Stop, StopListener, StopQueue
  <1>9. CASE Release /\ UNCHANGED halted
    <2>1. FreeSlot \in [used : BOOLEAN, tcp : TcpPorts \cup {0}, fd : BOOLEAN]
      BY DEF FreeSlot
    <2> QED BY <1>9, <1>e, <2>1, ConfigsAre DEF Release
  <1>10. ASSUME NEW w \in Workers, ((TakeJob(w) \/ EndJob(w)) /\ UNCHANGED halted) \/ EndJobFault(w)
         PROVE  Typed'
    BY <1>10 DEF TakeJob, EndJob, EndJobFault
  <1>11. CASE UNCHANGED vars
    BY <1>11 DEF vars
  <1> QED BY <1>1, <1>2, <1>3, <1>4, <1>5, <1>6, <1>7, <1>8, <1>9, <1>10, <1>11
          DEF Next, Application

---------------------------------------------------------------------------
(* The rest of the invariant.                                              *)

Rest == WantedHeld /\ WantedFollows /\ EntriesFollow /\ NothingElse /\ Running

\* With no listener wanted and none open the invariant says little: what is
\* left is that no socket is open and that slots are lost to failures only.
LEMMA NoListeners ==
    ASSUME Typed', wanted' = <<>>, entries' = <<>>, phase' \in {"unloaded", "slots"},
           shell' = FALSE, listener' = FALSE,
           \A s \in Slots : ~pool'[s].fd,
           failures' = {} => \A s \in Slots : ~pool'[s].used
    PROVE  Rest'
  <1>1. Loaded(config)' \in Seq(Items)
    BY LoadedIs DEF Typed, Loaded
  <1>2. Len(<<>>) = 0 /\ DOMAIN <<>> = {} /\ Len(Loaded(config)') \in Nat
    BY <1>1
  <1>3. WantedHeld' /\ WantedFollows' /\ EntriesFollow'
    BY <1>2 DEF WantedHeld, WantedFollows, EntriesFollow
  <1>4. NothingElse' /\ Running'
    BY <1>2 DEF NothingElse, Running
  <1> QED BY <1>3, <1>4 DEF Rest

\* A configuration begins with a service that is down.
LEMMA RestParse ==
    ASSUME IInv, Typed', NEW c \in Configs, Parse(c)
    PROVE  Rest'
  <1>1. wanted = <<>> /\ entries = <<>>
    BY DEF IInv, NothingElse, Parse
  <1>2. shell = FALSE /\ listener = FALSE
    BY DEF IInv, Typed, Running, Parse
  <1>3. /\ \A s \in Slots : ~pool[s].fd
        /\ failures = {} => \A s \in Slots : ~pool[s].used
    BY <1>1 DEF IInv, NothingElse
  <1>4. /\ wanted' = <<>> /\ entries' = <<>> /\ phase' = "slots"
        /\ shell' = FALSE /\ listener' = FALSE /\ pool' = pool /\ failures' = failures
    BY <1>1, <1>2 DEF Parse, tasks
  <1> QED BY <1>3, <1>4, NoListeners

\* A load that fails loses the slots it took, and says so.
LEMMA RestLoadFails ==
    ASSUME IInv, Typed', LoadFails, phase = "slots"
    PROVE  Rest'
  <1>1. entries = <<>> /\ shell = FALSE /\ listener = FALSE
    BY DEF IInv, Typed, NothingElse, Running
  <1>2. \A s \in Slots : ~pool[s].fd
    BY <1>1 DEF IInv, NothingElse
  <1>3. failures' = {} => wanted = <<>> /\ failures = {}
    BY DEF LoadFails
  <1>4. wanted = <<>> /\ failures = {} => \A s \in Slots : ~pool[s].used
    BY DEF IInv, NothingElse
  <1>5. /\ wanted' = <<>> /\ entries' = <<>> /\ phase' = "unloaded"
        /\ shell' = FALSE /\ listener' = FALSE /\ pool' = pool
    BY <1>1 DEF LoadFails, tasks
  <1> QED BY <1>2, <1>3, <1>4, <1>5, NoListeners

\* A stop gives back the slots of the entries, which are all there were, but
\* for those a failed step lost.
LEMMA RestRelease ==
    ASSUME IInv, Typed', Release
    PROVE  Rest'
  <1>1. shell = FALSE /\ listener = FALSE
    BY DEF IInv, Typed, Running, Release
  <1>2. ASSUME NEW s \in Slots PROVE ~pool'[s].fd
    <2>1. CASE \E i \in DOMAIN entries : entries[i].slot = s
      BY <2>1 DEF Release, FreeSlot
    <2>2. CASE ~\E i \in DOMAIN entries : entries[i].slot = s
      BY <2>2 DEF Release, IInv, NothingElse
    <2> QED BY <2>1, <2>2
  <1>3. ASSUME failures' = {}, NEW s \in Slots PROVE ~pool'[s].used
    <2>1. failures = {} /\ Len(entries) = Len(wanted)
      BY <1>3 DEF Release, IInv, NothingElse
    <2>2. CASE \E i \in DOMAIN entries : entries[i].slot = s
      BY <2>2 DEF Release, FreeSlot
    <2>3. CASE ~\E i \in DOMAIN entries : entries[i].slot = s
      <3>1. DOMAIN entries = DOMAIN wanted
        BY <2>1 DEF IInv, Typed
      <3>2. ~\E i \in DOMAIN wanted : wanted[i].slot = s
        BY <2>3, <3>1 DEF IInv, EntriesFollow
      <3>3. ~pool[s].used
        BY <2>1, <3>2 DEF IInv, NothingElse
      <3> QED BY <2>3, <3>3 DEF Release
    <2> QED BY <2>2, <2>3
  <1>4. /\ wanted' = <<>> /\ entries' = <<>> /\ phase' = "unloaded"
        /\ shell' = FALSE /\ listener' = FALSE
    BY <1>1 DEF Release, tasks
  <1> QED BY <1>2, <1>3, <1>4, NoListeners

\* The slot that is taken belongs to the next item, and to no other.
LEMMA RestTakeSlot ==
    ASSUME IInv, Typed', TakeSlot
    PROVE  Rest'
  <1> DEFINE n == Len(wanted) + 1
  <1>1. PICK s \in Slots :
          /\ ~pool[s].used
          /\ n \in DOMAIN config.items /\ n <= Len(Loaded(config))
          /\ pool' = [pool EXCEPT ![s] = [used |-> TRUE, tcp |-> config.items[n].tcp,
                                          fd |-> FALSE]]
          /\ wanted' = Append(wanted, [tcp |-> config.items[n].tcp, slot |-> s])
    BY SlotTaken
  <1>2. /\ config' = config /\ phase' = phase /\ phase = "slots" /\ entries' = entries
        /\ shell' = shell /\ queue' = queue /\ listener' = listener /\ failures' = failures
    BY DEF TakeSlot, tasks
  <1>3. /\ wanted \in Seq(Wanted) /\ DOMAIN wanted = 1..Len(wanted) /\ Len(wanted) \in Nat
        /\ pool \in [Slots -> [used : BOOLEAN, tcp : TcpPorts \cup {0}, fd : BOOLEAN]]
        /\ entries = <<>>
    BY <1>2 DEF IInv, Typed, NothingElse
  <1>4. /\ Len(wanted') = n /\ DOMAIN wanted' = 1..n
        /\ wanted'[n] = [tcp |-> config.items[n].tcp, slot |-> s]
        /\ \A i \in 1..Len(wanted) : wanted'[i] = wanted[i]
    BY <1>1, <1>3
  <1>5. /\ pool'[s].used /\ pool'[s].tcp = config.items[n].tcp /\ ~pool'[s].fd
        /\ \A t \in Slots \ {s} : pool'[t] = pool[t]
    BY <1>1, <1>3
  <1>6. \A i \in 1..Len(wanted) : wanted[i].slot \in Slots /\ wanted[i].slot # s
    BY <1>1, <1>3, Elements DEF IInv, WantedHeld
  <1> HIDE DEF n
  <1>7. WantedHeld'
    <2> SUFFICES ASSUME NEW i \in 1..n
                 PROVE  /\ pool'[wanted'[i].slot].used
                        /\ pool'[wanted'[i].slot].tcp = wanted'[i].tcp
                        /\ wanted'[i].tcp = config'.items[i].tcp
      BY <1>4 DEF WantedHeld
    <2>1. CASE i = n
      BY <2>1, <1>2, <1>4, <1>5
    <2>2. CASE i \in 1..Len(wanted)
      <3>1. wanted'[i] = wanted[i] /\ pool'[wanted[i].slot] = pool[wanted[i].slot]
        BY <2>2, <1>4, <1>5, <1>6
      <3> QED BY <2>2, <3>1, <1>2, <1>3 DEF IInv, WantedHeld
    <2> QED BY <2>1, <2>2, <1>3 DEF n
  <1>8. WantedFollows'
    BY <1>1, <1>2, <1>4 DEF WantedFollows
  <1>9. EntriesFollow'
    BY <1>2, <1>3, <1>4 DEF EntriesFollow, n
  <1>10. NothingElse'
    <2>1. \A t \in Slots : ~pool'[t].fd
      BY <1>3, <1>5 DEF IInv, NothingElse
    <2>2. ASSUME failures' = {}, NEW t \in Slots, pool'[t].used
          PROVE  \E i \in 1..n : wanted'[i].slot = t
      <3>1. CASE t = s
        BY <3>1, <1>3, <1>4 DEF n
      <3>2. CASE t # s
        <4>1. pool[t].used /\ failures = {}
          BY <2>2, <3>2, <1>2, <1>5
        <4>2. PICK i \in 1..Len(wanted) : wanted[i].slot = t
          BY <4>1, <1>3 DEF IInv, NothingElse
        <4> QED BY <4>2, <1>3, <1>4 DEF n
      <3> QED BY <3>1, <3>2
    <2> QED BY <2>1, <2>2, <1>2, <1>3, <1>4 DEF NothingElse
  <1>11. Running'
    BY <1>2 DEF Running, IInv
  <1> QED BY <1>7, <1>8, <1>9, <1>10, <1>11 DEF Rest

\* The port table is the configuration's, so the first entry with the port of
\* an item is the item itself unless an earlier one has that port.
LEMMA EnabledIs ==
    ASSUME NEW c \in Configs, config = c, config.control # "absent",
           NEW n \in 1..Len(Loaded(c)),
           \A i \in 1..n - 1 : c.items[i].tcp # c.items[n].tcp
    PROVE  Enabled(c.items[n].tcp) = c.items[n].on
  <1>1. /\ PortTable \in Seq(Items) /\ DOMAIN PortTable = 1..Len(Loaded(c))
        /\ \A i \in DOMAIN PortTable : PortTable[i] = c.items[i]
    BY LoadedIs DEF PortTable
  <1>2. n \in DOMAIN PortTable /\ Len(Loaded(c)) \in Nat
    BY <1>1, LoadedIs
  <1>3. First({j \in DOMAIN PortTable : PortTable[j].tcp = c.items[n].tcp}) = {n}
    BY <1>1, <1>2 DEF First
  <1>4. c.items[n].on \in BOOLEAN
    <2>1. c.items[n] \in Items
      BY <1>1, <1>2
    <2> QED BY <2>1 DEF Items
  <1> QED BY <1>1, <1>2, <1>3, <1>4 DEF Enabled

\* A listener opens on the slot of its own item; one that is open already keeps
\* a second one from its port.
LEMMA RestOpenListener ==
    ASSUME IInv, Typed', OpenListener
    PROVE  Rest'
  <1> DEFINE n == Len(entries) + 1
             k == wanted[n].slot
  <1>1. /\ n <= Len(wanted) /\ ~Listening(wanted[n].tcp)
        /\ pool' = [pool EXCEPT ![k].fd = TRUE]
        /\ entries' = Append(entries, [tcp |-> wanted[n].tcp, slot |-> k,
                                       enabled |-> Enabled(wanted[n].tcp)])
        /\ config' = config /\ wanted' = wanted /\ phase' = phase /\ phase = "open"
        /\ shell' = shell /\ queue' = queue /\ listener' = listener /\ failures' = failures
    BY DEF OpenListener, tasks
  <1>2. /\ wanted \in Seq(Wanted) /\ entries \in Seq(Entries)
        /\ DOMAIN wanted = 1..Len(wanted) /\ DOMAIN entries = 1..Len(entries)
        /\ Len(wanted) \in Nat /\ Len(entries) \in Nat
        /\ pool \in [Slots -> [used : BOOLEAN, tcp : TcpPorts \cup {0}, fd : BOOLEAN]]
        /\ config \in Configs
    BY DEF IInv, Typed
  <1>3. n \in DOMAIN wanted /\ k \in Slots
    BY <1>1, <1>2, Elements DEF IInv
  <1>4. /\ Len(entries') = n /\ DOMAIN entries' = 1..n
        /\ entries'[n] = [tcp |-> wanted[n].tcp, slot |-> k, enabled |-> Enabled(wanted[n].tcp)]
        /\ \A i \in 1..Len(entries) : entries'[i] = entries[i]
    BY <1>1, <1>2
  <1>5. /\ pool'[k].fd
        /\ \A s \in Slots : /\ pool'[s].used = pool[s].used /\ pool'[s].tcp = pool[s].tcp
                            /\ pool[s].fd => pool'[s].fd
                            /\ s # k => pool'[s] = pool[s]
    BY <1>1, <1>2, <1>3
  <1>6. \A i \in 1..Len(wanted) : wanted[i].slot \in Slots
    BY Elements DEF IInv
  <1>7. Len(wanted) = Len(Loaded(config)) /\ wanted[n].tcp = config.items[n].tcp
    BY <1>1, <1>3 DEF IInv, WantedHeld, WantedFollows
  <1>8. config.control # "absent" => Enabled(wanted[n].tcp) = config.items[n].on
    <2>1. ASSUME NEW i \in 1..n - 1 PROVE config.items[i].tcp # config.items[n].tcp
      <3>1. i \in DOMAIN entries /\ i \in DOMAIN wanted
        BY <1>1, <1>2
      <3>2. pool[wanted[i].slot].fd /\ pool[wanted[i].slot].tcp = config.items[i].tcp
        BY <3>1 DEF IInv, EntriesFollow, WantedHeld
      <3> QED BY <3>1, <3>2, <1>1, <1>2, <1>6, <1>7 DEF Listening
    <2>2. n \in 1..Len(Loaded(config))
      BY <1>1, <1>2, <1>7
    <2> HIDE DEF n
    <2> QED BY <2>1, <2>2, <1>2, <1>7, EnabledIs
  <1> HIDE DEF n, k
  <1>9. WantedHeld'
    BY <1>1, <1>2, <1>5, <1>6 DEF WantedHeld, IInv
  <1>10. WantedFollows'
    BY <1>1 DEF WantedFollows, IInv, Loaded
  <1>11. EntriesFollow'
    <2> SUFFICES ASSUME NEW i \in 1..n
                 PROVE  /\ entries'[i].slot = wanted[i].slot /\ entries'[i].tcp = wanted[i].tcp
                        /\ pool'[entries'[i].slot].fd
                        /\ config.control # "absent" =>
                             entries'[i].enabled = config.items[i].on
      BY <1>1, <1>4 DEF EntriesFollow
    <2>1. CASE i = n
      BY <2>1, <1>4, <1>5, <1>8 DEF k
    <2>2. CASE i \in 1..Len(entries)
      <3>1. /\ entries'[i] = entries[i] /\ entries[i].slot \in Slots
            /\ entries[i].slot = wanted[i].slot /\ entries[i].tcp = wanted[i].tcp
            /\ pool[entries[i].slot].fd
            /\ config.control # "absent" => entries[i].enabled = config.items[i].on
        BY <2>2, <1>2, <1>4, Elements DEF IInv, EntriesFollow
      <3> QED BY <3>1, <1>5
    <2> QED BY <2>1, <2>2, <1>2 DEF n
  <1>12. NothingElse'
    <2>1. ASSUME NEW s \in Slots, pool'[s].fd PROVE \E i \in 1..n : entries'[i].slot = s
      <3>1. CASE s = k
        BY <3>1, <1>2, <1>4 DEF n
      <3>2. CASE s # k
        <4>1. PICK i \in 1..Len(entries) : entries[i].slot = s
          BY <2>1, <3>2, <1>2, <1>5 DEF IInv, NothingElse
        <4> QED BY <4>1, <1>2, <1>4 DEF n
      <3> QED BY <3>1, <3>2
    <2>2. failures' = {} =>
            \A s \in Slots : pool'[s].used => \E i \in DOMAIN wanted' : wanted'[i].slot = s
      BY <1>1, <1>5 DEF IInv, NothingElse
    <2> QED BY <2>1, <2>2, <1>1, <1>4 DEF NothingElse
  <1>13. Running'
    BY <1>1 DEF Running, IInv
  <1> QED BY <1>9, <1>10, <1>11, <1>12, <1>13 DEF Rest

\* The steps that touch neither the slots nor what is wanted of them.
LEMMA RestControl ==
    ASSUME IInv, Typed', UNCHANGED <<pool, wanted, config>>,
           \/ LoadControl \/ StartBegin \/ StartMemory \/ OpenFails
           \/ StartShell \/ StartQueue \/ StartFails \/ StartListener
           \/ WorkersFail \/ StartWorkers \/ Stop \/ StopListener \/ StopQueue
           \/ \E w \in Workers : TakeJob(w) \/ EndJob(w) \/ EndJobFault(w)
    PROVE  Rest'
  <1>1. Loaded(config)' = Loaded(config) /\ Len(Loaded(config)) \in Nat
    BY LoadedIs DEF IInv, Typed, Loaded
  <1>2. /\ wanted \in Seq(Wanted) /\ entries \in Seq(Entries)
        /\ Len(wanted) \in Nat /\ Len(entries) \in Nat
        /\ DOMAIN entries = 1..Len(entries) /\ Len(<<>>) = 0 /\ DOMAIN <<>> = {}
    BY DEF IInv, Typed
  <1>3. entries' = entries \/ (entries' = <<>> /\ entries = <<>>)
    BY DEF LoadControl, StartBegin, StartMemory, OpenFails, StartShell, StartQueue,
           StartFails, StartListener, WorkersFail, StartWorkers, Stop, StopListener,
           StopQueue, TakeJob, EndJob, EndJobFault, IInv, NothingElse
  <1>4. WantedHeld'
    BY DEF WantedHeld, IInv
  <1>5. WantedFollows' /\ (failures' = {} => failures = {})
    <2>1. CASE LoadControl
      BY <2>1, <1>1, <1>2 DEF LoadControl, WantedFollows, IInv
    <2>2. CASE ~LoadControl
      <3>1. phase \notin {"unloaded", "slots"} \/ phase' = phase
        BY <2>2 DEF StartBegin, StartMemory, OpenFails, StartShell, StartQueue,
           StartFails, StartListener, WorkersFail, StartWorkers, Stop, StopListener,
           StopQueue, TakeJob, EndJob, EndJobFault
      <3>2. failures' = {} => failures = {}
        BY <2>2 DEF StartBegin, StartMemory, OpenFails, StartShell, StartQueue,
           StartFails, StartListener, WorkersFail, StartWorkers, Stop, StopListener,
           StopQueue, TakeJob, EndJob, EndJobFault
      <3> QED BY <3>1, <3>2, <1>1 DEF WantedFollows, IInv
    <2> QED BY <2>1, <2>2
  <1>6. EntriesFollow'
    BY <1>3 DEF EntriesFollow, IInv
  <1>7. NothingElse' /\ Running'
    <2> USE <1>1, <1>2, <1>3, <1>5 DEF IInv, Typed, NothingElse, Running, tasks
    <2>1. CASE LoadControl \/ StartBegin
      BY <2>1 DEF LoadControl, StartBegin
    <2>2. CASE StartMemory \/ OpenFails
      BY <2>2 DEF StartMemory, OpenFails
    <2>3. CASE StartShell
      BY <2>3 DEF StartShell
    <2>4. CASE StartQueue \/ StartFails \/ StartListener
      BY <2>4 DEF StartQueue, StartFails, StartListener
    <2>5. CASE WorkersFail \/ StartWorkers
      BY <2>5 DEF WorkersFail, StartWorkers
    <2>6. CASE Stop \/ StopListener \/ StopQueue
      BY <2>6 DEF Stop, StopListener, StopQueue
    <2>7. CASE \E w \in Workers : TakeJob(w) \/ EndJob(w) \/ EndJobFault(w)
      BY <2>7 DEF TakeJob, EndJob, EndJobFault
    <2> QED BY <2>1, <2>2, <2>3, <2>4, <2>5, <2>6, <2>7
  <1> QED BY <1>4, <1>5, <1>6, <1>7 DEF Rest

\* A step that changes nothing.
LEMMA RestStutter ==
    ASSUME IInv, UNCHANGED vars
    PROVE  Rest'
  BY DEF IInv, vars, Rest, WantedHeld, WantedFollows, EntriesFollow, NothingElse, Running, Loaded

---------------------------------------------------------------------------
(* The invariant holds, and what the runs check follows from it.           *)

\* It holds of a service that was never loaded.
LEMMA InvInit == Init => IInv
  <1> SUFFICES ASSUME Init PROVE IInv
    OBVIOUS
  <1>1. /\ <<>> \in Seq(Wanted) /\ <<>> \in Seq(Entries)
        /\ Len(<<>>) = 0 /\ Len(<<>>) <= MaxPorts /\ DOMAIN <<>> = {}
    BY StartupAssumption
  <1>2. FreeSlot \in [used : BOOLEAN, tcp : TcpPorts \cup {0}, fd : BOOLEAN]
    BY DEF FreeSlot
  <1>3. Typed
    BY <1>1, <1>2, ConfigsAre DEF Init, Typed
  <1>4. \A s \in Slots : ~pool[s].fd /\ ~pool[s].used
    BY DEF Init, FreeSlot
  <1>5. Loaded(config) \in Seq(Items) /\ Len(Loaded(config)) \in Nat
    BY <1>3, LoadedIs DEF Typed
  <1>6. WantedHeld /\ WantedFollows /\ EntriesFollow
    BY <1>1, <1>5 DEF Init, WantedHeld, WantedFollows, EntriesFollow
  <1>7. NothingElse /\ Running
    BY <1>1, <1>4 DEF Init, NothingElse, Running
  <1> QED BY <1>3, <1>6, <1>7 DEF IInv

\* Every step preserves it.
LEMMA InvNext == IInv /\ [Next]_vars => IInv'
  <1> SUFFICES ASSUME IInv, [Next]_vars PROVE IInv'
    OBVIOUS
  <1>1. Typed'
    BY TypeNext
  <1>2. Rest'
    <2>1. ASSUME NEW c \in Configs, Parse(c) PROVE Rest'
      BY <1>1, <2>1, RestParse
    <2>2. CASE TakeSlot
      BY <1>1, <2>2, RestTakeSlot
    <2>3. CASE NoSlot \/ ControlInvalid
      BY <1>1, <2>3, RestLoadFails DEF NoSlot, ControlInvalid
    <2>4. CASE OpenListener
      BY <1>1, <2>4, RestOpenListener
    <2>5. CASE Release
      BY <1>1, <2>5, RestRelease
    <2>6. CASE \/ LoadControl \/ StartBegin \/ StartMemory \/ OpenFails
               \/ StartShell \/ StartQueue \/ StartFails \/ StartListener
               \/ WorkersFail \/ StartWorkers \/ Stop \/ StopListener \/ StopQueue
               \/ \E w \in Workers : TakeJob(w) \/ EndJob(w) \/ EndJobFault(w)
      <3>1. UNCHANGED <<pool, wanted, config>>
        BY <2>6 DEF LoadControl, StartBegin, StartMemory, OpenFails, StartShell, StartQueue,
           StartFails, StartListener, WorkersFail, StartWorkers, Stop, StopListener,
           StopQueue, TakeJob, EndJob, EndJobFault
      <3> QED BY <1>1, <2>6, <3>1, RestControl
    <2>7. CASE UNCHANGED vars
      BY <2>7, RestStutter
    <2> QED BY <2>1, <2>2, <2>3, <2>4, <2>5, <2>6, <2>7 DEF Next, Application
  <1> QED BY <1>1, <1>2 DEF IInv, Rest

\* The service is always in a state of the invariant.
LEMMA InvHolds == Spec => []IInv
  BY InvInit, InvNext, PTL DEF Spec

\* The slots, the configuration, the listeners, the tasks and the application's
\* place between load and stop are always of their types.
THEOREM TypeCorrect == Spec => []TypeOK
  <1>1. IInv => TypeOK
    BY TypeIs DEF IInv
  <1> QED BY <1>1, InvHolds, PTL

\* Whatever was started and whichever steps failed, a service that is down has
\* no socket open, and no slot in use that a failed load or listener did not
\* lose (runtime_start, runtime_stop, release_network_if).
THEOREM StopReturns == Spec => []StopReturnsSlots
  <1>1. IInv => StopReturnsSlots
    <2> SUFFICES ASSUME IInv, phase = "unloaded" PROVE StopReturnsSlots
      BY DEF StopReturnsSlots
    <2>1. wanted = <<>> /\ entries = <<>> /\ DOMAIN <<>> = {}
      BY DEF IInv, NothingElse
    <2> QED BY <2>1 DEF IInv, NothingElse, StopReturnsSlots
  <1> QED BY <1>1, InvHolds, PTL

\* A service that runs has the listeners of its configuration, in order, each
\* enabled as its own item says, though the loader finds the flag by TCP port.
THEOREM ListenersFollow == Spec => []ListenersFollowConfig
  <1>1. IInv => ListenersFollowConfig
    <2> SUFFICES ASSUME IInv, phase = "running" PROVE ListenersFollowConfig
      BY DEF ListenersFollowConfig
    <2>1. Len(entries) = Len(Loaded(config)) /\ Len(entries) = Len(wanted)
      BY DEF IInv, NothingElse, WantedFollows
    <2>2. ASSUME NEW i \in DOMAIN entries
          PROVE  /\ entries[i].tcp = config.items[i].tcp
                 /\ config.control # "absent" => entries[i].enabled = config.items[i].on
      <3>1. i \in DOMAIN wanted
        BY <2>1 DEF IInv, Typed
      <3> QED BY <3>1 DEF IInv, EntriesFollow, WantedHeld
    <2> QED BY <2>1, <2>2 DEF ListenersFollowConfig
  <1> QED BY <1>1, InvHolds, PTL

\* The listener task never runs without the queue it sends to or with an entry
\* whose slot or socket is gone: it is created last and deleted first.
THEOREM ListenerServed == Spec => []ListenerHasWhatItUses
  <1>1. IInv => ListenerHasWhatItUses
    <2> SUFFICES ASSUME IInv, listener PROVE ListenerHasWhatItUses
      BY DEF ListenerHasWhatItUses
    <2>1. queue
      BY DEF IInv, Running
    <2>2. ASSUME NEW i \in DOMAIN entries
          PROVE  pool[entries[i].slot] = [used |-> TRUE, tcp |-> entries[i].tcp, fd |-> TRUE]
      <3>1. i \in DOMAIN wanted /\ entries[i].slot \in Slots
        BY Elements DEF IInv, Typed, EntriesFollow
      <3>2. /\ pool[entries[i].slot].used /\ pool[entries[i].slot].fd
            /\ pool[entries[i].slot].tcp = entries[i].tcp
        BY <3>1 DEF IInv, EntriesFollow, WantedHeld
      <3>3. pool[entries[i].slot] \in [used : BOOLEAN, tcp : TcpPorts \cup {0}, fd : BOOLEAN]
        BY <3>1 DEF IInv, Typed
      <3> QED BY <3>2, <3>3
    <2> QED BY <2>1, <2>2 DEF ListenerHasWhatItUses
  <1> QED BY <1>1, InvHolds, PTL

\* The shell never runs without a listener to administer, in particular not
\* after a stop of a service whose start had failed.
THEOREM ShellServed == Spec => []ShellHasListeners
  <1>1. IInv => ShellHasListeners
    BY DEF IInv, Running, ShellHasListeners
  <1> QED BY <1>1, InvHolds, PTL

=============================================================================
