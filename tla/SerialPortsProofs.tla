--------------------------- MODULE SerialPortsProofs ---------------------------
(***************************************************************************)
(* Theorems about SerialPorts for every number of ports and session tasks: *)
(* whatever the opens and closes of the sessions of a port do to each      *)
(* other, no driver is left behind and the flags agree with the drivers;   *)
(* and while no two updates of it overlap, the counter of a port is the    *)
(* number of its sessions.                                                 *)
(***************************************************************************)
EXTENDS SerialPorts, FiniteSetTheorems, SequenceTheorems, TLAPS

---------------------------------------------------------------------------
(* The inductive invariant.                                                *)

\* A port is registered once.
Distinct == \A i, j \in 1..Len(storage) : storage[i] = storage[j] => i = j

\* The session layer has the ports of the adapter in the same order; between
\* the two halves of a removal the one that is going is missing.
Gap(k) ==
    /\ storage[k] = removal.id
    /\ Len(registry) + 1 = Len(storage)
    /\ \A i \in 1..Len(registry) : registry[i].id = storage[IF i < k THEN i ELSE i + 1]

RegistryFollows ==
    /\ removal.op # "serial" =>
         /\ Len(registry) = Len(storage)
         /\ \A i \in 1..Len(registry) : registry[i].id = storage[i]
    /\ removal.op = "serial" => \E k \in 1..Len(storage) : Gap(k)

\* A handle points to the entry of its port until a removal hits it.
HandlesHold ==
    "moved" \notin slips =>
      \A w \in Workers : Holds(w) =>
        task[w].at \in 1..Len(storage) /\ storage[task[w].at] = task[w].id

\* No two updates of a counter overlapped, and no removal moved one.
Steady == slips \cap {"moved", "raced"} = {}

\* So does the index of a counter, and the value loaded is still that of the
\* counter, until another update overlaps.
LoadedCurrent ==
    Steady =>
      \A w \in Workers : At(w, {"add", "subtract"}) =>
        LET i == task[w].pidx IN
        i \in 1..Len(registry) /\ registry[i].id = task[w].id /\ registry[i].active = task[w].seen

\* The sessions that are counted.
Counted(id) ==
    {w \in Workers : At(w, {"register", "io", "uncount", "subtract"}) /\ task[w].id = id}

CountersExact ==
    Steady =>
      \A i \in 1..Len(registry) : registry[i].active = Cardinality(Counted(registry[i].id))

\* Neither a removal nor a failed open left a flag or a driver behind.
Undisturbed == slips \cap {"moved", "starved"} = {}

\* A worker with a close of entry i before it, and one in the middle of it.
Mends(w, i)  == ~At(w, {"receive", "install", "unmark"}) /\ task[w].at = i
Clears(w, i) == At(w, {"unmark"}) /\ task[w].at = i

\* Settled, for all workers.
Settles(i) ==
    \/ \E w \in Workers : Mends(w, i)
    \/ (flag[i] /\ \A w \in Workers : ~Clears(w, i)) <=> storage[i] \in driver

FlagsSettle == Undisturbed => \A i \in 1..Len(storage) : Settles(i)

\* A driver is that of a registered port.
DriversListed ==
    Undisturbed => \A id \in driver : \E i \in 1..Len(storage) : storage[i] = id

IInv ==
    /\ TypeOK
    /\ Distinct /\ RegistryFollows
    /\ HandlesHold /\ LoadedCurrent /\ CountersExact
    /\ FlagsSettle /\ DriversListed

---------------------------------------------------------------------------
(* Lemmas about the sequences and the records.                             *)

\* The size is a number.
LEMMA Sizes == MaxPorts \in Nat \ {0}
  BY SerialAssumption

\* Removing an element closes the gap it leaves.
LEMMA RemoveAtIs ==
    ASSUME NEW S, NEW s \in Seq(S), NEW i \in 1..Len(s)
    PROVE  /\ RemoveAt(s, i) \in Seq(S) /\ Len(RemoveAt(s, i)) = Len(s) - 1
           /\ \A j \in 1..Len(s) - 1 : RemoveAt(s, i)[j] = IF j < i THEN s[j] ELSE s[j + 1]
  <1> DEFINE n == Len(s)
             u == SubSeq(s, 1, i - 1)
             v == SubSeq(s, i + 1, n)
  <1>1. n \in Nat /\ i \in 1..n
    OBVIOUS
  <1>2. u \in Seq(S) /\ Len(u) = i - 1 /\ \A j \in 1..i - 1 : u[j] = s[j]
    BY <1>1
  <1>3. v \in Seq(S) /\ Len(v) = n - i /\ \A j \in 1..n - i : v[j] = s[i + j]
    BY <1>1
  <1>4. RemoveAt(s, i) = u \o v
    BY DEF RemoveAt
  <1> HIDE DEF n, u, v
  <1>5. /\ u \o v \in Seq(S) /\ Len(u \o v) = Len(u) + Len(v)
        /\ \A j \in 1..Len(u) + Len(v) : (u \o v)[j] = IF j <= Len(u) THEN u[j] ELSE v[j - Len(u)]
    BY <1>2, <1>3, ConcatProperties
  <1>6. u \o v \in Seq(S) /\ Len(u \o v) = n - 1
    BY <1>1, <1>2, <1>3, <1>5
  <1>7. ASSUME NEW j \in 1..n - 1 PROVE (u \o v)[j] = IF j < i THEN s[j] ELSE s[j + 1]
    <2>1. CASE j < i
      <3>1. j \in 1..i - 1 /\ j \in 1..Len(u) + Len(v) /\ j <= Len(u)
        BY <2>1, <1>1, <1>2, <1>3
      <3> QED BY <2>1, <3>1, <1>2, <1>5
    <2>2. CASE ~(j < i)
      <3>1. /\ j \in 1..Len(u) + Len(v) /\ ~(j <= Len(u)) /\ j - Len(u) \in 1..n - i
            /\ i + (j - Len(u)) = j + 1
        BY <2>2, <1>1, <1>2, <1>3
      <3> QED BY <2>2, <3>1, <1>3, <1>5
    <2> QED BY <2>1, <2>2
  <1> QED BY <1>4, <1>6, <1>7 DEF n

\* What one more element does to a sequence.
LEMMA AppendIs ==
    ASSUME NEW S, NEW s \in Seq(S), NEW e \in S
    PROVE  /\ Append(s, e) \in Seq(S) /\ Len(Append(s, e)) = Len(s) + 1
           /\ Append(s, e)[Len(s) + 1] = e
           /\ \A i \in 1..Len(s) : Append(s, e)[i] = s[i]
  OBVIOUS

Counter == [id : Ids, active : Nat]

\* The elements of the two tables.
LEMMA Elements ==
    ASSUME TypeOK
    PROVE  /\ storage \in Seq(Ids) /\ Len(storage) \in Nat /\ Len(storage) <= MaxPorts
           /\ DOMAIN storage = 1..Len(storage) /\ 1..Len(storage) \subseteq Slots
           /\ \A i \in 1..Len(storage) : storage[i] \in Ids
           /\ registry \in Seq(Counter) /\ Len(registry) \in Nat /\ Len(registry) <= MaxPorts
           /\ DOMAIN registry = 1..Len(registry) /\ 1..Len(registry) \subseteq Slots
           /\ \A i \in 1..Len(registry) :
                registry[i] \in Counter /\ registry[i].id \in Ids /\ registry[i].active \in Nat
  <1>1. /\ storage \in Seq(Ids) /\ Len(storage) \in Nat /\ Len(storage) <= MaxPorts
        /\ DOMAIN storage = 1..Len(storage) /\ 1..Len(storage) \subseteq Slots
        /\ \A i \in 1..Len(storage) : storage[i] \in Ids
    BY Sizes DEF TypeOK, Slots
  <1>2. /\ registry \in Seq(Counter) /\ Len(registry) \in Nat /\ Len(registry) <= MaxPorts
        /\ DOMAIN registry = 1..Len(registry) /\ 1..Len(registry) \subseteq Slots
        /\ \A i \in 1..Len(registry) : registry[i] \in Counter
    <2>1. registry \in Seq(Counter) /\ Len(registry) <= MaxPorts
      BY DEF TypeOK, Counter
    <2> QED BY <2>1, Sizes DEF Slots
  <1>3. \A r \in Counter : r.id \in Ids /\ r.active \in Nat
    BY DEF Counter
  <1> QED BY <1>1, <1>2, <1>3

\* A search finds the port where it is, once.
LEMMA Searches ==
    ASSUME IInv, NEW id
    PROVE  /\ InStorage(id) = {i \in 1..Len(storage) : storage[i] = id}
           /\ InRegistry(id) = {i \in 1..Len(registry) : registry[i].id = id}
           /\ \A i, j \in 1..Len(registry) : registry[i].id = registry[j].id => i = j
  <1>1. \A i, j \in 1..Len(registry) : registry[i].id = registry[j].id => i = j
    <2>1. CASE removal.op # "serial"
      BY <2>1 DEF IInv, RegistryFollows, Distinct
    <2>2. CASE removal.op = "serial"
      <3>1. PICK k \in 1..Len(storage) : Gap(k)
        BY <2>2 DEF IInv, RegistryFollows
      <3> DEFINE h(i) == IF i < k THEN i ELSE i + 1
      <3>2. \A i \in 1..Len(registry) : h(i) \in 1..Len(storage) /\ registry[i].id = storage[h(i)]
        BY <3>1, Elements DEF IInv, Gap
      <3>3. \A i, j \in 1..Len(registry) : h(i) = h(j) => i = j
        BY Elements DEF IInv
      <3> HIDE DEF h
      <3> QED BY <3>2, <3>3 DEF IInv, Distinct
    <2> QED BY <2>1, <2>2
  <1>2. InStorage(id) = {i \in 1..Len(storage) : storage[i] = id}
    BY Elements DEF IInv, Distinct, InStorage, First
  <1>3. InRegistry(id) = {i \in 1..Len(registry) : registry[i].id = id}
    BY <1>1, Elements DEF IInv, InRegistry, First
  <1> QED BY <1>1, <1>2, <1>3

\* The places of a task without an index into the counters.
Places == {"install", "mark", "flush", "initialise", "register", "io", "uncount", "delete",
           "unmark"}

\* What a task has with it.
LEMMA TaskIs ==
    ASSUME TypeOK, NEW w \in Workers
    PROVE  /\ ~Holds(w) <=> task[w] = Waiting
           /\ Holds(w) => task[w].id \in Ids /\ task[w].at \in Slots
           /\ At(w, {"add", "subtract"}) => task[w].pidx \in Slots /\ task[w].seen \in Nat
           /\ At(w, {"subtract"}) => task[w].seen # 0
           /\ task[w].pc \in Places =>
                task[w] \in [pc : Places, id : Ids, at : Slots]
  <1>1. task[w] \in Tasks
    BY DEF TypeOK
  <1> QED BY <1>1 DEF Tasks, Waiting, Holds, At, Places

\* A step of a task that keeps its job and its handle.
Becomes(w, pc) ==
    /\ task' \in [Workers -> Tasks]
    /\ task'[w].pc = pc /\ task'[w].id = task[w].id /\ task'[w].at = task[w].at
    /\ \A v \in Workers \ {w} : task'[v] = task[v]

\* A step to another place.
LEMMA GotoBecomes ==
    ASSUME TypeOK, NEW w \in Workers, task[w].pc \in Places, NEW pc \in Places, Goto(w, pc)
    PROVE  Becomes(w, pc)
  <1> DEFINE t == [task[w] EXCEPT !.pc = pc]
  <1>1. task[w] \in [pc : Places, id : Ids, at : Slots]
    BY TaskIs
  <1>2. /\ t \in [pc : Places, id : Ids, at : Slots]
        /\ t.pc = pc /\ t.id = task[w].id /\ t.at = task[w].at
    BY <1>1
  <1>3. t \in Tasks
    BY <1>2 DEF Tasks, Places
  <1>4. task' = [task EXCEPT ![w] = t]
    BY DEF Goto
  <1> HIDE DEF t
  <1> QED BY <1>2, <1>3, <1>4 DEF Becomes, TypeOK

\* A store of a counter, and where the task goes on.
LEMMA StoreBecomes ==
    ASSUME TypeOK, NEW w \in Workers, Holds(w), NEW pc \in Places,
           task' = [task EXCEPT ![w] = [pc |-> pc, id |-> task[w].id, at |-> task[w].at]]
    PROVE  Becomes(w, pc)
  <1>1. [pc |-> pc, id |-> task[w].id, at |-> task[w].at] \in Tasks
    BY TaskIs DEF Tasks, Places
  <1> QED BY <1>1 DEF Becomes, TypeOK

\* A task waits again.
Waits(w) ==
    /\ task' \in [Workers -> Tasks]
    /\ task'[w].pc = "receive"
    /\ \A v \in Workers \ {w} : task'[v] = task[v]

\* A task that leaves waits.
LEMMA LeavesWaits ==
    ASSUME TypeOK, NEW w \in Workers, Leaves(w)
    PROVE  Waits(w)
  <1>1. Waiting \in Tasks /\ Waiting.pc = "receive"
    BY DEF Tasks, Waiting
  <1> QED BY <1>1 DEF Leaves, Waits, TypeOK

---------------------------------------------------------------------------
(* The initial states.                                                     *)

\* The service begins with its ports registered in both tables and without sessions.
LEMMA InitInv == Init => IInv
  <1> SUFFICES ASSUME Init PROVE IInv
    OBVIOUS
  <1>1. storage \in Seq(Ids) /\ Len(storage) <= MaxPorts /\ IsInjective(storage)
    BY Sizes DEF Init, BoundedSeq, SeqOf
  <1>2. Len(storage) \in Nat /\ DOMAIN storage = 1..Len(storage)
        /\ \A i \in 1..Len(storage) : storage[i] \in Ids
    BY <1>1
  <1>3. registry = [i \in 1..Len(storage) |-> [id |-> storage[i], active |-> 0]]
    BY <1>2 DEF Init
  <1>4. /\ registry \in Seq(Counter) /\ Len(registry) = Len(storage)
        /\ \A i \in 1..Len(storage) : registry[i].id = storage[i] /\ registry[i].active = 0
    BY <1>2, <1>3 DEF Counter
  <1>5. /\ \A w \in Workers : task[w] = Waiting /\ ~Holds(w)
        /\ task \in [Workers -> Tasks]
    BY DEF Init, Waiting, Holds, At, Tasks
  <1>6. TypeOK
    BY <1>1, <1>4, <1>5 DEF Init, TypeOK, Counter
  <1>7. Distinct
    BY <1>1, <1>2 DEF Distinct, IsInjective
  <1>8. RegistryFollows
    BY <1>4 DEF Init, RegistryFollows, None
  <1>9. HandlesHold /\ LoadedCurrent
    BY <1>5 DEF HandlesHold, LoadedCurrent, Holds, At, Waiting
  <1>10. CountersExact
    <2>1. \A id : Counted(id) = {}
      BY <1>5 DEF Counted, At, Waiting
    <2> QED BY <1>4, <2>1, FS_EmptySet DEF CountersExact
  <1>11. FlagsSettle /\ DriversListed
    <2>1. \A i \in 1..Len(storage) : ~flag[i]
      BY <1>2, <1>6, Elements DEF Init
    <2> QED BY <2>1 DEF Init, FlagsSettle, Settles, DriversListed
  <1> QED BY <1>6, <1>7, <1>8, <1>9, <1>10, <1>11 DEF IInv

---------------------------------------------------------------------------
(* What a step of a worker keeps.                                          *)

\* The tables keep their ports, and each handle its entry.
LEMMA TablesKeep ==
    ASSUME IInv, UNCHANGED <<storage, removal>>,
           Len(registry') = Len(registry),
           \A i \in 1..Len(registry) : registry'[i].id = registry[i].id,
           "moved" \in slips => "moved" \in slips',
           \A w \in Workers : Holds(w)' =>
             \/ Holds(w) /\ task'[w].at = task[w].at /\ task'[w].id = task[w].id
             \/ task'[w].at \in 1..Len(storage) /\ storage[task'[w].at] = task'[w].id
    PROVE  Distinct' /\ RegistryFollows' /\ HandlesHold'
  BY DEF IInv, Distinct, RegistryFollows, Gap, HandlesHold

\* The number of counted sessions changes with their set only.
LEMMA CountsKeep ==
    ASSUME IInv, UNCHANGED registry, slips \subseteq slips',
           \A v \in Workers : At(v, {"add", "subtract"})' =>
             \/ task'[v] = task[v]
             \/ /\ task'[v].pidx \in 1..Len(registry)
                /\ registry[task'[v].pidx].id = task'[v].id
                /\ registry[task'[v].pidx].active = task'[v].seen,
           Steady =>
             \A i \in 1..Len(registry) : Counted(registry[i].id)' = Counted(registry[i].id)
    PROVE  LoadedCurrent' /\ CountersExact'
  <1> Steady' => Steady
    BY DEF Steady
  <1>1. LoadedCurrent'
    BY DEF IInv, LoadedCurrent, At
  <1>2. CountersExact'
    BY DEF IInv, CountersExact, Counted
  <1> QED BY <1>1, <1>2

\* Where the flag and the driver stay, and a close that is to come or has begun
\* stays so, an entry stays settled.
LEMMA SettlesKeep ==
    ASSUME NEW i, Settles(i), UNCHANGED <<storage[i], flag[i]>>,
           storage[i] \in driver <=> storage'[i] \in driver',
           \A v \in Workers : /\ Mends(v, i) => Mends(v, i)'
                              /\ Clears(v, i) <=> Clears(v, i)'
    PROVE  Settles(i)'
  BY DEF Settles

\* So does every entry, if that is so for all of them.
LEMMA FlagsKeep ==
    ASSUME IInv, UNCHANGED <<storage, flag, driver>>, slips \subseteq slips',
           \A v \in Workers, i \in 1..Len(storage) :
             /\ Mends(v, i) => Mends(v, i)'
             /\ Clears(v, i) <=> Clears(v, i)'
    PROVE  FlagsSettle' /\ DriversListed'
  <1>1. Undisturbed' => Undisturbed
    BY DEF Undisturbed
  <1>2. DriversListed'
    BY <1>1 DEF IInv, DriversListed
  <1>3. ASSUME Undisturbed, NEW i \in 1..Len(storage) PROVE Settles(i)'
    <2>1. Settles(i)
      BY <1>3 DEF IInv, FlagsSettle
    <2> QED BY <2>1, SettlesKeep
  <1> QED BY <1>1, <1>2, <1>3 DEF FlagsSettle

---------------------------------------------------------------------------
(* The steps of a worker.                                                  *)

\* Steps that only move a task, and leave it counted or not, and its close before
\* it.
LEMMA MoveKeeps ==
    ASSUME IInv, NEW w \in Workers, NEW pc \in Places, Becomes(w, pc), Holds(w),
           UNCHANGED <<storage, flag, driver, registry, removal, slips>>, halted' \in BOOLEAN,
           task[w].pc \in {"register", "io", "uncount"} <=> pc \in {"register", "io", "uncount"},
           ~At(w, {"add", "subtract"}),
           ~At(w, {"install", "unmark"}), pc \notin {"install", "unmark"}
    PROVE  IInv'
  <1>1. TypeOK'
    BY DEF IInv, TypeOK, Becomes
  <1>2. Distinct' /\ RegistryFollows' /\ HandlesHold'
    BY TablesKeep DEF Becomes, Holds, At
  <1>3. \A id : Counted(id)' = Counted(id)
    BY DEF Counted, Becomes, At, Places
  <1>4. LoadedCurrent' /\ CountersExact'
    BY <1>3, CountsKeep DEF Becomes, At, Places
  <1>5. FlagsSettle' /\ DriversListed'
    BY FlagsKeep DEF Becomes, Mends, Clears, At, Places
  <1> QED BY <1>1, <1>2, <1>4, <1>5 DEF IInv

\* The steps that only move a task.
LEMMA MovesKeep ==
    ASSUME IInv, NEW w \in Workers, UNCHANGED <<removal, halted>>,
           \/ OpenHandle(w)
           \/ InitialiseFails(w) \/ Register(w) \/ ClientEnds(w) \/ IoFails(w)
    PROVE  IInv'
  <1> USE DEF Places
  <1>1. PICK pc \in {"initialise", "delete", "io", "uncount"} :
          /\ Goto(w, pc)
          /\ \/ task[w].pc = "flush" /\ pc = "initialise"
             \/ task[w].pc = "initialise" /\ pc = "delete"
             \/ task[w].pc = "register" /\ pc = "io"
             \/ task[w].pc = "io" /\ pc = "uncount"
          /\ UNCHANGED <<storage, flag, driver, registry, slips>>
    BY DEF OpenHandle, InitialiseFails, Register, ClientEnds, IoFails, At
  <1>2. Becomes(w, pc) /\ halted' \in BOOLEAN
    BY <1>1, GotoBecomes DEF IInv, TypeOK
  <1>3. task'[w].pc = pc
    BY <1>2 DEF Becomes
  <1>4. Holds(w) /\ ~At(w, {"add", "subtract"})
    BY <1>1 DEF Holds, At
  <1>5. ~At(w, {"install", "unmark"}) /\ pc \notin {"install", "unmark"}
    BY <1>1 DEF At
  <1>6. task[w].pc \in {"register", "io", "uncount"} <=> pc \in {"register", "io", "uncount"}
    BY <1>1
  <1> QED BY <1>1, <1>2, <1>4, <1>5, <1>6, MoveKeeps

\* A task gives its handle back, or never got one.
LEMMA WaitKeeps ==
    ASSUME IInv, NEW w \in Workers, Waits(w),
           UNCHANGED <<storage, driver, registry, removal, halted>>,
           slips' \in {slips, slips \cup {"starved"}},
           At(w, {"install", "flush", "unmark"}), flag' \in [Slots -> BOOLEAN],
           FlagsSettle'
    PROVE  IInv'
  <1>1. TypeOK'
    BY DEF IInv, TypeOK, Waits
  <1>2. Distinct' /\ RegistryFollows' /\ HandlesHold'
    BY TablesKeep DEF Waits, Holds, At
  <1>3. \A id : Counted(id)' = Counted(id)
    BY DEF Counted, Waits, At
  <1>4. LoadedCurrent' /\ CountersExact'
    BY <1>3, CountsKeep DEF Waits, At
  <1>5. DriversListed'
    BY DEF IInv, DriversListed, Undisturbed
  <1> QED BY <1>1, <1>2, <1>4, <1>5 DEF IInv

\* The steps after which a task has no handle.
LEMMA LeavingKeeps ==
    ASSUME IInv, NEW w \in Workers, UNCHANGED <<removal, halted>>,
           OpenStarves(w) \/ OpenFails(w) \/ CloseUnmark(w)
    PROVE  IInv'
  <1>1. Waits(w) /\ (Holds(w) => task[w].at \in Slots)
    BY LeavesWaits, TaskIs DEF IInv, OpenStarves, OpenFails, CloseUnmark
  <1>2. \A v \in Workers \ {w}, i \in Slots : /\ Mends(v, i) <=> Mends(v, i)'
                                              /\ Clears(v, i) <=> Clears(v, i)'
    BY <1>1 DEF Waits, Mends, Clears, At
  <1>3. \A i \in Slots : ~Mends(w, i)' /\ ~Clears(w, i)'
    BY <1>1 DEF Waits, Mends, Clears, At
  <1>4. 1..Len(storage) \subseteq Slots
    BY Elements DEF IInv
  <1>5. CASE OpenFails(w)
    <2>1. UNCHANGED <<storage, flag, driver, registry, slips>> /\ At(w, {"install"})
      BY <1>5 DEF OpenFails
    <2>2. \A i \in Slots : ~Mends(w, i) /\ ~Clears(w, i)
      BY <2>1 DEF Mends, Clears, At
    <2>3. FlagsSettle'
      BY <1>2, <1>3, <1>4, <2>1, <2>2, FlagsKeep
    <2> QED BY <1>1, <2>1, <2>3, WaitKeeps DEF IInv, TypeOK, At
  <1>6. CASE OpenStarves(w)
    <2> DEFINE k == task[w].at
    <2>1. /\ UNCHANGED <<storage, flag, driver, registry>> /\ At(w, {"flush"})
          /\ slips' = IF Settled(k, Workers \ {w}) THEN slips ELSE slips \cup {"starved"}
      BY <1>6 DEF OpenStarves
    <2>2. \A i \in Slots : ~Clears(w, i) /\ (i # k => ~Mends(w, i))
      BY <2>1 DEF Mends, Clears, At
    <2>3. FlagsSettle'
      <3> SUFFICES ASSUME Undisturbed', NEW i \in 1..Len(storage) PROVE Settles(i)'
        BY <2>1 DEF FlagsSettle
      <3>1. Undisturbed /\ Settled(k, Workers \ {w})
        BY <2>1 DEF Undisturbed
      <3>2. Settles(i) /\ i \in Slots
        BY <1>4, <3>1 DEF IInv, FlagsSettle
      <3>3. CASE i # k
        BY <1>2, <1>3, <2>1, <2>2, <3>2, <3>3, SettlesKeep
      <3>4. CASE i = k
        <4>1. \/ \E v \in Workers \ {w} : Mends(v, i)
              \/ (flag[i] /\ \A v \in Workers \ {w} : ~Clears(v, i)) <=> storage[i] \in driver
          BY <3>1, <3>4 DEF Settled, Mends, Clears, Holds, At
        <4>2. CASE \E v \in Workers \ {w} : Mends(v, i)
          BY <1>2, <1>4, <4>2 DEF Settles
        <4>3. CASE (flag[i] /\ \A v \in Workers \ {w} : ~Clears(v, i)) <=> storage[i] \in driver
          <5>1. (\A v \in Workers \ {w} : ~Clears(v, i)) <=> \A v \in Workers : ~Clears(v, i)'
            BY <1>2, <1>3, <1>4
          <5> QED BY <2>1, <4>3, <5>1 DEF Settles
        <4> QED BY <4>1, <4>2, <4>3
      <3> QED BY <3>3, <3>4
    <2> QED BY <1>1, <2>1, <2>3, WaitKeeps DEF IInv, TypeOK, At
  <1>7. CASE CloseUnmark(w)
    <2> DEFINE k == task[w].at
    <2>1. /\ UNCHANGED <<storage, driver, registry, slips>> /\ At(w, {"unmark"}) /\ Holds(w)
          /\ flag' = [flag EXCEPT ![k] = FALSE]
      BY <1>7 DEF CloseUnmark, At, Holds
    <2>2. /\ flag' \in [Slots -> BOOLEAN] /\ ~flag'[k]
          /\ \A i \in Slots : i # k => flag'[i] = flag[i]
      BY <1>1, <2>1 DEF IInv, TypeOK
    <2>3. Clears(w, k) /\ \A i \in Slots : ~Mends(w, i) /\ (i # k => ~Clears(w, i))
      BY <2>1 DEF Mends, Clears, At
    <2>4. FlagsSettle'
      <3> SUFFICES ASSUME Undisturbed, NEW i \in 1..Len(storage) PROVE Settles(i)'
        BY <2>1 DEF FlagsSettle, Undisturbed
      <3>1. Settles(i) /\ i \in Slots
        BY Elements DEF IInv, FlagsSettle
      <3>2. CASE i # k
        BY <1>2, <1>3, <2>1, <2>2, <2>3, <3>1, <3>2, SettlesKeep
      <3>3. CASE i = k
        <4>1. (\E v \in Workers \ {w} : Mends(v, k)) \/ storage[k] \notin driver
          BY <2>3, <3>1, <3>3 DEF Settles
        <4> QED BY <1>2, <2>1, <2>2, <3>3, <4>1 DEF Settles
      <3> QED BY <3>2, <3>3
    <2> QED BY <1>1, <2>1, <2>2, <2>4, WaitKeeps DEF At
  <1> QED BY <1>5, <1>6, <1>7

\* open_serial finds the port of the job.
LEMMA OpenFindKeeps ==
    ASSUME IInv, NEW w \in Workers, NEW id \in Ids, OpenFind(w, id), UNCHANGED <<removal, halted>>
    PROVE  IInv'
  <1>1. PICK i \in InStorage(id) :
          task' = [task EXCEPT ![w] = [pc |-> IF flag[i] THEN "flush" ELSE "install",
                                       id |-> id, at |-> i]]
    BY DEF OpenFind
  <1>2. i \in 1..Len(storage) /\ storage[i] = id /\ i \in Slots
    BY Searches, Elements DEF IInv
  <1>3. PICK pc \in {"flush", "install"} :
          task' = [task EXCEPT ![w] = [pc |-> pc, id |-> id, at |-> i]]
    BY <1>1
  <1>4. [pc |-> pc, id |-> id, at |-> i] \in Tasks
    BY <1>2 DEF Tasks
  <1>5. /\ task' \in [Workers -> Tasks]
        /\ task'[w].pc \in {"flush", "install"} /\ task'[w].id = id /\ task'[w].at = i
        /\ \A v \in Workers \ {w} : task'[v] = task[v]
    BY <1>3, <1>4 DEF IInv, TypeOK
  <1>6. UNCHANGED <<storage, flag, driver, registry, slips>> /\ task[w].pc = "receive"
    BY DEF OpenFind, At
  <1>7. TypeOK'
    BY <1>5, <1>6 DEF IInv, TypeOK
  <1>8. Distinct' /\ RegistryFollows' /\ HandlesHold'
    BY <1>2, <1>5, <1>6, TablesKeep DEF Holds, At
  <1>9. \A j : Counted(j)' = Counted(j)
    BY <1>5, <1>6 DEF Counted, At
  <1>10. LoadedCurrent' /\ CountersExact'
    BY <1>5, <1>6, <1>9, CountsKeep DEF At
  <1>11. \A v \in Workers, j \in Slots : /\ Mends(v, j) => Mends(v, j)'
                                         /\ Clears(v, j) <=> Clears(v, j)'
    BY <1>5, <1>6 DEF Mends, Clears, At
  <1>12. FlagsSettle' /\ DriversListed'
    BY <1>6, <1>11, Elements, FlagsKeep DEF IInv
  <1> QED BY <1>7, <1>8, <1>10, <1>12 DEF IInv

\* The driver is installed, and then the flag is set, by a task that will close.
LEMMA InstallKeeps ==
    ASSUME IInv, NEW w \in Workers, OpenInstall(w) \/ OpenMark(w), UNCHANGED <<removal, halted>>
    PROVE  IInv'
  <1>1. PICK pc \in {"mark", "flush"} :
          /\ Goto(w, pc) /\ UNCHANGED <<storage, registry, slips>>
          /\ \/ /\ task[w].pc = "install" /\ pc = "mark" /\ flag' = flag
                /\ driver' = driver \cup {Uart(w)} /\ HasCfg(w)
             \/ /\ task[w].pc = "mark" /\ pc = "flush" /\ driver' = driver
                /\ flag' = [flag EXCEPT ![task[w].at] = TRUE]
    BY DEF OpenInstall, OpenMark, At
  <1>2. Becomes(w, pc) /\ Holds(w) /\ task[w].at \in Slots /\ task[w].id \in Ids
    BY <1>1, GotoBecomes, TaskIs DEF IInv, Places, Holds, At
  <1>3. task'[w].pc = pc /\ task'[w].id = task[w].id /\ task'[w].at = task[w].at
    BY <1>2 DEF Becomes
  <1>4. TypeOK'
    <2>1. HasCfg(w) => Uart(w) \in Ids
      BY Elements DEF IInv, HasCfg, Uart
    <2> QED BY <1>1, <1>2, <2>1 DEF IInv, TypeOK, Becomes
  <1>5. Distinct' /\ RegistryFollows' /\ HandlesHold'
    BY <1>1, <1>2, TablesKeep DEF Becomes, Holds, At
  <1>6. \A id : Counted(id)' = Counted(id)
    BY <1>1, <1>2 DEF Counted, Becomes, At
  <1>7. LoadedCurrent' /\ CountersExact'
    BY <1>1, <1>2, <1>6, CountsKeep DEF Becomes, At
  <1>8. \A v \in Workers \ {w} : task'[v] = task[v]
    BY <1>2 DEF Becomes
  <1>9. FlagsSettle'
    <2> SUFFICES ASSUME Undisturbed, NEW i \in 1..Len(storage) PROVE Settles(i)'
      BY <1>1 DEF FlagsSettle, Undisturbed
    <2>1. CASE i = task[w].at
      <3>1. Mends(w, i)'
        BY <1>1, <1>3, <2>1 DEF Mends, At
      <3> QED BY <3>1 DEF Settles
    <2>2. CASE i # task[w].at
      <3>1. \A v \in Workers : /\ Mends(v, i) => Mends(v, i)'
                               /\ Clears(v, i) <=> Clears(v, i)'
        BY <1>3, <1>8, <2>2 DEF Mends, Clears, At
      <3>2. Settles(i) /\ i \in Slots
        BY Elements DEF IInv, FlagsSettle
      <3>3. flag'[i] = flag[i]
        BY <1>1, <1>2, <2>2, <3>2 DEF IInv, TypeOK
      <3>4. HasCfg(w) => storage[i] # Uart(w)
        BY <2>2, Elements DEF IInv, Distinct, HasCfg, Uart
      <3>5. storage[i] \in driver <=> storage'[i] \in driver'
        BY <1>1, <3>4
      <3> QED BY <1>1, <3>1, <3>2, <3>3, <3>5, SettlesKeep
    <2> QED BY <2>1, <2>2
  <1>10. DriversListed'
    <2>1. HasCfg(w) => \E i \in 1..Len(storage) : storage[i] = Uart(w)
      BY Elements DEF IInv, HasCfg, Uart
    <2> QED BY <1>1, <2>1 DEF IInv, DriversListed, Undisturbed
  <1> QED BY <1>4, <1>5, <1>7, <1>9, <1>10 DEF IInv

\* The driver is deleted.
LEMMA CloseDeleteKeeps ==
    ASSUME IInv, NEW w \in Workers, CloseDelete(w), UNCHANGED <<removal, halted>>
    PROVE  IInv'
  <1>1. /\ UNCHANGED <<storage, flag, registry, slips>> /\ driver' = driver \ {Uart(w)}
        /\ task[w].pc = "delete" /\ Goto(w, "unmark") /\ HasCfg(w)
    BY DEF CloseDelete, At
  <1>2. Becomes(w, "unmark") /\ Holds(w)
    BY <1>1, GotoBecomes DEF IInv, Places, Holds, At
  <1>3. /\ task'[w].pc = "unmark" /\ task'[w].at = task[w].at
        /\ \A v \in Workers \ {w} : task'[v] = task[v]
    BY <1>2 DEF Becomes
  <1>4. TypeOK'
    BY <1>1, <1>2 DEF IInv, TypeOK, Becomes
  <1>5. Distinct' /\ RegistryFollows' /\ HandlesHold'
    BY <1>1, <1>2, TablesKeep DEF Becomes, Holds, At
  <1>6. \A id : Counted(id)' = Counted(id)
    BY <1>1, <1>2 DEF Counted, Becomes, At
  <1>7. LoadedCurrent' /\ CountersExact'
    BY <1>1, <1>2, <1>6, CountsKeep DEF Becomes, At
  <1>8. FlagsSettle'
    <2> SUFFICES ASSUME Undisturbed, NEW i \in 1..Len(storage) PROVE Settles(i)'
      BY <1>1 DEF FlagsSettle, Undisturbed
    <2>1. CASE i = task[w].at
      <3>1. Clears(w, i)'
        BY <1>3, <2>1 DEF Clears, At
      <3>2. storage'[i] \notin driver'
        BY <1>1, <2>1 DEF Uart
      <3> QED BY <3>1, <3>2 DEF Settles
    <2>2. CASE i # task[w].at
      <3>1. \A v \in Workers : /\ Mends(v, i) => Mends(v, i)'
                               /\ Clears(v, i) <=> Clears(v, i)'
        BY <1>3, <2>2 DEF Mends, Clears, At
      <3>2. Settles(i)
        BY DEF IInv, FlagsSettle
      <3>3. storage[i] # Uart(w)
        BY <1>1, <2>2, Elements DEF IInv, Distinct, HasCfg, Uart
      <3> QED BY <1>1, <3>1, <3>2, <3>3, SettlesKeep
    <2> QED BY <2>1, <2>2
  <1>9. DriversListed'
    BY <1>1 DEF IInv, DriversListed, Undisturbed
  <1> QED BY <1>4, <1>5, <1>7, <1>8, <1>9 DEF IInv

---------------------------------------------------------------------------
(* The steps of a worker on the counter of its port.                       *)

\* The places around the counter: the session has its flag and its driver.
Middle == {"initialise", "add", "register", "uncount", "subtract", "delete"}

\* Such a step leaves everything but the counters as it was.
LEMMA CountingKeeps ==
    ASSUME IInv, NEW w \in Workers, task[w].pc \in Middle, NEW pc \in Middle, Becomes(w, pc),
           UNCHANGED <<storage, flag, driver, removal, halted>>,
           slips' \in {slips, slips \cup {"raced"}},
           registry' \in Seq(Counter), Len(registry') = Len(registry),
           \A i \in 1..Len(registry) : registry'[i].id = registry[i].id,
           LoadedCurrent', CountersExact'
    PROVE  IInv'
  <1>1. TypeOK'
    BY DEF IInv, TypeOK, Becomes, Counter
  <1>2. Distinct' /\ RegistryFollows' /\ HandlesHold'
    BY TablesKeep DEF Becomes, Holds, At, Middle
  <1>3. FlagsSettle' /\ DriversListed'
    BY FlagsKeep DEF Becomes, Mends, Clears, At, Middle
  <1> QED BY <1>1, <1>2, <1>3 DEF IInv

\* The sessions counted for a port are finitely many.
LEMMA CountedFinite ==
    ASSUME NEW id
    PROVE  IsFiniteSet(Counted(id)) /\ Cardinality(Counted(id)) \in Nat
  <1>1. IsFiniteSet(Counted(id))
    BY FS_Subset, SerialAssumption DEF Counted
  <1> QED BY <1>1, FS_CardinalityType

\* A load finds the counter of the port of the session, or there is none.
LEMMA LoadBecomes ==
    ASSUME IInv, NEW w \in Workers, task[w].pc \in Places,
           NEW I \in SUBSET InRegistry(task[w].id),
           NEW counting \in {"add", "subtract"}, NEW otherwise \in Places,
           counting = "subtract" => \A i \in I : registry[i].active > 0,
           Load(w, I, counting, otherwise)
    PROVE  \/ I = {} /\ Becomes(w, otherwise)
           \/ /\ Becomes(w, counting)
              /\ task'[w].pidx \in 1..Len(registry)
              /\ registry[task'[w].pidx].id = task[w].id
              /\ registry[task'[w].pidx].active = task'[w].seen
  <1>1. CASE I = {}
    BY <1>1, GotoBecomes DEF Load, IInv
  <1>2. CASE I # {}
    <2>1. PICK i \in I : task' = [task EXCEPT ![w] =
            [pc |-> counting, id |-> task[w].id, at |-> task[w].at,
             pidx |-> i, seen |-> registry[i].active]]
      BY <1>2 DEF Load
    <2>2. i \in 1..Len(registry) /\ registry[i].id = task[w].id
      BY Searches
    <2>3. i \in Slots /\ registry[i].active \in Nat /\ task[w].id \in Ids /\ task[w].at \in Slots
      BY <2>2, Elements, TaskIs DEF IInv, Holds, At, Places
    <2>4. counting = "subtract" => registry[i].active \in Nat \ {0}
      BY <2>3
    <2>5. [pc |-> counting, id |-> task[w].id, at |-> task[w].at,
           pidx |-> i, seen |-> registry[i].active] \in Tasks
      BY <2>3, <2>4 DEF Tasks
    <2> QED BY <2>1, <2>2, <2>5 DEF IInv, TypeOK, Becomes
  <1> QED BY <1>1, <1>2

\* initialise loads the counter.
LEMMA InitialiseLoadKeeps ==
    ASSUME IInv, NEW w \in Workers, InitialiseLoad(w), UNCHANGED <<removal, halted>>
    PROVE  IInv'
  <1>1. /\ task[w].pc = "initialise" /\ UNCHANGED <<storage, flag, driver, registry, slips>>
        /\ Load(w, InRegistry(task[w].id), "add", "register")
    BY DEF InitialiseLoad, At
  <1>2. \/ InRegistry(task[w].id) = {} /\ Becomes(w, "register")
        \/ /\ Becomes(w, "add")
           /\ task'[w].pidx \in 1..Len(registry)
           /\ registry[task'[w].pidx].id = task[w].id
           /\ registry[task'[w].pidx].active = task'[w].seen
    BY <1>1, LoadBecomes DEF Places
  <1>3. PICK pc \in {"register", "add"} : Becomes(w, pc)
    BY <1>2
  <1>4. \A i \in 1..Len(registry) : Counted(registry[i].id)' = Counted(registry[i].id)
    <2>1. CASE InRegistry(task[w].id) = {}
      <3>1. \A i \in 1..Len(registry) : registry[i].id # task[w].id
        BY <2>1, Searches
      <3> QED BY <1>1, <1>3, <3>1 DEF Counted, Becomes, At
    <2>2. CASE Becomes(w, "add")
      BY <1>1, <2>2 DEF Counted, Becomes, At
    <2> QED BY <1>2, <2>1, <2>2
  <1>5. LoadedCurrent' /\ CountersExact'
    <2>1. \A v \in Workers : At(v, {"add", "subtract"})' =>
            \/ task'[v] = task[v]
            \/ /\ task'[v].pidx \in 1..Len(registry)
               /\ registry[task'[v].pidx].id = task'[v].id
               /\ registry[task'[v].pidx].active = task'[v].seen
      BY <1>2 DEF Becomes, At
    <2> QED BY <1>1, <1>4, <2>1, CountsKeep
  <1> QED BY <1>1, <1>3, <1>5, CountingKeeps, Elements DEF IInv, Middle

\* handle_disconnect loads it: a session that is counted finds it above zero.
LEMMA DisconnectLoadKeeps ==
    ASSUME IInv, NEW w \in Workers, DisconnectLoad(w), UNCHANGED <<removal, halted>>
    PROVE  IInv'
  <1> DEFINE I == {i \in InRegistry(task[w].id) : registry[i].active > 0}
  <1>1. /\ task[w].pc = "uncount" /\ UNCHANGED <<storage, flag, driver, registry, slips>>
        /\ Load(w, I, "subtract", "delete")
    BY DEF DisconnectLoad, At
  <1>2. \/ I = {} /\ Becomes(w, "delete")
        \/ /\ Becomes(w, "subtract")
           /\ task'[w].pidx \in 1..Len(registry)
           /\ registry[task'[w].pidx].id = task[w].id
           /\ registry[task'[w].pidx].active = task'[w].seen
    <2>1. I \in SUBSET InRegistry(task[w].id) /\ \A i \in I : registry[i].active > 0
      OBVIOUS
    <2> HIDE DEF I
    <2> QED BY <1>1, <2>1, LoadBecomes DEF Places
  <1>3. PICK pc \in {"delete", "subtract"} : Becomes(w, pc)
    BY <1>2
  <1>4. ASSUME Steady, NEW i \in 1..Len(registry)
        PROVE  Counted(registry[i].id)' = Counted(registry[i].id)
    <2>1. CASE I = {}
      <3>1. registry[i].id # task[w].id
        <4> SUFFICES ASSUME registry[i].id = task[w].id PROVE FALSE
          OBVIOUS
        <4>1. w \in Counted(registry[i].id)
          BY <1>1 DEF Counted, At
        <4>2. Cardinality(Counted(registry[i].id)) # 0
          BY <4>1, CountedFinite, FS_EmptySet
        <4>3. registry[i].active > 0
          BY <1>4, <4>2, Elements DEF IInv, CountersExact
        <4>4. i \in I
          BY <4>3, Searches
        <4> QED BY <2>1, <4>4
      <3> QED BY <1>1, <1>3, <3>1 DEF Counted, Becomes, At
    <2>2. CASE Becomes(w, "subtract")
      BY <1>1, <2>2 DEF Counted, Becomes, At
    <2> QED BY <1>2, <2>1, <2>2
  <1>5. LoadedCurrent' /\ CountersExact'
    <2>1. \A v \in Workers : At(v, {"add", "subtract"})' =>
            \/ task'[v] = task[v]
            \/ /\ task'[v].pidx \in 1..Len(registry)
               /\ registry[task'[v].pidx].id = task'[v].id
               /\ registry[task'[v].pidx].active = task'[v].seen
      BY <1>2 DEF Becomes, At
    <2> QED BY <1>1, <1>4, <2>1, CountsKeep
  <1> QED BY <1>1, <1>3, <1>5, CountingKeeps, Elements DEF IInv, Middle

\* A store changes one counter; the overlapping of two is on record.
LEMMA StoreIs ==
    ASSUME IInv, NEW w \in Workers, At(w, {"add", "subtract"}), NEW n \in Nat, NEW pc \in Places,
           Store(w, n, pc)
    PROVE  /\ Becomes(w, pc)
           /\ registry' \in Seq(Counter) /\ Len(registry') = Len(registry)
           /\ \A i \in 1..Len(registry) :
                /\ registry'[i].id = registry[i].id
                /\ registry'[i].active = IF i = task[w].pidx THEN n ELSE registry[i].active
           /\ slips' \in {slips, slips \cup {"raced"}}
           /\ Steady' => Steady /\ \A v \in Workers \ {w} :
                At(v, {"add", "subtract"}) => task[v].pidx # task[w].pidx
  <1> DEFINE i == task[w].pidx
  <1>1. Becomes(w, pc)
    BY StoreBecomes DEF Store, IInv, Holds, At
  <1>2. /\ registry \in Seq(Counter) /\ Len(registry) \in Nat /\ DOMAIN registry = 1..Len(registry)
        /\ \A j \in 1..Len(registry) : registry[j] \in Counter
    BY Elements DEF IInv
  <1>3. /\ registry' \in Seq(Counter) /\ Len(registry') = Len(registry)
        /\ \A j \in 1..Len(registry) :
             /\ registry'[j].id = registry[j].id
             /\ registry'[j].active = IF j = i THEN n ELSE registry[j].active
    <2>1. CASE i \notin 1..Len(registry)
      BY <1>2, <2>1 DEF Store
    <2>2. CASE i \in 1..Len(registry)
      <3> DEFINE c == [registry[i] EXCEPT !.active = n]
      <3>1. c \in Counter /\ c.id = registry[i].id /\ c.active = n
        BY <1>2, <2>2 DEF Counter
      <3>2. registry' = [registry EXCEPT ![i] = c]
        BY <1>2, <2>2 DEF Store
      <3> HIDE DEF c, i
      <3> QED BY <1>2, <2>2, <3>1, <3>2
    <2> QED BY <2>1, <2>2
  <1>4. slips' = IF Overlaps(w) THEN slips \cup {"raced"} ELSE slips
    BY DEF Store
  <1> QED BY <1>1, <1>3, <1>4 DEF Overlaps, Steady

\* The ++ is stored: the session is counted now.
LEMMA InitialiseStoreKeeps ==
    ASSUME IInv, NEW w \in Workers, InitialiseStore(w), UNCHANGED <<removal, halted>>
    PROVE  IInv'
  <1> DEFINE n == task[w].seen + 1
  <1>1. task[w].pc = "add" /\ UNCHANGED <<storage, flag, driver>> /\ Store(w, n, "register")
    BY DEF InitialiseStore, At
  <1>2. n \in Nat /\ task[w].seen \in Nat
    BY <1>1, TaskIs DEF IInv, At
  <1>3. /\ Becomes(w, "register")
        /\ registry' \in Seq(Counter) /\ Len(registry') = Len(registry)
        /\ \A i \in 1..Len(registry) :
             /\ registry'[i].id = registry[i].id
             /\ registry'[i].active = IF i = task[w].pidx THEN n ELSE registry[i].active
        /\ slips' \in {slips, slips \cup {"raced"}}
        /\ Steady' => Steady /\ \A v \in Workers \ {w} :
             At(v, {"add", "subtract"}) => task[v].pidx # task[w].pidx
    <2> HIDE DEF n
    <2> QED BY <1>1, <1>2, StoreIs DEF At, Places
  <1>4. LoadedCurrent'
    BY <1>3 DEF IInv, LoadedCurrent, Becomes, At
  <1>5. CountersExact'
    <2> SUFFICES ASSUME Steady', NEW i \in 1..Len(registry)
                 PROVE  registry'[i].active = Cardinality(Counted(registry[i].id)')
      BY <1>3 DEF CountersExact
    <2> DEFINE id == registry[i].id
               p == task[w].pidx
    <2>1. Steady /\ registry[i].active = Cardinality(Counted(id))
      BY <1>3 DEF IInv, CountersExact
    <2>2. p \in 1..Len(registry) /\ registry[p].id = task[w].id /\ registry[p].active = task[w].seen
      BY <1>1, <2>1 DEF IInv, LoadedCurrent, At
    <2>3. CASE i = p
      <3>1. w \notin Counted(id) /\ Counted(id)' = Counted(id) \cup {w}
        BY <1>1, <1>3, <2>2, <2>3 DEF Counted, Becomes, At
      <3>2. Cardinality(Counted(id) \cup {w}) = Cardinality(Counted(id)) + 1
        BY <3>1, CountedFinite, FS_AddElement
      <3>3. registry'[i].active = n /\ task[w].seen = registry[i].active
        BY <1>3, <2>2, <2>3
      <3> QED BY <2>1, <3>1, <3>2, <3>3
    <2>4. CASE i # p
      <3>1. id # task[w].id
        BY <2>2, <2>4, Searches
      <3>2. Counted(id)' = Counted(id)
        BY <1>3, <3>1 DEF Counted, Becomes, At
      <3> QED BY <1>3, <2>1, <2>4, <3>2
    <2> QED BY <2>3, <2>4
  <1> QED BY <1>1, <1>3, <1>4, <1>5, CountingKeeps DEF Middle

\* The -- is stored: the session is not counted any more.
LEMMA DisconnectStoreKeeps ==
    ASSUME IInv, NEW w \in Workers, DisconnectStore(w), UNCHANGED <<removal, halted>>
    PROVE  IInv'
  <1> DEFINE n == task[w].seen - 1
  <1>1. task[w].pc = "subtract" /\ UNCHANGED <<storage, flag, driver>> /\ Store(w, n, "delete")
    BY DEF DisconnectStore, At
  <1>2. n \in Nat /\ task[w].seen \in Nat
    BY <1>1, TaskIs DEF IInv, At
  <1>3. /\ Becomes(w, "delete")
        /\ registry' \in Seq(Counter) /\ Len(registry') = Len(registry)
        /\ \A i \in 1..Len(registry) :
             /\ registry'[i].id = registry[i].id
             /\ registry'[i].active = IF i = task[w].pidx THEN n ELSE registry[i].active
        /\ slips' \in {slips, slips \cup {"raced"}}
        /\ Steady' => Steady /\ \A v \in Workers \ {w} :
             At(v, {"add", "subtract"}) => task[v].pidx # task[w].pidx
    <2> HIDE DEF n
    <2> QED BY <1>1, <1>2, StoreIs DEF At, Places
  <1>4. LoadedCurrent'
    BY <1>3 DEF IInv, LoadedCurrent, Becomes, At
  <1>5. CountersExact'
    <2> SUFFICES ASSUME Steady', NEW i \in 1..Len(registry)
                 PROVE  registry'[i].active = Cardinality(Counted(registry[i].id)')
      BY <1>3 DEF CountersExact
    <2> DEFINE id == registry[i].id
               p == task[w].pidx
    <2>1. Steady /\ registry[i].active = Cardinality(Counted(id))
      BY <1>3 DEF IInv, CountersExact
    <2>2. p \in 1..Len(registry) /\ registry[p].id = task[w].id /\ registry[p].active = task[w].seen
      BY <1>1, <2>1 DEF IInv, LoadedCurrent, At
    <2>3. CASE i = p
      <3>1. w \in Counted(id) /\ Counted(id)' = Counted(id) \ {w}
        BY <1>1, <1>3, <2>2, <2>3 DEF Counted, Becomes, At
      <3>2. Cardinality(Counted(id) \ {w}) = Cardinality(Counted(id)) - 1
        BY <3>1, CountedFinite, FS_RemoveElement
      <3>3. registry'[i].active = n /\ task[w].seen = registry[i].active
        BY <1>3, <2>2, <2>3
      <3> QED BY <2>1, <3>1, <3>2, <3>3
    <2>4. CASE i # p
      <3>1. id # task[w].id
        BY <2>2, <2>4, Searches
      <3>2. Counted(id)' = Counted(id)
        BY <1>3, <3>1 DEF Counted, Becomes, At
      <3> QED BY <1>3, <2>1, <2>4, <3>2
    <2> QED BY <2>3, <2>4
  <1> QED BY <1>1, <1>3, <1>4, <1>5, CountingKeeps DEF Middle

\* The dereference of a NULL pointer changes nothing else.
LEMMA FaultKeeps ==
    ASSUME IInv, NEW w \in Workers, Fault(w), UNCHANGED removal
    PROVE  IInv'
  <1>1. UNCHANGED <<storage, flag, driver, registry, task, removal, slips>> /\ halted' = TRUE
    BY DEF Fault
  <1>2. TypeOK'
    BY <1>1 DEF IInv, TypeOK
  <1> QED BY <1>1, <1>2 DEF IInv, Distinct, RegistryFollows, Gap, HandlesHold, LoadedCurrent,
             CountersExact, Counted, Steady, FlagsSettle, Settles, Mends, Clears, DriversListed,
             Undisturbed, Holds, At

---------------------------------------------------------------------------
(* The steps of add_port and remove_port.                                  *)

\* A new port has no flag, no driver and no session, as long as no session of an
\* earlier port of that identifier was left.
LEMMA AddPortKeeps ==
    ASSUME IInv, NEW id \in Ids, AddPort(id), UNCHANGED <<halted, task>>
    PROVE  IInv'
  <1> DEFINE n == Len(storage)
             c == [id |-> id, active |-> 0]
  <1>1. /\ removal = None /\ n < MaxPorts /\ InStorage(id) = {}
        /\ storage' = Append(storage, id) /\ registry' = Append(registry, c)
        /\ flag' = [flag EXCEPT ![n + 1] = FALSE] /\ UNCHANGED <<driver, removal, slips>>
    BY DEF AddPort
  <1>2. n \in Nat /\ n + 1 \in Slots /\ n + 1 <= MaxPorts /\ Len(registry) = n
    BY <1>1, Sizes, Elements DEF IInv, Slots, RegistryFollows, None
  <1>3. /\ storage' \in Seq(Ids) /\ Len(storage') = n + 1 /\ storage'[n + 1] = id
        /\ \A i \in 1..n : storage'[i] = storage[i]
    BY <1>1, AppendIs, Elements DEF IInv
  <1>4. /\ registry' \in Seq(Counter) /\ Len(registry') = n + 1
        /\ registry'[n + 1].id = id /\ registry'[n + 1].active = 0
        /\ \A i \in 1..n : registry'[i] = registry[i]
    <2>1. c \in Counter /\ c.id = id /\ c.active = 0
      BY DEF Counter
    <2>2. registry \in Seq(Counter)
      BY Elements DEF IInv
    <2> HIDE DEF c
    <2> QED BY <1>1, <1>2, <2>1, <2>2, AppendIs
  <1>5. \A i \in 1..n : storage[i] # id
    BY <1>1, Searches
  <1>6. \A i \in 1..n + 1 : i \in 1..n \/ i = n + 1
    BY <1>2
  <1> HIDE DEF n, c
  <1>7. TypeOK'
    BY <1>1, <1>2, <1>3, <1>4 DEF IInv, TypeOK, Counter
  <1>8. Distinct'
    BY <1>3, <1>5, <1>6 DEF IInv, Distinct, n
  <1>9. RegistryFollows'
    <2>1. \A i \in 1..n : registry[i].id = storage[i]
      BY <1>1, <1>2 DEF IInv, RegistryFollows, None
    <2>2. removal'.op # "serial"
      BY <1>1 DEF None
    <2> QED BY <1>3, <1>4, <1>6, <2>1, <2>2 DEF RegistryFollows
  <1>10. HandlesHold'
    BY <1>1, <1>2, <1>3 DEF IInv, HandlesHold, Holds, At, n
  <1>11. LoadedCurrent'
    BY <1>1, <1>2, <1>4 DEF IInv, LoadedCurrent, Steady, At
  <1>12. CountersExact'
    <2>1. \A j : Counted(j)' = Counted(j)
      BY DEF Counted, At
    <2>2. Steady => Counted(id) = {}
      <3>1. Steady => \A w \in Workers : Holds(w) => task[w].id # id
        BY <1>5 DEF IInv, HandlesHold, Steady, n
      <3> QED BY <3>1 DEF Counted, Holds, At
    <2>3. Steady' =>
            \A i \in 1..n : registry'[i].active = Cardinality(Counted(registry'[i].id))
      BY <1>1, <1>2, <1>4 DEF IInv, CountersExact, Steady
    <2>4. Steady' => registry'[n + 1].active = Cardinality(Counted(registry'[n + 1].id))
      BY <1>1, <1>4, <2>2, FS_EmptySet DEF Steady
    <2>5. \A i \in 1..n + 1 : Counted(registry[i].id)' = Counted(registry'[i].id)
      BY DEF Counted, At
    <2> QED BY <1>4, <1>6, <2>3, <2>4, <2>5 DEF CountersExact
  <1>13. FlagsSettle'
    <2> SUFFICES ASSUME Undisturbed, NEW i \in 1..n + 1 PROVE Settles(i)'
      BY <1>1, <1>3 DEF FlagsSettle, Undisturbed
    <2>1. CASE i \in 1..n
      <3>1. Settles(i) /\ i \in Slots /\ i # n + 1
        BY <1>2, <2>1, Elements DEF IInv, FlagsSettle, n
      <3>2. flag'[i] = flag[i]
        BY <1>1, <1>2, <3>1 DEF IInv, TypeOK
      <3>3. \A v \in Workers : (Mends(v, i) <=> Mends(v, i)') /\ (Clears(v, i) <=> Clears(v, i)')
        BY DEF Mends, Clears, At
      <3> QED BY <1>1, <1>3, <2>1, <3>1, <3>2, <3>3, SettlesKeep
    <2>2. CASE i = n + 1
      <3>1. ~flag'[i]
        BY <1>1, <1>2, <2>2 DEF IInv, TypeOK
      <3>2. id \notin driver
        BY <1>5 DEF IInv, DriversListed, n
      <3> QED BY <1>1, <1>3, <2>2, <3>1, <3>2 DEF Settles
    <2> QED BY <1>6, <2>1, <2>2
  <1>14. DriversListed'
    BY <1>1, <1>2, <1>3 DEF IInv, DriversListed, Undisturbed, n
  <1> QED BY <1>7, <1>8, <1>9, <1>10, <1>11, <1>12, <1>13, <1>14 DEF IInv

\* The remove_port call goes on, or gives up, without touching the tables.
LEMMA RemovalKeeps ==
    ASSUME IInv, UNCHANGED <<storage, flag, driver, registry, task, halted, slips>>,
           removal.op # "serial", removal'.op # "serial",
           removal' \in {None} \cup [op : {"drain", "check", "session", "serial"}, id : Ids]
    PROVE  IInv'
  <1>1. TypeOK'
    BY DEF IInv, TypeOK
  <1>2. Distinct' /\ RegistryFollows'
    BY DEF IInv, Distinct, RegistryFollows
  <1> QED BY <1>1, <1>2 DEF IInv, HandlesHold, LoadedCurrent, CountersExact, Counted, Steady,
             FlagsSettle, Settles, Mends, Clears, DriversListed, Undisturbed, Holds, At

\* The removal in progress is a record with the port.
LEMMA RemovalIs ==
    ASSUME TypeOK, removal.op # "none"
    PROVE  /\ removal \in [op : {"drain", "check", "session", "serial"}, id : Ids]
           /\ \A op \in {"check", "session", "serial"} :
                /\ [removal EXCEPT !.op = op] \in [op : {"check", "session", "serial"}, id : Ids]
                /\ [removal EXCEPT !.op = op].op = op
                /\ [removal EXCEPT !.op = op].id = removal.id
  BY DEF TypeOK, None

\* remove_port finds the port, waits for its sessions and checks again.
LEMMA RemoveStepsKeep ==
    ASSUME IInv, UNCHANGED <<halted, task>>,
           (\E id \in Ids : RemoveFind(id)) \/ RemoveDrained \/ RemoveCheck
    PROVE  IInv'
  <1>1. CASE \E id \in Ids : RemoveFind(id)
    BY <1>1, RemovalKeeps DEF RemoveFind, None
  <1>2. CASE RemoveDrained
    BY <1>2, RemovalIs, RemovalKeeps DEF RemoveDrained, IInv
  <1>3. CASE RemoveCheck
    <2>1. removal.op = "check" /\ removal' \in {None, [removal EXCEPT !.op = "session"]}
          /\ UNCHANGED <<storage, flag, driver, registry, slips>>
      BY <1>3 DEF RemoveCheck
    <2>2. None.op = "none"
      BY DEF None
    <2> QED BY <2>1, <2>2, RemovalIs, RemovalKeeps DEF IInv
  <1> QED BY <1>1, <1>2, <1>3

\* The session layer drops the port: the counters behind it move up.
LEMMA RemoveSessionKeeps ==
    ASSUME IInv, RemoveSession, UNCHANGED <<halted, task>>
    PROVE  IInv'
  <1> DEFINE n == Len(registry)
  <1>1. PICK k \in 1..n :
          /\ registry[k].id = removal.id
          /\ removal.op = "session" /\ UNCHANGED <<storage, flag, driver>>
          /\ \/ removal' = None /\ UNCHANGED <<registry, slips>>
             \/ /\ registry' = RemoveAt(registry, k)
                /\ slips' = IF \E w \in Workers : At(w, {"add", "subtract"}) /\ task[w].pidx >= k
                            THEN slips \cup {"moved"} ELSE slips
                /\ removal' = [removal EXCEPT !.op = "serial"]
    BY Searches DEF RemoveSession
  <1>2. CASE removal' = None /\ UNCHANGED <<registry, slips>>
    BY <1>1, <1>2, RemovalKeeps DEF None
  <1>3. CASE /\ registry' = RemoveAt(registry, k)
             /\ slips' = IF \E w \in Workers : At(w, {"add", "subtract"}) /\ task[w].pidx >= k
                         THEN slips \cup {"moved"} ELSE slips
             /\ removal' = [removal EXCEPT !.op = "serial"]
    <2>1. /\ removal' \in [op : {"drain", "check", "session", "serial"}, id : Ids]
          /\ removal'.op = "serial" /\ removal'.id = removal.id
      BY <1>1, <1>3, RemovalIs DEF IInv
    <2>2. n \in Nat /\ Len(storage) = n /\ n <= MaxPorts /\ MaxPorts \in Nat
          /\ \A i \in 1..n : registry[i].id = storage[i]
      BY <1>1, Sizes, Elements DEF IInv, RegistryFollows
    <2>3. /\ registry' \in Seq(Counter) /\ Len(registry') = n - 1
          /\ \A j \in 1..n - 1 : registry'[j] = IF j < k THEN registry[j] ELSE registry[j + 1]
      BY <1>3, RemoveAtIs, Elements DEF IInv
    <2>4. slips' = slips \/ slips' = slips \cup {"moved"}
      BY <1>3
    <2> HIDE DEF n
    <2>5. TypeOK'
      BY <1>1, <2>1, <2>2, <2>3, <2>4 DEF IInv, TypeOK, Counter
    <2>6. Distinct' /\ HandlesHold'
      BY <1>1, <2>4 DEF IInv, Distinct, HandlesHold, Holds, At
    <2>7. RegistryFollows'
      <3>1. \A j \in 1..n - 1 : registry'[j].id = storage[IF j < k THEN j ELSE j + 1]
        BY <2>2, <2>3
      <3> QED BY <1>1, <2>1, <2>2, <2>3, <3>1 DEF RegistryFollows, Gap
    <2>8. LoadedCurrent'
      <3> SUFFICES ASSUME Steady', NEW w \in Workers, At(w, {"add", "subtract"})
                   PROVE  /\ task[w].pidx \in 1..n - 1
                          /\ registry'[task[w].pidx] = registry[task[w].pidx]
                          /\ registry[task[w].pidx].id = task[w].id
                          /\ registry[task[w].pidx].active = task[w].seen
        BY <2>3 DEF LoadedCurrent, At
      <3>1. Steady /\ ~(task[w].pidx >= k)
        BY <1>3 DEF Steady
      <3>2. /\ task[w].pidx \in 1..n
            /\ registry[task[w].pidx].id = task[w].id
            /\ registry[task[w].pidx].active = task[w].seen
        BY <3>1 DEF IInv, LoadedCurrent, n
      <3> QED BY <1>1, <2>2, <2>3, <3>1, <3>2
    <2>9. CountersExact'
      <3>1. \A i \in 1..n - 1 : Counted(registry[i].id)' = Counted(registry'[i].id)
        BY DEF Counted, At
      <3>2. \A i \in 1..n - 1 : \E j \in 1..n : registry'[i] = registry[j]
        BY <2>2, <2>3
      <3> QED BY <2>3, <2>4, <3>1, <3>2 DEF IInv, CountersExact, Steady, n
    <2>10. FlagsSettle' /\ DriversListed'
      BY <1>1, <2>4, FlagsKeep DEF Mends, Clears, At
    <2> QED BY <2>5, <2>6, <2>7, <2>8, <2>9, <2>10 DEF IInv
  <1> QED BY <1>1, <1>2, <1>3

\* The adapter drops it: the entries behind it move up, and the handles do not.
LEMMA RemoveSerialKeeps ==
    ASSUME IInv, RemoveSerial, UNCHANGED <<halted, task>>
    PROVE  IInv'
  <1> DEFINE n == Len(storage)
  <1>1. PICK k \in 1..n :
          /\ storage[k] = removal.id /\ removal.op = "serial" /\ removal' = None
          /\ registry' = registry
          /\ driver' = IF flag[k] THEN driver \ {removal.id} ELSE driver
          /\ storage' = RemoveAt(storage, k)
          /\ flag' = Compacted(k)
          /\ slips' = IF \E w \in Workers : Holds(w) /\ task[w].at >= k
                      THEN slips \cup {"moved"} ELSE slips
    BY Searches DEF RemoveSerial
  <1>2. n \in Nat /\ n <= MaxPorts /\ MaxPorts \in Nat
    BY Sizes, Elements DEF IInv
  <1>3. /\ storage' \in Seq(Ids) /\ Len(storage') = n - 1
        /\ \A j \in 1..n - 1 : storage'[j] = IF j < k THEN storage[j] ELSE storage[j + 1]
    BY <1>1, RemoveAtIs, Elements DEF IInv
  <1>4. slips' = slips \/ slips' = slips \cup {"moved"}
    BY <1>1
  <1>5. "moved" \notin slips' =>
          "moved" \notin slips /\ \A w \in Workers : Holds(w) => ~(task[w].at >= k)
    BY <1>1
  <1> HIDE DEF n
  <1>6. TypeOK'
    <2>1. flag' \in [Slots -> BOOLEAN]
      BY <1>1 DEF Compacted, IInv, TypeOK
    <2>2. driver' \subseteq Ids
      BY <1>1 DEF IInv, TypeOK
    <2> QED BY <1>1, <1>2, <1>3, <1>4, <2>1, <2>2 DEF IInv, TypeOK
  <1>7. Distinct'
    <2> DEFINE h(j) == IF j < k THEN j ELSE j + 1
    <2>1. \A j \in 1..n - 1 : h(j) \in 1..n /\ storage'[j] = storage[h(j)]
      BY <1>2, <1>3
    <2>2. \A i, j \in 1..n - 1 : h(i) = h(j) => i = j
      BY <1>2
    <2>3. \A i, j \in 1..n : storage[i] = storage[j] => i = j
      BY DEF IInv, Distinct, n
    <2> HIDE DEF h
    <2>4. \A i, j \in 1..n - 1 : storage'[i] = storage'[j] => i = j
      BY <2>1, <2>2, <2>3
    <2> QED BY <1>3, <2>4 DEF Distinct
  <1>8. RegistryFollows'
    <2>1. PICK g \in 1..n : Gap(g)
      BY <1>1 DEF IInv, RegistryFollows, n
    <2>2. g = k
      BY <1>1, <2>1 DEF IInv, Distinct, Gap, n
    <2>3. Len(registry) + 1 = n
          /\ \A i \in 1..Len(registry) : registry[i].id = storage[IF i < k THEN i ELSE i + 1]
      BY <2>1, <2>2 DEF Gap, n
    <2>4. Len(registry) = n - 1
      BY <1>2, <2>3, Elements DEF IInv
    <2>5. \A i \in 1..n - 1 : registry[i].id = storage'[i]
      BY <1>3, <2>3, <2>4
    <2> QED BY <1>1, <1>3, <2>4, <2>5 DEF RegistryFollows, None
  <1>9. HandlesHold'
    <2> SUFFICES ASSUME "moved" \notin slips', NEW w \in Workers, Holds(w)
                 PROVE  task[w].at \in 1..n - 1 /\ storage'[task[w].at] = task[w].id
      BY <1>3 DEF HandlesHold, Holds, At
    <2>1. task[w].at \in 1..n /\ storage[task[w].at] = task[w].id /\ ~(task[w].at >= k)
      BY <1>5 DEF IInv, HandlesHold, n
    <2> QED BY <1>2, <1>3, <2>1
  <1>10. LoadedCurrent' /\ CountersExact'
    BY <1>1, <1>4 DEF IInv, LoadedCurrent, CountersExact, Counted, Steady, At
  <1>11. Undisturbed' => /\ Undisturbed
                         /\ \A v \in Workers, j \in k..n : ~Mends(v, j) /\ ~Clears(v, j)
    BY <1>1, <1>4, <1>5 DEF Undisturbed, Mends, Clears, Holds, At
  <1>12. \A j \in 1..n : j # k => (storage[j] \in driver <=> storage[j] \in driver')
    BY <1>1 DEF IInv, Distinct, n
  <1>13. FlagsSettle'
    <2> SUFFICES ASSUME Undisturbed', NEW j \in 1..n - 1 PROVE Settles(j)'
      BY <1>3 DEF FlagsSettle
    <2>1. \A i \in 1..n : Settles(i)
      BY <1>11 DEF IInv, FlagsSettle, n
    <2>2. \A v \in Workers, i \in Slots : /\ Mends(v, i) <=> Mends(v, i)'
                                          /\ Clears(v, i) <=> Clears(v, i)'
      BY DEF Mends, Clears, At
    <2>3. j \in 1..n /\ j + 1 \in 1..n /\ j \in Slots
      BY <1>2 DEF Slots
    <2>4. CASE j < k
      <3>1. flag'[j] = flag[j]
        BY <1>1, <2>3, <2>4 DEF Compacted
      <3>2. storage'[j] = storage[j] /\ (storage[j] \in driver <=> storage[j] \in driver')
        BY <1>1, <1>3, <1>12, <2>3, <2>4
      <3> QED BY <2>1, <2>2, <2>3, <3>1, <3>2, SettlesKeep
    <2>5. CASE ~(j < k)
      <3>1. flag'[j] = flag[j + 1] \/ ~(flag'[j] \/ flag[j + 1])
        BY <1>1, <1>2, <2>3, <2>5 DEF Compacted, IInv, TypeOK, n, Slots
      <3>2. /\ storage'[j] = storage[j + 1]
            /\ storage[j + 1] \in driver <=> storage[j + 1] \in driver'
        BY <1>1, <1>2, <1>3, <1>12, <2>3, <2>5
      <3>3. j \in k..n /\ j + 1 \in k..n
        BY <1>1, <1>2, <2>3, <2>5
      <3>4. flag[j + 1] <=> storage[j + 1] \in driver
        BY <1>11, <2>1, <2>3, <3>3 DEF Settles
      <3>5. \A v \in Workers : ~Clears(v, j)'
        BY <1>11, <2>2, <2>3, <3>3
      <3> QED BY <3>1, <3>2, <3>4, <3>5 DEF Settles
    <2> QED BY <2>4, <2>5
  <1>14. DriversListed'
    <2> SUFFICES ASSUME Undisturbed', NEW id \in driver'
                 PROVE  \E j \in 1..n - 1 : storage'[j] = id
      BY <1>3 DEF DriversListed
    <2>1. PICK i \in 1..n : storage[i] = id
      BY <1>1, <1>11 DEF IInv, DriversListed, n
    <2>2. i # k
      <3>1. Settles(k) /\ k \in k..n
        BY <1>1, <1>2, <1>11 DEF IInv, FlagsSettle, n
      <3>2. flag[k] <=> storage[k] \in driver
        BY <1>11, <3>1 DEF Settles
      <3> QED BY <1>1, <2>1, <3>2
    <2>3. CASE i < k
      <3>1. i \in 1..n - 1
        BY <1>1, <1>2, <2>1, <2>3
      <3> QED BY <1>3, <2>1, <2>3, <3>1
    <2>4. CASE i > k
      <3>1. i - 1 \in 1..n - 1 /\ ~(i - 1 < k) /\ (i - 1) + 1 = i
        BY <1>1, <1>2, <2>1, <2>4
      <3> QED BY <1>3, <2>1, <3>1
    <2> QED BY <1>1, <1>2, <2>1, <2>2, <2>3, <2>4
  <1> QED BY <1>6, <1>7, <1>8, <1>9, <1>10, <1>13, <1>14 DEF IInv

---------------------------------------------------------------------------
(* The theorems.                                                           *)

\* Each step keeps the invariant.
LEMMA NextKeeps == IInv /\ [Next]_vars => IInv'
  <1> SUFFICES ASSUME IInv, [Next]_vars PROVE IInv'
    OBVIOUS
  <1>1. CASE Administration
    <2>1. UNCHANGED <<halted, task>>
      BY <1>1 DEF Administration
    <2>2. CASE \E id \in Ids : AddPort(id)
      BY <2>1, <2>2, AddPortKeeps
    <2>3. CASE (\E id \in Ids : RemoveFind(id)) \/ RemoveDrained \/ RemoveCheck
      BY <2>1, <2>3, RemoveStepsKeep
    <2>4. CASE RemoveSession
      BY <2>1, <2>4, RemoveSessionKeeps
    <2>5. CASE RemoveSerial
      BY <2>1, <2>5, RemoveSerialKeeps
    <2> QED BY <1>1, <2>2, <2>3, <2>4, <2>5 DEF Administration
  <1>2. CASE \E w \in Workers : SessionTask(w)
    <2>1. PICK w \in Workers : SessionTask(w)
      BY <1>2
    <2>2. CASE Fault(w)
      BY <2>1, <2>2, FaultKeeps DEF SessionTask
    <2>3. CASE UNCHANGED halted /\ (Serve(w) \/ ClientEnds(w) \/ \E id \in Ids : OpenFind(w, id))
      <3>1. UNCHANGED <<removal, halted>>
        BY <2>1, <2>3 DEF SessionTask
      <3>2. CASE \E id \in Ids : OpenFind(w, id)
        BY <3>1, <3>2, OpenFindKeeps
      <3>3. CASE OpenInstall(w) \/ OpenMark(w)
        BY <3>1, <3>3, InstallKeeps
      <3>4. CASE OpenHandle(w)
        BY <3>1, <3>4, MovesKeep
      <3>5. CASE OpenStarves(w) \/ OpenFails(w) \/ CloseUnmark(w)
        BY <3>1, <3>5, LeavingKeeps
      <3>6. CASE InitialiseFails(w) \/ Register(w) \/ ClientEnds(w) \/ IoFails(w)
        BY <3>1, <3>6, MovesKeep
      <3>7. CASE InitialiseLoad(w) \/ InitialiseStore(w)
        BY <3>1, <3>7, InitialiseLoadKeeps, InitialiseStoreKeeps
      <3>8. CASE DisconnectLoad(w) \/ DisconnectStore(w)
        BY <3>1, <3>8, DisconnectLoadKeeps, DisconnectStoreKeeps
      <3>9. CASE CloseDelete(w)
        BY <3>1, <3>9, CloseDeleteKeeps
      <3> QED BY <2>3, <3>2, <3>3, <3>4, <3>5, <3>6, <3>7, <3>8, <3>9 DEF Serve
    <2> QED BY <2>1, <2>2, <2>3 DEF SessionTask
  <1>3. CASE UNCHANGED vars
    BY <1>3 DEF vars, IInv, TypeOK, Distinct, RegistryFollows, Gap, HandlesHold, LoadedCurrent,
       CountersExact, Counted, Steady, FlagsSettle, Settles, Mends, Clears, DriversListed,
             Undisturbed, Holds, At
  <1> QED BY <1>1, <1>2, <1>3 DEF Next

\* The invariant holds in every state.
LEMMA Inductive == Spec => []IInv
  BY InitInv, NextKeeps, PTL DEF Spec

\* The variables have their types: no counter is taken below zero, and the
\* tables stay within their arrays (handle_disconnect, add_port).
THEOREM TypeCorrect == Spec => []TypeOK
  <1>1. IInv => TypeOK
    BY DEF IInv
  <1> QED BY <1>1, Inductive, PTL

\* active_sessions, on which remove_port relies, is the number of sessions of
\* the port in every state, for any number of ports and session tasks and with
\* every failure, as long as no two of its updates overlapped and no removal
\* hit an entry in use (initialise, handle_disconnect, remove_port).
THEOREM CountsAre == Spec => []CountsExact
  <1>1. IInv => CountsExact
    BY Elements DEF IInv, CountersExact, Counted, Steady, CountsExact
  <1> QED BY <1>1, Inductive, PTL

\* When no worker holds a handle, the flags and the UART drivers agree, and no
\* driver is left behind, whatever the opens and closes of the sessions of a port
\* did to each other, until a removal hits a session or an open that found no
\* memory leaves the flag to another's close or without its driver
\* (esp32_open_serial, esp32_close_serial, ser2net_esp32_unregister_port).
THEOREM FlagsTrue == Spec => []FlagsAgree
  <1>1. IInv => FlagsAgree
    <2> SUFFICES ASSUME IInv, Quiet, Undisturbed PROVE
          (\A i \in DOMAIN storage : flag[i] <=> storage[i] \in driver)
          /\ driver \subseteq ToSet(storage)
      BY DEF FlagsAgree, Undisturbed
    <2>1. \A w \in Workers, i \in Slots : ~Mends(w, i) /\ ~Clears(w, i)
      BY DEF Quiet, Holds, At, Mends, Clears
    <2>2. \A i \in 1..Len(storage) : flag[i] <=> storage[i] \in driver
      BY <2>1, Elements DEF IInv, FlagsSettle, Settles
    <2>3. driver \subseteq ToSet(storage)
      BY Elements DEF IInv, DriversListed, ToSet
    <2> QED BY <2>2, <2>3, Elements DEF IInv
  <1> QED BY <1>1, Inductive, PTL
===============================================================================
