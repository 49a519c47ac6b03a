-------------------------- MODULE PortTablesProofs --------------------------
(***************************************************************************)
(* Theorems about PortTables for every table size, set of TCP ports and    *)
(* set of tasks that call the API: which table names which port at each    *)
(* stage of add_port and remove_port, while set_port_mode interleaves with *)
(* both, and which interface belongs to which listener; and that the calls *)
(* together keep the set of ports that PortSet specifies.                  *)
(***************************************************************************)
EXTENDS PortTablesRefines, FiniteSetTheorems, SequenceTheorems, TLAPS

---------------------------------------------------------------------------
(* The inductive invariant.                                                *)

\* The ports of a table in their order.
Key       == Ids \X Tcps
Keys(reg) == [i \in DOMAIN reg |-> KeyOf(reg[i])]

Distinct(K) ==
    \A i, j \in DOMAIN K : K[i][1] = K[j][1] \/ K[i][2] = K[j][2] => i = j

LockedOps == {"publish", "drain", "shift", "table"}

Holding(op) == lock \in Admins /\ call[lock].op = op

\* The call that holds the lock is at one of its stages, and no other is.
OneHolder ==
    /\ lock \in Admins => call[lock].op \in LockedOps
    /\ \A a \in Admins : call[a].op \in LockedOps => lock = a

\* The listeners are the ports of the table but for the one that comes or goes.
FreeAgrees ==
    lock = None \/ Holding("drain") => Keys(listeners) = Keys(ports)

PublishAgrees ==
    Holding("publish") =>
        LET K == Append(Keys(ports), KeyOf(call[lock].port)) IN
        Distinct(K) /\ Keys(listeners) = K

ShiftAgrees ==
    Holding("shift") =>
        \E i \in DOMAIN ports :
            /\ ports[i].tcp = call[lock].tcp /\ listeners[i].net = 0
            /\ Keys(listeners) = Keys(ports)

TableAgrees ==
    Holding("table") =>
        \E i \in DOMAIN ports :
            ports[i].tcp = call[lock].tcp /\ Keys(listeners) = RemoveAt(Keys(ports), i)

KeysInStep ==
    /\ lock # Gone => Distinct(Keys(ports))
    /\ FreeAgrees /\ PublishAgrees /\ ShiftAgrees /\ TableAgrees

\* Interfaces and the listeners that have one belong to each other.
NetsInStep ==
    /\ \A i, j \in DOMAIN listeners :
         listeners[i].net = listeners[j].net => i = j \/ listeners[i].net = 0
    /\ \A j \in DOMAIN listeners :
         listeners[j].net # 0 => nets[listeners[j].net] = listeners[j].tcp
    /\ \A s \in Slots : nets[s] # 0 => \E j \in DOMAIN listeners : listeners[j].net = s

IInv == TypeOK /\ OneHolder /\ KeysInStep /\ NetsInStep

---------------------------------------------------------------------------
(* Sequences and their keys.                                               *)

\* Removing an element closes the gap it leaves.
LEMMA RemoveAtIs ==
    ASSUME NEW S, NEW s \in Seq(S), NEW i \in 1..Len(s)
    PROVE  /\ RemoveAt(s, i) \in Seq(S) /\ Len(RemoveAt(s, i)) = Len(s) - 1
           /\ \A j \in 1..Len(s) - 1 : RemoveAt(s, i)[j] = IF j < i THEN s[j] ELSE s[j + 1]
  <1> DEFINE n == Len(s)
             u == SubSeq(s, 1, i - 1)
             v == SubSeq(s, i + 1, n)
  <1>1. n \in Nat /\ i \in 1..n
    OBVIOUS
  <1>2. u \in Seq(S) /\ Len(u) = i - 1 /\ \A j \in 1..i - 1 : u[j] = s[j]
    BY <1>1
  <1>3. v \in Seq(S) /\ Len(v) = n - i /\ \A j \in 1..n - i : v[j] = s[i + j]
    BY <1>1
  <1>4. RemoveAt(s, i) = u \o v
    BY DEF RemoveAt
  <1> HIDE DEF n, u, v
  <1>5. /\ u \o v \in Seq(S) /\ Len(u \o v) = Len(u) + Len(v)
        /\ \A j \in 1..Len(u) + Len(v) : (u \o v)[j] = IF j <= Len(u) THEN u[j] ELSE v[j - Len(u)]
    BY <1>2, <1>3, ConcatProperties
  <1>6. u \o v \in Seq(S) /\ Len(u \o v) = n - 1
    BY <1>1, <1>2, <1>3, <1>5
  <1>7. ASSUME NEW j \in 1..n - 1 PROVE (u \o v)[j] = IF j < i THEN s[j] ELSE s[j + 1]
    <2>1. CASE j < i
      <3>1. j \in 1..i - 1 /\ j \in 1..Len(u) + Len(v) /\ j <= Len(u)
        BY <2>1, <1>1, <1>2, <1>3
      <3> QED BY <2>1, <3>1, <1>2, <1>5
    <2>2. CASE ~(j < i)
      <3>1. /\ j \in 1..Len(u) + Len(v) /\ ~(j <= Len(u))
            /\ j - Len(u) \in 1..n - i /\ i + (j - Len(u)) = j + 1
        BY <2>2, <1>1, <1>2, <1>3
      <3> QED BY <2>2, <3>1, <1>3, <1>5
    <2> QED BY <2>1, <2>2
  <1> QED BY <1>4, <1>6, <1>7 DEF n

\* The keys of a table are a sequence of their own.
LEMMA KeysAre ==
    ASSUME NEW S, NEW reg \in Seq(S), \A e \in S : KeyOf(e) \in Key
    PROVE  /\ Keys(reg) \in Seq(Key) /\ Len(Keys(reg)) = Len(reg)
           /\ DOMAIN Keys(reg) = 1..Len(reg)
           /\ \A i \in 1..Len(reg) : /\ Keys(reg)[i] = KeyOf(reg[i])
                                     /\ Keys(reg)[i][1] = reg[i].id
                                     /\ Keys(reg)[i][2] = reg[i].tcp
  <1>1. Len(reg) \in Nat /\ DOMAIN reg = 1..Len(reg) /\ \A i \in 1..Len(reg) : reg[i] \in S
    OBVIOUS
  <1>2. Keys(reg) = [i \in 1..Len(reg) |-> KeyOf(reg[i])]
    BY <1>1 DEF Keys
  <1>3. \A e : KeyOf(e)[1] = e.id /\ KeyOf(e)[2] = e.tcp
    BY DEF KeyOf
  <1>4. \A i \in 1..Len(reg) : KeyOf(reg[i]) \in Key
    BY <1>1
  <1> QED BY <1>1, <1>2, <1>3, <1>4

\* An entry appended to a table appends its key.
LEMMA KeysAppend ==
    ASSUME NEW S, NEW reg \in Seq(S), NEW e \in S, \A x \in S : KeyOf(x) \in Key
    PROVE  Keys(Append(reg, e)) = Append(Keys(reg), KeyOf(e))
  <1> DEFINE n == Len(reg)
             A == Append(reg, e)
             B == Append(Keys(reg), KeyOf(e))
  <1>1. /\ A \in Seq(S) /\ Len(A) = n + 1 /\ A[n + 1] = e /\ \A i \in 1..n : A[i] = reg[i]
    OBVIOUS
  <1>2. /\ Keys(reg) \in Seq(Key) /\ Len(Keys(reg)) = n
        /\ \A i \in 1..n : Keys(reg)[i] = KeyOf(reg[i])
    BY KeysAre
  <1>3. /\ B \in Seq(Key) /\ Len(B) = n + 1 /\ B[n + 1] = KeyOf(e)
        /\ \A i \in 1..n : B[i] = Keys(reg)[i]
    BY <1>2, AppendProperties
  <1> HIDE DEF A, B
  <1>4. /\ Keys(A) \in Seq(Key) /\ Len(Keys(A)) = n + 1
        /\ \A i \in 1..n + 1 : Keys(A)[i] = KeyOf(A[i])
    BY <1>1, KeysAre
  <1>5. \A i \in 1..n + 1 : Keys(A)[i] = B[i]
    BY <1>1, <1>2, <1>3, <1>4
  <1> QED BY <1>3, <1>4, <1>5, SeqEqual DEF A, B

\* An entry removed from a table removes its key.
LEMMA KeysRemove ==
    ASSUME NEW S, NEW reg \in Seq(S), NEW k \in 1..Len(reg), \A x \in S : KeyOf(x) \in Key
    PROVE  Keys(RemoveAt(reg, k)) = RemoveAt(Keys(reg), k)
  <1> DEFINE n == Len(reg)
             A == RemoveAt(reg, k)
             B == RemoveAt(Keys(reg), k)
  <1>0. n \in Nat \ {0} /\ k \in 1..n
    OBVIOUS
  <1>1. /\ A \in Seq(S) /\ Len(A) = n - 1
        /\ \A i \in 1..n - 1 : A[i] = IF i < k THEN reg[i] ELSE reg[i + 1]
    BY RemoveAtIs
  <1>2. /\ Keys(reg) \in Seq(Key) /\ Len(Keys(reg)) = n
        /\ \A i \in 1..n : Keys(reg)[i] = KeyOf(reg[i])
    BY KeysAre
  <1>3. /\ B \in Seq(Key) /\ Len(B) = n - 1
        /\ \A i \in 1..n - 1 : B[i] = IF i < k THEN Keys(reg)[i] ELSE Keys(reg)[i + 1]
    BY <1>2, RemoveAtIs
  <1> HIDE DEF A, B, n
  <1>4. /\ Keys(A) \in Seq(Key) /\ Len(Keys(A)) = n - 1
        /\ \A i \in 1..n - 1 : Keys(A)[i] = KeyOf(A[i])
    BY <1>1, KeysAre
  <1>5. ASSUME NEW i \in 1..n - 1 PROVE Keys(A)[i] = B[i]
    <2>1. i \in 1..n /\ i + 1 \in 1..n
      BY <1>0
    <2> QED BY <2>1, <1>1, <1>2, <1>3, <1>4
  <1> QED BY <1>3, <1>4, <1>5, SeqEqual DEF A, B

\* What is distinct stays so without one of its elements.
LEMMA DistinctRemove ==
    ASSUME NEW K \in Seq(Key), Distinct(K), NEW k \in 1..Len(K)
    PROVE  Distinct(RemoveAt(K, k))
  <1> DEFINE n == Len(K)
             B == RemoveAt(K, k)
  <1>1. n \in Nat \ {0} /\ k \in 1..n /\ DOMAIN K = 1..n
    OBVIOUS
  <1>2. /\ B \in Seq(Key) /\ Len(B) = n - 1
        /\ \A i \in 1..n - 1 : B[i] = IF i < k THEN K[i] ELSE K[i + 1]
    BY RemoveAtIs
  <1> HIDE DEF n, B
  <1>3. \A i \in 1..n - 1 : i \in 1..n /\ i + 1 \in 1..n
    BY <1>1
  <1>4. DOMAIN B = 1..n - 1
    BY <1>2
  <1>5. ASSUME NEW i \in 1..n - 1, NEW j \in 1..n - 1, B[i][1] = B[j][1] \/ B[i][2] = B[j][2]
        PROVE  i = j
    <2> DEFINE at(m) == IF m < k THEN m ELSE m + 1
    <2>1. at(i) \in 1..n /\ at(j) \in 1..n /\ B[i] = K[at(i)] /\ B[j] = K[at(j)]
      BY <1>2, <1>3
    <2>2. at(i) = at(j)
      BY <1>1, <1>5, <2>1 DEF Distinct
    <2> QED BY <1>1, <2>2
  <1> QED BY <1>4, <1>5 DEF Distinct, B

\* With a key that is new it stays distinct.
LEMMA DistinctAppend ==
    ASSUME NEW K \in Seq(Key), Distinct(K), NEW x \in Key,
           \A i \in 1..Len(K) : K[i][1] # x[1] /\ K[i][2] # x[2]
    PROVE  Distinct(Append(K, x))
  <1> DEFINE n == Len(K)
             B == Append(K, x)
  <1>1. n \in Nat /\ DOMAIN K = 1..n
    OBVIOUS
  <1>2. /\ DOMAIN B = 1..n + 1 /\ B[n + 1] = x /\ \A i \in 1..n : B[i] = K[i]
    OBVIOUS
  <1> HIDE DEF n, B
  <1>3. \A i \in 1..n + 1 : i \in 1..n \/ i = n + 1
    BY <1>1
  <1>4. \A i \in 1..n : K[i][1] # x[1] /\ K[i][2] # x[2]
    BY DEF n
  <1> QED BY <1>1, <1>2, <1>3, <1>4 DEF Distinct, B

\* In a table of distinct ports a search finds the one it looks for.
LEMMA SearchFinds ==
    ASSUME NEW S, NEW reg \in Seq(S), \A x \in S : KeyOf(x) \in Key,
           Distinct(Keys(reg)), NEW k \in 1..Len(reg)
    PROVE  IdAt(reg, reg[k].id) = {k} /\ TcpAt(reg, reg[k].tcp) = {k}
  <1>1. DOMAIN reg = 1..Len(reg) /\ Len(reg) \in Nat
    OBVIOUS
  <1>2. \A i, j \in 1..Len(reg) : reg[i].id = reg[j].id \/ reg[i].tcp = reg[j].tcp => i = j
    BY KeysAre DEF Distinct
  <1> QED BY <1>1, <1>2 DEF IdAt, TcpAt, First

\* Unregistering a port that is there removes its entry, and no other.
LEMMA WithoutIs ==
    ASSUME NEW S, NEW reg \in Seq(S), \A x \in S : KeyOf(x) \in Key,
           Distinct(Keys(reg)), NEW k \in 1..Len(reg)
    PROVE  Without(reg, reg[k].id) = RemoveAt(reg, k)
  <1>1. IdAt(reg, reg[k].id) = {k}
    BY SearchFinds
  <1> QED BY <1>1 DEF Without

\* Unregistering leaves a registry, and none longer.
LEMMA WithoutTyped ==
    ASSUME NEW S, NEW reg \in Seq(S), NEW id
    PROVE  Without(reg, id) \in Seq(S) /\ Len(Without(reg, id)) <= Len(reg)
  <1>1. CASE IdAt(reg, id) = {}
    BY <1>1 DEF Without
  <1>2. CASE IdAt(reg, id) # {}
    <2> DEFINE i == CHOOSE k \in IdAt(reg, id) : TRUE
    <2>1. i \in 1..Len(reg)
      BY <1>2 DEF IdAt, First
    <2>2. Without(reg, id) = RemoveAt(reg, i)
      BY <1>2 DEF Without
    <2> HIDE DEF i
    <2> QED BY <2>1, <2>2, RemoveAtIs
  <1> QED BY <1>1, <1>2

\* Unregistering what was just registered gives the table back.
LEMMA WithoutLast ==
    ASSUME NEW S, NEW reg \in Seq(S), NEW e \in S,
           \A i \in DOMAIN reg : reg[i].id # e.id
    PROVE  Without(Append(reg, e), e.id) = reg
  <1> DEFINE n == Len(reg)
             A == Append(reg, e)
  <1>1. /\ A \in Seq(S) /\ Len(A) = n + 1 /\ A[n + 1] = e /\ n \in Nat
        /\ DOMAIN A = 1..n + 1 /\ \A i \in 1..n : A[i] = reg[i]
    OBVIOUS
  <1>2. \A i \in 1..n : A[i].id # e.id
    BY <1>1
  <1> HIDE DEF A
  <1>3. {i \in DOMAIN A : A[i].id = e.id} = {n + 1}
    BY <1>1, <1>2
  <1>4. IdAt(A, e.id) = {n + 1}
    BY <1>1, <1>3 DEF IdAt, First
  <1>5. Without(A, e.id) = RemoveAt(A, n + 1)
    BY <1>4 DEF Without
  <1>6. n + 1 \in 1..Len(A)
    BY <1>1
  <1>7. /\ RemoveAt(A, n + 1) \in Seq(S) /\ Len(RemoveAt(A, n + 1)) = Len(A) - 1
        /\ \A i \in 1..Len(A) - 1 : RemoveAt(A, n + 1)[i] = IF i < n + 1 THEN A[i] ELSE A[i + 1]
    BY <1>1, <1>6, RemoveAtIs
  <1>8. Len(RemoveAt(A, n + 1)) = n /\ \A i \in 1..n : RemoveAt(A, n + 1)[i] = reg[i]
    BY <1>1, <1>7
  <1>9. RemoveAt(A, n + 1) = reg
    BY <1>7, <1>8, SeqEqual
  <1> QED BY <1>5, <1>9 DEF A

---------------------------------------------------------------------------
(* Types of entries and calls.                                             *)

SessPort   == [id : Ids, tcp : Tcps, mode : Modes]
SerialPort == [id : Ids, tcp : Tcps]

\* The entries of every table have a key.
LEMMA EntryKeys ==
    /\ \A e \in Port : KeyOf(e) \in Key
    /\ \A e \in Listener : KeyOf(e) \in Key
    /\ \A e \in SessPort : KeyOf(e) \in Key
    /\ \A e \in SerialPort : KeyOf(e) \in Key
  BY DEF Port, Listener, SessPort, SerialPort, KeyOf, Key

\* What is registered of a port is an entry of each table, with its key.
LEMMA EntriesOf ==
    ASSUME NEW p \in Port, NEW s \in Slots
    PROVE  /\ Listening(p, s) \in Listener /\ KeyOf(Listening(p, s)) = KeyOf(p)
           /\ Listening(p, s).net = s /\ Listening(p, s).tcp = p.tcp
           /\ InSession(p) \in SessPort /\ KeyOf(InSession(p)) = KeyOf(p)
           /\ InSerial(p) \in SerialPort /\ KeyOf(InSerial(p)) = KeyOf(p)
           /\ InSession(p).id = p.id /\ InSerial(p).id = p.id
           /\ p.id \in Ids /\ p.tcp \in Tcps
  BY DEF Port, Listener, SessPort, SerialPort, Listening, InSession, InSerial, KeyOf

\* A call at a stage has the fields of that stage.
LEMMA CallFields ==
    ASSUME NEW c \in Calls
    PROVE  /\ c.op = "publish" => c.port \in Port
           /\ c.op \in {"drain", "shift", "table"} => c.tcp \in Tcps
           /\ c.op \in {"session", "entry", "copy", "own"} =>
                c.tcp \in Tcps /\ c.at \in Slots /\ c.mode \in Modes /\ c.on \in BOOLEAN
  BY DEF Calls, Idle

\* Moving on to another stage of the same call keeps the fields.
LEMMA CallStages ==
    ASSUME NEW c \in Calls
    PROVE  /\ \A op \in {"drain", "shift", "table"} :
                c.op \in {"drain", "shift", "table"} =>
                    /\ [c EXCEPT !.op = op] \in Calls
                    /\ [c EXCEPT !.op = op].op = op /\ [c EXCEPT !.op = op].tcp = c.tcp
           /\ \A op \in {"session", "entry", "copy", "own"} :
                c.op \in {"session", "entry", "copy", "own"} =>
                    [c EXCEPT !.op = op] \in Calls /\ [c EXCEPT !.op = op].op = op
           /\ Idle \in Calls /\ Idle.op = "idle"
  BY DEF Calls, Idle

\* The types of the tables, by the names of their entries.
LEMMA TypesAre ==
    TypeOK <=>
        /\ ports \in Seq(Port) /\ Len(ports) <= MaxPorts
        /\ listeners \in Seq(Listener) /\ Len(listeners) <= MaxPorts
        /\ sess \in Seq(SessPort) /\ Len(sess) <= MaxPorts
        /\ serial \in Seq(SerialPort) /\ Len(serial) <= MaxPorts
        /\ nets \in [Slots -> Tcps \cup {0}]
        /\ stray \subseteq Ids \X Tcps
        /\ lock \in Admins \cup {None, Gone}
        /\ call \in [Admins -> Calls]
        /\ shell \in 0..MaxPorts
  BY DEF TypeOK, SessPort, SerialPort

\* The tables and their keys, element by element.
TableKeys ==
    /\ Keys(ports) \in Seq(Key) /\ Len(Keys(ports)) = Len(ports)
    /\ Keys(listeners) \in Seq(Key) /\ Len(Keys(listeners)) = Len(listeners)
    /\ Keys(sess) \in Seq(Key) /\ Len(Keys(sess)) = Len(sess)
    /\ Keys(serial) \in Seq(Key) /\ Len(Keys(serial)) = Len(serial)
    /\ DOMAIN ports = 1..Len(ports) /\ Len(ports) \in Nat
    /\ DOMAIN listeners = 1..Len(listeners) /\ Len(listeners) \in Nat
    /\ DOMAIN sess = 1..Len(sess) /\ Len(sess) \in Nat
    /\ DOMAIN serial = 1..Len(serial) /\ Len(serial) \in Nat
    /\ \A i \in DOMAIN ports :
         /\ ports[i] \in Port /\ Keys(ports)[i] = KeyOf(ports[i])
         /\ Keys(ports)[i][1] = ports[i].id /\ Keys(ports)[i][2] = ports[i].tcp
    /\ \A i \in DOMAIN listeners :
         /\ listeners[i] \in Listener /\ Keys(listeners)[i] = KeyOf(listeners[i])
         /\ Keys(listeners)[i][1] = listeners[i].id /\ Keys(listeners)[i][2] = listeners[i].tcp
    /\ \A i \in DOMAIN sess :
         Keys(sess)[i][1] = sess[i].id /\ Keys(sess)[i][2] = sess[i].tcp
    /\ \A i \in DOMAIN serial :
         Keys(serial)[i][1] = serial[i].id /\ Keys(serial)[i][2] = serial[i].tcp

\* They hold of every typed state.
LEMMA TableKeysHold == TypeOK => TableKeys
  <1> SUFFICES ASSUME TypeOK PROVE TableKeys
    OBVIOUS
  <1>1. /\ ports \in Seq(Port) /\ listeners \in Seq(Listener)
        /\ sess \in Seq(SessPort) /\ serial \in Seq(SerialPort)
    BY TypesAre
  <1>2. /\ DOMAIN ports = 1..Len(ports) /\ Len(ports) \in Nat
        /\ DOMAIN listeners = 1..Len(listeners) /\ Len(listeners) \in Nat
        /\ DOMAIN sess = 1..Len(sess) /\ Len(sess) \in Nat
        /\ DOMAIN serial = 1..Len(serial) /\ Len(serial) \in Nat
        /\ \A i \in DOMAIN ports : ports[i] \in Port
        /\ \A i \in DOMAIN listeners : listeners[i] \in Listener
    BY <1>1
  <1>3. /\ Keys(ports) \in Seq(Key) /\ Len(Keys(ports)) = Len(ports)
        /\ \A i \in 1..Len(ports) : /\ Keys(ports)[i] = KeyOf(ports[i])
                                    /\ Keys(ports)[i][1] = ports[i].id
                                    /\ Keys(ports)[i][2] = ports[i].tcp
    BY <1>1, EntryKeys, KeysAre
  <1>4. /\ Keys(listeners) \in Seq(Key) /\ Len(Keys(listeners)) = Len(listeners)
        /\ \A i \in 1..Len(listeners) : /\ Keys(listeners)[i] = KeyOf(listeners[i])
                                        /\ Keys(listeners)[i][1] = listeners[i].id
                                        /\ Keys(listeners)[i][2] = listeners[i].tcp
    BY <1>1, EntryKeys, KeysAre
  <1>5. /\ Keys(sess) \in Seq(Key) /\ Len(Keys(sess)) = Len(sess)
        /\ \A i \in 1..Len(sess) : /\ Keys(sess)[i][1] = sess[i].id
                                   /\ Keys(sess)[i][2] = sess[i].tcp
    BY <1>1, EntryKeys, KeysAre
  <1>6. /\ Keys(serial) \in Seq(Key) /\ Len(Keys(serial)) = Len(serial)
        /\ \A i \in 1..Len(serial) : /\ Keys(serial)[i][1] = serial[i].id
                                     /\ Keys(serial)[i][2] = serial[i].tcp
    BY <1>1, EntryKeys, KeysAre
  <1> QED BY <1>2, <1>3, <1>4, <1>5, <1>6 DEF TableKeys

\* So they do after a step.
LEMMA TableKeysNext == TypeOK' => TableKeys'
  BY TableKeysHold, PTL

---------------------------------------------------------------------------
(* The steps.                                                              *)

\* Entries with the same keys.
LEMMA KeysSame ==
    ASSUME NEW S, NEW reg \in Seq(S), NEW new \in Seq(S), Len(new) = Len(reg),
           \A i \in 1..Len(reg) : new[i].id = reg[i].id /\ new[i].tcp = reg[i].tcp
    PROVE  Keys(new) = Keys(reg)
  <1>1. DOMAIN new = 1..Len(reg) /\ DOMAIN reg = 1..Len(reg)
    OBVIOUS
  <1> QED BY <1>1 DEF Keys, KeyOf

\* A step beside the call that holds the lock, which moves no port.
LEMMA Bystander ==
    ASSUME IInv, TypeOK', lock' = lock, nets' = nets,
           Keys(ports)' = Keys(ports), Keys(listeners)' = Keys(listeners),
           \A j \in DOMAIN listeners : listeners'[j].net = listeners[j].net,
           \A a \in Admins : \/ call'[a] = call[a]
                             \/ call[a].op \notin LockedOps /\ call'[a].op \notin LockedOps
    PROVE  IInv'
  <1>1. TableKeys /\ TableKeys'
    BY TableKeysHold, TableKeysNext DEF IInv
  <1>2. DOMAIN listeners' = DOMAIN listeners /\ DOMAIN ports' = DOMAIN ports
    BY <1>1 DEF TableKeys
  <1>3. /\ \A j \in DOMAIN listeners : listeners'[j].tcp = listeners[j].tcp
        /\ \A i \in DOMAIN ports : ports'[i].tcp = ports[i].tcp
    BY <1>1, <1>2 DEF TableKeys
  <1>4. OneHolder'
    BY DEF OneHolder, IInv
  <1>5. lock \in Admins => call'[lock] = call[lock]
    BY DEF IInv, OneHolder
  <1>6. KeysInStep'
    <2>1. \A op : Holding(op)' <=> Holding(op)
      BY <1>5 DEF Holding
    <2>2. (lock # Gone => Distinct(Keys(ports)))' /\ FreeAgrees'
      BY <2>1 DEF IInv, KeysInStep, FreeAgrees
    <2>3. PublishAgrees'
      <3> SUFFICES ASSUME Holding("publish")
                   PROVE  LET K == Append(Keys(ports)', KeyOf(call'[lock].port)) IN
                          Distinct(K) /\ Keys(listeners)' = K
        BY <2>1 DEF PublishAgrees
      <3>1. call'[lock] = call[lock]
        BY <1>5 DEF Holding
      <3> QED BY <3>1 DEF IInv, KeysInStep, PublishAgrees
    <2>4. ShiftAgrees'
      <3> SUFFICES ASSUME Holding("shift")
                   PROVE  \E i \in DOMAIN ports' :
                            /\ ports'[i].tcp = call'[lock].tcp /\ listeners'[i].net = 0
                            /\ Keys(listeners)' = Keys(ports)'
        BY <2>1 DEF ShiftAgrees
      <3>1. PICK i \in DOMAIN ports :
              /\ ports[i].tcp = call[lock].tcp /\ listeners[i].net = 0
              /\ Keys(listeners) = Keys(ports)
        BY DEF IInv, KeysInStep, ShiftAgrees
      <3>2. i \in DOMAIN listeners
        BY <3>1, <1>1 DEF TableKeys
      <3>3. call'[lock] = call[lock]
        BY <1>5 DEF Holding
      <3> QED BY <3>1, <3>2, <3>3, <1>2, <1>3
    <2>5. TableAgrees'
      <3> SUFFICES ASSUME Holding("table")
                   PROVE  \E i \in DOMAIN ports' :
                            /\ ports'[i].tcp = call'[lock].tcp
                            /\ Keys(listeners)' = RemoveAt(Keys(ports)', i)
        BY <2>1 DEF TableAgrees
      <3>1. PICK i \in DOMAIN ports :
              ports[i].tcp = call[lock].tcp /\ Keys(listeners) = RemoveAt(Keys(ports), i)
        BY DEF IInv, KeysInStep, TableAgrees
      <3>2. call'[lock] = call[lock]
        BY <1>5 DEF Holding
      <3> QED BY <3>1, <3>2, <1>2, <1>3
    <2> QED BY <2>2, <2>3, <2>4, <2>5 DEF KeysInStep
  <1>7. NetsInStep'
    BY <1>2, <1>3 DEF IInv, NetsInStep
  <1> QED BY <1>4, <1>6, <1>7 DEF IInv

\* With the tables unchanged and the lock free there is nothing to be in step
\* with but the tables themselves.
LEMMA AgreeWhenFree ==
    ASSUME IInv, lock = None \/ Holding("drain")
    PROVE  /\ TableKeys /\ Distinct(Keys(ports)) /\ Keys(listeners) = Keys(ports)
           /\ Len(listeners) = Len(ports)
           /\ \A i \in DOMAIN ports :
                listeners[i].id = ports[i].id /\ listeners[i].tcp = ports[i].tcp
  <1>1. TableKeys
    BY TableKeysHold DEF IInv
  <1>2. lock # Gone
    BY PortAssumption DEF Holding
  <1>3. Distinct(Keys(ports)) /\ Keys(listeners) = Keys(ports)
    BY <1>2 DEF IInv, KeysInStep, FreeAgrees
  <1>4. /\ Len(listeners) = Len(ports)
        /\ \A i \in DOMAIN ports :
             listeners[i].id = ports[i].id /\ listeners[i].tcp = ports[i].tcp
    BY <1>1, <1>3 DEF TableKeys
  <1> QED BY <1>1, <1>3, <1>4

\* add_port publishes the port everywhere but in the port table.
LEMMA PublishKeeps ==
    ASSUME IInv, NEW a \in Admins, NEW id \in Ids \cup {AutoId}, NEW p \in Described(id),
           AddPublish(a, id, p)
    PROVE  IInv'
  <1> DEFINE K == Keys(ports)
             K1 == Append(K, KeyOf(p))
             n == Len(listeners)
  <1>1. PICK s \in Slots :
          /\ nets[s] = 0 /\ nets' = [nets EXCEPT ![s] = p.tcp]
          /\ listeners' = Append(listeners, Listening(p, s))
    BY DEF AddPublish, First
  <1>2. /\ lock = None /\ lock' = a /\ ports' = ports /\ shell' = shell /\ stray' = stray
        /\ serial' = Append(serial, InSerial(p)) /\ sess' = Append(sess, InSession(p))
        /\ call' = [call EXCEPT ![a] = [op |-> "publish", port |-> p]]
        /\ Len(listeners) < MaxPorts /\ Len(sess) < MaxPorts /\ Len(serial) < MaxPorts
        /\ \A i \in DOMAIN ports : ports[i].id # p.id /\ ports[i].tcp # p.tcp
    BY DEF AddPublish, MayAdd, CanRegister
  <1>3. p \in Port
    BY DEF Described
  <1>4. /\ TableKeys /\ Distinct(K) /\ Keys(listeners) = K
    BY <1>2, AgreeWhenFree
  <1>5. /\ ports \in Seq(Port) /\ listeners \in Seq(Listener) /\ sess \in Seq(SessPort)
        /\ serial \in Seq(SerialPort) /\ nets \in [Slots -> Tcps \cup {0}]
        /\ call \in [Admins -> Calls] /\ Len(ports) <= MaxPorts /\ shell \in 0..MaxPorts
        /\ stray \subseteq Ids \X Tcps
    BY TypesAre DEF IInv
  <1>6. /\ Listening(p, s) \in Listener /\ KeyOf(Listening(p, s)) = KeyOf(p)
        /\ Listening(p, s).net = s /\ Listening(p, s).tcp = p.tcp
        /\ InSession(p) \in SessPort /\ KeyOf(InSession(p)) = KeyOf(p)
        /\ InSerial(p) \in SerialPort /\ KeyOf(InSerial(p)) = KeyOf(p)
        /\ p.id \in Ids /\ p.tcp \in Tcps
    BY <1>3, EntriesOf
  <1>7. TypeOK'
    <2>1. [op |-> "publish", port |-> p] \in Calls
      BY <1>3 DEF Calls
    <2>2. /\ listeners' \in Seq(Listener) /\ Len(listeners') <= MaxPorts
          /\ sess' \in Seq(SessPort) /\ Len(sess') <= MaxPorts
          /\ serial' \in Seq(SerialPort) /\ Len(serial') <= MaxPorts
      BY <1>1, <1>2, <1>5, <1>6, PortAssumption
    <2>3. /\ nets' \in [Slots -> Tcps \cup {0}] /\ lock' \in Admins \cup {None, Gone}
          /\ call' \in [Admins -> Calls]
      BY <1>1, <1>2, <1>5, <1>6, <2>1
    <2> QED BY <1>2, <1>5, <2>2, <2>3 DEF TypeOK, SessPort, SerialPort
  <1>8. call'[a] = [op |-> "publish", port |-> p] /\ \A b \in Admins \ {a} : call'[b] = call[b]
    BY <1>2, <1>5
  <1>9. OneHolder'
    <2>1. \A b \in Admins : call[b].op \notin LockedOps
      BY <1>2, PortAssumption DEF IInv, OneHolder
    <2> QED BY <1>2, <1>8, <2>1 DEF OneHolder, LockedOps
  <1>10. Distinct(K1)
    <2>1. KeyOf(p) \in Key /\ KeyOf(p)[1] = p.id /\ KeyOf(p)[2] = p.tcp
      BY <1>3, EntryKeys DEF KeyOf
    <2>2. K \in Seq(Key) /\ Len(K) = Len(ports) /\ DOMAIN ports = 1..Len(ports)
      BY <1>4 DEF TableKeys
    <2>3. \A i \in 1..Len(K) : K[i][1] # p.id /\ K[i][2] # p.tcp
      <3> SUFFICES ASSUME NEW i \in 1..Len(K) PROVE K[i][1] # p.id /\ K[i][2] # p.tcp
        OBVIOUS
      <3>1. i \in DOMAIN ports
        BY <2>2
      <3>2. K[i][1] = ports[i].id /\ K[i][2] = ports[i].tcp
        BY <3>1, <1>4 DEF TableKeys
      <3> QED BY <3>1, <3>2, <1>2
    <2> HIDE DEF K
    <2> QED BY <1>4, <2>1, <2>2, <2>3, DistinctAppend
  <1>11. Keys(listeners)' = K1 /\ Keys(ports)' = K
    <2>1. Keys(listeners') = Append(Keys(listeners), KeyOf(p))
      BY <1>1, <1>5, <1>6, EntryKeys, KeysAppend
    <2> QED BY <1>2, <1>4, <2>1
  <1>12. KeysInStep'
    <2>1. Holding("publish")' /\ ~Holding("drain")' /\ ~Holding("shift")' /\ ~Holding("table")'
      BY <1>2, <1>8 DEF Holding
    <2>2. lock' # None /\ call'[lock'].port = p
      BY <1>2, <1>8, PortAssumption
    <2> HIDE DEF K1
    <2>3. PublishAgrees'
      BY <1>2, <1>10, <1>11, <2>2 DEF PublishAgrees, K1
    <2>4. FreeAgrees' /\ ShiftAgrees' /\ TableAgrees'
      BY <2>1, <2>2 DEF FreeAgrees, ShiftAgrees, TableAgrees
    <2> QED BY <1>4, <1>11, <2>3, <2>4 DEF KeysInStep
  <1>13. NetsInStep'
    <2>1. /\ n \in Nat /\ DOMAIN listeners = 1..n /\ DOMAIN listeners' = 1..n + 1
          /\ listeners'[n + 1].net = s /\ listeners'[n + 1].tcp = p.tcp
          /\ \A j \in 1..n : listeners'[j] = listeners[j]
      BY <1>1, <1>5, <1>6
    <2> HIDE DEF n
    <2>2. \A j \in 1..n : listeners[j].net \in Slots \cup {0} /\ listeners[j].tcp \in Tcps
      <3>1. \A j \in 1..n : listeners[j] \in Listener
        BY <1>5, <2>1
      <3> QED BY <3>1 DEF Listener
    <2>3. s # 0 /\ 0 \notin Tcps /\ 0 \notin Slots
      BY PortAssumption DEF Slots
    <2>4. \A j \in 1..n : listeners[j].net # s
      BY <1>1, <2>1, <2>2, <2>3 DEF IInv, NetsInStep
    <2>5. nets'[s] = p.tcp /\ \A t \in Slots \ {s} : nets'[t] = nets[t]
      BY <1>1, <1>5
    <2>6. ASSUME NEW i \in 1..n + 1, NEW j \in 1..n + 1, listeners'[i].net = listeners'[j].net
          PROVE  i = j \/ listeners'[i].net = 0
      <3>1. CASE i \in 1..n /\ j \in 1..n
        BY <3>1, <2>1, <2>6 DEF IInv, NetsInStep
      <3>2. CASE i = n + 1 \/ j = n + 1
        BY <3>2, <2>1, <2>4, <2>6
      <3> QED BY <2>1, <3>1, <3>2
    <2>7. ASSUME NEW j \in 1..n + 1, listeners'[j].net # 0
          PROVE  nets'[listeners'[j].net] = listeners'[j].tcp
      <3>1. CASE j \in 1..n
        BY <3>1, <2>1, <2>2, <2>4, <2>5, <2>7 DEF IInv, NetsInStep
      <3>2. CASE j = n + 1
        BY <3>2, <2>1, <2>5
      <3> QED BY <2>1, <3>1, <3>2
    <2>8. ASSUME NEW t \in Slots, nets'[t] # 0 PROVE \E j \in 1..n + 1 : listeners'[j].net = t
      <3>1. CASE t = s
        BY <3>1, <2>1
      <3>2. CASE t # s
        <4>1. PICK j \in 1..n : listeners[j].net = t
          BY <3>2, <2>1, <2>5, <2>8 DEF IInv, NetsInStep
        <4> QED BY <4>1, <2>1
      <3> QED BY <3>1, <3>2
    <2> QED BY <2>1, <2>6, <2>7, <2>8 DEF NetsInStep
  <1> QED BY <1>7, <1>9, <1>12, <1>13 DEF IInv

\* It counts the port and releases the lock.
LEMMA CommitKeeps ==
    ASSUME IInv, NEW a \in Admins, AddCommit(a)
    PROVE  IInv'
  <1> DEFINE K1 == Append(Keys(ports), KeyOf(call[a].port))
  <1>1. /\ call[a].op = "publish" /\ ports' = Append(ports, call[a].port) /\ lock' = None
        /\ call' = [call EXCEPT ![a] = Idle]
        /\ shell' = IF a = Shell /\ shell < MaxPorts THEN shell + 1 ELSE shell
        /\ UNCHANGED <<listeners, sess, serial, nets, stray>>
    BY DEF AddCommit
  <1>2. lock = a
    BY <1>1 DEF IInv, OneHolder, LockedOps
  <1>3. Distinct(K1) /\ Keys(listeners) = K1
    BY <1>1, <1>2 DEF IInv, KeysInStep, PublishAgrees, Holding
  <1>4. /\ ports \in Seq(Port) /\ Len(listeners) <= MaxPorts
        /\ call \in [Admins -> Calls] /\ shell \in 0..MaxPorts
    BY TypesAre DEF IInv
  <1>5. call[a].port \in Port
    BY <1>1, <1>4, CallFields
  <1>6. Keys(ports)' = K1 /\ Keys(listeners)' = K1
    <2>1. Keys(ports') = K1
      BY <1>1, <1>4, <1>5, EntryKeys, KeysAppend
    <2> QED BY <2>1, <1>1, <1>3
  <1>7. TypeOK'
    <2>1. TableKeys
      BY TableKeysHold DEF IInv
    <2>2. Len(K1) = Len(ports) + 1 /\ Len(K1) = Len(listeners)
      BY <2>1, <1>3 DEF TableKeys
    <2>3. ports' \in Seq(Port) /\ Len(ports') <= MaxPorts
      BY <1>1, <1>4, <1>5, <2>2, PortAssumption
    <2>4. shell' \in 0..MaxPorts /\ call' \in [Admins -> Calls]
      <3>1. Idle \in Calls
        BY DEF Calls
      <3> QED BY <1>1, <1>4, <3>1, PortAssumption
    <2> QED BY <1>1, <2>3, <2>4 DEF IInv, TypeOK
  <1>8. OneHolder'
    BY <1>1, <1>2, <1>4, PortAssumption DEF IInv, OneHolder, LockedOps, Idle
  <1>9. KeysInStep'
    <2>1. \A op : ~Holding(op)'
      BY <1>1, PortAssumption DEF Holding
    <2> HIDE DEF K1
    <2> QED BY <1>3, <1>6, <2>1
            DEF KeysInStep, FreeAgrees, PublishAgrees, ShiftAgrees, TableAgrees
  <1>10. NetsInStep'
    BY <1>1 DEF IInv, NetsInStep
  <1> QED BY <1>7, <1>8, <1>9, <1>10 DEF IInv

\* With the lock gone nothing is claimed but types and interfaces.
LEMMA FullKeeps ==
    ASSUME IInv, NEW a \in Admins, AddFull(a)
    PROVE  IInv'
  <1>1. /\ lock = None /\ ports' = <<>> /\ lock' = Gone
        /\ UNCHANGED <<listeners, sess, serial, nets, stray, call, shell>>
    BY DEF AddFull
  <1>2. TypeOK'
    <2>1. <<>> \in Seq(Port) /\ Len(<<>>) <= MaxPorts
      BY PortAssumption
    <2> QED BY <1>1, <2>1 DEF IInv, TypeOK
  <1>3. OneHolder' /\ \A op : ~Holding(op)'
    BY <1>1, PortAssumption DEF IInv, OneHolder, Holding
  <1>4. KeysInStep'
    BY <1>1, <1>3, PortAssumption
       DEF KeysInStep, FreeAgrees, PublishAgrees, ShiftAgrees, TableAgrees
  <1>5. NetsInStep'
    BY <1>1 DEF IInv, NetsInStep
  <1> QED BY <1>2, <1>3, <1>4, <1>5 DEF IInv

\* remove_port takes the lock, or gives it up when sessions remain.
LEMMA FindKeeps ==
    ASSUME IInv, NEW a \in Admins,
           (\E tcp \in Tcps : RemoveFind(a, tcp)) \/ RemoveRefused(a)
    PROVE  IInv'
  <1>1. /\ lock = None \/ Holding("drain")
        /\ UNCHANGED <<regs, shell>>
        /\ \/ /\ lock = None /\ lock' = a
              /\ \E tcp \in Tcps : call' = [call EXCEPT ![a] = [op |-> "drain", tcp |-> tcp]]
           \/ lock = a /\ lock' = None /\ call' = [call EXCEPT ![a] = Idle]
    <2>1. CASE \E tcp \in Tcps : RemoveFind(a, tcp)
      BY <2>1 DEF RemoveFind
    <2>2. CASE RemoveRefused(a)
      <3>1. lock = a
        BY <2>2 DEF RemoveRefused, IInv, OneHolder, LockedOps
      <3> QED BY <2>2, <3>1 DEF RemoveRefused, Holding
    <2> QED BY <2>1, <2>2
  <1>2. Distinct(Keys(ports)) /\ Keys(listeners) = Keys(ports)
    BY <1>1, AgreeWhenFree
  <1>3. call \in [Admins -> Calls]
    BY TypesAre DEF IInv
  <1>4. \/ lock' = a /\ call'[a].op = "drain"
        \/ lock' = None /\ call'[a].op = "idle"
    BY <1>1, <1>3 DEF Idle
  <1>5. \A b \in Admins \ {a} : call'[b] = call[b] /\ call[b].op \notin LockedOps
    BY <1>1, <1>3, PortAssumption DEF IInv, OneHolder
  <1>6. TypeOK'
    <2>1. \A tcp \in Tcps : [op |-> "drain", tcp |-> tcp] \in Calls
      BY DEF Calls
    <2>2. Idle \in Calls
      BY DEF Calls
    <2>3. call' \in [Admins -> Calls] /\ lock' \in Admins \cup {None, Gone}
      BY <1>1, <1>3, <2>1, <2>2
    <2> QED BY <1>1, <2>3 DEF IInv, TypeOK, regs
  <1>7. OneHolder'
    BY <1>4, <1>5, PortAssumption DEF OneHolder, LockedOps
  <1>8. KeysInStep'
    <2>1. ~Holding("publish")' /\ ~Holding("shift")' /\ ~Holding("table")'
      BY <1>4, PortAssumption DEF Holding
    <2>2. Keys(ports)' = Keys(ports) /\ Keys(listeners)' = Keys(listeners)
      BY <1>1 DEF regs
    <2> QED BY <1>1, <1>2, <2>1, <2>2
            DEF KeysInStep, FreeAgrees, PublishAgrees, ShiftAgrees, TableAgrees
  <1>9. NetsInStep'
    BY <1>1 DEF regs, IInv, NetsInStep
  <1> QED BY <1>6, <1>7, <1>8, <1>9 DEF IInv

\* It takes the port out of both registries and gives its interface back.
LEMMA UnregisterKeeps ==
    ASSUME IInv, NEW a \in Admins, RemoveUnregister(a)
    PROVE  IInv'
  <1> DEFINE K == Keys(ports)
  <1>1. call[a].op = "drain" /\ lock = a
    BY DEF RemoveUnregister, IInv, OneHolder, LockedOps
  <1>2. PICK i \in TcpAt(ports, call[a].tcp), k \in TcpAt(listeners, call[a].tcp) :
          /\ sess' = Without(sess, ports[i].id) /\ serial' = Without(serial, ports[i].id)
          /\ nets' = [nets EXCEPT ![listeners[k].net] = 0]
          /\ listeners' = [listeners EXCEPT ![k].net = 0]
    BY DEF RemoveUnregister
  <1>3. /\ TableKeys /\ Distinct(K) /\ Keys(listeners) = K
        /\ Len(listeners) = Len(ports)
        /\ \A j \in DOMAIN ports :
             listeners[j].id = ports[j].id /\ listeners[j].tcp = ports[j].tcp
    BY <1>1, AgreeWhenFree DEF Holding
  <1>4. /\ ports \in Seq(Port) /\ listeners \in Seq(Listener) /\ sess \in Seq(SessPort)
        /\ serial \in Seq(SerialPort) /\ call \in [Admins -> Calls]
        /\ nets \in [Slots -> Tcps \cup {0}] /\ Len(ports) <= MaxPorts
        /\ Len(sess) <= MaxPorts /\ Len(serial) <= MaxPorts
    BY TypesAre DEF IInv
  <1>5. /\ i \in 1..Len(ports) /\ ports[i].tcp = call[a].tcp
        /\ k \in 1..Len(listeners) /\ listeners[k].tcp = call[a].tcp
    BY <1>3 DEF TcpAt, First, TableKeys
  <1>6. k = i
    <2>1. K \in Seq(Key) /\ Len(K) = Len(ports) /\ DOMAIN ports = 1..Len(ports)
      BY <1>3 DEF TableKeys
    <2>2. k \in DOMAIN ports /\ i \in DOMAIN ports /\ DOMAIN K = DOMAIN ports
      BY <1>3, <1>5, <2>1
    <2>3. K[k][2] = K[i][2]
      BY <1>3, <1>5, <2>2 DEF TableKeys
    <2> QED BY <1>3, <2>2, <2>3 DEF Distinct
  <1>8. /\ listeners' \in Seq(Listener) /\ Len(listeners') = Len(listeners)
        /\ DOMAIN listeners' = DOMAIN listeners /\ listeners'[i].net = 0
        /\ \A j \in DOMAIN listeners :
             /\ listeners'[j].id = listeners[j].id /\ listeners'[j].tcp = listeners[j].tcp
             /\ j # i => listeners'[j] = listeners[j]
    <2>1. listeners' = [listeners EXCEPT ![i] = [listeners[i] EXCEPT !.net = 0]]
      BY <1>2, <1>6
    <2>2. listeners[i] \in Listener
      BY <1>4, <1>5, <1>6
    <2>3. /\ [listeners[i] EXCEPT !.net = 0] \in Listener
          /\ [listeners[i] EXCEPT !.net = 0].net = 0
          /\ [listeners[i] EXCEPT !.net = 0].id = listeners[i].id
          /\ [listeners[i] EXCEPT !.net = 0].tcp = listeners[i].tcp
      BY <2>2 DEF Listener
    <2> QED BY <1>4, <1>5, <1>6, <2>1, <2>3
  <1>9. /\ UNCHANGED <<ports, stray, lock, shell>> /\ call' = [call EXCEPT ![a].op = "shift"]
    BY DEF RemoveUnregister
  <1>10. /\ call'[a].op = "shift" /\ call'[a].tcp = call[a].tcp /\ call' \in [Admins -> Calls]
         /\ \A b \in Admins \ {a} : call'[b] = call[b]
    BY <1>1, <1>4, <1>9, CallStages
  <1>11. TypeOK'
    <2>2. /\ sess' \in Seq(SessPort) /\ Len(sess') <= Len(sess)
          /\ serial' \in Seq(SerialPort) /\ Len(serial') <= Len(serial)
      BY <1>2, <1>4, WithoutTyped
    <2>3. Len(sess') <= MaxPorts /\ Len(serial') <= MaxPorts /\ Len(listeners') <= MaxPorts
      BY <1>3, <1>4, <1>8, <2>2, PortAssumption
    <2>4. nets' \in [Slots -> Tcps \cup {0}]
      BY <1>2, <1>4
    <2> QED BY <1>8, <1>9, <1>10, <2>2, <2>3, <2>4 DEF IInv, TypeOK, SessPort, SerialPort
  <1>12. OneHolder'
    BY <1>1, <1>9, <1>10 DEF IInv, OneHolder, LockedOps
  <1>13. Keys(ports)' = K /\ Keys(listeners)' = K
    <2>1. Keys(listeners') = Keys(listeners)
      <3>1. \A j \in 1..Len(listeners) : /\ listeners'[j].id = listeners[j].id
                                          /\ listeners'[j].tcp = listeners[j].tcp
        BY <1>3, <1>8 DEF TableKeys
      <3> QED BY <1>4, <1>8, <3>1, KeysSame
    <2> QED BY <1>3, <1>9, <2>1
  <1>14. KeysInStep'
    <2>1. /\ Holding("shift")' /\ ~Holding("publish")' /\ ~Holding("drain")'
          /\ ~Holding("table")' /\ lock' # None
      BY <1>1, <1>9, <1>10, PortAssumption DEF Holding
    <2>2. i \in DOMAIN ports' /\ ports'[i].tcp = call'[lock'].tcp /\ listeners'[i].net = 0
      BY <1>1, <1>3, <1>5, <1>8, <1>9, <1>10 DEF TableKeys
    <2> HIDE DEF K
    <2>3. ShiftAgrees'
      BY <1>13, <2>2 DEF ShiftAgrees
    <2> QED BY <1>3, <1>13, <2>1, <2>3 DEF KeysInStep, FreeAgrees, PublishAgrees, TableAgrees
  <1>15. NetsInStep'
    <2> DEFINE s == listeners[i].net
    <2>1. \A j \in DOMAIN listeners : listeners[j].net \in Slots \cup {0}
      <3>1. \A j \in DOMAIN listeners : listeners[j] \in Listener
        BY <1>4
      <3> QED BY <3>1 DEF Listener
    <2>2. /\ s # 0 => nets'[s] = 0
          /\ \A t \in Slots : t # s => nets'[t] = nets[t]
      BY <1>2, <1>4, <1>5, <1>6, <2>1
    <2>3. i \in DOMAIN listeners
      BY <1>3, <1>5 DEF TableKeys
    <2>4. \A j, l \in DOMAIN listeners' :
            listeners'[j].net = listeners'[l].net => j = l \/ listeners'[j].net = 0
      BY <1>8, <2>3 DEF IInv, NetsInStep
    <2>5. ASSUME NEW j \in DOMAIN listeners', listeners'[j].net # 0
          PROVE  nets'[listeners'[j].net] = listeners'[j].tcp
      <3>1. j # i /\ listeners'[j] = listeners[j] /\ j \in DOMAIN listeners
        BY <1>8, <2>5
      <3>2. listeners[j].net # s /\ listeners[j].net \in Slots
        BY <2>1, <2>3, <2>5, <3>1 DEF IInv, NetsInStep
      <3> QED BY <2>2, <2>5, <3>1, <3>2 DEF IInv, NetsInStep
    <2>6. ASSUME NEW t \in Slots, nets'[t] # 0
          PROVE  \E j \in DOMAIN listeners' : listeners'[j].net = t
      <3>1. t # s /\ nets[t] # 0
        BY <2>2, <2>6, PortAssumption DEF Slots
      <3>2. PICK j \in DOMAIN listeners : listeners[j].net = t
        BY <3>1 DEF IInv, NetsInStep
      <3>3. j # i
        BY <3>1, <3>2
      <3> QED BY <1>8, <3>2, <3>3
    <2> QED BY <2>4, <2>5, <2>6 DEF NetsInStep
  <1> QED BY <1>11, <1>12, <1>14, <1>15 DEF IInv

\* It takes the listener out, which has no interface any more.
LEMMA ShiftKeeps ==
    ASSUME IInv, NEW a \in Admins, RemoveListener(a)
    PROVE  IInv'
  <1> DEFINE K == Keys(ports)
             n == Len(listeners)
  <1>1. call[a].op = "shift" /\ lock = a
    BY DEF RemoveListener, IInv, OneHolder, LockedOps
  <1>2. TableKeys
    BY TableKeysHold DEF IInv
  <1>3. PICK i \in DOMAIN ports :
          /\ ports[i].tcp = call[a].tcp /\ listeners[i].net = 0
          /\ Keys(listeners) = K
    BY <1>1 DEF IInv, KeysInStep, ShiftAgrees, Holding
  <1>4. Distinct(K)
    BY <1>1, PortAssumption DEF IInv, KeysInStep
  <1>5. PICK k \in TcpAt(listeners, call[a].tcp) : listeners' = RemoveAt(listeners, k)
    BY DEF RemoveListener
  <1>6. /\ listeners \in Seq(Listener) /\ Len(listeners) <= MaxPorts
        /\ call \in [Admins -> Calls]
    BY TypesAre DEF IInv
  <1>7. n \in Nat /\ DOMAIN listeners = 1..n /\ DOMAIN ports = 1..n
    <2>1. Len(K) = Len(ports) /\ Len(K) = Len(listeners)
      BY <1>2, <1>3 DEF TableKeys
    <2> QED BY <1>2, <2>1 DEF TableKeys
  <1>8. i \in 1..n /\ k \in 1..n /\ k = i
    <2>1. k \in 1..n /\ listeners[k].tcp = call[a].tcp
      BY <1>5, <1>7 DEF TcpAt, First
    <2>2. K \in Seq(Key) /\ DOMAIN K = 1..n /\ K = Keys(listeners)
      BY <1>2, <1>3, <1>7 DEF TableKeys
    <2>3. K[k][2] = K[i][2]
      BY <1>2, <1>3, <1>7, <2>1, <2>2 DEF TableKeys
    <2> QED BY <1>3, <1>4, <1>7, <2>1, <2>2, <2>3 DEF Distinct
  <1>9. /\ listeners' \in Seq(Listener) /\ Len(listeners') = n - 1
        /\ \A j \in 1..n - 1 : listeners'[j] = IF j < i THEN listeners[j] ELSE listeners[j + 1]
    BY <1>5, <1>6, <1>8, RemoveAtIs
  <1>10. Keys(listeners)' = RemoveAt(K, i)
    <2>1. Keys(listeners') = RemoveAt(Keys(listeners), i)
      BY <1>5, <1>6, <1>8, EntryKeys, KeysRemove
    <2> QED BY <2>1, <1>3
  <1>11. /\ UNCHANGED <<ports, sess, serial, nets, stray, lock, shell>>
         /\ call' = [call EXCEPT ![a].op = "table"]
    BY DEF RemoveListener
  <1>12. /\ call'[a].op = "table" /\ call'[a].tcp = call[a].tcp /\ call' \in [Admins -> Calls]
         /\ \A b \in Admins \ {a} : call'[b] = call[b]
    BY <1>1, <1>6, <1>11, CallStages
  <1> HIDE DEF n, K
  <1>13. TypeOK'
    <2>1. Len(listeners') <= MaxPorts
      BY <1>6, <1>7, <1>9, PortAssumption DEF n
    <2> QED BY <1>9, <1>11, <1>12, <2>1 DEF IInv, TypeOK
  <1>14. OneHolder'
    BY <1>1, <1>11, <1>12 DEF IInv, OneHolder, LockedOps
  <1>15. KeysInStep'
    <2>1. /\ Holding("table")' /\ ~Holding("publish")' /\ ~Holding("drain")'
          /\ ~Holding("shift")' /\ lock' # None
      BY <1>1, <1>11, <1>12, PortAssumption DEF Holding
    <2>2. i \in DOMAIN ports' /\ ports'[i].tcp = call'[lock'].tcp /\ Keys(ports)' = K
      BY <1>1, <1>3, <1>11, <1>12 DEF K
    <2>3. TableAgrees'
      BY <1>10, <2>2 DEF TableAgrees
    <2> QED BY <1>4, <2>1, <2>2, <2>3 DEF KeysInStep, FreeAgrees, PublishAgrees, ShiftAgrees
  <1>16. NetsInStep'
    <2> DEFINE at(j) == IF j < i THEN j ELSE j + 1
    <2>1. /\ DOMAIN listeners' = 1..n - 1
          /\ \A j \in 1..n - 1 : at(j) \in 1..n /\ at(j) # i /\ listeners'[j] = listeners[at(j)]
          /\ \A j, l \in 1..n - 1 : at(j) = at(l) => j = l
          /\ \A j \in 1..n : j # i => \E l \in 1..n - 1 : at(l) = j
      <3>1. DOMAIN listeners' = 1..n - 1
        BY <1>9
      <3>2. \A j \in 1..n - 1 : at(j) \in 1..n /\ at(j) # i /\ listeners'[j] = listeners[at(j)]
        BY <1>7, <1>8, <1>9
      <3>3. \A j, l \in 1..n - 1 : at(j) = at(l) => j = l
        BY <1>7, <1>8
      <3>4. ASSUME NEW j \in 1..n, j # i PROVE \E l \in 1..n - 1 : at(l) = j
        <4>1. CASE j < i
          <5>1. j \in 1..n - 1 /\ at(j) = j
            BY <4>1, <1>7, <1>8
          <5> QED BY <5>1
        <4>2. CASE ~(j < i)
          <5>1. j - 1 \in 1..n - 1 /\ at(j - 1) = j
            BY <4>2, <3>4, <1>7, <1>8
          <5> QED BY <5>1
        <4> QED BY <4>1, <4>2
      <3> QED BY <3>1, <3>2, <3>3, <3>4
    <2> HIDE DEF at
    <2>2. nets' = nets /\ DOMAIN listeners = 1..n
      BY <1>7, <1>11
    <2>3. \A j, l \in 1..n - 1 :
            listeners'[j].net = listeners'[l].net => j = l \/ listeners'[j].net = 0
      BY <2>1, <2>2 DEF IInv, NetsInStep
    <2>4. \A j \in 1..n - 1 : listeners'[j].net # 0 => nets'[listeners'[j].net] = listeners'[j].tcp
      BY <2>1, <2>2 DEF IInv, NetsInStep
    <2>5. ASSUME NEW s \in Slots, nets'[s] # 0 PROVE \E j \in 1..n - 1 : listeners'[j].net = s
      <3>1. PICK j \in 1..n : listeners[j].net = s
        BY <2>2, <2>5 DEF IInv, NetsInStep
      <3>2. j # i
        BY <3>1, <1>3, PortAssumption DEF Slots
      <3>3. PICK l \in 1..n - 1 : at(l) = j
        BY <3>2, <2>1
      <3> QED BY <3>1, <3>3, <2>1
    <2> QED BY <2>1, <2>3, <2>4, <2>5 DEF NetsInStep
  <1> QED BY <1>13, <1>14, <1>15, <1>16 DEF IInv

\* It takes the port out of the port table and releases the lock.
LEMMA RemovePortKeeps ==
    ASSUME IInv, NEW a \in Admins, RemovePort(a)
    PROVE  IInv'
  <1> DEFINE K == Keys(ports)
  <1>1. call[a].op = "table" /\ lock = a
    BY DEF RemovePort, IInv, OneHolder, LockedOps
  <1>2. TableKeys
    BY TableKeysHold DEF IInv
  <1>3. PICK i \in DOMAIN ports :
          ports[i].tcp = call[a].tcp /\ Keys(listeners) = RemoveAt(K, i)
    BY <1>1 DEF IInv, KeysInStep, TableAgrees, Holding
  <1>4. Distinct(K)
    BY <1>1, PortAssumption DEF IInv, KeysInStep
  <1>5. PICK k \in TcpAt(ports, call[a].tcp) : ports' = RemoveAt(ports, k)
    BY DEF RemovePort
  <1>6. ports \in Seq(Port) /\ Len(ports) <= MaxPorts /\ call \in [Admins -> Calls]
    BY TypesAre DEF IInv
  <1>7. /\ K \in Seq(Key) /\ Len(K) = Len(ports) /\ Len(ports) \in Nat
        /\ DOMAIN ports = 1..Len(ports) /\ DOMAIN K = 1..Len(ports)
    BY <1>2 DEF TableKeys
  <1>8. i \in 1..Len(ports) /\ k = i
    <2>1. k \in DOMAIN ports /\ ports[k].tcp = call[a].tcp
      BY <1>5 DEF TcpAt, First
    <2>2. K[k][2] = K[i][2]
      BY <1>2, <1>3, <2>1 DEF TableKeys
    <2> QED BY <1>3, <1>4, <1>7, <2>1, <2>2 DEF Distinct
  <1>9. ports' \in Seq(Port) /\ Len(ports') = Len(ports) - 1
    BY <1>5, <1>6, <1>8, RemoveAtIs
  <1>10. Keys(ports)' = RemoveAt(K, i) /\ Distinct(Keys(ports)')
    <2>1. Keys(ports') = RemoveAt(K, i)
      BY <1>5, <1>6, <1>8, EntryKeys, KeysRemove
    <2>2. Distinct(RemoveAt(K, i))
      <3> HIDE DEF K
      <3> QED BY <1>4, <1>7, <1>8, DistinctRemove
    <2> QED BY <2>1, <2>2
  <1>11. /\ UNCHANGED <<listeners, sess, serial, nets, stray, shell>> /\ lock' = None
         /\ call' = [call EXCEPT ![a] = Idle]
    BY DEF RemovePort
  <1>12. TypeOK'
    <2>1. Idle \in Calls
      BY DEF Calls
    <2>2. call' \in [Admins -> Calls] /\ Len(ports') <= MaxPorts
      BY <1>6, <1>7, <1>9, <1>11, <2>1, PortAssumption
    <2> QED BY <1>9, <1>11, <2>2 DEF IInv, TypeOK
  <1>13. OneHolder'
    BY <1>1, <1>6, <1>11, PortAssumption DEF IInv, OneHolder, LockedOps, Idle
  <1>14. KeysInStep'
    <2>1. \A op : ~Holding(op)'
      BY <1>11, PortAssumption DEF Holding
    <2> HIDE DEF K
    <2> QED BY <1>3, <1>10, <1>11, <2>1
            DEF KeysInStep, FreeAgrees, PublishAgrees, ShiftAgrees, TableAgrees
  <1>15. NetsInStep'
    BY <1>11 DEF IInv, NetsInStep
  <1> QED BY <1>12, <1>13, <1>14, <1>15 DEF IInv

\* A step of set_port_mode moves no port, no interface and not the lock.
Beside ==
    /\ lock' = lock /\ nets' = nets /\ stray' = stray
    /\ Keys(ports') = Keys(ports) /\ Keys(listeners') = Keys(listeners)
    /\ Keys(sess') = Keys(sess) /\ Keys(serial') = Keys(serial)
    /\ \A j \in DOMAIN listeners : listeners'[j].net = listeners[j].net
    /\ \A a \in Admins : \/ call'[a] = call[a]
                         \/ call[a].op \notin LockedOps /\ call'[a].op \notin LockedOps

\* It changes the mode of entries and never which port they are of, whichever
\* entry its index has come to name.
LEMMA SetMoves ==
    ASSUME IInv, NEW a \in Admins, SetSteps(a)
    PROVE  Beside /\ TypeOK'
  <1>1. /\ ports \in Seq(Port) /\ listeners \in Seq(Listener) /\ sess \in Seq(SessPort)
        /\ Len(ports) <= MaxPorts /\ Len(listeners) <= MaxPorts /\ Len(sess) <= MaxPorts
        /\ call \in [Admins -> Calls] /\ call[a] \in Calls
    BY TypesAre DEF IInv
  <1>2. /\ DOMAIN ports = 1..Len(ports) /\ DOMAIN listeners = 1..Len(listeners)
        /\ DOMAIN sess = 1..Len(sess)
        /\ \A i \in 1..Len(ports) : ports[i] \in Port
        /\ \A i \in 1..Len(listeners) : listeners[i] \in Listener
        /\ \A i \in 1..Len(sess) : sess[i] \in SessPort
    BY <1>1
  <1>3. ASSUME NEW c \in Calls, c.op \notin LockedOps, call[a].op \notin LockedOps,
               call' = [call EXCEPT ![a] = c]
        PROVE  /\ call' \in [Admins -> Calls]
               /\ \A b \in Admins : \/ call'[b] = call[b]
                                    \/ call[b].op \notin LockedOps /\ call'[b].op \notin LockedOps
    BY <1>1, <1>3
  <1>4. CASE \E tcp \in Tcps, m \in Modes, on \in BOOLEAN : SetFind(a, tcp, m, on)
    <2>1. PICK tcp \in Tcps, m \in Modes, on \in BOOLEAN : SetFind(a, tcp, m, on)
      BY <1>4
    <2>2. PICK j \in TcpAt(listeners, tcp), row \in DOMAIN ports \cup {0} :
            call' = [call EXCEPT ![a] = [op |-> "session", tcp |-> tcp, at |-> j, row |-> row,
                                         mode |-> m, on |-> on]]
      BY <2>1 DEF SetFind, First
    <2>3. j \in Slots /\ row \in Slots \cup {0}
      BY <1>1, <1>2, PortAssumption DEF TcpAt, First, Slots
    <2> DEFINE c == [op |-> "session", tcp |-> tcp, at |-> j, row |-> row,
                     mode |-> m, on |-> on]
    <2>4. c \in Calls /\ c.op \notin LockedOps /\ call[a].op \notin LockedOps
      BY <2>1, <2>3 DEF Calls, LockedOps, SetFind, Idle
    <2>5. UNCHANGED <<ports, listeners, sess, serial, nets, stray, lock, shell>>
      BY <2>1 DEF SetFind, regs
    <2> HIDE DEF c
    <2>6. TypeOK'
      BY <1>3, <2>2, <2>4, <2>5 DEF IInv, TypeOK, c
    <2> QED BY <1>3, <2>2, <2>4, <2>5, <2>6 DEF Beside, c
  <1>5. ASSUME call[a].op \in {"session", "entry", "copy", "own"},
               \/ call' = [call EXCEPT ![a] = Idle]
               \/ \E op \in {"entry", "copy", "own"} : call' = [call EXCEPT ![a].op = op]
        PROVE  /\ call' \in [Admins -> Calls]
               /\ \A b \in Admins : \/ call'[b] = call[b]
                                    \/ call[b].op \notin LockedOps /\ call'[b].op \notin LockedOps
    <2>1. PICK c \in Calls : call' = [call EXCEPT ![a] = c] /\ c.op \notin LockedOps
      <3>1. CASE call' = [call EXCEPT ![a] = Idle]
        <4>1. Idle \in Calls /\ Idle.op = "idle"
          BY DEF Calls, Idle
        <4>2. Idle.op \notin LockedOps
          BY <4>1 DEF LockedOps
        <4> QED BY <3>1, <4>1, <4>2
      <3>2. ASSUME NEW op \in {"entry", "copy", "own"}, call' = [call EXCEPT ![a].op = op]
            PROVE  \E c \in Calls : call' = [call EXCEPT ![a] = c] /\ c.op \notin LockedOps
        <4>1. /\ [call[a] EXCEPT !.op = op] \in Calls
              /\ [call[a] EXCEPT !.op = op].op = op /\ op \notin LockedOps
          <5>1. call[a] \in Calls /\ op \in {"session", "entry", "copy", "own"}
            BY <1>1
          <5> DEFINE c == call[a]
          <5>2. [c EXCEPT !.op = op] \in Calls /\ [c EXCEPT !.op = op].op = op
            BY <1>5, <5>1, CallStages
          <5>3. op \notin LockedOps
            BY DEF LockedOps
          <5> QED BY <5>2, <5>3
        <4>2. call' = [call EXCEPT ![a] = [call[a] EXCEPT !.op = op]]
          BY <1>1, <3>2
        <4> QED BY <4>1, <4>2
      <3> QED BY <1>5, <3>1, <3>2
    <2>2. call[a].op \notin LockedOps
      BY <1>5 DEF LockedOps
    <2> QED BY <1>3, <2>1, <2>2
  <1>6. CASE SetSession(a)
    <2>1. /\ call[a].op = "session"
          /\ UNCHANGED <<ports, listeners, serial, nets, stray, lock, shell>>
          /\ \/ call' = [call EXCEPT ![a] = Idle] /\ sess' = sess
             \/ /\ call' = [call EXCEPT ![a].op = "entry"]
                /\ \E i \in DOMAIN sess : sess' = [sess EXCEPT ![i].mode = call[a].mode]
      BY <1>6 DEF SetSession, IdAt, First
    <2>2. call[a].mode \in Modes
      BY <1>1, <2>1, CallFields
    <2>3. /\ sess' \in Seq(SessPort) /\ Len(sess') = Len(sess)
          /\ \A i \in 1..Len(sess) : sess'[i].id = sess[i].id /\ sess'[i].tcp = sess[i].tcp
      <3>1. ASSUME NEW i \in DOMAIN sess, sess' = [sess EXCEPT ![i].mode = call[a].mode]
            PROVE  /\ sess' \in Seq(SessPort) /\ Len(sess') = Len(sess)
                   /\ \A j \in 1..Len(sess) : sess'[j].id = sess[j].id /\ sess'[j].tcp = sess[j].tcp
        <4>1. sess' = [sess EXCEPT ![i] = [sess[i] EXCEPT !.mode = call[a].mode]]
          BY <3>1
        <4>2. /\ [sess[i] EXCEPT !.mode = call[a].mode] \in SessPort
              /\ [sess[i] EXCEPT !.mode = call[a].mode].id = sess[i].id
              /\ [sess[i] EXCEPT !.mode = call[a].mode].tcp = sess[i].tcp
          BY <1>2, <2>2 DEF SessPort
        <4> QED BY <1>1, <1>2, <4>1, <4>2
      <3>2. CASE sess' = sess
        BY <1>1, <3>2
      <3> QED BY <2>1, <3>1, <3>2
    <2>4. Keys(sess') = Keys(sess)
      BY <1>1, <2>3, KeysSame
    <2>5. /\ call' \in [Admins -> Calls]
          /\ \A b \in Admins : \/ call'[b] = call[b]
                               \/ call[b].op \notin LockedOps /\ call'[b].op \notin LockedOps
      BY <1>5, <2>1
    <2>6. TypeOK'
      BY <1>1, <2>1, <2>3, <2>5 DEF IInv, TypeOK, SessPort
    <2> QED BY <2>1, <2>4, <2>5, <2>6 DEF Beside
  <1>7. CASE SetEntry(a)
    <2> DEFINE k == call[a].at
    <2>1. /\ call[a].op = "entry" /\ call' = [call EXCEPT ![a].op = "copy"]
          /\ UNCHANGED <<ports, sess, serial, nets, stray, lock, shell>>
          /\ listeners' = IF k \in DOMAIN listeners
                          THEN [listeners EXCEPT ![k].mode = call[a].mode, ![k].on = call[a].on]
                          ELSE listeners
      BY <1>7 DEF SetEntry
    <2>2. call[a].mode \in Modes /\ call[a].on \in BOOLEAN
      BY <1>1, <2>1, CallFields
    <2>3. /\ listeners' \in Seq(Listener) /\ Len(listeners') = Len(listeners)
          /\ \A i \in 1..Len(listeners) : /\ listeners'[i].id = listeners[i].id
                                          /\ listeners'[i].tcp = listeners[i].tcp
                                          /\ listeners'[i].net = listeners[i].net
      <3>1. CASE k \in DOMAIN listeners
        <4> DEFINE e == [listeners[k] EXCEPT !.mode = call[a].mode, !.on = call[a].on]
        <4>1. listeners' = [listeners EXCEPT ![k] = e]
          BY <1>1, <2>1, <3>1
        <4>2. e \in Listener /\ e.id = listeners[k].id /\ e.tcp = listeners[k].tcp
              /\ e.net = listeners[k].net
          BY <1>2, <2>2, <3>1 DEF Listener
        <4> HIDE DEF e, k
        <4> QED BY <1>1, <1>2, <3>1, <4>1, <4>2
      <3>2. CASE k \notin DOMAIN listeners
        BY <1>1, <2>1, <3>2
      <3> QED BY <3>1, <3>2
    <2>4. Keys(listeners') = Keys(listeners)
      BY <1>1, <2>3, KeysSame
    <2>5. /\ call' \in [Admins -> Calls]
          /\ \A b \in Admins : \/ call'[b] = call[b]
                               \/ call[b].op \notin LockedOps /\ call'[b].op \notin LockedOps
      BY <1>5, <2>1
    <2>6. TypeOK'
      BY <1>1, <2>1, <2>3, <2>5 DEF IInv, TypeOK
    <2> QED BY <1>2, <2>1, <2>3, <2>4, <2>5, <2>6 DEF Beside
  <1>8. ASSUME call[a].op \in {"copy", "own"},
               \/ call' = [call EXCEPT ![a] = Idle]
               \/ call' = [call EXCEPT ![a].op = "own"],
               UNCHANGED <<listeners, sess, serial, nets, stray, lock, shell>>,
               NEW W, ports' = [i \in 1..Len(ports) |->
                                  IF i \in W THEN Asked(ports[i], call[a]) ELSE ports[i]]
        PROVE  Beside /\ TypeOK'
    <2> DEFINE new(i) == IF i \in W THEN Asked(ports[i], call[a]) ELSE ports[i]
    <2>1. ports' = [i \in 1..Len(ports) |-> new(i)]
      BY <1>8
    <2>2. call[a].mode \in Modes /\ call[a].on \in BOOLEAN
      BY <1>1, <1>8, CallFields
    <2>3. \A i \in 1..Len(ports) :
            new(i) \in Port /\ new(i).id = ports[i].id /\ new(i).tcp = ports[i].tcp
      BY <1>2, <2>2 DEF Port, Asked
    <2> HIDE DEF new
    <2>4. /\ ports' \in Seq(Port) /\ Len(ports') = Len(ports)
          /\ \A i \in 1..Len(ports) : ports'[i].id = ports[i].id /\ ports'[i].tcp = ports[i].tcp
      <3>1. Len(ports) \in Nat
        BY <1>1
      <3> QED BY <2>1, <2>3, <3>1
    <2>5. Keys(ports') = Keys(ports)
      BY <1>1, <2>4, KeysSame
    <2>6. /\ call' \in [Admins -> Calls]
          /\ \A b \in Admins : \/ call'[b] = call[b]
                               \/ call[b].op \notin LockedOps /\ call'[b].op \notin LockedOps
      BY <1>5, <1>8
    <2>7. TypeOK'
      BY <1>1, <1>8, <2>4, <2>6 DEF IInv, TypeOK
    <2> QED BY <1>8, <2>5, <2>6, <2>7 DEF Beside
  <1>9. CASE SetCopy(a)
    <2> DEFINE W == {i \in 1..Len(ports) : ports[i].tcp = call[a].tcp}
    <2>1. ports' = [i \in 1..Len(ports) |->
                      IF i \in W THEN Asked(ports[i], call[a]) ELSE ports[i]]
      BY <1>2, <1>9 DEF SetCopy
    <2>2. /\ call[a].op = "copy"
          /\ UNCHANGED <<listeners, sess, serial, nets, stray, lock, shell>>
          /\ \/ call' = [call EXCEPT ![a] = Idle]
             \/ call' = [call EXCEPT ![a].op = "own"]
      BY <1>9 DEF SetCopy
    <2> HIDE DEF W
    <2> QED BY <1>8, <2>1, <2>2
  <1>10. CASE SetOwn(a)
    <2> DEFINE W == {call[a].row}
    <2>1. ports' = [i \in 1..Len(ports) |->
                      IF i \in W THEN Asked(ports[i], call[a]) ELSE ports[i]]
      <3>1. ports = [i \in 1..Len(ports) |-> ports[i]]
        BY <1>1
      <3>2. ports' = IF call[a].row \in 1..Len(ports)
                     THEN [ports EXCEPT ![call[a].row] = Asked(ports[call[a].row], call[a])]
                     ELSE ports
        BY <1>2, <1>10 DEF SetOwn
      <3> QED BY <3>1, <3>2
    <2>2. /\ call[a].op = "own" /\ call' = [call EXCEPT ![a] = Idle]
          /\ UNCHANGED <<listeners, sess, serial, nets, stray, lock, shell>>
      BY <1>10 DEF SetOwn
    <2> HIDE DEF W
    <2> QED BY <1>8, <2>1, <2>2
  <1> QED BY <1>4, <1>6, <1>7, <1>9, <1>10 DEF SetSteps

\* So it keeps the invariant.
LEMMA SetKeeps ==
    ASSUME IInv, NEW a \in Admins, SetSteps(a)
    PROVE  IInv'
  <1>1. Beside /\ TypeOK'
    BY SetMoves
  <1>2. /\ Keys(ports)' = Keys(ports) /\ Keys(listeners)' = Keys(listeners)
        /\ Keys(sess)' = Keys(sess) /\ Keys(serial)' = Keys(serial)
    BY <1>1 DEF Beside
  <1> QED BY <1>1, <1>2, Bystander DEF Beside

---------------------------------------------------------------------------
(* The invariant and what follows from it.                                 *)

\* At the start every table lists the ports of the configuration in load order,
\* and listener i has interface i.
LEMMA InvInit == Init => IInv
  <1> SUFFICES ASSUME Init PROVE IInv
    OBVIOUS
  <1>0. PICK n \in 0..MaxPorts : \E t \in [1..n -> Tcps], m \in Modes :
          /\ \A i, j \in 1..n : t[i] = t[j] => i = j
          /\ ports = [i \in 1..n |-> [id |-> i - 1, tcp |-> t[i], mode |-> m, on |-> TRUE]]
          /\ nets = [s \in Slots |-> IF s <= n THEN t[s] ELSE 0]
          /\ shell = IF Shell = None THEN 0 ELSE n
    BY DEF Init
  <1>1. PICK t \in [1..n -> Tcps], m \in Modes :
          /\ \A i, j \in 1..n : t[i] = t[j] => i = j
          /\ ports = [i \in 1..n |-> [id |-> i - 1, tcp |-> t[i], mode |-> m, on |-> TRUE]]
          /\ nets = [s \in Slots |-> IF s <= n THEN t[s] ELSE 0]
          /\ shell = IF Shell = None THEN 0 ELSE n
    BY <1>0
  <1>2. n \in Nat /\ n <= MaxPorts /\ MaxPorts \in Nat /\ MaxId \in Nat /\ n <= MaxId
    BY PortAssumption
  <1>3. \A i \in 1..n : i - 1 \in Ids /\ i \in Slots /\ t[i] \in Tcps
    BY <1>2 DEF Ids, Slots
  <1>4. /\ DOMAIN ports = 1..n
        /\ \A i \in 1..n : ports[i] \in Port /\ ports[i].id = i - 1 /\ ports[i].tcp = t[i]
    BY <1>1, <1>3 DEF Port
  <1>5. /\ listeners = [i \in 1..n |-> Listening(ports[i], i)]
        /\ sess = [i \in 1..n |-> InSession(ports[i])]
        /\ serial = [i \in 1..n |-> InSerial(ports[i])]
        /\ lock = None /\ call = [b \in Admins |-> Idle] /\ stray = {}
    BY <1>4 DEF Init
  <1>6. \A i \in 1..n :
          /\ listeners[i] \in Listener /\ KeyOf(listeners[i]) = KeyOf(ports[i])
          /\ listeners[i].net = i /\ listeners[i].tcp = t[i]
          /\ sess[i] \in SessPort /\ KeyOf(sess[i]) = KeyOf(ports[i])
          /\ serial[i] \in SerialPort /\ KeyOf(serial[i]) = KeyOf(ports[i])
    BY <1>3, <1>4, <1>5, EntriesOf
  <1>7. /\ DOMAIN listeners = 1..n /\ DOMAIN sess = 1..n /\ DOMAIN serial = 1..n
        /\ ports \in Seq(Port) /\ Len(ports) = n
        /\ listeners \in Seq(Listener) /\ Len(listeners) = n
        /\ sess \in Seq(SessPort) /\ Len(sess) = n
        /\ serial \in Seq(SerialPort) /\ Len(serial) = n
    <2>1. ports = [i \in 1..n |-> ports[i]]
      BY <1>1
    <2>2. DOMAIN listeners = 1..n /\ DOMAIN sess = 1..n /\ DOMAIN serial = 1..n
      BY <1>5
    <2>3. /\ listeners = [i \in 1..n |-> listeners[i]]
          /\ sess = [i \in 1..n |-> sess[i]] /\ serial = [i \in 1..n |-> serial[i]]
      BY <1>5
    <2>4. ports \in Seq(Port) /\ Len(ports) = n
      BY <1>2, <1>4, <2>1
    <2>5. listeners \in Seq(Listener) /\ Len(listeners) = n
      BY <1>2, <1>6, <2>2, <2>3
    <2>6. sess \in Seq(SessPort) /\ Len(sess) = n
      BY <1>2, <1>6, <2>2, <2>3
    <2>7. serial \in Seq(SerialPort) /\ Len(serial) = n
      BY <1>2, <1>6, <2>2, <2>3
    <2> QED BY <2>2, <2>4, <2>5, <2>6, <2>7
  <1>8. TypeOK
    <2>1. nets \in [Slots -> Tcps \cup {0}]
      <3>1. \A s \in Slots : s <= n => s \in 1..n
        BY <1>2 DEF Slots
      <3> QED BY <1>1, <1>3, <3>1
    <2>2. lock \in Admins \cup {None, Gone} /\ call \in [Admins -> Calls]
      BY <1>5 DEF Calls
    <2>3. shell \in 0..MaxPorts
      BY <1>1, <1>2
    <2> QED BY <1>2, <1>5, <1>7, <2>1, <2>2, <2>3, TypesAre
  <1>9. OneHolder
    BY <1>5, PortAssumption DEF OneHolder, LockedOps, Idle
  <1>10. KeysInStep
    <2>1. Keys(listeners) = Keys(ports)
      BY <1>4, <1>6, <1>7 DEF Keys
    <2>2. Distinct(Keys(ports))
      <3>1. /\ DOMAIN Keys(ports) = 1..n
            /\ \A i \in 1..n : Keys(ports)[i][1] = i - 1 /\ Keys(ports)[i][2] = t[i]
        BY <1>4 DEF Keys, KeyOf
      <3>2. \A i, j \in 1..n : i - 1 = j - 1 => i = j
        BY <1>2
      <3> DEFINE K == Keys(ports)
      <3>3. SUFFICES ASSUME NEW i \in DOMAIN K, NEW j \in DOMAIN K,
                            K[i][1] = K[j][1] \/ K[i][2] = K[j][2]
                     PROVE  i = j
        BY DEF Distinct
      <3>4. i \in 1..n /\ j \in 1..n
        BY <3>1
      <3>5. i - 1 = j - 1 \/ t[i] = t[j]
        BY <3>1, <3>3, <3>4
      <3> QED BY <1>1, <3>2, <3>4, <3>5
    <2>3. \A op : ~Holding(op)
      BY <1>5, PortAssumption DEF Holding
    <2> QED BY <2>1, <2>2, <2>3
            DEF KeysInStep, FreeAgrees, PublishAgrees, ShiftAgrees, TableAgrees
  <1>11. NetsInStep
    <2>1. \A s \in Slots : IF s <= n THEN s \in 1..n /\ nets[s] = t[s] ELSE nets[s] = 0
      BY <1>1, <1>2 DEF Slots
    <2>2. \A s \in 1..n : s \in Slots /\ s <= n
      BY <1>2, <1>3
    <2>3. \A j \in DOMAIN listeners : listeners[j].net = j /\ nets[j] = listeners[j].tcp
      BY <1>6, <1>7, <2>1, <2>2
    <2>4. \A s \in Slots : nets[s] # 0 => \E j \in DOMAIN listeners : listeners[j].net = s
      BY <1>6, <1>7, <2>1
    <2> QED BY <2>3, <2>4 DEF NetsInStep
  <1> QED BY <1>8, <1>9, <1>10, <1>11 DEF IInv

\* A step that changes nothing keeps the invariant.
LEMMA StutterKeeps == ASSUME IInv, UNCHANGED vars PROVE IInv'
  <1>1. TypeOK'
    BY DEF IInv, TypeOK, vars, regs
  <1>2. /\ lock' = lock /\ nets' = nets /\ call' = call
        /\ \A j \in DOMAIN listeners : listeners'[j].net = listeners[j].net
    BY DEF vars, regs
  <1>3. /\ Keys(ports)' = Keys(ports) /\ Keys(listeners)' = Keys(listeners)
        /\ Keys(sess)' = Keys(sess) /\ Keys(serial)' = Keys(serial)
    BY DEF vars, regs
  <1> QED BY <1>1, <1>2, <1>3, Bystander

\* A call that fails leaves at most an entry of its own in the registries.
LEMMA AbortKeeps ==
    ASSUME IInv, NEW a \in Admins, NEW id \in Ids \cup {AutoId}, NEW p \in Described(id),
           AddAborts(a, id, p)
    PROVE  IInv'
  <1>1. /\ UNCHANGED <<ports, listeners, nets, lock, call, shell>>
        /\ serial' = Without(Append(serial, InSerial(p)), id) /\ Len(serial) < MaxPorts
        /\ stray' = IF id = AutoId THEN stray \cup {KeyOf(p)} ELSE stray
        /\ \/ sess' = sess
           \/ sess' = Without(Append(sess, InSession(p)), id) /\ Len(sess) < MaxPorts
    BY DEF AddAborts, MayAdd, CanRegister
  <1>2. p \in Port
    BY DEF Described
  <1>3. InSession(p) \in SessPort /\ InSerial(p) \in SerialPort /\ KeyOf(p) \in Ids \X Tcps
    <2>1. 1 \in Slots
      BY PortAssumption DEF Slots
    <2> QED BY <1>2, <2>1, EntriesOf, EntryKeys DEF Key
  <1>4. /\ sess \in Seq(SessPort) /\ Len(sess) <= MaxPorts
        /\ serial \in Seq(SerialPort) /\ stray \subseteq Ids \X Tcps
    BY TypesAre DEF IInv
  <1>5. /\ Append(serial, InSerial(p)) \in Seq(SerialPort)
        /\ Len(Append(serial, InSerial(p))) = Len(serial) + 1
        /\ Append(sess, InSession(p)) \in Seq(SessPort)
        /\ Len(Append(sess, InSession(p))) = Len(sess) + 1
    BY <1>3, <1>4
  <1>6. serial' \in Seq(SerialPort) /\ Len(serial') <= Len(serial) + 1
    BY <1>1, <1>5, WithoutTyped
  <1>7. \/ sess' = sess
        \/ /\ sess' \in Seq(SessPort) /\ Len(sess') <= Len(sess) + 1
           /\ Len(sess) < MaxPorts
    <2>1. Without(Append(sess, InSession(p)), id) \in Seq(SessPort)
      BY <1>5, WithoutTyped
    <2>2. Len(Without(Append(sess, InSession(p)), id)) <= Len(sess) + 1
      BY <1>5, WithoutTyped
    <2> QED BY <1>1, <2>1, <2>2
  <1>8. /\ sess' \in Seq(SessPort) /\ Len(sess') <= MaxPorts
        /\ serial' \in Seq(SerialPort) /\ Len(serial') <= MaxPorts
    BY <1>1, <1>4, <1>6, <1>7, PortAssumption
  <1>9. TypeOK'
    BY <1>1, <1>3, <1>4, <1>8 DEF IInv, TypeOK, SessPort, SerialPort
  <1> QED BY <1>1, <1>9, Bystander

\* Every step keeps it.
LEMMA InvNext == ASSUME IInv, [Next]_vars PROVE IInv'
  <1>1. ASSUME NEW a \in Admins, AddSteps(a) PROVE IInv'
    <2>1. CASE AddCommit(a)
      BY <2>1, CommitKeeps
    <2>2. CASE AddFull(a)
      BY <2>2, FullKeeps
    <2>3. ASSUME NEW id \in Ids \cup {AutoId}, NEW p \in Described(id), AddPublish(a, id, p)
          PROVE  IInv'
      BY <2>3, PublishKeeps
    <2>4. ASSUME NEW id \in Ids \cup {AutoId}, NEW p \in Described(id), AddAborts(a, id, p)
          PROVE  IInv'
      BY <2>4, AbortKeeps
    <2> QED BY <1>1, <2>1, <2>2, <2>3, <2>4 DEF AddSteps
  <1>2. ASSUME NEW a \in Admins, RemoveSteps(a) PROVE IInv'
    <2>1. CASE (\E tcp \in Tcps : RemoveFind(a, tcp)) \/ RemoveRefused(a)
      BY <2>1, FindKeeps
    <2>2. CASE RemoveUnregister(a)
      BY <2>2, UnregisterKeeps
    <2>3. CASE RemoveListener(a)
      BY <2>3, ShiftKeeps
    <2>4. CASE RemovePort(a)
      BY <2>4, RemovePortKeeps
    <2> QED BY <1>2, <2>1, <2>2, <2>3, <2>4 DEF RemoveSteps
  <1>3. ASSUME NEW a \in Admins, SetSteps(a) PROVE IInv'
    BY <1>3, SetKeeps
  <1>4. CASE UNCHANGED vars
    BY <1>4, StutterKeeps
  <1> QED BY <1>1, <1>2, <1>3, <1>4 DEF Next

\* The invariant holds throughout.
LEMMA Invariant == Spec => []IInv
  <1>1. IInv /\ [Next]_vars => IInv'
    BY InvNext
  <1> QED BY <1>1, InvInit, PTL DEF Spec

\* Every variable keeps its type, the indices that set_port_mode has kept across
\* another task's remove_port included, and no table outgrows its array, whatever
\* a failed add_port left behind.
THEOREM TypeCorrect == Spec => []TypeOK
  <1>1. IInv => TypeOK
    BY DEF IInv
  <1> QED BY <1>1, Invariant, PTL

\* Whenever port_lock is free an interface of the TCP adapter is in use exactly
\* when one listener has it, and it listens on that listener's port, whatever a
\* failed add_port left behind.
THEOREM InterfacesOwned == Spec => []InterfacesMatch
  <1>1. ASSUME IInv, NEW s \in Slots
        PROVE  LET Holders == {j \in DOMAIN listeners : listeners[j].net = s} IN
               IF nets[s] = 0 THEN Holders = {}
               ELSE Cardinality(Holders) = 1 /\ \A j \in Holders : listeners[j].tcp = nets[s]
    <2> DEFINE Holders == {j \in DOMAIN listeners : listeners[j].net = s}
    <2>1. s # 0 /\ NetsInStep /\ TableKeys
      BY <1>1, TableKeysHold, PortAssumption DEF Slots, IInv
    <2>2. \A j \in Holders : nets[s] = listeners[j].tcp
      BY <2>1 DEF NetsInStep
    <2>3. \A j \in Holders : listeners[j].tcp # 0
      BY <2>1, PortAssumption DEF TableKeys, Listener
    <2>4. CASE nets[s] = 0
      BY <2>2, <2>3, <2>4
    <2>5. CASE nets[s] # 0
      <3>1. PICK j \in DOMAIN listeners : listeners[j].net = s
        BY <2>1, <2>5 DEF NetsInStep
      <3>2. Holders = {j}
        BY <2>1, <3>1 DEF NetsInStep
      <3>3. Cardinality(Holders) = 1
        BY <3>2, FS_Singleton
      <3> QED BY <2>2, <2>5, <3>3
    <2> QED BY <2>4, <2>5
  <1>2. IInv => InterfacesMatch
    BY <1>1 DEF InterfacesMatch
  <1> QED BY <1>2, Invariant, PTL

---------------------------------------------------------------------------
(* Who is served.                                                          *)

\* The ports of the listeners that have an interface.
OpenPorts == {KeyOf(listeners[j]) : j \in {l \in DOMAIN listeners : listeners[l].net # 0}}

\* What a registry has: those ports and the rests of failed adds, each once.
Registers(reg) == Distinct(Keys(reg)) /\ KeysIn(reg) = OpenPorts \cup stray

\* Both registries have the same ports, and no listener is without interface
\* but the one a removal is about to take out.
Kept ==
    /\ Registers(sess) /\ Registers(serial) /\ OpenPorts \cap stray = {}
    /\ \A j \in DOMAIN listeners :
         listeners[j].net = 0 => Holding("shift") /\ listeners[j].tcp = call[lock].tcp

\* The ports of a table are the elements of its keys.
LEMMA KeysInRange == ASSUME NEW reg PROVE KeysIn(reg) = Range(Keys(reg))
  BY DEF KeysIn, Keys, Range

\* A registry that takes a port has it besides the others, and each once.
LEMMA RegistryGrows ==
    ASSUME NEW S, NEW reg \in Seq(S), NEW e \in S, \A x \in S : KeyOf(x) \in Key,
           Distinct(Keys(reg)),
           \A i \in DOMAIN reg : reg[i].id # e.id /\ reg[i].tcp # e.tcp
    PROVE  /\ Distinct(Keys(Append(reg, e)))
           /\ KeysIn(Append(reg, e)) = KeysIn(reg) \cup {KeyOf(e)}
  <1> DEFINE n == Len(reg)
             K == Keys(reg)
  <1>1. /\ K \in Seq(Key) /\ Len(K) = n /\ DOMAIN K = 1..n /\ DOMAIN reg = 1..n
        /\ \A i \in 1..n : K[i][1] = reg[i].id /\ K[i][2] = reg[i].tcp
    BY KeysAre
  <1>2. KeyOf(e) \in Key /\ KeyOf(e)[1] = e.id /\ KeyOf(e)[2] = e.tcp
    BY DEF KeyOf
  <1>3. Keys(Append(reg, e)) = Append(K, KeyOf(e))
    BY KeysAppend
  <1> HIDE DEF K, n
  <1>4. \A i \in 1..Len(K) : K[i][1] # KeyOf(e)[1] /\ K[i][2] # KeyOf(e)[2]
    BY <1>1, <1>2
  <1>5. Distinct(Append(K, KeyOf(e)))
    <2>1. Distinct(K)
      BY DEF K
    <2> QED BY <1>1, <1>2, <1>4, <2>1, DistinctAppend
  <1>6. Range(Append(K, KeyOf(e))) = Range(K) \cup {KeyOf(e)}
    <2> DEFINE B == Append(K, KeyOf(e))
    <2>1. /\ n \in Nat /\ DOMAIN B = 1..n + 1 /\ B[n + 1] = KeyOf(e)
          /\ \A i \in 1..n : B[i] = K[i]
      BY <1>1, <1>2 DEF n
    <2> HIDE DEF B
    <2>2. \A i \in 1..n + 1 : i \in 1..n \/ i = n + 1
      BY <2>1
    <2>3. \A i \in 1..n : i \in 1..n + 1
      BY <2>1
    <2>4. n + 1 \in 1..n + 1
      BY <2>1
    <2> QED BY <1>1, <2>1, <2>2, <2>3, <2>4 DEF Range, B
  <1> QED BY <1>3, <1>5, <1>6, KeysInRange DEF K

\* A registry that gives up a port has the others.
LEMMA RegistryShrinks ==
    ASSUME NEW S, NEW reg \in Seq(S), \A x \in S : KeyOf(x) \in Key,
           Distinct(Keys(reg)), NEW k \in 1..Len(reg)
    PROVE  /\ Distinct(Keys(RemoveAt(reg, k)))
           /\ KeysIn(RemoveAt(reg, k)) = KeysIn(reg) \ {KeyOf(reg[k])}
  <1> DEFINE n == Len(reg)
             K == Keys(reg)
             B == RemoveAt(K, k)
  <1>1. /\ K \in Seq(Key) /\ Len(K) = n /\ DOMAIN K = 1..n /\ K[k] = KeyOf(reg[k])
        /\ n \in Nat /\ k \in 1..n
    BY KeysAre
  <1>2. Keys(RemoveAt(reg, k)) = B
    BY KeysRemove
  <1>3. Distinct(K)
    OBVIOUS
  <1>4. KeysIn(reg) = Range(K) /\ KeysIn(RemoveAt(reg, k)) = Range(B)
    BY <1>2, KeysInRange
  <1> HIDE DEF K, n
  <1>5. /\ B \in Seq(Key) /\ Len(B) = n - 1
        /\ \A i \in 1..n - 1 : B[i] = IF i < k THEN K[i] ELSE K[i + 1]
    BY <1>1, RemoveAtIs
  <1>6. Distinct(B)
    BY <1>1, <1>3, DistinctRemove
  <1> HIDE DEF B
  <1>7. \A i \in 1..n : K[i] = K[k] => i = k
    BY <1>1, <1>3 DEF Distinct
  <1>8. DOMAIN B = 1..n - 1
    BY <1>5
  <1>9. ASSUME NEW x \in Range(B) PROVE x \in Range(K) \ {K[k]}
    <2>1. PICK i \in 1..n - 1 : x = B[i]
      BY <1>8 DEF Range
    <2>2. CASE i < k
      <3>1. i \in 1..n /\ x = K[i] /\ i # k
        BY <1>1, <1>5, <2>1, <2>2
      <3> QED BY <1>1, <1>7, <3>1 DEF Range
    <2>3. CASE ~(i < k)
      <3>1. i + 1 \in 1..n /\ x = K[i + 1] /\ i + 1 # k
        BY <1>1, <1>5, <2>1, <2>3
      <3> QED BY <1>1, <1>7, <3>1 DEF Range
    <2> QED BY <2>2, <2>3
  <1>10. ASSUME NEW x \in Range(K) \ {K[k]} PROVE x \in Range(B)
    <2>1. PICK i \in 1..n : x = K[i] /\ i # k
      BY <1>1 DEF Range
    <2>2. CASE i < k
      <3>1. i \in 1..n - 1 /\ x = B[i]
        BY <1>1, <1>5, <2>1, <2>2
      <3> QED BY <1>8, <3>1 DEF Range
    <2>3. CASE ~(i < k)
      <3>1. i - 1 \in 1..n - 1 /\ x = B[i - 1]
        BY <1>1, <1>5, <2>1, <2>3
      <3> QED BY <1>8, <3>1 DEF Range
    <2> QED BY <2>2, <2>3
  <1>11. Range(B) = Range(K) \ {K[k]}
    BY <1>9, <1>10
  <1> QED BY <1>1, <1>2, <1>4, <1>6, <1>11

\* Unregistering a port that a registry has takes that one out.
LEMMA RegistryForgets ==
    ASSUME NEW S, NEW reg \in Seq(S), \A x \in S : KeyOf(x) \in Key,
           Distinct(Keys(reg)), NEW e, KeyOf(e) \in KeysIn(reg)
    PROVE  /\ Distinct(Keys(Without(reg, e.id)))
           /\ KeysIn(Without(reg, e.id)) = KeysIn(reg) \ {KeyOf(e)}
  <1>1. PICK k \in 1..Len(reg) : KeyOf(reg[k]) = KeyOf(e)
    BY DEF KeysIn
  <1>2. reg[k].id = e.id
    BY <1>1 DEF KeyOf
  <1>3. Without(reg, reg[k].id) = RemoveAt(reg, k)
    BY WithoutIs
  <1> QED BY <1>1, <1>2, <1>3, RegistryShrinks

\* Unregistering an identifier that a registry does not have does nothing.
LEMMA WithoutNone ==
    ASSUME NEW reg, NEW id, \A i \in DOMAIN reg : reg[i].id # id
    PROVE  Without(reg, id) = reg
  <1>1. IdAt(reg, id) = {}
    BY DEF IdAt, First
  <1> QED BY <1>1 DEF Without

\* A table without duplicates has as many ports as entries.
LEMMA DistinctCount ==
    ASSUME NEW K \in Seq(Key), Distinct(K)
    PROVE  IsFiniteSet(Range(K)) /\ Cardinality(Range(K)) = Len(K)
  <1> DEFINE n == Len(K)
  <1>1. DOMAIN K = 1..n /\ n \in Nat
    OBVIOUS
  <1> HIDE DEF n
  <1>2. ExistsBijection(1..n, Range(K))
    <2>1. K \in [1..n -> Range(K)]
      BY <1>1 DEF Range
    <2>2. \A i, j \in 1..n : K[i] = K[j] => i = j
      BY <1>1 DEF Distinct
    <2>3. \A t \in Range(K) : \E i \in 1..n : K[i] = t
      BY <1>1 DEF Range
    <2> QED BY <1>1, <2>1, <2>2, <2>3
            DEF ExistsBijection, Bijection, Injection, Surjection, IsInjective
  <1>3. IsFiniteSet(1..n) /\ Cardinality(1..n) = n
    BY <1>1, FS_Interval
  <1> QED BY <1>2, <1>3, FS_Bijection DEF n

\* While no removal is between its steps every listener has its interface.
LEMMA AllServed ==
    ASSUME IInv, Kept, ~Holding("shift")
    PROVE  /\ \A j \in DOMAIN listeners : listeners[j].net # 0
           /\ KeysIn(listeners) = OpenPorts
  <1>1. \A j \in DOMAIN listeners : listeners[j].net # 0
    BY DEF Kept
  <1> QED BY <1>1 DEF KeysIn, OpenPorts

\* A registry that can take a port has none of its keys, and the other registry
\* can take it as well.
LEMMA BothTakeIt ==
    ASSUME IInv, Kept, NEW p \in Port, CanRegister(serial, p)
    PROVE  CanRegister(sess, p) /\ KeyOf(p) \notin OpenPorts \cup stray
  <1>1. /\ sess \in Seq(SessPort) /\ serial \in Seq(SerialPort)
        /\ DOMAIN sess = 1..Len(sess) /\ DOMAIN serial = 1..Len(serial)
        /\ Keys(sess) \in Seq(Key) /\ Len(Keys(sess)) = Len(sess)
        /\ Keys(serial) \in Seq(Key) /\ Len(Keys(serial)) = Len(serial)
    BY TypesAre, TableKeysHold DEF IInv, TableKeys
  <1>2. /\ Distinct(Keys(sess)) /\ Distinct(Keys(serial))
        /\ KeysIn(sess) = KeysIn(serial) /\ KeysIn(serial) = OpenPorts \cup stray
    BY DEF Kept, Registers
  <1>3. Range(Keys(sess)) = Range(Keys(serial))
    BY <1>2, KeysInRange
  <1>4. Len(sess) = Len(serial)
    BY <1>1, <1>2, <1>3, DistinctCount
  <1>5. \A k \in KeysIn(serial) : k[1] # p.id /\ k[2] # p.tcp
    BY DEF KeysIn, KeyOf, CanRegister
  <1>6. \A i \in DOMAIN sess : sess[i].id # p.id /\ sess[i].tcp # p.tcp
    <2>1. \A i \in DOMAIN sess : KeyOf(sess[i]) \in KeysIn(serial)
      BY <1>2 DEF KeysIn
    <2> QED BY <1>5, <2>1 DEF KeyOf
  <1>7. KeyOf(p) \notin KeysIn(serial)
    BY <1>5 DEF KeyOf
  <1> QED BY <1>2, <1>4, <1>6, <1>7 DEF CanRegister

\* add_port has registered the port before it lists the listener.
LEMMA PublishServes ==
    ASSUME IInv, Kept, NEW a \in Admins, NEW id \in Ids \cup {AutoId}, NEW p \in Described(id),
           AddPublish(a, id, p)
    PROVE  Kept' /\ OpenPorts' = OpenPorts \cup {KeyOf(p)}
  <1>1. PICK s \in Slots : listeners' = Append(listeners, Listening(p, s))
    BY DEF AddPublish, First
  <1>2. /\ lock = None
        /\ serial' = Append(serial, InSerial(p)) /\ sess' = Append(sess, InSession(p))
        /\ \A i \in DOMAIN sess : sess[i].id # p.id /\ sess[i].tcp # p.tcp
        /\ \A i \in DOMAIN serial : serial[i].id # p.id /\ serial[i].tcp # p.tcp
        /\ CanRegister(serial, p) /\ stray' = stray
    BY DEF AddPublish, MayAdd, CanRegister
  <1>3. p \in Port
    BY DEF Described
  <1>4. /\ Listening(p, s) \in Listener /\ KeyOf(Listening(p, s)) = KeyOf(p)
        /\ Listening(p, s).net = s /\ s # 0
        /\ InSession(p) \in SessPort /\ KeyOf(InSession(p)) = KeyOf(p)
        /\ InSerial(p) \in SerialPort /\ KeyOf(InSerial(p)) = KeyOf(p)
        /\ InSession(p).id = p.id /\ InSession(p).tcp = p.tcp
        /\ InSerial(p).id = p.id /\ InSerial(p).tcp = p.tcp
    <2>1. s # 0 /\ InSession(p).tcp = p.tcp /\ InSerial(p).tcp = p.tcp
      BY PortAssumption DEF Slots, InSession, InSerial
    <2> QED BY <1>3, <2>1, EntriesOf
  <1>5. listeners \in Seq(Listener) /\ sess \in Seq(SessPort) /\ serial \in Seq(SerialPort)
    BY TypesAre DEF IInv
  <1>6. /\ Distinct(Keys(sess')) /\ KeysIn(sess') = KeysIn(sess) \cup {KeyOf(p)}
        /\ Distinct(Keys(serial')) /\ KeysIn(serial') = KeysIn(serial) \cup {KeyOf(p)}
    <2>1. Distinct(Keys(sess)) /\ Distinct(Keys(serial))
      BY DEF Kept, Registers
    <2>2. /\ Distinct(Keys(Append(sess, InSession(p))))
          /\ KeysIn(Append(sess, InSession(p))) = KeysIn(sess) \cup {KeyOf(InSession(p))}
      BY <1>2, <1>4, <1>5, <2>1, EntryKeys, RegistryGrows
    <2>3. /\ Distinct(Keys(Append(serial, InSerial(p))))
          /\ KeysIn(Append(serial, InSerial(p))) = KeysIn(serial) \cup {KeyOf(InSerial(p))}
      <3> DEFINE e == InSerial(p)
      <3>1. /\ e \in SerialPort /\ \A x \in SerialPort : KeyOf(x) \in Key
            /\ \A i \in DOMAIN serial : serial[i].id # e.id /\ serial[i].tcp # e.tcp
        BY <1>2, <1>4, EntryKeys
      <3> HIDE DEF e
      <3>2. /\ Distinct(Keys(Append(serial, e)))
            /\ KeysIn(Append(serial, e)) = KeysIn(serial) \cup {KeyOf(e)}
        BY <1>5, <2>1, <3>1, RegistryGrows
      <3> QED BY <3>2 DEF e
    <2> QED BY <1>2, <1>4, <2>2, <2>3
  <1>7. \A j \in DOMAIN listeners : listeners[j].net # 0
    <2>1. ~Holding("shift")
      BY <1>2, PortAssumption DEF Holding
    <2> QED BY <2>1, AllServed
  <1>8. OpenPorts' = OpenPorts \cup {KeyOf(p)} /\ \A j \in DOMAIN listeners' : listeners'[j].net # 0
    <2> DEFINE n == Len(listeners)
    <2>1. /\ n \in Nat /\ DOMAIN listeners = 1..n /\ DOMAIN listeners' = 1..n + 1
          /\ listeners'[n + 1] = Listening(p, s)
          /\ \A j \in 1..n : listeners'[j] = listeners[j]
      BY <1>1, <1>4, <1>5
    <2> HIDE DEF n
    <2>2. /\ \A j \in 1..n + 1 : j \in 1..n \/ j = n + 1
          /\ n + 1 \in 1..n + 1 /\ \A j \in 1..n : j \in 1..n + 1
      BY <2>1
    <2>3. OpenPorts' = OpenPorts \cup {KeyOf(p)}
      BY <1>4, <2>1, <2>2 DEF OpenPorts
    <2>4. \A j \in DOMAIN listeners' : listeners'[j].net # 0
      BY <1>4, <1>7, <2>1, <2>2
    <2> QED BY <2>3, <2>4
  <1>9. OpenPorts' \cap stray' = {}
    <2>1. KeyOf(p) \notin stray
      BY <1>2, <1>3, BothTakeIt
    <2> QED BY <1>2, <1>8, <2>1 DEF Kept
  <1>10. Registers(sess)' /\ Registers(serial)'
    BY <1>2, <1>6, <1>8 DEF Kept, Registers
  <1> QED BY <1>8, <1>9, <1>10 DEF Kept

\* A call that fails leaves nothing behind, or its port in both registries when
\* it had chosen the identifier.
LEMMA AbortLeaves ==
    ASSUME IInv, Kept, NEW a \in Admins, NEW id \in Ids \cup {AutoId}, NEW p \in Described(id),
           AddAborts(a, id, p)
    PROVE  /\ p \in Port /\ CanRegister(sess, p) /\ CanRegister(serial, p)
           /\ lock = None /\ UNCHANGED <<ports, listeners, nets, lock, call>>
           /\ IF id = AutoId
              THEN /\ sess' = Append(sess, InSession(p)) /\ serial' = Append(serial, InSerial(p))
                   /\ stray' = stray \cup {KeyOf(p)}
              ELSE UNCHANGED <<sess, serial, stray>>
  <1>1. /\ lock = None /\ CanRegister(serial, p)
        /\ serial' = Without(Append(serial, InSerial(p)), id)
        /\ sess' = IF CanRegister(sess, p)
                   THEN Without(Append(sess, InSession(p)), id) ELSE sess
        /\ stray' = IF id = AutoId THEN stray \cup {KeyOf(p)} ELSE stray
        /\ UNCHANGED <<ports, listeners, nets, lock, call>>
    BY DEF AddAborts, MayAdd
  <1>2. p \in Port /\ (id # AutoId => p.id = id)
    BY DEF Described
  <1>3. CanRegister(sess, p)
    BY <1>1, <1>2, BothTakeIt
  <1>4. /\ InSession(p) \in SessPort /\ InSession(p).id = p.id
        /\ InSerial(p) \in SerialPort /\ InSerial(p).id = p.id
    BY <1>2 DEF Port, SessPort, SerialPort, InSession, InSerial
  <1>5. sess \in Seq(SessPort) /\ serial \in Seq(SerialPort)
    BY TypesAre DEF IInv
  <1>6. ASSUME NEW S, NEW reg \in Seq(S), NEW e \in S, \A x \in S : x.id \in Ids,
               e.id = p.id, CanRegister(reg, p)
        PROVE  Without(Append(reg, e), id) = IF id = AutoId THEN Append(reg, e) ELSE reg
    <2>1. CASE id = AutoId
      <3>1. \A i \in DOMAIN Append(reg, e) : Append(reg, e)[i] \in S
        BY <1>6
      <3>2. AutoId \notin Ids
        BY PortAssumption DEF AutoId, Ids
      <3>3. \A i \in DOMAIN Append(reg, e) : Append(reg, e)[i].id # id
        BY <1>6, <2>1, <3>1, <3>2
      <3> QED BY <2>1, <3>3, WithoutNone
    <2>2. CASE id # AutoId
      <3>1. \A i \in DOMAIN reg : reg[i].id # e.id
        BY <1>6 DEF CanRegister
      <3>2. Without(Append(reg, e), e.id) = reg
        BY <1>6, <3>1, WithoutLast
      <3> QED BY <1>2, <1>6, <2>2, <3>2
    <2> QED BY <2>1, <2>2
  <1>7. Without(Append(sess, InSession(p)), id)
          = IF id = AutoId THEN Append(sess, InSession(p)) ELSE sess
    <2>1. \A x \in SessPort : x.id \in Ids
      BY DEF SessPort
    <2> QED BY <1>3, <1>4, <1>5, <1>6, <2>1
  <1>8. Without(Append(serial, InSerial(p)), id)
          = IF id = AutoId THEN Append(serial, InSerial(p)) ELSE serial
    <2>1. \A x \in SerialPort : x.id \in Ids
      BY DEF SerialPort
    <2> QED BY <1>1, <1>4, <1>5, <1>6, <2>1
  <1> QED BY <1>1, <1>2, <1>3, <1>7, <1>8

\* Either way the registries still have what they should.
LEMMA AbortServes ==
    ASSUME IInv, Kept, NEW a \in Admins, NEW id \in Ids \cup {AutoId}, NEW p \in Described(id),
           AddAborts(a, id, p)
    PROVE  Kept'
  <1>1. /\ p \in Port /\ CanRegister(sess, p) /\ CanRegister(serial, p)
        /\ lock = None /\ UNCHANGED <<ports, listeners, nets, lock, call>>
        /\ IF id = AutoId
           THEN /\ sess' = Append(sess, InSession(p)) /\ serial' = Append(serial, InSerial(p))
                /\ stray' = stray \cup {KeyOf(p)}
           ELSE UNCHANGED <<sess, serial, stray>>
    BY AbortLeaves
  <1>2. OpenPorts' = OpenPorts
    BY <1>1 DEF OpenPorts
  <1>3. \A j \in DOMAIN listeners : listeners[j].net # 0
    <2>1. ~Holding("shift")
      BY <1>1, PortAssumption DEF Holding
    <2> QED BY <2>1, AllServed
  <1>4. CASE id # AutoId
    BY <1>1, <1>2, <1>3, <1>4 DEF Kept, Registers
  <1>5. CASE id = AutoId
    <2>1. KeyOf(p) \notin OpenPorts
      BY <1>1, BothTakeIt
    <2>2. OpenPorts' \cap stray' = {}
      BY <1>1, <1>2, <1>5, <2>1 DEF Kept
    <2>3. /\ InSession(p) \in SessPort /\ KeyOf(InSession(p)) = KeyOf(p)
          /\ InSession(p).id = p.id /\ InSession(p).tcp = p.tcp
          /\ InSerial(p) \in SerialPort /\ KeyOf(InSerial(p)) = KeyOf(p)
          /\ InSerial(p).id = p.id /\ InSerial(p).tcp = p.tcp
      BY <1>1 DEF Port, SessPort, SerialPort, InSession, InSerial, KeyOf
    <2>4. sess \in Seq(SessPort) /\ serial \in Seq(SerialPort)
      BY TypesAre DEF IInv
    <2>5. Distinct(Keys(sess)) /\ Distinct(Keys(serial))
      BY DEF Kept, Registers
    <2>6. ASSUME NEW S, NEW reg \in Seq(S), NEW e \in S, \A x \in S : KeyOf(x) \in Key,
                 Distinct(Keys(reg)), CanRegister(reg, p), e.id = p.id, e.tcp = p.tcp
          PROVE  /\ Distinct(Keys(Append(reg, e)))
                 /\ KeysIn(Append(reg, e)) = KeysIn(reg) \cup {KeyOf(e)}
      <3>1. \A i \in DOMAIN reg : reg[i].id # e.id /\ reg[i].tcp # e.tcp
        BY <2>6 DEF CanRegister
      <3> QED BY <2>6, <3>1, RegistryGrows
    <2>7. Distinct(Keys(sess')) /\ KeysIn(sess') = KeysIn(sess) \cup {KeyOf(p)}
      <3> DEFINE e == InSession(p)
      <3>1. e \in SessPort /\ e.id = p.id /\ e.tcp = p.tcp /\ KeyOf(e) = KeyOf(p)
        BY <2>3
      <3>2. sess' = Append(sess, e)
        BY <1>1, <1>5
      <3> HIDE DEF e
      <3> QED BY <1>1, <2>4, <2>5, <2>6, <3>1, <3>2, EntryKeys
    <2>8. Distinct(Keys(serial')) /\ KeysIn(serial') = KeysIn(serial) \cup {KeyOf(p)}
      <3> DEFINE e == InSerial(p)
      <3>1. e \in SerialPort /\ e.id = p.id /\ e.tcp = p.tcp /\ KeyOf(e) = KeyOf(p)
        BY <2>3
      <3>2. serial' = Append(serial, e)
        BY <1>1, <1>5
      <3> HIDE DEF e
      <3> QED BY <1>1, <2>4, <2>5, <2>6, <3>1, <3>2, EntryKeys
    <2>9. Registers(sess)' /\ Registers(serial)'
      BY <1>1, <1>2, <1>5, <2>7, <2>8 DEF Kept, Registers
    <2> QED BY <1>1, <1>3, <2>2, <2>9 DEF Kept
  <1> QED BY <1>4, <1>5

\* Steps that leave the lower tables alone, outside the shift of a removal.
LEMMA OthersServe ==
    ASSUME IInv, Kept, ~Holding("shift"), UNCHANGED <<listeners, sess, serial, stray>>
    PROVE  Kept' /\ OpenPorts' = OpenPorts
  <1>1. \A j \in DOMAIN listeners : listeners[j].net # 0
    BY AllServed
  <1>2. OpenPorts' = OpenPorts
    BY DEF OpenPorts
  <1>3. Registers(sess)' /\ Registers(serial)' /\ OpenPorts' \cap stray' = {}
    BY <1>2 DEF Kept, Registers
  <1> QED BY <1>1, <1>2, <1>3 DEF Kept

\* remove_port takes the interface away with the registrations.
LEMMA UnregisterServes ==
    ASSUME IInv, Kept, NEW a \in Admins, RemoveUnregister(a)
    PROVE  /\ Kept'
           /\ \E k \in OpenPorts : OpenPorts' = OpenPorts \ {k}
  <1>1. call[a].op = "drain" /\ lock = a /\ lock' = lock /\ stray' = stray
    BY DEF RemoveUnregister, IInv, OneHolder, LockedOps
  <1>2. PICK i \in TcpAt(ports, call[a].tcp), k \in TcpAt(listeners, call[a].tcp) :
          /\ sess' = Without(sess, ports[i].id) /\ serial' = Without(serial, ports[i].id)
          /\ listeners' = [listeners EXCEPT ![k].net = 0]
    BY DEF RemoveUnregister
  <1>3. /\ TableKeys /\ Distinct(Keys(ports)) /\ Keys(listeners) = Keys(ports)
        /\ Len(listeners) = Len(ports)
        /\ \A j \in DOMAIN ports :
             listeners[j].id = ports[j].id /\ listeners[j].tcp = ports[j].tcp
    BY <1>1, AgreeWhenFree DEF Holding
  <1>4. /\ listeners \in Seq(Listener) /\ sess \in Seq(SessPort) /\ serial \in Seq(SerialPort)
        /\ call \in [Admins -> Calls]
    BY TypesAre DEF IInv
  <1>5. /\ i \in DOMAIN ports /\ ports[i].tcp = call[a].tcp
        /\ k \in DOMAIN listeners /\ listeners[k].tcp = call[a].tcp
        /\ DOMAIN listeners = DOMAIN ports /\ DOMAIN Keys(ports) = DOMAIN ports
    BY <1>3 DEF TcpAt, First, TableKeys, Keys
  <1>6. \A j \in DOMAIN listeners :
          /\ Keys(ports)[j] = KeyOf(listeners[j])
          /\ listeners[j].tcp = listeners[k].tcp => j = k
    <2>1. \A j \in DOMAIN listeners : /\ Keys(ports)[j] = KeyOf(listeners[j])
                                      /\ Keys(ports)[j][2] = listeners[j].tcp
      BY <1>3, <1>5 DEF TableKeys
    <2> QED BY <1>3, <1>5, <2>1 DEF Distinct
  <1>7. i = k /\ ports[i].id = listeners[k].id
    BY <1>3, <1>5, <1>6
  <1>8. /\ \A j \in DOMAIN listeners : listeners[j].net # 0
        /\ KeyOf(listeners[k]) \in OpenPorts
        /\ KeyOf(listeners[k]) \in KeysIn(sess) \cap KeysIn(serial)
    <2>1. ~Holding("shift")
      BY <1>1 DEF Holding
    <2>2. \A j \in DOMAIN listeners : listeners[j].net # 0
      BY <2>1, AllServed
    <2>3. KeyOf(listeners[k]) \in OpenPorts
      BY <1>5, <2>2 DEF OpenPorts
    <2> QED BY <2>2, <2>3 DEF Kept, Registers
  <1>9. /\ Distinct(Keys(sess')) /\ KeysIn(sess') = KeysIn(sess) \ {KeyOf(listeners[k])}
        /\ Distinct(Keys(serial')) /\ KeysIn(serial') = KeysIn(serial) \ {KeyOf(listeners[k])}
    <2> DEFINE e == listeners[k]
    <2>1. KeyOf(e) \in KeysIn(sess) /\ KeyOf(e) \in KeysIn(serial)
      BY <1>5, <1>8
    <2>2. Distinct(Keys(sess)) /\ Distinct(Keys(serial))
      BY DEF Kept, Registers
    <2>3. sess' = Without(sess, e.id) /\ serial' = Without(serial, e.id)
      BY <1>2, <1>7
    <2> HIDE DEF e
    <2>4. /\ Distinct(Keys(Without(sess, e.id)))
          /\ KeysIn(Without(sess, e.id)) = KeysIn(sess) \ {KeyOf(e)}
      BY <1>4, <2>1, <2>2, EntryKeys, RegistryForgets
    <2>5. /\ Distinct(Keys(Without(serial, e.id)))
          /\ KeysIn(Without(serial, e.id)) = KeysIn(serial) \ {KeyOf(e)}
      BY <1>4, <2>1, <2>2, EntryKeys, RegistryForgets
    <2> QED BY <2>3, <2>4, <2>5 DEF e
  <1>10. /\ DOMAIN listeners' = DOMAIN listeners
         /\ listeners'[k].net = 0 /\ listeners'[k].tcp = listeners[k].tcp
         /\ \A j \in DOMAIN listeners \ {k} :
              listeners'[j] = listeners[j] /\ KeyOf(listeners[j]) # KeyOf(listeners[k])
    <2>1. listeners' = [listeners EXCEPT ![k] = [listeners[k] EXCEPT !.net = 0]]
      BY <1>2
    <2>2. listeners[k] \in Listener
      BY <1>4, <1>5
    <2>3. /\ [listeners[k] EXCEPT !.net = 0].net = 0
          /\ [listeners[k] EXCEPT !.net = 0].tcp = listeners[k].tcp
      BY <2>2 DEF Listener
    <2>4. \A j \in DOMAIN listeners \ {k} : KeyOf(listeners[j]) # KeyOf(listeners[k])
      BY <1>5, <1>6 DEF KeyOf
    <2> QED BY <1>4, <1>5, <2>1, <2>3, <2>4
  <1>11. Holding("shift")' /\ call'[lock'].tcp = call[a].tcp
    <2>1. call' = [call EXCEPT ![a].op = "shift"]
      BY DEF RemoveUnregister
    <2>2. call'[a].op = "shift" /\ call'[a].tcp = call[a].tcp
      BY <1>1, <1>4, <2>1, CallStages
    <2> QED BY <1>1, <2>2 DEF Holding
  <1>12. OpenPorts' = OpenPorts \ {KeyOf(listeners[k])}
    <2>1. OpenPorts' = {KeyOf(listeners'[j]) :
                          j \in {l \in DOMAIN listeners' : listeners'[l].net # 0}}
      BY DEF OpenPorts
    <2>2. ASSUME NEW x \in OpenPorts' PROVE x \in OpenPorts \ {KeyOf(listeners[k])}
      BY <1>10, <2>1 DEF OpenPorts
    <2>3. ASSUME NEW x \in OpenPorts \ {KeyOf(listeners[k])} PROVE x \in OpenPorts'
      BY <1>10, <2>1 DEF OpenPorts
    <2> QED BY <2>2, <2>3
  <1>13. Registers(sess)' /\ Registers(serial)' /\ OpenPorts' \cap stray' = {}
    <2> DEFINE x == KeyOf(listeners[k])
    <2>1. x \in OpenPorts /\ OpenPorts' = OpenPorts \ {x}
      BY <1>8, <1>12
    <2>2. /\ KeysIn(sess') = KeysIn(sess) \ {x} /\ KeysIn(serial') = KeysIn(serial) \ {x}
          /\ Distinct(Keys(sess')) /\ Distinct(Keys(serial'))
      BY <1>9
    <2> HIDE DEF x
    <2>3. x \notin stray
      BY <2>1 DEF Kept
    <2> QED BY <1>1, <2>1, <2>2, <2>3 DEF Kept, Registers
  <1>14. ASSUME NEW j \in DOMAIN listeners', listeners'[j].net = 0
         PROVE  Holding("shift")' /\ listeners'[j].tcp = call'[lock'].tcp
    <2>1. j = k
      BY <1>8, <1>10, <1>14
    <2> QED BY <1>5, <1>10, <1>11, <2>1
  <1>15. Kept'
    BY <1>13, <1>14 DEF Kept
  <1> QED BY <1>8, <1>12, <1>15

\* The listener it takes out is the one without interface.
LEMMA ShiftServes ==
    ASSUME IInv, Kept, NEW a \in Admins, RemoveListener(a)
    PROVE  /\ Kept'
           /\ OpenPorts' = OpenPorts
  <1>1. call[a].op = "shift" /\ lock = a
    BY DEF RemoveListener, IInv, OneHolder, LockedOps
  <1>2. TableKeys
    BY TableKeysHold DEF IInv
  <1>3. PICK i \in DOMAIN ports :
          ports[i].tcp = call[a].tcp /\ listeners[i].net = 0 /\ Keys(listeners) = Keys(ports)
    BY <1>1 DEF IInv, KeysInStep, ShiftAgrees, Holding
  <1>4. Distinct(Keys(listeners))
    BY <1>1, <1>3, PortAssumption DEF IInv, KeysInStep
  <1>5. PICK k \in TcpAt(listeners, call[a].tcp) : listeners' = RemoveAt(listeners, k)
    BY DEF RemoveListener
  <1>6. /\ listeners \in Seq(Listener) /\ DOMAIN listeners = 1..Len(listeners)
        /\ DOMAIN Keys(listeners) = DOMAIN listeners /\ DOMAIN ports = DOMAIN listeners
    <2>1. Len(ports) = Len(listeners)
      BY <1>2, <1>3 DEF TableKeys
    <2> QED BY <1>2, <2>1, TypesAre DEF TableKeys, Keys, IInv
  <1>7. k \in DOMAIN listeners /\ listeners[k].tcp = call[a].tcp
    BY <1>5 DEF TcpAt, First
  <1>8. \A j \in DOMAIN listeners : listeners[j].tcp = call[a].tcp => j = k
    BY <1>2, <1>4, <1>6, <1>7 DEF TableKeys, Distinct
  <1>9. listeners[k].net = 0
    <2>1. i \in DOMAIN listeners /\ listeners[i].tcp = ports[i].tcp
      BY <1>2, <1>3, <1>6 DEF TableKeys
    <2> QED BY <1>3, <1>8, <2>1
  <1> DEFINE n == Len(listeners)
  <1>10. /\ listeners' \in Seq(Listener) /\ DOMAIN listeners' = 1..n - 1
         /\ n \in Nat /\ k \in 1..n /\ DOMAIN listeners = 1..n
         /\ \A j \in 1..n - 1 : listeners'[j] = IF j < k THEN listeners[j] ELSE listeners[j + 1]
    <2>1. /\ RemoveAt(listeners, k) \in Seq(Listener) /\ Len(RemoveAt(listeners, k)) = n - 1
          /\ \A j \in 1..n - 1 :
               RemoveAt(listeners, k)[j] = IF j < k THEN listeners[j] ELSE listeners[j + 1]
      BY <1>6, <1>7, RemoveAtIs
    <2> QED BY <1>5, <1>6, <1>7, <2>1
  <1> HIDE DEF n
  <1>11. ASSUME NEW j \in 1..n - 1
         PROVE  \E l \in 1..n : l # k /\ listeners'[j] = listeners[l]
    <2>1. CASE j < k
      <3>1. j \in 1..n /\ j # k
        BY <1>10, <2>1
      <3> QED BY <1>10, <2>1, <3>1
    <2>2. CASE ~(j < k)
      <3>1. j + 1 \in 1..n /\ j + 1 # k
        BY <1>10, <2>2
      <3> QED BY <1>10, <2>2, <3>1
    <2> QED BY <2>1, <2>2
  <1>12. ASSUME NEW l \in 1..n, l # k
         PROVE  \E j \in 1..n - 1 : listeners'[j] = listeners[l]
    <2>1. CASE l < k
      <3>1. l \in 1..n - 1
        BY <1>10, <2>1
      <3> QED BY <1>10, <2>1, <3>1
    <2>2. CASE ~(l < k)
      <3>1. l - 1 \in 1..n - 1 /\ ~(l - 1 < k) /\ (l - 1) + 1 = l
        BY <1>10, <1>12, <2>2
      <3> QED BY <1>10, <3>1
    <2> QED BY <2>1, <2>2
  <1>13. \A l \in 1..n : l # k => listeners[l].net # 0
    BY <1>1, <1>8, <1>10 DEF Kept
  <1>14. OpenPorts' = OpenPorts
    <2>1. OpenPorts' = {KeyOf(listeners'[j]) :
                          j \in {l \in 1..n - 1 : listeners'[l].net # 0}}
      BY <1>10 DEF OpenPorts
    <2>2. ASSUME NEW x \in OpenPorts' PROVE x \in OpenPorts
      <3>1. PICK j \in 1..n - 1 : listeners'[j].net # 0 /\ x = KeyOf(listeners'[j])
        BY <2>1
      <3>2. PICK l \in 1..n : listeners'[j] = listeners[l]
        BY <1>11
      <3> QED BY <1>10, <3>1, <3>2 DEF OpenPorts
    <2>3. ASSUME NEW x \in OpenPorts PROVE x \in OpenPorts'
      <3>1. PICK l \in 1..n : listeners[l].net # 0 /\ x = KeyOf(listeners[l])
        BY <1>10 DEF OpenPorts
      <3>2. PICK j \in 1..n - 1 : listeners'[j] = listeners[l]
        BY <1>9, <1>12, <3>1
      <3> QED BY <2>1, <3>1, <3>2
    <2> QED BY <2>2, <2>3
  <1>15. UNCHANGED <<sess, serial, stray>>
    BY DEF RemoveListener
  <1>16. \A j \in DOMAIN listeners' : listeners'[j].net # 0
    <2> SUFFICES ASSUME NEW j \in 1..n - 1 PROVE listeners'[j].net # 0
      BY <1>10
    <2> QED BY <1>11, <1>13
  <1>17. Registers(sess)' /\ Registers(serial)' /\ OpenPorts' \cap stray' = {}
    BY <1>14, <1>15 DEF Kept, Registers
  <1>18. Kept'
    BY <1>16, <1>17 DEF Kept
  <1> QED BY <1>14, <1>18

\* set_port_mode changes nothing of it.
LEMMA BesideServes ==
    ASSUME IInv, IInv', Kept, Beside
    PROVE  Kept' /\ OpenPorts' = OpenPorts
  <1>1. TableKeys /\ TableKeys'
    BY TableKeysHold, TableKeysNext DEF IInv
  <1>2. /\ DOMAIN listeners' = DOMAIN listeners
        /\ \A j \in DOMAIN listeners : /\ KeyOf(listeners'[j]) = KeyOf(listeners[j])
                                       /\ listeners'[j].tcp = listeners[j].tcp
                                       /\ listeners'[j].net = listeners[j].net
    BY <1>1 DEF TableKeys, Beside
  <1>3. OpenPorts' = OpenPorts
    <2>1. OpenPorts' = {KeyOf(listeners'[j]) :
                          j \in {l \in DOMAIN listeners' : listeners'[l].net # 0}}
      BY DEF OpenPorts
    <2> QED BY <1>2, <2>1 DEF OpenPorts
  <1>4. KeysIn(sess') = KeysIn(sess) /\ KeysIn(serial') = KeysIn(serial)
    BY KeysInRange DEF Beside
  <1>5. Registers(sess)' /\ Registers(serial)' /\ OpenPorts' \cap stray' = {}
    BY <1>3, <1>4 DEF Kept, Registers, Beside
  <1>6. Holding("shift") => Holding("shift")' /\ call'[lock'].tcp = call[lock].tcp
    BY DEF Beside, Holding, LockedOps
  <1>7. \A j \in DOMAIN listeners' :
          listeners'[j].net = 0 => Holding("shift")' /\ listeners'[j].tcp = call'[lock'].tcp
    BY <1>2, <1>6 DEF Kept
  <1> QED BY <1>3, <1>5, <1>7 DEF Kept

---------------------------------------------------------------------------
(* The refinement.                                                         *)

\* The ports with an interface are the ports served.
ServedIsOpen == servedPorts = OpenPorts

LEMMA ServedAreOpen == IInv /\ Kept => ServedIsOpen
  <1> SUFFICES ASSUME IInv, Kept PROVE servedPorts = OpenPorts
    BY DEF ServedIsOpen
  <1>1. \A j \in DOMAIN listeners : listeners[j].net # 0 =>
          nets[listeners[j].net] = KeyOf(listeners[j])[2]
    BY DEF IInv, NetsInStep, KeyOf
  <1>2. \A j \in DOMAIN listeners : listeners[j].net # 0 =>
          KeyOf(listeners[j]) \in KeysIn(sess) \cap KeysIn(serial)
    BY DEF Kept, Registers, OpenPorts
  <1>3. ASSUME NEW k \in servedPorts PROVE k \in OpenPorts
    BY DEF servedPorts, Listens, OpenPorts
  <1>4. ASSUME NEW k \in OpenPorts PROVE k \in servedPorts
    BY <1>1, <1>2 DEF servedPorts, Listens, OpenPorts
  <1> QED BY <1>3, <1>4

\* So they are after a step.
LEMMA ServedAreOpenNext == IInv' /\ Kept' => ServedIsOpen'
  BY ServedAreOpen, PTL

\* While no call is half way through, the listed ports are those.
LEMMA ListedAreOpen ==
    ASSUME IInv, Kept, lock = None \/ Holding("drain")
    PROVE  KeysIn(ports) = OpenPorts
  <1>1. KeysIn(ports) = KeysIn(listeners)
    BY AgreeWhenFree, KeysInRange
  <1>2. ~Holding("shift")
    BY PortAssumption DEF Holding
  <1> QED BY <1>1, <1>2, AllServed

\* There are as many of them as the table has entries, as no two share anything.
LEMMA ListedCount ==
    ASSUME IInv, lock # Gone
    PROVE  /\ IsFiniteSet(KeysIn(ports)) /\ Cardinality(KeysIn(ports)) = Len(ports)
           /\ KeysIn(ports) \subseteq Ids \X Tcps
           /\ \A p, q \in KeysIn(ports) : Set!Shares(p, q) => p = q
  <1> DEFINE K == Keys(ports)
             n == Len(ports)
  <1>1. K \in Seq(Key) /\ DOMAIN K = 1..n /\ n \in Nat
    BY TableKeysHold DEF IInv, TableKeys
  <1>2. Distinct(K)
    BY DEF IInv, KeysInStep
  <1>3. KeysIn(ports) = Range(K)
    BY KeysInRange
  <1> HIDE DEF K, n
  <1>4. Len(K) = n
    BY TableKeysHold DEF IInv, TableKeys, K, n
  <1>5. IsFiniteSet(Range(K)) /\ Cardinality(Range(K)) = n
    BY <1>1, <1>2, <1>4, DistinctCount
  <1>6. Range(K) \subseteq Ids \X Tcps
    BY <1>1 DEF Range, Key
  <1>7. \A p, q \in Range(K) : Set!Shares(p, q) => p = q
    BY <1>1, <1>2 DEF Range, Distinct, Set!Shares
  <1> QED BY <1>3, <1>5, <1>6, <1>7 DEF n

\* Between calls the set is settled.
LEMMA FreeIsSettled ==
    ASSUME IInv, Kept, lock = None \/ Holding("drain")
    PROVE  Set!Settled
  <1>1. lock # Gone
    BY PortAssumption DEF Holding
  <1>2. KeysIn(ports) = servedPorts
    BY ListedAreOpen, ServedAreOpen DEF ServedIsOpen
  <1> QED BY <1>1, <1>2 DEF Set!Settled

\* A step that touches neither the port table's ports nor the listeners' is a
\* stutter.
LEMMA SamePortsStutter ==
    ASSUME IInv, Kept, IInv', Kept', Keys(ports') = Keys(ports),
           OpenPorts' = OpenPorts, (lock' = Gone) = (lock = Gone)
    PROVE  UNCHANGED Set!pvars
  <1>1. KeysIn(ports') = KeysIn(ports)
    BY KeysInRange
  <1>2. servedPorts' = servedPorts
    BY ServedAreOpen, ServedAreOpenNext DEF ServedIsOpen
  <1> QED BY <1>1, <1>2 DEF Set!pvars

\* The instance's own copy of the library operator is the same operator.
LEMMA SameCardinality ==
    ASSUME NEW S PROVE Set!Cardinality(S) = Cardinality(S)
  BY DEF Set!Cardinality, Cardinality

\* Publishing opens the port.
LEMMA PublishOpens ==
    ASSUME IInv, Kept, IInv', Kept',
           NEW a \in Admins, NEW id \in Ids \cup {AutoId}, NEW p \in Described(id),
           AddPublish(a, id, p)
    PROVE  KeyOf(p) \in Ids \X Tcps /\ Set!Open(KeyOf(p))
  <1>1. /\ lock = None /\ lock' = a /\ ports' = ports /\ Len(ports) < MaxPorts
        /\ \A i \in DOMAIN ports : ports[i].id # p.id /\ ports[i].tcp # p.tcp
    BY DEF AddPublish, MayAdd, CanRegister
  <1>2. p \in Port
    BY DEF Described
  <1>3. KeyOf(p) \in Ids \X Tcps /\ KeyOf(p)[1] = p.id /\ KeyOf(p)[2] = p.tcp
    BY <1>2 DEF Port, KeyOf
  <1>4. lock # Gone /\ lock' # Gone
    BY <1>1, PortAssumption
  <1>5. Cardinality(KeysIn(ports)) < MaxPorts
    BY <1>1, <1>4, ListedCount
  <1>6. ~\E q \in KeysIn(ports) : Set!Shares(KeyOf(p), q)
    BY <1>1, <1>3 DEF KeysIn, KeyOf, Set!Shares
  <1>7. servedPorts' = servedPorts \cup {KeyOf(p)}
    <2>1. OpenPorts' = OpenPorts \cup {KeyOf(p)}
      BY PublishServes
    <2> QED BY <2>1, ServedAreOpen, ServedAreOpenNext DEF ServedIsOpen
  <1>8. Set!Settled
    BY <1>1, FreeIsSettled
  <1>9. UNCHANGED <<KeysIn(ports), lock = Gone>>
    BY <1>1, <1>4
  <1>10. Set!Cardinality(KeysIn(ports)) < MaxPorts
    BY <1>5, SameCardinality
  <1> QED BY <1>3, <1>10, <1>6, <1>7, <1>8, <1>9, Zenon DEF Set!Open

\* The commit lists it.
LEMMA CommitLists ==
    ASSUME IInv, Kept, IInv', Kept', NEW a \in Admins, AddCommit(a)
    PROVE  \E k \in Ids \X Tcps : Set!List(k)
  <1> DEFINE k == KeyOf(call[a].port)
  <1>1. /\ call[a].op = "publish" /\ ports' = Append(ports, call[a].port) /\ lock' = None
        /\ UNCHANGED <<listeners, sess, serial, nets, stray>>
    BY DEF AddCommit
  <1>2. lock = a
    BY <1>1 DEF IInv, OneHolder, LockedOps
  <1>3. /\ Distinct(Append(Keys(ports), k)) /\ Keys(listeners) = Append(Keys(ports), k)
    BY <1>1, <1>2 DEF IInv, KeysInStep, PublishAgrees, Holding
  <1>4. ports \in Seq(Port) /\ call[a].port \in Port
    BY <1>1, TypesAre, CallFields DEF IInv
  <1>5. k \in Ids \X Tcps
    BY <1>4 DEF Port, KeyOf
  <1>6. Keys(ports') = Append(Keys(ports), k)
    BY <1>1, <1>4, EntryKeys, KeysAppend
  <1>7. TableKeys
    BY TableKeysHold DEF IInv
  <1> DEFINE n == Len(ports)
             K == Keys(ports)
  <1> HIDE DEF k
  <1>8. /\ n \in Nat /\ DOMAIN K = 1..n /\ DOMAIN Append(K, k) = 1..n + 1
        /\ Append(K, k)[n + 1] = k /\ \A i \in 1..n : Append(K, k)[i] = K[i]
        /\ n + 1 \in 1..n + 1
        /\ \A i \in 1..n + 1 : i \in 1..n \/ i = n + 1
        /\ \A i \in 1..n : i \in 1..n + 1 /\ i # n + 1
    <2>1. n \in Nat /\ K \in Seq(Key) /\ Len(K) = n
      BY <1>7 DEF TableKeys
    <2> HIDE DEF n, K
    <2> QED BY <2>1, <1>5 DEF Key
  <1> HIDE DEF n, K
  <1>9. Range(Append(K, k)) = Range(K) \cup {k} /\ k \notin Range(K)
    <2>1. Range(Append(K, k)) = Range(K) \cup {k}
      BY <1>8 DEF Range
    <2>2. Distinct(Append(K, k))
      BY <1>3 DEF K
    <2>3. ASSUME NEW i \in 1..n PROVE K[i] # k
      BY <1>8, <2>2 DEF Distinct
    <2> QED BY <1>8, <2>1, <2>3 DEF Range
  <1>10. KeysIn(ports') = KeysIn(ports) \cup {k} /\ k \notin KeysIn(ports)
    BY <1>6, <1>9, KeysInRange DEF K
  <1>11. k \in servedPorts /\ servedPorts' = servedPorts
    <2>1. ~Holding("shift")
      BY <1>1, <1>2 DEF Holding
    <2>3. KeysIn(listeners) = OpenPorts
      BY <2>1, AllServed
    <2>4. k \in KeysIn(listeners)
      BY <1>3, <1>9, KeysInRange DEF K
    <2>5. OpenPorts' = OpenPorts
      BY <1>1 DEF OpenPorts
    <2> QED BY <2>3, <2>4, <2>5, ServedAreOpen, ServedAreOpenNext DEF ServedIsOpen
  <1>12. lock # Gone /\ lock' # Gone
    BY <1>1, <1>2, PortAssumption
  <1>13. Set!List(k)
    BY <1>10, <1>11, <1>12 DEF Set!List
  <1> QED BY <1>5, <1>13

\* Unregistering closes it.
LEMMA UnregisterCloses ==
    ASSUME IInv, Kept, IInv', Kept', NEW a \in Admins, RemoveUnregister(a)
    PROVE  \E k \in Ids \X Tcps : Set!Close(k)
  <1>1. /\ call[a].op = "drain" /\ lock = a /\ lock' = lock /\ ports' = ports
    BY DEF RemoveUnregister, IInv, OneHolder, LockedOps
  <1>2. PICK k \in OpenPorts : OpenPorts' = OpenPorts \ {k}
    BY UnregisterServes
  <1>3. k \in Ids \X Tcps
    <2>1. \A i \in DOMAIN listeners : listeners[i] \in Listener
      BY TableKeysHold DEF IInv, TableKeys
    <2> QED BY <2>1 DEF Listener, KeyOf, OpenPorts
  <1>4. Set!Settled
    BY <1>1, FreeIsSettled DEF Holding
  <1>5. servedPorts = OpenPorts /\ servedPorts' = OpenPorts'
    BY ServedAreOpen, ServedAreOpenNext DEF ServedIsOpen
  <1>6. Set!Close(k)
    BY <1>1, <1>2, <1>4, <1>5 DEF Set!Close
  <1> QED BY <1>3, <1>6

\* Taking the listener out changes nothing any more.
LEMMA ShiftStutters ==
    ASSUME IInv, Kept, IInv', Kept', NEW a \in Admins, RemoveListener(a)
    PROVE  UNCHANGED Set!pvars
  <1>1. UNCHANGED <<ports, lock>>
    BY DEF RemoveListener
  <1>2. OpenPorts' = OpenPorts
    BY ShiftServes
  <1> QED BY <1>1, <1>2, SamePortsStutter

\* The last step of a removal takes the port off the list.
LEMMA RemovalUnlists ==
    ASSUME IInv, Kept, IInv', Kept', NEW a \in Admins, RemovePort(a)
    PROVE  \E k \in Ids \X Tcps : Set!Unlist(k)
  <1>1. /\ call[a].op = "table" /\ lock = a /\ lock' = None
        /\ UNCHANGED <<listeners, sess, serial, nets, stray>>
    BY DEF RemovePort, IInv, OneHolder, LockedOps
  <1>2. TableKeys
    BY TableKeysHold DEF IInv
  <1>3. PICK i \in DOMAIN ports :
          ports[i].tcp = call[a].tcp /\ Keys(listeners) = RemoveAt(Keys(ports), i)
    BY <1>1 DEF IInv, KeysInStep, TableAgrees, Holding
  <1>4. Distinct(Keys(ports)) /\ lock # Gone /\ lock' # Gone
    BY <1>1, PortAssumption DEF IInv, KeysInStep
  <1>5. PICK m \in TcpAt(ports, call[a].tcp) : ports' = RemoveAt(ports, m)
    BY DEF RemovePort
  <1>6. ports \in Seq(Port) /\ i \in 1..Len(ports)
    BY <1>2, TypesAre DEF IInv, TableKeys
  <1>7. m = i
    <2>1. m \in DOMAIN ports /\ ports[m].tcp = ports[i].tcp
      BY <1>3, <1>5 DEF TcpAt, First
    <2>2. DOMAIN Keys(ports) = DOMAIN ports /\ Keys(ports)[m][2] = Keys(ports)[i][2]
      BY <1>2, <1>3, <2>1 DEF TableKeys, Keys
    <2> QED BY <1>3, <1>4, <2>1, <2>2 DEF Distinct
  <1> DEFINE k == KeyOf(ports[i])
  <1>8. KeysIn(ports') = KeysIn(ports) \ {k}
    BY <1>4, <1>5, <1>6, <1>7, EntryKeys, RegistryShrinks
  <1>9. KeysIn(listeners) = KeysIn(ports) \ {k}
    <2>1. Keys(RemoveAt(ports, i)) = RemoveAt(Keys(ports), i)
      BY <1>6, EntryKeys, KeysRemove
    <2>2. KeysIn(listeners) = KeysIn(ports')
      BY <1>3, <1>5, <1>7, <2>1, KeysInRange
    <2> QED BY <1>8, <2>2
  <1>10. servedPorts = KeysIn(ports) \ {k} /\ servedPorts' = servedPorts
    <2>1. ~Holding("shift")
      BY <1>1 DEF Holding
    <2>3. KeysIn(listeners) = OpenPorts
      BY <2>1, AllServed
    <2>4. OpenPorts' = OpenPorts
      BY <1>1 DEF OpenPorts
    <2> QED BY <1>9, <2>3, <2>4, ServedAreOpen, ServedAreOpenNext DEF ServedIsOpen
  <1>11. k \in KeysIn(ports) /\ k \in Ids \X Tcps
    <2>1. ports[i] \in Port
      BY <1>6
    <2> QED BY <1>3, <2>1 DEF KeysIn, KeyOf, Port
  <1> HIDE DEF k
  <1>12. Set!Unlist(k)
    BY <1>4, <1>8, <1>10, <1>11 DEF Set!Unlist
  <1> QED BY <1>11, <1>12

\* An add with the table full loses the list.
LEMMA FullOverflows ==
    ASSUME IInv, Kept, IInv', Kept', NEW a \in Admins, AddFull(a)
    PROVE  Set!Overflow
  <1>1. /\ lock = None /\ Len(ports) = MaxPorts /\ ports' = <<>> /\ lock' = Gone
        /\ listeners' = listeners
    BY DEF AddFull
  <1>2. lock # Gone
    BY <1>1, PortAssumption
  <1>3. Cardinality(KeysIn(ports)) = MaxPorts
    BY <1>1, <1>2, ListedCount
  <1>4. KeysIn(ports') = {}
    BY <1>1 DEF KeysIn
  <1>5. servedPorts' = servedPorts
    <2>1. OpenPorts' = OpenPorts
      BY <1>1 DEF OpenPorts
    <2> QED BY <2>1, ServedAreOpen, ServedAreOpenNext DEF ServedIsOpen
  <1>6. Set!Settled
    BY <1>1, FreeIsSettled
  <1>7. (lock = Gone)' = TRUE
    BY <1>1
  <1>8. Set!Cardinality(KeysIn(ports)) = MaxPorts
    BY <1>3, SameCardinality
  <1> QED BY <1>1, <1>8, <1>4, <1>5, <1>6, <1>7, Zenon DEF Set!Overflow

\* At the start what is listed is served.
LEMMA KeptInit == Init => Kept
  <1> SUFFICES ASSUME Init PROVE Kept
    OBVIOUS
  <1>1. IInv /\ TableKeys
    BY InvInit, TableKeysHold DEF IInv
  <1>2. /\ DOMAIN listeners = DOMAIN ports /\ DOMAIN sess = DOMAIN ports
        /\ DOMAIN serial = DOMAIN ports /\ stray = {}
        /\ \A i \in DOMAIN ports : /\ listeners[i] = Listening(ports[i], i)
                                   /\ sess[i] = InSession(ports[i])
                                   /\ serial[i] = InSerial(ports[i])
    BY DEF Init
  <1>3. \A i \in DOMAIN ports :
          /\ listeners[i].net = i /\ KeyOf(listeners[i]) = KeyOf(ports[i])
          /\ KeyOf(sess[i]) = KeyOf(ports[i]) /\ KeyOf(serial[i]) = KeyOf(ports[i])
    BY <1>2 DEF Listening, InSession, InSerial, KeyOf
  <1>4. Keys(sess) = Keys(ports) /\ Keys(serial) = Keys(ports)
    BY <1>2, <1>3 DEF Keys
  <1>5. Distinct(Keys(ports))
    BY <1>1, PortAssumption DEF IInv, KeysInStep, Init
  <1>6. \A i \in DOMAIN ports : i # 0
    BY <1>1 DEF TableKeys
  <1>7. \A j \in DOMAIN listeners : listeners[j].net # 0
    BY <1>2, <1>3, <1>6
  <1>8. Keys(listeners) = Keys(ports)
    BY <1>2, <1>3 DEF Keys
  <1>9. KeysIn(listeners) = OpenPorts
    BY <1>7 DEF KeysIn, OpenPorts
  <1>10. KeysIn(sess) = OpenPorts /\ KeysIn(serial) = OpenPorts
    BY <1>4, <1>8, <1>9, KeysInRange
  <1> QED BY <1>2, <1>4, <1>5, <1>7, <1>10 DEF Kept, Registers

\* Every step keeps it, and is one of the set's or none.
LEMMA KeptNext ==
    ASSUME IInv, Kept, [Next]_vars
    PROVE  Kept' /\ [Set!Next]_Set!pvars
  <1>1. IInv'
    BY InvNext
  <1>2. ASSUME NEW a \in Admins, AddSteps(a) PROVE Kept' /\ [Set!Next]_Set!pvars
    <2>1. CASE AddCommit(a)
      <3>1. ~Holding("shift") /\ UNCHANGED <<listeners, sess, serial, stray>>
        BY <2>1 DEF AddCommit, Holding, IInv, OneHolder, LockedOps
      <3>2. Kept'
        BY <3>1, OthersServe
      <3> QED BY <1>1, <2>1, <3>2, CommitLists DEF Set!Next
    <2>2. CASE AddFull(a)
      <3>1. ~Holding("shift") /\ UNCHANGED <<listeners, sess, serial, stray>>
        BY <2>2, PortAssumption DEF AddFull, Holding
      <3>2. Kept'
        BY <3>1, OthersServe
      <3> QED BY <1>1, <2>2, <3>2, FullOverflows DEF Set!Next
    <2>3. ASSUME NEW id \in Ids \cup {AutoId}, NEW p \in Described(id), AddPublish(a, id, p)
          PROVE  Kept' /\ [Set!Next]_Set!pvars
      <3>1. Kept'
        BY <2>3, PublishServes
      <3>2. KeyOf(p) \in Ids \X Tcps /\ Set!Open(KeyOf(p))
        BY <1>1, <2>3, <3>1, PublishOpens
      <3> QED BY <3>1, <3>2 DEF Set!Next
    <2>4. ASSUME NEW id \in Ids \cup {AutoId}, NEW p \in Described(id), AddAborts(a, id, p)
          PROVE  Kept' /\ [Set!Next]_Set!pvars
      <3>1. Kept'
        BY <2>4, AbortServes
      <3>2. UNCHANGED <<ports, listeners, lock>>
        BY <2>4 DEF AddAborts
      <3>3. OpenPorts' = OpenPorts
        BY <3>2 DEF OpenPorts
      <3> QED BY <1>1, <3>1, <3>2, <3>3, SamePortsStutter
    <2> QED BY <1>2, <2>1, <2>2, <2>3, <2>4 DEF AddSteps
  <1>3. ASSUME NEW a \in Admins, RemoveSteps(a) PROVE Kept' /\ [Set!Next]_Set!pvars
    <2>1. CASE (\E tcp \in Tcps : RemoveFind(a, tcp)) \/ RemoveRefused(a)
      <3>1. /\ ~Holding("shift") /\ UNCHANGED <<ports, listeners, sess, serial, stray>>
            /\ lock # Gone /\ lock' # Gone
        BY <2>1, PortAssumption
           DEF RemoveFind, RemoveRefused, regs, Holding, IInv, OneHolder, LockedOps
      <3>2. Kept'
        BY <3>1, OthersServe
      <3>3. OpenPorts' = OpenPorts
        BY <3>1 DEF OpenPorts
      <3> QED BY <1>1, <3>1, <3>2, <3>3, SamePortsStutter
    <2>2. CASE RemoveUnregister(a)
      <3>1. Kept'
        BY <2>2, UnregisterServes
      <3> QED BY <1>1, <2>2, <3>1, UnregisterCloses DEF Set!Next
    <2>3. CASE RemoveListener(a)
      <3>1. Kept'
        BY <2>3, ShiftServes
      <3> QED BY <1>1, <2>3, <3>1, ShiftStutters
    <2>4. CASE RemovePort(a)
      <3>1. ~Holding("shift") /\ UNCHANGED <<listeners, sess, serial, stray>>
        BY <2>4 DEF RemovePort, Holding, IInv, OneHolder, LockedOps
      <3>2. Kept'
        BY <3>1, OthersServe
      <3> QED BY <1>1, <2>4, <3>2, RemovalUnlists DEF Set!Next
    <2> QED BY <1>3, <2>1, <2>2, <2>3, <2>4 DEF RemoveSteps
  <1>4. ASSUME NEW a \in Admins, SetSteps(a) PROVE Kept' /\ [Set!Next]_Set!pvars
    <2>1. Beside
      BY <1>4, SetMoves
    <2>2. Kept' /\ OpenPorts' = OpenPorts
      BY <1>1, <2>1, BesideServes
    <2> QED BY <1>1, <2>1, <2>2, SamePortsStutter DEF Beside
  <1>5. CASE UNCHANGED vars
    <2>1. OpenPorts' = OpenPorts /\ ports' = ports /\ lock' = lock
      BY <1>5 DEF vars, regs, OpenPorts
    <2>2. Kept'
      BY <1>5, <2>1 DEF vars, regs, Kept, Registers, Holding
    <2> QED BY <1>1, <2>1, <2>2, SamePortsStutter
  <1> QED BY <1>2, <1>3, <1>4, <1>5 DEF Next

\* At every moment the set of ports is a set of whole ports that one call at a
\* time adds to or removes from: whatever calls overlap, however set_port_mode
\* interleaves with them, and whatever a failed add_port left in a registry.
THEOREM PortsAreASet == Spec => ImplementsPortSet
  <1>1. Init => Set!Init
    <2> SUFFICES ASSUME Init PROVE Set!Init
      OBVIOUS
    <2>1. IInv /\ Kept /\ lock = None
      BY InvInit, KeptInit DEF Init
    <2>2. lock # Gone
      BY <2>1, PortAssumption
    <2>3. servedPorts = KeysIn(ports)
      BY <2>1, ListedAreOpen, ServedAreOpen DEF ServedIsOpen
    <2>4. Len(ports) <= MaxPorts
      BY <2>1 DEF IInv, TypeOK
    <2>5. /\ Cardinality(KeysIn(ports)) <= MaxPorts /\ KeysIn(ports) \subseteq Ids \X Tcps
          /\ \A p, q \in KeysIn(ports) : Set!Shares(p, q) => p = q
      BY <2>1, <2>2, <2>4, ListedCount
    <2>6. (lock = Gone) = FALSE
      BY <2>2
    <2>7. Set!Cardinality(KeysIn(ports)) <= MaxPorts
      BY <2>5, SameCardinality
    <2> QED BY <2>3, <2>5, <2>6, <2>7, Zenon DEF Set!Init
  <1>2. IInv /\ Kept /\ [Next]_vars => IInv' /\ Kept' /\ [Set!Next]_Set!pvars
    BY InvNext, KeptNext
  <1> QED BY <1>1, <1>2, InvInit, KeptInit, PTL DEF Spec, ImplementsPortSet, Set!Spec

\* Every listed port is served whenever port_lock is free, and nothing else is.
ListedIsServed == lock = None => KeysIn(ports) = servedPorts

\* It is whatever failed adds left in the registries, as that has no listener.
THEOREM ListedAreServed == Spec => []ListedIsServed
  <1>1. IInv /\ Kept => ListedIsServed
    BY ListedAreOpen, ServedAreOpen DEF ServedIsOpen, ListedIsServed
  <1>2. IInv /\ Kept /\ [Next]_vars => IInv' /\ Kept'
    BY InvNext, KeptNext
  <1> QED BY <1>1, <1>2, InvInit, KeptInit, PTL DEF Spec

---------------------------------------------------------------------------
(* What the tables name.                                                   *)

\* Whenever port_lock is free the port table and the listeners have the same
\* ports in the same order, and both registries have those ports and the rests
\* of failed adds that chose their identifier, however set_port_mode interleaved.
THEOREM TablesAgree == Spec => []RegistriesAgree
  <1>1. ASSUME IInv, Kept, lock = None
        PROVE  /\ SamePorts(listeners) /\ Once(ports)
               /\ Once(sess) /\ KeysIn(sess) = KeysIn(ports) \cup stray
               /\ Once(serial) /\ KeysIn(serial) = KeysIn(ports) \cup stray
               /\ KeysIn(ports) \cap stray = {}
    <2>1. /\ TableKeys /\ Distinct(Keys(ports)) /\ Len(listeners) = Len(ports)
          /\ \A i \in DOMAIN ports :
               listeners[i].id = ports[i].id /\ listeners[i].tcp = ports[i].tcp
      BY <1>1, AgreeWhenFree
    <2>2. SamePorts(listeners)
      BY <2>1 DEF TableKeys, SamePorts
    <2>3. KeysIn(ports) = OpenPorts
      BY <1>1, ListedAreOpen
    <2>4. /\ KeysIn(sess) = KeysIn(ports) \cup stray
          /\ KeysIn(serial) = KeysIn(ports) \cup stray
          /\ KeysIn(ports) \cap stray = {}
          /\ Distinct(Keys(sess)) /\ Distinct(Keys(serial))
      BY <1>1, <2>3 DEF Kept, Registers
    <2>5. Once(ports)
      BY <2>1 DEF Distinct, Once, Keys, KeyOf
    <2>6. Once(sess) /\ Once(serial)
      BY <2>4 DEF Distinct, Once, Keys, KeyOf
    <2> QED BY <2>2, <2>4, <2>5, <2>6
  <1>2. IInv /\ Kept => RegistriesAgree
    BY <1>1 DEF RegistriesAgree
  <1>3. IInv /\ Kept /\ [Next]_vars => IInv' /\ Kept'
    BY InvNext, KeptNext
  <1> QED BY <1>2, <1>3, InvInit, KeptInit, PTL DEF Spec

\* The port a failed add leaves in both registries, or nothing at all.
OneRest == \E p \in Described(AutoId) : /\ sess' = Append(sess, InSession(p))
                                       /\ serial' = Append(serial, InSerial(p))
NoTrace ==
    call' = call /\ lock' = None =>
        UNCHANGED <<ports, listeners, nets>> /\ (UNCHANGED <<sess, serial>> \/ OneRest)

\* A failed add_port undoes what it registered; with an identifier of its own
\* choice it leaves just the one port in both registries.
THEOREM FailureIsClean == Spec => FailedAddUndone
  <1>1. ASSUME IInv, Kept, [Next]_vars, call' = call, lock' = None
        PROVE  UNCHANGED <<ports, listeners, nets>> /\ (UNCHANGED <<sess, serial>> \/ OneRest)
    <2>1. call \in [Admins -> Calls]
      BY <1>1, TypesAre DEF IInv
    <2>2. \A a \in Admins : \A c : call' = [call EXCEPT ![a] = c] => call[a] = c
      BY <1>1, <2>1
    <2>3. \A a \in Admins : call' = [call EXCEPT ![a] = Idle] => call[a].op = "idle"
      <3>1. Idle.op = "idle"
        BY DEF Idle
      <3> QED BY <2>2, <3>1
    <2>4. \A a \in Admins : \A op : call' = [call EXCEPT ![a].op = op] =>
                                  call[a] = [call[a] EXCEPT !.op = op]
      <3> TAKE a \in Admins
      <3> TAKE op
      <3> DEFINE d == [call[a] EXCEPT !.op = op]
      <3>1. call' = [call EXCEPT ![a].op = op] => call' = [call EXCEPT ![a] = d]
        OBVIOUS
      <3> HIDE DEF d
      <3>2. call' = [call EXCEPT ![a].op = op] => call[a] = d
        BY <2>2, <3>1
      <3> QED BY <3>2 DEF d
    <2>5. ASSUME NEW a \in Admins, AddSteps(a)
          PROVE  UNCHANGED <<ports, listeners, nets>> /\ (UNCHANGED <<sess, serial>> \/ OneRest)
      <3>1. ~AddCommit(a)
        BY <2>3 DEF AddCommit
      <3>2. ~AddFull(a)
        BY <1>1, PortAssumption DEF AddFull
      <3>3. ASSUME NEW id \in Ids \cup {AutoId}, NEW p \in Described(id), AddPublish(a, id, p)
            PROVE  FALSE
        BY <1>1, <3>3, PortAssumption DEF AddPublish
      <3>4. PICK id \in Ids \cup {AutoId} : \E p \in Described(id) : AddAborts(a, id, p)
        BY <2>5, <3>1, <3>2, <3>3 DEF AddSteps
      <3>5. PICK p \in Described(id) : AddAborts(a, id, p)
        BY <3>4
      <3>6. /\ UNCHANGED <<ports, listeners, nets>>
            /\ IF id = AutoId
               THEN sess' = Append(sess, InSession(p)) /\ serial' = Append(serial, InSerial(p))
               ELSE UNCHANGED <<sess, serial>>
        BY <1>1, <3>5, AbortLeaves
      <3> QED BY <3>6 DEF OneRest
    <2>6. ASSUME NEW a \in Admins, RemoveSteps(a)
          PROVE  UNCHANGED <<ports, serial, sess, listeners, nets>>
      <3>1. ASSUME NEW op, call[a].op # op, op \in {"shift", "table"},
                   call' = [call EXCEPT ![a].op = op], call[a].op \in {"drain", "shift"}
            PROVE  FALSE
        <4>1. call[a] \in Calls
          BY <2>1
        <4> DEFINE c == call[a]
        <4>2. [c EXCEPT !.op = op].op = op
          BY <3>1, <4>1, CallStages
        <4> QED BY <2>4, <3>1, <4>2
      <3>2. ~RemoveUnregister(a)
        BY <3>1 DEF RemoveUnregister
      <3>3. ~RemoveListener(a)
        BY <3>1 DEF RemoveListener
      <3>4. ~RemovePort(a)
        BY <2>3 DEF RemovePort
      <3> QED BY <2>6, <3>2, <3>3, <3>4 DEF RemoveSteps, RemoveFind, RemoveRefused, regs
    <2>7. ASSUME NEW a \in Admins, SetSteps(a)
          PROVE  UNCHANGED <<ports, serial, sess, listeners, nets>>
      <3>1. ASSUME NEW op \in {"entry", "copy", "own"}, call[a].op # op,
                   call' = [call EXCEPT ![a].op = op],
                   call[a].op \in {"session", "entry", "copy"}
            PROVE  FALSE
        <4>1. call[a] \in Calls
          BY <2>1
        <4> DEFINE c == call[a]
        <4>2. [c EXCEPT !.op = op].op = op
          BY <3>1, <4>1, CallStages
        <4> QED BY <2>4, <3>1, <4>2
      <3>2. ~SetEntry(a)
        <4>1. SetEntry(a) => call[a].op = "entry" /\ call' = [call EXCEPT ![a].op = "copy"]
          BY DEF SetEntry
        <4>2. PICK op : op = "copy"
          OBVIOUS
        <4> QED BY <3>1, <4>1, <4>2
      <3>3. ~SetCopy(a) /\ ~SetOwn(a)
        <4>1. ASSUME SetCopy(a) PROVE FALSE
          <5>1. /\ call[a].op = "copy"
                /\ \/ call' = [call EXCEPT ![a] = Idle]
                   \/ call' = [call EXCEPT ![a].op = "own"]
            BY <4>1 DEF SetCopy
          <5>2. PICK op : op = "own"
            OBVIOUS
          <5>3. CASE call' = [call EXCEPT ![a] = Idle]
            BY <2>3, <5>1, <5>3
          <5>4. CASE call' = [call EXCEPT ![a].op = "own"]
            BY <3>1, <5>1, <5>2, <5>4
          <5> QED BY <5>1, <5>3, <5>4
        <4>2. ~SetOwn(a)
          BY <2>3 DEF SetOwn
        <4> QED BY <4>1, <4>2
      <3>4. ~SetSession(a)
        <4>1. ASSUME call[a].op = "session", call' = [call EXCEPT ![a].op = "entry"]
              PROVE  FALSE
          <5>1. PICK op : op = "entry"
            OBVIOUS
          <5> QED BY <3>1, <4>1, <5>1
        <4>2. ASSUME call[a].op = "session", call' = [call EXCEPT ![a] = Idle]
              PROVE  FALSE
          BY <2>3, <4>2
        <4> QED BY <4>1, <4>2 DEF SetSession
      <3> QED BY <2>7, <3>2, <3>3, <3>4 DEF SetSteps, SetFind, regs
    <2>8. CASE UNCHANGED vars
      BY <2>8 DEF vars, regs
    <2> QED BY <1>1, <2>5, <2>6, <2>7, <2>8 DEF Next, vars, regs
  <1>2. ASSUME IInv, Kept, [Next]_vars PROVE NoTrace
    BY <1>1, <1>2 DEF NoTrace
  <1>3. IInv /\ Kept /\ [Next]_vars => [NoTrace]_vars /\ IInv' /\ Kept'
    BY <1>2, InvNext, KeptNext
  <1> QED BY <1>3, InvInit, KeptInit, PTL DEF Spec, FailedAddUndone, NoTrace, OneRest
=============================================================================
