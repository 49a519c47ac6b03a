---------------------------- MODULE SettingsProofs ----------------------------
(***************************************************************************)
(* Theorems about Settings for every number of fields, sessions and        *)
(* values: however the configurations of the sessions and of the shell     *)
(* interleave, the UART ends up with the settings of the session           *)
(* configured last when only one was under way, an answered SET has        *)
(* reached it, and a live update reaches the sessions it has to.           *)
(***************************************************************************)
EXTENDS Settings, FiniteSetTheorems, TLAPS

Callers == Workers \cup {Shell}
Pushes  == [step : 1..NumFields + 1, args : Settings]
Records == [op : {"defaults", "snapshot", "apply", "write", "push"},
            params : Updates, live : BOOLEAN, field : 1..NumFields + 1,
            matches : SUBSET Workers, on : Workers \cup {Nobody}]

---------------------------------------------------------------------------
(* The inductive invariant.                                                *)

\* The types, with what is not a record told apart.
Typed ==
    /\ uart \in Settings /\ defaults \in Settings
    /\ ctx \in [Workers -> Settings]
    /\ at \in [Workers -> {"idle", "open", "loaded", "register", "io", "assigned",
                           "reply", "unlisted"}]
    /\ pushing \in [Callers -> {NoPush} \cup Pushes]
    /\ update \in {NoUpdate} \cup Records
    /\ update # NoUpdate => Cardinality(update.matches) <= MaxMatches
    /\ lost \in BOOLEAN /\ clean \in BOOLEAN
    /\ last \in Workers \cup {Nobody}
    /\ apart \subseteq Workers

Writing(w) == update.op = "write" /\ update.on = w

\* Where a caller is while its serial_configure runs.
Places ==
    /\ \A w \in Workers : Busy(w) => at[w] \in {"loaded", "assigned", "reply"}
    /\ \A w \in Workers :
         at[w] = "reply" => Busy(w) /\ pushing[w].step = NumFields + 1
    /\ Busy(Shell) => update.op = "push"
    /\ update.op \in {"write", "push"} => update.on \in Workers
    /\ last # Nobody => HasContext(last)

\* Clean means that at most one serial_configure is running.
OneCaller == clean => \A a, b \in Callers : Busy(a) /\ Busy(b) => a = b

\* It is that of the session configured last, or the shell's for it, and its
\* arguments are that session's settings unless these changed meanwhile.
CallerKnown ==
    clean /\ last # Nobody =>
      \A a \in Callers : Busy(a) =>
        /\ a = last \/ (a = Shell /\ update.on = last)
        /\ \/ pushing[a].args = ctx[last]
           \/ a = last /\ Writing(last)
           \/ a = Shell /\ at[last] = "assigned"

\* What it has been through, the driver took and the UART has.
DoneSoFar ==
    clean =>
      \A a \in Callers : Busy(a) =>
        \A g \in Fields : g < pushing[a].step =>
          /\ <<g, pushing[a].args[g]>> \notin Refused
          /\ uart[g] = pushing[a].args[g]

\* No change of the session configured last is under way.
Quiet ==
    /\ clean /\ last # Nobody /\ ~lost
    /\ \A a \in Callers : ~Busy(a)
    /\ at[last] \notin {"loaded", "assigned"}
    /\ ~Writing(last)

Settled == Quiet => \A f \in Reached(ctx[last]) : uart[f] = ctx[last][f]

\* The defaults are stored field by field before any session is looked at.
DefaultsStored ==
    /\ update.op = "defaults" =>
         \A f \in Fields : f < update.field => defaults[f] = update.params[f]
    /\ update.op \in {"snapshot", "apply", "write", "push"} => defaults = update.params

\* The sessions that are bound to have the defaults once the update is done.
Bound(w) == HasContext(w) /\ w \notin apart

\* They have them, are still to be written, or are written just now.
UpdateFollows ==
    /\ update = NoUpdate => \A w \in Workers : Bound(w) => ctx[w] = defaults
    /\ update.op \in {"apply", "write", "push"} =>
         \A w \in Workers : Bound(w) =>
           \/ w \in update.matches
           \/ ctx[w] = defaults
           \/ /\ Writing(w)
              /\ \A f \in Fields : f < update.field => ctx[w][f] = update.params[f]

IInv ==
    /\ Typed /\ Places
    /\ OneCaller /\ CallerKnown /\ DoneSoFar /\ Settled
    /\ DefaultsStored /\ UpdateFollows

---------------------------------------------------------------------------
(* Lemmas about settings and the records.                                  *)

\* A field of a setting has one of its values.
LEMMA FieldIn ==
    ASSUME NEW s \in Settings, NEW f \in Fields
    PROVE  s[f] \in Choice[f]
  BY DEF Settings

\* It can be given another.
LEMMA FieldChanged ==
    ASSUME NEW s \in Settings, NEW f \in Fields, NEW v \in Choice[f]
    PROVE  /\ [s EXCEPT ![f] = v] \in Settings
           /\ [s EXCEPT ![f] = v][f] = v
           /\ \A g \in Fields : g # f => [s EXCEPT ![f] = v][g] = s[g]
  <1>1. v \in Values
    BY DEF Values
  <1> QED BY <1>1 DEF Settings

\* The first field is the least.
LEMMA FirstField ==
    NumFields \in Nat /\ 1 \in 1..NumFields + 1 /\ \A f \in Fields : f \in Nat /\ ~(f < 1)
  BY SettingsAssumption DEF Fields

\* Settings that agree in every field are equal.
LEMMA SameFields ==
    ASSUME NEW s \in Settings, NEW t \in Settings, \A f \in Fields : s[f] = t[f]
    PROVE  s = t
  BY DEF Settings

\* A caller inside serial_configure has its arguments and its place in them.
LEMMA BusyPush ==
    ASSUME Typed, NEW a \in Callers
    PROVE  /\ Busy(a) => /\ pushing[a] \in Pushes
                         /\ pushing[a].step \in 1..NumFields + 1
                         /\ pushing[a].args \in Settings
           /\ NoPush \notin Pushes
  BY SettingsAssumption DEF Typed, Busy, Pushes, NoPush

\* An update is under way exactly when its record says what it does.
LEMMA UpdateIs ==
    ASSUME Typed
    PROVE  /\ update = NoUpdate <=> update.op = "none"
           /\ update # NoUpdate =>
                /\ update \in Records
                /\ update.params \in Settings /\ update.params \in Updates
                /\ update.field \in 1..NumFields + 1
                /\ update.matches \subseteq Workers
                /\ update.on \in Workers \cup {Nobody}
  BY SettingsAssumption DEF Typed, Records, NoUpdate

\* A record is never the absence of one.
LEMMA RecordsUpdate == \A r \in Records : r # NoUpdate
  BY DEF Records, NoUpdate

\* The sets of sessions are finite, and fewer match after one is taken.
LEMMA FewerMatch ==
    ASSUME NEW M \in SUBSET Workers, NEW N \in SUBSET M, Cardinality(M) <= MaxMatches
    PROVE  IsFiniteSet(M) /\ Cardinality(N) \in Nat /\ Cardinality(N) <= MaxMatches
  <1>1. IsFiniteSet(M)
    BY FS_Subset, SettingsAssumption
  <1>2. IsFiniteSet(N) /\ Cardinality(N) <= Cardinality(M)
    BY <1>1, FS_Subset
  <1>3. Cardinality(N) \in Nat /\ Cardinality(M) \in Nat
    BY <1>1, <1>2, FS_CardinalityType
  <1> QED BY <1>1, <1>2, <1>3, SettingsAssumption

\* The shell and the sessions are different callers.
LEMMA WhoCalls ==
    /\ Shell \notin Workers /\ Nobody \notin Workers /\ Nobody # Shell
    /\ Shell \in Callers /\ Workers \subseteq Callers
  BY SettingsAssumption DEF Callers, Shell, Nobody

---------------------------------------------------------------------------
(* The initial states.                                                     *)

\* The invariant holds in the initial states.
LEMMA InitInv == Init => IInv
  <1> SUFFICES ASSUME Init PROVE IInv
    OBVIOUS
  <1>1. Typed
    BY SettingsAssumption DEF Init, Typed, Callers, Shell, Nobody
  <1>2. \A a \in Callers : ~Busy(a)
    BY DEF Init, Busy, Callers
  <1>3. update.op = "none" /\ update = NoUpdate
    BY DEF Init, NoUpdate
  <1>4. Places
    BY <1>2, <1>3, WhoCalls DEF Init, Places
  <1>5. OneCaller /\ CallerKnown /\ DoneSoFar
    BY <1>2 DEF OneCaller, CallerKnown, DoneSoFar
  <1>6. Settled /\ DefaultsStored /\ UpdateFollows
    BY <1>3 DEF Init, Settled, Quiet, DefaultsStored, UpdateFollows, Bound, HasContext
  <1> QED BY <1>1, <1>4, <1>5, <1>6 DEF IInv

---------------------------------------------------------------------------
(* The steps of a session.                                                 *)

\* The driver is installed again, with the settings of no session.
LEMMA OpenKeeps ==
    ASSUME IInv, NEW w \in Workers, Open(w)
    PROVE  IInv'
  <1> USE DEF IInv, Open, Goto, Busy, HasContext
  <1>1. Typed' /\ Places'
    BY SettingsAssumption DEF Typed, Places
  <1>2. OneCaller'
    BY DEF OneCaller
  <1>3. DefaultsStored' /\ UpdateFollows'
    BY DEF DefaultsStored, UpdateFollows, Bound, Writing, Typed
  <1>4. CASE UNCHANGED <<uart, last, clean>>
    <2>1. last # Nobody => last # w
      BY DEF Places
    <2>2. CallerKnown'
      BY <1>4, <2>1 DEF CallerKnown, Writing, Typed
    <2>3. DoneSoFar'
      BY <1>4 DEF DoneSoFar
    <2>4. Settled'
      BY <1>4, <2>1 DEF Settled, Quiet, Writing, Reached, Typed
    <2> QED BY <2>2, <2>3, <2>4, <1>1, <1>2, <1>3
  <1>5. CASE ~clean'
    BY <1>1, <1>2, <1>3, <1>5 DEF CallerKnown, DoneSoFar, Settled, Quiet
  <1> QED BY <1>4, <1>5

\* Steps that only move a session while it has nothing pushed.
LEMMA MovedKeeps ==
    ASSUME IInv, NEW w \in Workers, NoMemory(w) \/ Register(w) \/ Unregister(w)
    PROVE  IInv'
  <1> USE DEF IInv, Goto, Busy, HasContext, NoMemory, Register, Unregister
  <1>1. Typed' /\ Places'
    BY DEF Typed, Places
  <1>2. OneCaller' /\ CallerKnown' /\ DoneSoFar'
    BY DEF OneCaller, CallerKnown, DoneSoFar, Typed, Writing
  <1>3. Settled'
    BY DEF Settled, Quiet, Reached, Typed, Writing
  <1>4. DefaultsStored' /\ UpdateFollows'
    BY DEF DefaultsStored, UpdateFollows, Bound, Typed, Writing
  <1> QED BY <1>1, <1>2, <1>3, <1>4

\* The context gets the defaults, whole or half stored.
LEMMA ResetDefaultsKeeps ==
    ASSUME IInv, NEW w \in Workers, ResetDefaults(w)
    PROVE  IInv'
  <1> USE DEF IInv, ResetDefaults, Goto, Busy, HasContext
  <1>1. last # Nobody => last # w
    BY DEF Places
  <1>2. Typed' /\ Places'
    BY DEF Typed, Places
  <1>3. OneCaller' /\ CallerKnown' /\ DoneSoFar'
    BY <1>1 DEF OneCaller, CallerKnown, DoneSoFar, Typed, Writing
  <1>4. Settled'
    BY <1>1 DEF Settled, Quiet, Reached, Typed, Writing
  <1>5. DefaultsStored' /\ UpdateFollows'
    BY DEF DefaultsStored, UpdateFollows, Bound, Typed, Writing
  <1> QED BY <1>2, <1>3, <1>4, <1>5

\* A serial_configure begins: it is the only one, or no longer clean.
LEMMA BeginKeeps ==
    ASSUME IInv, NEW a \in Callers, NEW w \in Workers, Begin(a, w),
           UNCHANGED <<uart, ctx, at>>,
           a = w \/ (a = Shell /\ update'.on = w)
    PROVE  /\ pushing' \in [Callers -> {NoPush} \cup Pushes]
           /\ Busy(a)' /\ \A b \in Callers \ {a} : pushing'[b] = pushing[b]
           /\ OneCaller' /\ CallerKnown' /\ DoneSoFar' /\ Settled'
  <1> DEFINE d == [step |-> 1, args |-> ctx[w]]
  <1> USE DEF Begin, Busy
  <1>1. /\ ctx[w] \in Settings
        /\ DOMAIN pushing = Callers
        /\ NumFields \in Nat \ {0} /\ 1 \in 1..NumFields + 1
    BY SettingsAssumption DEF IInv, Typed
  <1>2. d \in Pushes /\ d # NoPush /\ d.step = 1 /\ d.args = ctx[w]
    BY <1>1 DEF Pushes, NoPush
  <1> HIDE DEF d
  <1>3. /\ pushing' = [pushing EXCEPT ![a] = d]
        /\ pushing'[a] = d
        /\ \A b \in Callers \ {a} : pushing'[b] = pushing[b]
    BY <1>1 DEF d
  <1>4. pushing' \in [Callers -> {NoPush} \cup Pushes]
    BY <1>2, <1>3 DEF IInv, Typed
  <1>5. Busy(a)'
    BY <1>2, <1>3
  <1>6. clean' => \A b \in Callers : Busy(b)' => b = a
    BY <1>1, <1>3
  <1>7. OneCaller'
    BY <1>6 DEF OneCaller
  <1>8. CallerKnown'
    <2>1. last' = w /\ pushing'[a].args = ctx'[w]
      BY <1>2, <1>3
    <2>2. clean' => \A b \in Callers : Busy(b)' => b = a
      BY <1>6
    <2>3. a = last' \/ (a = Shell /\ update'.on = last')
      BY <2>1
    <2> HIDE DEF Busy
    <2> QED BY <2>1, <2>2, <2>3 DEF CallerKnown
  <1>9. ASSUME clean', NEW b \in Callers, Busy(b)', NEW g \in Fields, g < pushing'[b].step
        PROVE  FALSE
    <2>1. pushing'[b].step = 1
      BY <1>2, <1>3, <1>6, <1>9
    <2> QED BY <2>1, <1>9 DEF Fields
  <1>10. DoneSoFar'
    BY <1>9 DEF DoneSoFar
  <1>11. Settled'
    BY <1>5 DEF Settled, Quiet
  <1> QED BY <1>3, <1>4, <1>5, <1>7, <1>8, <1>10, <1>11

\* apply_serial_settings by a session: its own settings.
LEMMA ApplyKeeps ==
    ASSUME IInv, NEW w \in Workers, Apply(w)
    PROVE  IInv'
  <1> USE DEF IInv, Apply
  <1>1. /\ pushing' \in [Callers -> {NoPush} \cup Pushes]
        /\ Busy(w)' /\ \A b \in Callers \ {w} : pushing'[b] = pushing[b]
        /\ OneCaller' /\ CallerKnown' /\ DoneSoFar' /\ Settled'
    BY BeginKeeps, WhoCalls
  <1>2. Typed'
    BY <1>1 DEF Typed, Begin
  <1>3. Places'
    BY <1>1, WhoCalls DEF Places, Busy, Begin, HasContext
  <1>4. DefaultsStored' /\ UpdateFollows'
    BY DEF DefaultsStored, UpdateFollows, Bound, HasContext, Writing
  <1> QED BY <1>1, <1>2, <1>3, <1>4

\* A serial_configure goes one field on.
LEMMA ConfiguresKeeps ==
    ASSUME IInv, NEW a \in Callers, Configures(a)
    PROVE  IInv'
  <1> DEFINE f == pushing[a].step
             d == [pushing[a] EXCEPT !.step = f + 1]
  <1> USE DEF IInv, Configures, ConfigureField
  <1>1. Busy(a) /\ pushing[a] \in Pushes /\ f \in Fields /\ pushing[a].args \in Settings
    BY BusyPush DEF Fields
  <1>2. NumFields \in Nat
    BY SettingsAssumption
  <1>3. d \in Pushes /\ d.step = f + 1 /\ d.args = pushing[a].args /\ d # NoPush
    BY <1>1, <1>2 DEF Pushes, Fields, NoPush
  <1>4. pushing' = [pushing EXCEPT ![a] = d]
    OBVIOUS
  <1> HIDE DEF d
  <1>5. /\ pushing' \in [Callers -> {NoPush} \cup Pushes] /\ pushing'[a] = d
        /\ \A b \in Callers \ {a} : pushing'[b] = pushing[b]
    BY <1>3, <1>4 DEF Typed
  <1>6. \A b \in Callers : /\ Busy(b)' <=> Busy(b)
                           /\ pushing'[b].args = pushing[b].args
    BY <1>1, <1>3, <1>5 DEF Busy
  <1>7. /\ uart' \in Settings
        /\ uart'[f] = pushing[a].args[f]
        /\ \A g \in Fields : g # f => uart'[g] = uart[g]
    <2>1. PICK g \in Fields : g = f
      BY <1>1
    <2>2. PICK v \in Choice[g] : v = pushing[a].args[f]
      BY <1>1, <2>1, FieldIn
    <2>3. uart' = [uart EXCEPT ![g] = v] /\ uart \in Settings
      BY <2>1, <2>2 DEF Typed
    <2> HIDE DEF IInv, Configures, ConfigureField
    <2>4. [uart EXCEPT ![g] = v] \in Settings
      BY <2>3, FieldChanged
    <2>5. [uart EXCEPT ![g] = v][g] = v
      BY <2>3, FieldChanged
    <2>6. \A h \in Fields : h # g => [uart EXCEPT ![g] = v][h] = uart[h]
      BY <2>3, FieldChanged
    <2> QED BY <2>1, <2>2, <2>3, <2>4, <2>5, <2>6
  <1>8. Typed'
    BY <1>5, <1>7 DEF Typed
  <1>9. Places'
    <2>1. a \in Workers => at[a] # "reply"
      BY <1>1, <1>2 DEF Places, Fields
    <2> QED BY <1>5, <1>6, <2>1, WhoCalls DEF Places, HasContext
  <1>10. OneCaller' /\ CallerKnown'
    BY <1>6 DEF OneCaller, CallerKnown, Writing
  <1>11. ASSUME clean', NEW b \in Callers, Busy(b)', NEW g \in Fields, g < pushing'[b].step
         PROVE  <<g, pushing'[b].args[g]>> \notin Refused /\ uart'[g] = pushing'[b].args[g]
    <2>1. b = a
      BY <1>1, <1>6, <1>11 DEF OneCaller
    <2>2. g < f \/ g = f
      BY <1>1, <1>2, <1>3, <1>5, <1>11, <2>1 DEF Fields
    <2>3. CASE g = f
      BY <1>6, <1>7, <2>1, <2>3
    <2>4. CASE g < f
      <3>1. g # f
        BY <2>4, <1>1, <1>2 DEF Fields
      <3> QED BY <1>1, <1>6, <1>7, <1>11, <2>1, <2>4, <3>1 DEF DoneSoFar
    <2> QED BY <2>2, <2>3, <2>4
  <1>12. DoneSoFar'
    BY <1>11 DEF DoneSoFar
  <1>13. Settled'
    BY <1>1, <1>6 DEF Settled, Quiet
  <1>14. DefaultsStored' /\ UpdateFollows'
    BY DEF DefaultsStored, UpdateFollows, Bound, HasContext, Writing
  <1> QED BY <1>8, <1>9, <1>10, <1>12, <1>13, <1>14

\* What a serial_configure that returns has done: alone, it has set every
\* field up to the first that is refused.
LEMMA ReturnsSettled ==
    ASSUME IInv, NEW a \in Callers, Accepted(a) \/ Failed(a), clean
    PROVE  \A f \in Reached(pushing[a].args) : uart[f] = pushing[a].args[f]
  <1>1. /\ Busy(a) /\ pushing[a].step \in 1..NumFields + 1 /\ NumFields \in Nat
    BY BusyPush, SettingsAssumption DEF Accepted, Failed, IInv
  <1>2. a \in Callers /\ Reached(pushing[a].args) \subseteq Fields
    BY DEF Reached
  <1> SUFFICES ASSUME NEW f \in Reached(pushing[a].args)
               PROVE  f < pushing[a].step
    BY <1>1, <1>2 DEF IInv, DoneSoFar
  <1>3. CASE Accepted(a)
    BY <1>1, <1>2, <1>3 DEF Accepted, Fields
  <1>4. CASE Failed(a)
    <2>1. /\ pushing[a].step \in Fields
          /\ <<pushing[a].step, pushing[a].args[pushing[a].step]>> \in Refused
      BY <1>1, <1>4 DEF Failed, Fields
    <2>2. pushing[a].step \notin 1..f
      BY <2>1 DEF Reached
    <2> QED BY <1>1, <1>2, <2>1, <2>2 DEF Fields
  <1> QED BY <1>3, <1>4

\* A serial_configure returns.
LEMMA ReturnKeeps ==
    ASSUME IInv, NEW a \in Callers, Busy(a), Returns(a),
           Accepted(a) \/ Failed(a),
           UNCHANGED <<uart, ctx, lost, last, clean>>,
           \A b \in Workers : b # a => at'[b] = at[b],
           update' = update \/ (a = Shell /\ update.op = "push")
    PROVE  /\ pushing' \in [Callers -> {NoPush} \cup Pushes]
           /\ ~Busy(a)' /\ \A b \in Callers \ {a} : pushing'[b] = pushing[b]
           /\ OneCaller' /\ CallerKnown' /\ DoneSoFar' /\ Settled'
  <1> USE DEF IInv, Returns, Busy
  <1>1. /\ pushing' \in [Callers -> {NoPush} \cup Pushes]
        /\ pushing'[a] = NoPush
        /\ \A b \in Callers \ {a} : pushing'[b] = pushing[b]
    BY DEF Typed
  <1>2. clean => \A b \in Callers : ~Busy(b)'
    BY <1>1 DEF OneCaller
  <1>3. OneCaller' /\ CallerKnown' /\ DoneSoFar'
    BY <1>2 DEF OneCaller, CallerKnown, DoneSoFar
  <1>4. ASSUME Quiet' PROVE Settled'
    <2>1. clean /\ last # Nobody
      BY <1>4 DEF Quiet
    <2>2. \A f \in Reached(pushing[a].args) : uart[f] = pushing[a].args[f]
      BY <2>1, ReturnsSettled
    <2>3. pushing[a].args = ctx[last]
      <3>1. CASE a = last
        <4>1. ~Writing(last)
          BY <1>4, <3>1, <2>1, WhoCalls DEF Quiet, Writing, Typed
        <4> QED BY <2>1, <3>1, <4>1, WhoCalls DEF CallerKnown, Typed
      <3>2. CASE a # last
        <4>1. a = Shell /\ at'[last] = at[last]
          BY <2>1, <3>2 DEF CallerKnown, Typed
        <4>2. at[last] # "assigned"
          BY <1>4, <4>1 DEF Quiet
        <4> QED BY <2>1, <3>2, <4>2 DEF CallerKnown
      <3> QED BY <3>1, <3>2
    <2> QED BY <2>2, <2>3 DEF Settled, Reached
  <1>5. Settled'
    BY <1>4 DEF Settled
  <1> QED BY <1>1, <1>3, <1>5

\* A session's own serial_configure returns: at its start, whatever the
\* result, after a SET with the reply or without one.
LEMMA SessionReturnKeeps ==
    ASSUME IInv, NEW w \in Workers, Initialised(w) \/ Reply(w) \/ SetRefused(w)
    PROVE  IInv'
  <1> USE DEF IInv
  <1>1. /\ Busy(w) /\ (Accepted(w) \/ Failed(w)) /\ Returns(w)
        /\ w \in Callers
        /\ UNCHANGED <<uart, defaults, ctx, update, lost, last, clean, apart>>
        /\ HasContext(w) /\ \E pc \in {"register", "io"} : Goto(w, pc)
    BY WhoCalls DEF Initialised, Reply, SetRefused, Accepted, Failed, Places, HasContext
  <1>2. PICK pc \in {"register", "io"} : Goto(w, pc)
    BY <1>1
  <1>3. /\ at' \in [Workers -> {"idle", "open", "loaded", "register", "io", "assigned",
                                "reply", "unlisted"}]
        /\ at'[w] = pc /\ \A b \in Workers : b # w => at'[b] = at[b]
    BY <1>2 DEF Goto, Typed
  <1>4. /\ pushing' \in [Callers -> {NoPush} \cup Pushes]
        /\ ~Busy(w)' /\ \A b \in Callers \ {w} : pushing'[b] = pushing[b]
        /\ OneCaller' /\ CallerKnown' /\ DoneSoFar' /\ Settled'
    BY <1>1, <1>3, ReturnKeeps
  <1>5. Typed'
    BY <1>1, <1>3, <1>4 DEF Typed
  <1>6. Places'
    <2>1. at'[w] \notin {"idle", "open", "reply"} /\ w # Shell
      BY <1>3, WhoCalls
    <2>2. \A b \in Workers : b # w => pushing'[b] = pushing[b] /\ at'[b] = at[b]
      BY <1>3, <1>4, WhoCalls
    <2>3. pushing'[Shell] = pushing[Shell] /\ update' = update /\ last' = last
      BY <1>1, <1>4, <2>1, WhoCalls
    <2>4. \A b \in Workers : Busy(b)' => at'[b] \in {"loaded", "assigned", "reply"}
      BY <1>4, <2>2 DEF Places, Busy
    <2>5. \A b \in Workers : at'[b] = "reply" => Busy(b)' /\ pushing'[b].step = NumFields + 1
      BY <2>1, <2>2 DEF Places, Busy
    <2>6. (last # Nobody => HasContext(last))'
      BY <2>1, <2>2, <2>3 DEF Places, HasContext, Typed
    <2> QED BY <2>3, <2>4, <2>5, <2>6 DEF Places, Busy
  <1>7. DefaultsStored' /\ UpdateFollows'
    BY <1>1, <1>3 DEF DefaultsStored, UpdateFollows, Bound, HasContext, Writing
  <1> QED BY <1>4, <1>5, <1>6, <1>7

\* A SET changes the context before the driver.
LEMMA SetKeeps ==
    ASSUME IInv, NEW w \in Workers, NEW f \in Settable, NEW v \in Choice[f], Set(w, f, v)
    PROVE  IInv'
  <1> USE DEF IInv, Set, Goto
  <1>1. ctx' \in [Workers -> Settings] /\ \A b \in Workers : b # w => ctx'[b] = ctx[b]
    <2>1. f \in Fields /\ ctx[w] \in Settings
      BY SettingsAssumption DEF Typed
    <2>2. [ctx[w] EXCEPT ![f] = v] \in Settings
      BY <2>1, FieldChanged
    <2> QED BY <2>2 DEF Typed
  <1>2. ~Busy(w)
    BY DEF Places
  <1>3. Typed' /\ Places'
    BY <1>1 DEF Typed, Places, Busy, HasContext
  <1>4. OneCaller' /\ DoneSoFar'
    BY DEF OneCaller, DoneSoFar, Busy
  <1>5. CallerKnown'
    BY <1>1, <1>2 DEF CallerKnown, Busy, Writing, Typed
  <1>6. Settled'
    BY <1>1 DEF Settled, Quiet, Reached, Busy, Writing, Typed
  <1>7. DefaultsStored' /\ UpdateFollows'
    BY <1>1 DEF DefaultsStored, UpdateFollows, Bound, HasContext, Writing, Typed
  <1> QED BY <1>3, <1>4, <1>5, <1>6, <1>7

\* The driver took all of it, and the answer is on its way.
LEMMA SetAcceptedKeeps ==
    ASSUME IInv, NEW w \in Workers, SetAccepted(w)
    PROVE  IInv'
  <1> USE DEF IInv, SetAccepted, Goto
  <1>1. Busy(w) /\ pushing[w].step = NumFields + 1 /\ w \in Callers
    BY WhoCalls DEF Accepted
  <1>2. Typed' /\ Places'
    BY <1>1 DEF Typed, Places, Busy, HasContext
  <1>3. OneCaller' /\ DoneSoFar'
    BY DEF OneCaller, DoneSoFar, Busy
  <1>4. CallerKnown'
    <2>1. clean => \A a \in Callers : Busy(a) => a = w
      BY <1>1 DEF OneCaller
    <2> QED BY <2>1, WhoCalls DEF CallerKnown, Busy, Writing, Typed
  <1>5. Settled'
    BY <1>1 DEF Settled, Quiet, Busy
  <1>6. DefaultsStored' /\ UpdateFollows'
    BY DEF DefaultsStored, UpdateFollows, Bound, HasContext, Writing, Typed
  <1> QED BY <1>2, <1>3, <1>4, <1>5, <1>6

\* The context goes, and with it what was known of the settings.
LEMMA FreeKeeps ==
    ASSUME IInv, NEW w \in Workers, Free(w)
    PROVE  IInv'
  <1> USE DEF IInv, Free, Goto
  <1>1. Typed' /\ Places'
    BY SettingsAssumption DEF Typed, Places, Busy, HasContext
  <1>2. OneCaller' /\ DoneSoFar'
    BY DEF OneCaller, DoneSoFar, Busy
  <1>3. CallerKnown' /\ Settled'
    BY DEF CallerKnown, Settled, Quiet, Reached, Busy, Writing, Typed
  <1>4. DefaultsStored' /\ UpdateFollows'
    BY DEF DefaultsStored, UpdateFollows, Bound, HasContext, Writing, Typed
  <1> QED BY <1>1, <1>2, <1>3, <1>4

---------------------------------------------------------------------------
(* The steps of update_serial_config.                                      *)

\* What the update does with its record, the defaults and the sessions that
\* are bound to have them disturbs nothing else.
LEMMA UpdateSteps ==
    ASSUME IInv, UNCHANGED <<uart, ctx, at, pushing, lost, last, clean>>,
           update.op \notin {"write", "push"}, ~Writing(last)'
    PROVE  OneCaller' /\ CallerKnown' /\ DoneSoFar' /\ Settled'
  <1>1. ~Busy(Shell)
    BY DEF IInv, Places
  <1>2. OneCaller' /\ DoneSoFar'
    BY DEF IInv, OneCaller, DoneSoFar, Busy
  <1>3. CallerKnown'
    BY <1>1 DEF IInv, CallerKnown, Busy, Writing
  <1>4. Settled'
    BY DEF IInv, Settled, Quiet, Reached, Busy, Writing
  <1> QED BY <1>2, <1>3, <1>4

\* update_serial_config is called.
LEMMA UpdateBeginKeeps ==
    ASSUME IInv, NEW p \in Updates, NEW live \in BOOLEAN, UpdateBegin(p, live)
    PROVE  IInv'
  <1> USE DEF IInv, UpdateBegin
  <1>1. /\ update.op = "none" /\ NumFields \in Nat
        /\ update' \in Records /\ update'.op = "defaults" /\ update'.field = 1
        /\ update'.matches = {}
    BY SettingsAssumption DEF NoUpdate, Records
  <1>2. Cardinality(update'.matches) <= MaxMatches
    BY <1>1, FS_EmptySet, SettingsAssumption
  <1>3. Typed' /\ Places'
    BY <1>1, <1>2 DEF Typed, Places, Busy, HasContext
  <1>4. OneCaller' /\ CallerKnown' /\ DoneSoFar' /\ Settled'
    BY <1>1, UpdateSteps DEF Writing
  <1>5. DefaultsStored'
    BY <1>1 DEF DefaultsStored, Fields
  <1>6. UpdateFollows'
    BY <1>1, UpdateIs DEF UpdateFollows
  <1> QED BY <1>3, <1>4, <1>5, <1>6

\* One field of the defaults is stored.
LEMMA UpdateDefaultsKeeps ==
    ASSUME IInv, UpdateDefaults
    PROVE  IInv'
  <1> USE DEF IInv, UpdateDefaults
  <1>1. /\ update \in Records /\ update # NoUpdate
        /\ update.params \in Settings /\ update.field \in Fields
    BY UpdateIs, SettingsAssumption DEF Fields
  <1>2. NumFields \in Nat
    BY SettingsAssumption
  <1>3. PICK f \in Fields : f = update.field
    BY <1>1
  <1>4. PICK v \in Choice[f] : v = update.params[f]
    BY <1>1, FieldIn
  <1>5. /\ defaults' \in Settings /\ defaults'[f] = v
        /\ \A g \in Fields : g # f => defaults'[g] = defaults[g]
    <2>1. defaults' = [defaults EXCEPT ![f] = v] /\ defaults \in Settings
      BY <1>3, <1>4 DEF Typed
    <2> HIDE DEF IInv, UpdateDefaults
    <2>2. [defaults EXCEPT ![f] = v] \in Settings
      BY <2>1, FieldChanged
    <2>3. [defaults EXCEPT ![f] = v][f] = v
      BY <2>1, FieldChanged
    <2>4. \A g \in Fields : g # f => [defaults EXCEPT ![f] = v][g] = defaults[g]
      BY <2>1, FieldChanged
    <2> QED BY <2>1, <2>2, <2>3, <2>4
  <1>6. /\ update' \in Records /\ update'.op = "defaults"
        /\ update'.field = f + 1 /\ update'.params = update.params
        /\ update'.matches = update.matches
    BY <1>1, <1>2, <1>3 DEF Records, Fields
  <1>7. update' # NoUpdate
    BY <1>6, RecordsUpdate
  <1>8. Typed' /\ Places'
    BY <1>1, <1>5, <1>6 DEF Typed, Places, Busy, HasContext
  <1>9. OneCaller' /\ CallerKnown' /\ DoneSoFar' /\ Settled'
    BY <1>6, UpdateSteps DEF Writing
  <1>10. DefaultsStored'
    BY <1>2, <1>3, <1>4, <1>5, <1>6 DEF DefaultsStored, Fields
  <1>11. UpdateFollows'
    BY <1>6, <1>7 DEF UpdateFollows
  <1> QED BY <1>8, <1>9, <1>10, <1>11

\* All of them are: the new defaults are there.
LEMMA UpdateDefaultsDoneKeeps ==
    ASSUME IInv, UpdateDefaultsDone
    PROVE  IInv'
  <1> USE DEF IInv, UpdateDefaultsDone
  <1>1. /\ update \in Records /\ update # NoUpdate
        /\ update.params \in Settings /\ update.field \in 1..NumFields + 1
        /\ NumFields \in Nat
    BY UpdateIs, SettingsAssumption
  <1>2. defaults = update.params
    <2>1. \A f \in Fields : defaults[f] = update.params[f]
      BY <1>1 DEF DefaultsStored, Fields
    <2> QED BY <1>1, <2>1, SameFields DEF Typed
  <1>3. CASE update.live
    <2>1. /\ update' = [update EXCEPT !.op = "snapshot"] /\ apart' = apart
          /\ update' \in Records /\ update'.op = "snapshot"
          /\ update'.params = update.params /\ update'.matches = update.matches
      BY <1>1, <1>3 DEF Records
    <2>2. update' # NoUpdate
      BY <2>1, RecordsUpdate
    <2>3. Typed' /\ Places'
      BY <1>1, <2>1 DEF Typed, Places, Busy, HasContext
    <2>4. DefaultsStored' /\ UpdateFollows'
      BY <1>2, <2>1, <2>2 DEF DefaultsStored, UpdateFollows
    <2>5. OneCaller' /\ CallerKnown' /\ DoneSoFar' /\ Settled'
      BY <2>1, UpdateSteps DEF Writing
    <2> QED BY <2>3, <2>4, <2>5
  <1>4. CASE ~update.live
    <2>1. /\ update' = NoUpdate /\ update'.op = "none"
          /\ apart' = {w \in Workers : HasContext(w)}
      BY <1>4 DEF NoUpdate
    <2>2. Typed' /\ Places'
      BY <2>1 DEF Typed, Places, Busy, HasContext
    <2>3. DefaultsStored' /\ UpdateFollows'
      BY <2>1 DEF DefaultsStored, UpdateFollows, Bound, HasContext
    <2>4. OneCaller' /\ CallerKnown' /\ DoneSoFar' /\ Settled'
      BY <2>1, UpdateSteps DEF Writing
    <2> QED BY <2>2, <2>3, <2>4
  <1> QED BY <1>3, <1>4

\* The sessions in the table match, as many as fit.
LEMMA UpdateSnapshotKeeps ==
    ASSUME IInv, UpdateSnapshot
    PROVE  IInv'
  <1> USE DEF IInv, UpdateSnapshot
  <1>1. update \in Records /\ update # NoUpdate
    BY UpdateIs
  <1>2. PICK M \in SUBSET Listed :
          /\ \/ M = Listed /\ Cardinality(M) <= MaxMatches
             \/ Cardinality(M) = MaxMatches
          /\ update' = [update EXCEPT !.op = "apply", !.matches = M]
          /\ apart' = OutOfReach(M)
    OBVIOUS
  <1>3. /\ M \subseteq Workers /\ Listed \subseteq Workers
        /\ IsFiniteSet(Listed) /\ IsFiniteSet(M)
    BY FS_Subset, SettingsAssumption DEF Listed
  <1>4. Cardinality(M) \in Nat /\ Cardinality(Listed) \in Nat /\ MaxMatches \in Nat
    BY <1>3, FS_CardinalityType, SettingsAssumption
  <1>5. Cardinality(Listed) <= MaxMatches => M = Listed
    <2>1. M \subseteq Listed
      BY <1>2
    <2>2. Cardinality(M) = Cardinality(Listed) => M = Listed
      BY <1>3, <2>1, FS_Subset
    <2>3. Cardinality(M) <= Cardinality(Listed)
      BY <1>3, <2>1, FS_Subset
    <2> QED BY <1>2, <1>4, <2>2, <2>3
  <1>6. /\ update' \in Records /\ update'.op = "apply" /\ update'.matches = M
        /\ update'.params = update.params
        /\ Cardinality(update'.matches) <= MaxMatches
    <2>1. M \in SUBSET Workers
      BY <1>3
    <2>2. update' = [update EXCEPT !.op = "apply", !.matches = M]
      BY <1>2
    <2>3. Cardinality(M) <= MaxMatches
      BY <1>2, <1>4
    <2> QED BY <1>1, <2>1, <2>2, <2>3 DEF Records
  <1>7. update' # NoUpdate
    BY <1>6, RecordsUpdate
  <1>8. apart' \subseteq Workers
    BY <1>2 DEF OutOfReach
  <1>9. Typed' /\ Places'
    BY <1>6, <1>8 DEF Typed, Places, Busy, HasContext
  <1>10. OneCaller' /\ CallerKnown' /\ DoneSoFar' /\ Settled'
    BY <1>6, UpdateSteps DEF Writing
  <1>11. DefaultsStored'
    BY <1>6 DEF DefaultsStored
  <1>12. \A w \in Workers : Bound(w)' => w \in update'.matches
    BY <1>2, <1>5, <1>6 DEF Bound, HasContext, OutOfReach
  <1>13. UpdateFollows'
    BY <1>7, <1>12 DEF UpdateFollows
  <1> QED BY <1>9, <1>10, <1>11, <1>13

\* The next match is taken, or there is none left.
LEMMA UpdateNextKeeps ==
    ASSUME IInv, UpdateNext
    PROVE  IInv'
  <1> USE DEF IInv, UpdateNext
  <1>1. /\ update \in Records /\ update # NoUpdate /\ update.matches \subseteq Workers
        /\ NumFields \in Nat
    BY UpdateIs, SettingsAssumption
  <1>2. CASE update.matches = {} /\ update' = NoUpdate
    <2>1. update'.op = "none"
      BY <1>2 DEF NoUpdate
    <2>2. Typed' /\ Places'
      BY <1>2, <2>1 DEF Typed, Places, Busy, HasContext
    <2>3. OneCaller' /\ CallerKnown' /\ DoneSoFar' /\ Settled'
      BY <2>1, UpdateSteps DEF Writing
    <2>4. DefaultsStored' /\ UpdateFollows'
      BY <1>2, <2>1 DEF DefaultsStored, UpdateFollows, Bound, HasContext, Writing
    <2> QED BY <2>2, <2>3, <2>4
  <1>3. ASSUME NEW w \in update.matches,
               update' = [update EXCEPT !.op = "write", !.on = w, !.field = 1,
                                        !.matches = @ \ {w}]
        PROVE  IInv'
    <2>1. /\ update' \in Records /\ update'.op = "write" /\ update'.on = w
          /\ update'.field = 1 /\ update'.matches = update.matches \ {w}
          /\ update'.params = update.params
      <3>1. update.matches \ {w} \in SUBSET Workers /\ w \in Workers
        BY <1>1
      <3> QED BY <1>1, <1>3, <3>1, FirstField DEF Records
    <2>2. update' # NoUpdate
      BY <2>1, RecordsUpdate
    <2>3. Cardinality(update'.matches) <= MaxMatches
      BY <1>1, <2>1, FewerMatch DEF Typed
    <2>4. Typed' /\ Places'
      BY <1>1, <2>1, <2>3 DEF Typed, Places, Busy, HasContext
    <2>5. \A a \in Callers : Busy(a) => a # Shell
      BY DEF Places
    <2>6. OneCaller' /\ DoneSoFar'
      BY DEF OneCaller, DoneSoFar, Busy
    <2>7. CallerKnown'
      BY <2>5 DEF CallerKnown, Busy, Writing
    <2>8. Settled'
      BY DEF Settled, Quiet, Reached, Busy, Writing
    <2>9. DefaultsStored'
      BY <2>1 DEF DefaultsStored
    <2>10. ASSUME NEW b \in Workers, Bound(b)'
           PROVE  \/ b \in update'.matches \/ ctx'[b] = defaults'
                  \/ b = w
      BY <2>1, <2>10 DEF UpdateFollows, Bound, HasContext, Writing
    <2>11. \A f \in Fields : ~(f < update'.field)
      BY <2>1, FirstField
    <2>12. UpdateFollows'
      BY <2>1, <2>2, <2>10, <2>11 DEF UpdateFollows, Writing
    <2> QED BY <2>4, <2>6, <2>7, <2>8, <2>9, <2>12
  <1> QED BY <1>2, <1>3

\* One field is written into the context of the match.
LEMMA UpdateWriteKeeps ==
    ASSUME IInv, UpdateWrite
    PROVE  IInv'
  <1> USE DEF IInv, UpdateWrite
  <1>1. /\ update \in Records /\ update # NoUpdate
        /\ update.params \in Settings /\ update.field \in Fields
        /\ NumFields \in Nat
    BY UpdateIs, SettingsAssumption DEF Fields
  <1>2. PICK w \in Workers : w = update.on
    BY DEF Places
  <1>3. PICK f \in Fields : f = update.field
    BY <1>1
  <1>4. PICK v \in Choice[f] : v = update.params[f]
    BY <1>1, <1>3, FieldIn
  <1>5. /\ [ctx[w] EXCEPT ![f] = v] \in Settings
        /\ [ctx[w] EXCEPT ![f] = v][f] = v
        /\ \A g \in Fields : g # f => [ctx[w] EXCEPT ![f] = v][g] = ctx[w][g]
    BY FieldChanged DEF Typed
  <1>6. ctx' = [ctx EXCEPT ![w] = [ctx[w] EXCEPT ![f] = v]]
    BY <1>2, <1>3, <1>4
  <1>7. /\ ctx' \in [Workers -> Settings] /\ ctx'[w][f] = v
        /\ \A g \in Fields : g # f => ctx'[w][g] = ctx[w][g]
        /\ \A b \in Workers : b # w => ctx'[b] = ctx[b]
    BY <1>5, <1>6 DEF Typed
  <1>8. /\ update' \in Records /\ update'.op = "write"
        /\ update'.field = f + 1 /\ update'.params = update.params
        /\ update'.matches = update.matches /\ update'.on = w
    BY <1>1, <1>2, <1>3 DEF Records, Fields
  <1>9. update' # NoUpdate
    BY <1>8, RecordsUpdate
  <1>10. Typed' /\ Places'
    BY <1>1, <1>7, <1>8 DEF Typed, Places, Busy, HasContext
  <1>11. OneCaller' /\ DoneSoFar'
    BY DEF OneCaller, DoneSoFar, Busy
  <1>12. CallerKnown'
    <2>1. ~Busy(Shell)
      BY DEF Places
    <2> QED BY <1>2, <1>7, <1>8, <2>1 DEF CallerKnown, Busy, Writing, Typed
  <1>13. Settled'
    BY <1>2, <1>7, <1>8 DEF Settled, Quiet, Reached, Busy, Writing, Typed
  <1>14. DefaultsStored'
    BY <1>8 DEF DefaultsStored
  <1>15. ASSUME NEW b \in Workers, Bound(b)'
         PROVE  \/ b \in update'.matches \/ ctx'[b] = defaults'
                \/ /\ b = w
                   /\ \A g \in Fields : g < f + 1 => ctx'[w][g] = update'.params[g]
    <2>1. Bound(b)
      BY <1>15 DEF Bound, HasContext
    <2>2. \/ b \in update.matches \/ ctx[b] = defaults
          \/ b = w /\ \A g \in Fields : g < f => ctx[w][g] = update.params[g]
      BY <1>2, <1>3, <2>1 DEF UpdateFollows, Writing
    <2>3. CASE b # w
      BY <1>7, <1>8, <2>2, <2>3
    <2>4. CASE b = w /\ ctx[w] = defaults
      BY <1>3, <1>4, <1>7, <1>8, <2>4 DEF DefaultsStored
    <2>5. CASE b = w /\ \A g \in Fields : g < f => ctx[w][g] = update.params[g]
      <3>1. \A g \in Fields : g < f + 1 => g < f \/ g = f
        BY <1>1 DEF Fields
      <3>2. \A g \in Fields : g < f => g # f
        BY <1>1 DEF Fields
      <3> QED BY <1>4, <1>7, <1>8, <2>5, <3>1, <3>2
    <2>6. CASE b \in update.matches
      BY <1>8, <2>6
    <2> QED BY <2>2, <2>3, <2>4, <2>5, <2>6
  <1>16. UpdateFollows'
    BY <1>8, <1>9, <1>15 DEF UpdateFollows, Writing
  <1> QED BY <1>10, <1>11, <1>12, <1>13, <1>14, <1>16

\* A write through a freed pointer is recorded, and nothing follows it.
LEMMA UpdateLostKeeps ==
    ASSUME IInv, UpdateLost
    PROVE  IInv'
  <1> USE DEF IInv, UpdateLost
  <1>1. Typed' /\ Places'
    BY DEF Typed, Places, Busy, HasContext
  <1>2. OneCaller' /\ CallerKnown' /\ DoneSoFar' /\ Settled'
    BY DEF OneCaller, CallerKnown, DoneSoFar, Settled, Quiet, Busy, Writing
  <1>3. DefaultsStored' /\ UpdateFollows'
    BY DEF DefaultsStored, UpdateFollows, Bound, HasContext, Writing
  <1> QED BY <1>1, <1>2, <1>3

\* The settings written are pushed to the driver.
LEMMA UpdatePushKeeps ==
    ASSUME IInv, UpdatePush
    PROVE  IInv'
  <1> USE DEF IInv, UpdatePush
  <1>1. /\ update \in Records /\ update # NoUpdate
        /\ update.params \in Settings /\ update.field \in 1..NumFields + 1
        /\ NumFields \in Nat
    BY UpdateIs, SettingsAssumption
  <1>2. PICK w \in Workers : w = update.on
    BY DEF Places
  <1>3. /\ update' \in Records /\ update'.op = "push" /\ update'.on = w
        /\ update'.params = update.params /\ update'.matches = update.matches
    BY <1>1, <1>2 DEF Records
  <1>4. update' # NoUpdate
    BY <1>3, RecordsUpdate
  <1>5. UNCHANGED <<uart, defaults, ctx, at, lost, apart>> /\ Begin(Shell, w)
    BY <1>2
  <1>6. /\ pushing' \in [Callers -> {NoPush} \cup Pushes]
        /\ Busy(Shell)' /\ \A b \in Callers \ {Shell} : pushing'[b] = pushing[b]
        /\ OneCaller' /\ CallerKnown' /\ DoneSoFar' /\ Settled'
    BY <1>3, <1>5, BeginKeeps, WhoCalls
  <1>7. Typed'
    BY <1>1, <1>3, <1>6 DEF Typed, Begin
  <1>8. Places'
    <2>1. last' = w /\ HasContext(w)
      BY <1>2, <1>5 DEF Begin
    <2> QED BY <1>3, <1>5, <1>6, <2>1, WhoCalls DEF Places, Busy, HasContext
  <1>9. DefaultsStored'
    BY <1>3 DEF DefaultsStored
  <1>10. ASSUME NEW b \in Workers, Bound(b)'
         PROVE  b \in update'.matches \/ ctx'[b] = defaults'
    <2>1. Bound(b)
      BY <1>5, <1>10 DEF Bound, HasContext
    <2>2. \/ b \in update.matches \/ ctx[b] = defaults
          \/ \A f \in Fields : ctx[b][f] = update.params[f]
      BY <1>1, <2>1 DEF UpdateFollows, Writing, Fields
    <2>3. ctx[b] \in Settings /\ defaults = update.params
      BY DEF Typed, DefaultsStored
    <2> QED BY <1>1, <1>3, <1>5, <2>2, <2>3, SameFields
  <1>11. UpdateFollows'
    BY <1>4, <1>10 DEF UpdateFollows
  <1> QED BY <1>6, <1>7, <1>8, <1>9, <1>11

\* They are in the driver, or refused; the next match follows.
LEMMA UpdatePushedKeeps ==
    ASSUME IInv, UpdatePushed
    PROVE  IInv'
  <1> USE DEF IInv, UpdatePushed
  <1>1. update \in Records /\ update # NoUpdate /\ Busy(Shell)
    BY UpdateIs DEF Accepted, Failed
  <1>2. /\ update' \in Records /\ update'.op = "apply" /\ update'.on = Nobody
        /\ update'.params = update.params /\ update'.matches = update.matches
    BY <1>1 DEF Records
  <1>3. update' # NoUpdate
    BY <1>2, RecordsUpdate
  <1>4. /\ pushing' \in [Callers -> {NoPush} \cup Pushes]
        /\ ~Busy(Shell)' /\ \A b \in Callers \ {Shell} : pushing'[b] = pushing[b]
        /\ OneCaller' /\ CallerKnown' /\ DoneSoFar' /\ Settled'
    BY <1>1, ReturnKeeps, WhoCalls
  <1>5. Typed'
    BY <1>1, <1>2, <1>4 DEF Typed
  <1>6. Places'
    BY <1>2, <1>4, WhoCalls DEF Places, Busy, HasContext
  <1>7. DefaultsStored'
    BY <1>2 DEF DefaultsStored
  <1>8. UpdateFollows'
    BY <1>2, <1>3 DEF UpdateFollows, Bound, HasContext, Writing
  <1> QED BY <1>4, <1>5, <1>6, <1>7, <1>8

---------------------------------------------------------------------------
(* The theorems.                                                           *)

\* Each step keeps it.
LEMMA NextKeeps == IInv /\ [Next]_vars => IInv'
  <1> SUFFICES ASSUME IInv, [Next]_vars PROVE IInv'
    OBVIOUS
  <1>1. CASE UNCHANGED vars
    BY <1>1 DEF vars, IInv, Typed, Places, OneCaller, CallerKnown, DoneSoFar, Settled,
                Quiet, DefaultsStored, UpdateFollows, Bound, Busy, HasContext, Writing,
                Reached
  <1>2. ASSUME NEW w \in Workers, SessionTask(w) PROVE IInv'
    BY <1>2, OpenKeeps, MovedKeeps, ResetDefaultsKeeps, ApplyKeeps, SessionReturnKeeps,
       SetKeeps, SetAcceptedKeeps, FreeKeeps DEF SessionTask
  <1>3. CASE ControlTask
    BY <1>3, UpdateBeginKeeps, UpdateDefaultsKeeps, UpdateDefaultsDoneKeeps,
       UpdateSnapshotKeeps, UpdateNextKeeps, UpdateWriteKeeps, UpdateLostKeeps,
       UpdatePushKeeps, UpdatePushedKeeps DEF ControlTask
  <1>4. ASSUME NEW a \in Callers, Configures(a) PROVE IInv'
    BY <1>4, ConfiguresKeeps
  <1> QED BY <1>1, <1>2, <1>3, <1>4 DEF Next, Callers

\* It holds in every state.
LEMMA Inductive == Spec => []IInv
  BY InitInv, NextKeeps, PTL DEF Spec

\* Every variable keeps its type, and no more sessions match an update than
\* matches[] has entries (update_serial_config).
THEOREM TypeCorrect == Spec => []TypeOK
  <1>1. IInv => TypeOK
    BY UpdateIs, BusyPush, WhoCalls DEF IInv, Typed, TypeOK, Callers, Pushes, Records, Busy
  <1> QED BY <1>1, Inductive, PTL

\* With no change under way, the UART has the settings of the session that was
\* configured last, up to the first field the driver refused, unless two
\* serial_configure ran at once (apply_serial_settings, esp32_serial_configure).
THEOREM UartAgrees == Spec => []UartFollowsSession
  <1>1. ASSUME IInv, NothingPending, clean, last # Nobody, ~lost
        PROVE  \A f \in Reached(ctx[last]) : uart[f] = ctx[last][f]
    <2>1. DOMAIN pushing = Callers /\ last \in Workers
      BY <1>1 DEF IInv, Typed
    <2>2. Quiet
      BY <1>1, <2>1 DEF NothingPending, Quiet, Writing
    <2> QED BY <1>1, <2>2 DEF IInv, Settled
  <1>2. IInv => UartFollowsSession
    BY <1>1 DEF UartFollowsSession
  <1> QED BY <1>2, Inductive, PTL

\* When a SET is answered every field of the session's settings is in the UART,
\* the fields that were set or refused before included (handle_rfc2217_command).
THEOREM ReplyIsTrue == Spec => []ReplyMeansSet
  <1>1. ASSUME IInv, NEW w \in Workers, at[w] = "reply", last = w, clean
        PROVE  uart = pushing[w].args
    <2>1. Busy(w) /\ pushing[w].step = NumFields + 1 /\ w \in Callers
      BY <1>1, WhoCalls DEF IInv, Places
    <2>2. \A f \in Fields : f < NumFields + 1
      BY SettingsAssumption DEF Fields
    <2>3. \A f \in Fields : uart[f] = pushing[w].args[f]
      BY <1>1, <2>1, <2>2 DEF IInv, DoneSoFar
    <2>4. uart \in Settings /\ pushing[w].args \in Settings
      BY <1>1, <2>1, BusyPush DEF IInv, Typed
    <2> QED BY <2>3, <2>4, SameFields
  <1>2. IInv => ReplyMeansSet
    BY <1>1 DEF ReplyMeansSet
  <1> QED BY <1>2, Inductive, PTL

\* After a live update every listed session has the defaults, but those that
\* changed their settings since, set up outside the table during it, or did not
\* fit into matches[] (update_serial_config).
THEOREM UpdateReaches == Spec => []UpdateReachesListed
  <1>1. IInv => UpdateReachesListed
    BY DEF IInv, UpdateFollows, UpdateReachesListed, Bound, Listed, HasContext
  <1> QED BY <1>1, Inductive, PTL
===============================================================================
