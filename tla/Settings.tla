------------------------------- MODULE Settings -------------------------------
(***************************************************************************)
(* The serial settings of one port: what the UART is set to, what each     *)
(* session believes it is set to, and what new sessions start from.        *)
(* Sessions change them with RFC2217 SET commands, the control shell with  *)
(* update_serial_config, and both end in serial_configure, which nothing   *)
(* serialises: it sets one field after the other and stops at the first    *)
(* the driver refuses.                                                     *)
(***************************************************************************)
EXTENDS Integers, FiniteSets

CONSTANTS NumFields,    \* baud, data bits, parity, stop bits, flow: in this order
          Choice,       \* the values of each field a peer may ask for
          Refused,      \* the <<field, value>> pairs serial_configure fails on
          Settable,     \* the fields an RFC2217 command sets
          Booted,       \* the setting the adapter gives a driver it installs
          Updates,      \* the settings the shell may ask for
          Workers,
          MaxMatches    \* SER2NET_MAX_PORTS, the size of matches[]

Fields   == 1..NumFields
Values   == UNION {Choice[f] : f \in Fields}
Settings == {s \in [Fields -> Values] : \A f \in Fields : s[f] \in Choice[f]}
Shell    == "shell"   \* the control task, the only caller of update_serial_config
Nobody   == "nobody"

ASSUME SettingsAssumption ==
    /\ NumFields \in Nat \ {0} /\ MaxMatches \in Nat \ {0}
    /\ Settable \subseteq Fields /\ Updates \subseteq Settings /\ Booted \in Settings
    /\ Refused \subseteq Fields \X Values
    /\ IsFiniteSet(Workers) /\ {Shell, Nobody} \cap Workers = {}

VARIABLES
    uart,       \* the registers of the UART
    defaults,   \* g_session_state.defaults of the port
    ctx,        \* per worker, the current_* fields; meaningless without a context
    at,         \* per worker, its place in session_task
    pushing,    \* per caller, the arguments and progress of serial_configure
    update,     \* the update_serial_config in progress
    lost,       \* a context was written after it was freed
    last,       \* history: whose settings the last serial_configure began with
    clean,      \* history: no other one began before that one was done
    apart       \* history: the sessions not bound to have the defaults

vars == <<uart, defaults, ctx, at, pushing, update, lost, last, clean, apart>>

NoPush   == [step |-> 0]
NoUpdate == [op |-> "none"]

TypeOK ==
    /\ uart \in Settings /\ defaults \in Settings
    /\ ctx \in [Workers -> Settings]
    /\ at \in [Workers -> {"idle", "open", "loaded", "register", "io", "assigned",
                           "reply", "unlisted"}]
    /\ \A a \in Workers \cup {Shell} :
         \/ pushing[a] = NoPush
         \/ /\ pushing[a].step \in 1..NumFields + 1
            /\ pushing[a].args \in Settings
    /\ \/ update = NoUpdate
       \/ /\ update.op \in {"defaults", "snapshot", "apply", "write", "push"}
          /\ update.params \in Updates /\ update.live \in BOOLEAN
          /\ update.field \in 1..NumFields + 1
          /\ update.matches \subseteq Workers
          /\ update.on \in Workers \cup {Nobody}
          /\ Cardinality(update.matches) <= MaxMatches
    /\ lost \in BOOLEAN /\ clean \in BOOLEAN
    /\ last \in Workers \cup {Nobody}
    /\ apart \subseteq Workers

Init ==
    /\ uart = Booted
    /\ defaults = Booted
    /\ ctx = [w \in Workers |-> Booted]
    /\ at = [w \in Workers |-> "idle"]
    /\ pushing = [a \in Workers \cup {Shell} |-> NoPush]
    /\ update = NoUpdate
    /\ lost = FALSE /\ last = Nobody /\ clean = TRUE /\ apart = {}

HasContext(w) == at[w] \notin {"idle", "open"}
Listed        == {w \in Workers : at[w] \in {"io", "assigned", "reply"}}
Goto(w, pc)   == at' = [at EXCEPT ![w] = pc]

---------------------------------------------------------------------------
(* serial_configure, called by a with the settings of worker w.            *)

Busy(a) == pushing[a] # NoPush

Begin(a, w) ==
    /\ ~Busy(a)
    /\ pushing' = [pushing EXCEPT ![a] = [step |-> 1, args |-> ctx[w]]]
    /\ last' = w
    /\ clean' = \A b \in DOMAIN pushing \ {a} : ~Busy(b)

ConfigureField(a) ==
    LET f == pushing[a].step IN
    /\ Busy(a) /\ f <= NumFields
    /\ <<f, pushing[a].args[f]>> \notin Refused
    /\ uart' = [uart EXCEPT ![f] = pushing[a].args[f]]
    /\ pushing' = [pushing EXCEPT ![a].step = f + 1]

Failed(a) ==
    LET f == pushing[a].step IN
    /\ Busy(a) /\ f <= NumFields
    /\ <<f, pushing[a].args[f]>> \in Refused

Accepted(a) == Busy(a) /\ pushing[a].step = NumFields + 1
Returns(a)  == pushing' = [pushing EXCEPT ![a] = NoPush]

Configures(a) ==
    /\ ConfigureField(a)
    /\ UNCHANGED <<defaults, ctx, at, update, lost, last, clean, apart>>

---------------------------------------------------------------------------
(* A session.                                                              *)

\* The driver is installed again when another session's close deleted it or
\* none was there: then the UART is back at the adapter's own settings.
Open(w) ==
    /\ at[w] = "idle"
    /\ \/ UNCHANGED <<uart, last, clean>>
       \/ uart' = Booted /\ last' = Nobody /\ clean' = FALSE
    /\ Goto(w, "open")
    /\ UNCHANGED <<defaults, ctx, pushing, update, lost, apart>>

NoMemory(w) ==
    /\ at[w] = "open"
    /\ Goto(w, "idle")
    /\ UNCHANGED <<uart, defaults, ctx, pushing, update, lost, last, clean, apart>>

\* session_reset_defaults takes no lock: it may see half an update.
ResetDefaults(w) ==
    /\ at[w] = "open"
    /\ ctx' = [ctx EXCEPT ![w] = defaults]
    /\ Goto(w, "loaded")
    /\ UNCHANGED <<uart, defaults, pushing, update, lost, last, clean, apart>>

Apply(w) ==
    /\ at[w] \in {"loaded", "assigned"}
    /\ Begin(w, w)
    /\ UNCHANGED <<uart, defaults, ctx, at, update, lost, apart>>

\* basic_initialise ignores the result.
Initialised(w) ==
    /\ at[w] = "loaded"
    /\ Accepted(w) \/ Failed(w)
    /\ Returns(w)
    /\ Goto(w, "register")
    /\ UNCHANGED <<uart, defaults, ctx, update, lost, last, clean, apart>>

Register(w) ==
    /\ at[w] = "register"
    /\ Goto(w, "io")
    /\ UNCHANGED <<uart, defaults, ctx, pushing, update, lost, last, clean, apart>>

\* handle_rfc2217_command: the context has the value before the driver does.
Set(w, f, v) ==
    /\ at[w] = "io"
    /\ ctx' = [ctx EXCEPT ![w][f] = v]
    /\ apart' = apart \cup {w}
    /\ Goto(w, "assigned")
    /\ UNCHANGED <<uart, defaults, pushing, update, lost, last, clean>>

\* Mutant: the result of serial_configure is not looked at.
SetAcceptedAlways(w) ==
    /\ at[w] = "assigned"
    /\ Accepted(w) \/ Failed(w)
    /\ Goto(w, "reply")
    /\ UNCHANGED <<uart, defaults, ctx, pushing, update, lost, last, clean, apart>>

SetAccepted(w) ==
    /\ at[w] = "assigned"
    /\ Accepted(w)
    /\ Goto(w, "reply")
    /\ UNCHANGED <<uart, defaults, ctx, pushing, update, lost, last, clean, apart>>

Reply(w) ==
    /\ at[w] = "reply"
    /\ Returns(w)
    /\ Goto(w, "io")
    /\ UNCHANGED <<uart, defaults, ctx, update, lost, last, clean, apart>>

\* No reply; the session goes on and the context keeps the refused value.
SetRefused(w) ==
    /\ at[w] = "assigned"
    /\ Failed(w)
    /\ Returns(w)
    /\ Goto(w, "io")
    /\ UNCHANGED <<uart, defaults, ctx, update, lost, last, clean, apart>>

Unregister(w) ==
    /\ at[w] = "io"
    /\ Goto(w, "unlisted")
    /\ UNCHANGED <<uart, defaults, ctx, pushing, update, lost, last, clean, apart>>

Free(w) ==
    /\ at[w] = "unlisted"
    /\ Goto(w, "idle")
    /\ last' = IF last = w THEN Nobody ELSE last
    /\ apart' = apart \ {w}
    /\ UNCHANGED <<uart, defaults, ctx, pushing, update, lost, clean>>

SessionTask(w) ==
    \/ Open(w) \/ NoMemory(w) \/ ResetDefaults(w) \/ Apply(w) \/ Initialised(w)
    \/ Register(w)
    \/ \E f \in Settable : \E v \in Choice[f] : Set(w, f, v)
    \/ SetAccepted(w) \/ Reply(w) \/ SetRefused(w)
    \/ Unregister(w) \/ Free(w)

---------------------------------------------------------------------------
(* update_serial_config.                                                   *)

UpdateBegin(p, live) ==
    /\ update = NoUpdate
    /\ update' = [op |-> "defaults", params |-> p, live |-> live, field |-> 1,
                  matches |-> {}, on |-> Nobody]
    /\ UNCHANGED <<uart, defaults, ctx, at, pushing, lost, last, clean, apart>>

UpdateDefaults ==
    /\ update.op = "defaults" /\ update.field <= NumFields
    /\ defaults' = [defaults EXCEPT ![update.field] = update.params[update.field]]
    /\ update' = [update EXCEPT !.field = @ + 1]
    /\ UNCHANGED <<uart, ctx, at, pushing, lost, last, clean, apart>>

UpdateDefaultsDone ==
    /\ update.op = "defaults" /\ update.field > NumFields
    /\ update' = IF update.live THEN [update EXCEPT !.op = "snapshot"] ELSE NoUpdate
    /\ apart' = IF update.live THEN apart ELSE {w \in Workers : HasContext(w)}
    /\ UNCHANGED <<uart, defaults, ctx, at, pushing, lost, last, clean>>

\* The sessions an update has no way to reach: not listed, or past the array.
OutOfReach(matches) ==
    {w \in Workers : HasContext(w) /\ w \notin
        IF Cardinality(Listed) <= MaxMatches THEN Listed ELSE matches}

\* Mutant: no bound on the matches.
UpdateSnapshotUnbounded ==
    /\ update.op = "snapshot"
    /\ update' = [update EXCEPT !.op = "apply", !.matches = Listed]
    /\ apart' = OutOfReach(Listed)
    /\ UNCHANGED <<uart, defaults, ctx, at, pushing, lost, last, clean>>

UpdateSnapshot ==
    /\ update.op = "snapshot"
    /\ \E M \in SUBSET Listed :
         /\ \/ M = Listed /\ Cardinality(M) <= MaxMatches
            \/ Cardinality(M) = MaxMatches
         /\ update' = [update EXCEPT !.op = "apply", !.matches = M]
         /\ apart' = OutOfReach(M)
    /\ UNCHANGED <<uart, defaults, ctx, at, pushing, lost, last, clean>>

UpdateNext ==
    /\ update.op = "apply"
    /\ \/ /\ update.matches = {}
          /\ update' = NoUpdate
       \/ \E w \in update.matches :
            update' = [update EXCEPT !.op = "write", !.on = w, !.field = 1,
                                     !.matches = @ \ {w}]
    /\ UNCHANGED <<uart, defaults, ctx, at, pushing, lost, last, clean, apart>>

\* Mutant: the last field, the flow control, is forgotten.
UpdateWriteNoFlow ==
    LET f == update.field IN
    /\ update.op = "write" /\ f <= NumFields
    /\ HasContext(update.on)
    /\ IF f = NumFields THEN UNCHANGED ctx
       ELSE ctx' = [ctx EXCEPT ![update.on][f] = update.params[f]]
    /\ update' = [update EXCEPT !.field = f + 1]
    /\ UNCHANGED <<uart, defaults, at, pushing, lost, last, clean, apart>>

\* apply_config writes through a pointer that was copied before the unlock.
UpdateWrite ==
    LET f == update.field IN
    /\ update.op = "write" /\ f <= NumFields
    /\ HasContext(update.on)
    /\ ctx' = [ctx EXCEPT ![update.on][f] = update.params[f]]
    /\ update' = [update EXCEPT !.field = f + 1]
    /\ UNCHANGED <<uart, defaults, at, pushing, lost, last, clean, apart>>

\* After that anything may happen, and nothing more is modelled.
UpdateLost ==
    /\ update.op \in {"write", "push"} /\ ~Busy(Shell)
    /\ ~HasContext(update.on)
    /\ lost' = TRUE
    /\ UNCHANGED <<uart, defaults, ctx, at, pushing, update, last, clean, apart>>

\* Mutant: the new settings stay in the context.
UpdatePushNothing ==
    /\ update.op = "write" /\ update.field > NumFields
    /\ HasContext(update.on)
    /\ update' = [update EXCEPT !.op = "apply", !.on = Nobody]
    /\ UNCHANGED <<uart, defaults, ctx, at, pushing, lost, last, clean, apart>>

UpdatePush ==
    /\ update.op = "write" /\ update.field > NumFields
    /\ HasContext(update.on)
    /\ Begin(Shell, update.on)
    /\ update' = [update EXCEPT !.op = "push"]
    /\ UNCHANGED <<uart, defaults, ctx, at, lost, apart>>

UpdatePushed ==
    /\ update.op = "push"
    /\ Accepted(Shell) \/ Failed(Shell)
    /\ Returns(Shell)
    /\ update' = [update EXCEPT !.op = "apply", !.on = Nobody]
    /\ UNCHANGED <<uart, defaults, ctx, at, lost, last, clean, apart>>

ControlTask ==
    \/ \E p \in Updates, live \in BOOLEAN : UpdateBegin(p, live)
    \/ UpdateDefaults \/ UpdateDefaultsDone \/ UpdateSnapshot \/ UpdateNext
    \/ UpdateWrite \/ UpdateLost \/ UpdatePush \/ UpdatePushed

Next ==
    /\ ~lost
    /\ \/ \E w \in Workers : SessionTask(w)
       \/ ControlTask
       \/ \E a \in Workers \cup {Shell} : Configures(a)

Spec == Init /\ [][Next]_vars

---------------------------------------------------------------------------
(* Properties.                                                             *)

\* The fields serial_configure gets to before one it refuses.
Reached(s) == {f \in Fields : \A g \in 1..f : <<g, s[g]>> \notin Refused}

NothingPending ==
    /\ \A a \in DOMAIN pushing : ~Busy(a)
    /\ \A w \in Workers : at[w] \notin {"loaded", "assigned"}
    /\ update.op \notin {"write", "push"}

\* When no change is under way, the UART has the settings of the session that
\* was configured last, in every field up to the first its driver refused, be
\* it by a SET, by the start of the session or by the shell: the cached values
\* of the session and the registers part only behind a refused field
\* (apply_serial_settings, esp32_serial_configure).  Two configurations at the
\* same time are excepted, which nothing prevents.
UartFollowsSession ==
    NothingPending /\ clean /\ last # Nobody /\ ~lost =>
        \A f \in Reached(ctx[last]) : uart[f] = ctx[last][f]

\* A SET command is answered only when the UART has every field of the
\* session's settings, the new one and those set or refused before: one refused
\* value silences every later command until it is replaced
\* (handle_rfc2217_command keeps it in the context).
ReplyMeansSet ==
    \A w \in Workers :
        at[w] = "reply" /\ last = w /\ clean => uart = pushing[w].args

\* Once a live update is done, every session of the port has the new defaults,
\* except those that changed them since, those that were setting up outside the
\* table, with the old ones, and those past the end of matches[]: because the
\* defaults are stored before the table is read, a session that starts during
\* the update is missed only in that window (update_serial_config).
UpdateReachesListed ==
    update = NoUpdate =>
        \A w \in Listed \ apart : ctx[w] = defaults
=============================================================================
