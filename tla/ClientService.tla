--------------------------- MODULE ClientService ---------------------------
(***************************************************************************)
(* What the session pool promises its clients, whatever tasks, queue and   *)
(* tables implement it: an admitted client waits in line, is served in its *)
(* turn, at most Capacity of them at a time with at most Capacity waiting, *)
(* is visible to administration only while it is served, and leaves only   *)
(* through the end of its own service.                                     *)
(***************************************************************************)
EXTENDS Integers, Sequences, FiniteSets

CONSTANTS Clients,   \* the clients there can be
          Capacity   \* how many are served at once, and how many may wait

VARIABLES line,   \* the waiting clients, first come first served
          stage   \* "out", "waiting", "starting", "visible" or "leaving"

svars == <<line, stage>>

InService == {c \in Clients : stage[c] \in {"starting", "visible", "leaving"}}

Init ==
    /\ line = <<>>
    /\ stage = [c \in Clients |-> "out"]

Move(c, from, to) == stage[c] = from /\ stage' = [stage EXCEPT ![c] = to]

Admit(c) ==
    /\ Move(c, "out", "waiting")
    /\ Len(line) < Capacity
    /\ line' = Append(line, c)

Start(c) ==
    /\ line # <<>> /\ c = Head(line)
    /\ Cardinality(InService) < Capacity
    /\ Move(c, "waiting", "starting")
    /\ line' = Tail(line)

Publish(c)  == Move(c, "starting", "visible") /\ UNCHANGED line
Withdraw(c) == Move(c, "visible", "leaving") /\ UNCHANGED line

\* The service ends, or could not be set up.
Finish(c) ==
    /\ Move(c, "leaving", "out") \/ Move(c, "starting", "out")
    /\ UNCHANGED line

Next ==
    \E c \in Clients :
        Admit(c) \/ Start(c) \/ Publish(c) \/ Withdraw(c) \/ Finish(c)

Spec == Init /\ [][Next]_svars
=============================================================================
