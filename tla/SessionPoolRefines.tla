------------------------ MODULE SessionPoolRefines -------------------------
(***************************************************************************)
(* SessionPool implements ClientService: a client is in line while its job *)
(* is in job_queue, visible while the session table names it, and in       *)
(* service while some worker holds its job.                                *)
(***************************************************************************)
EXTENDS SessionPool

InTable(h) == \E s \in Slots : slots[s].client = h
ServedAt(h, pcs) == \E w \in Workers : job[w].client = h /\ wpc[w] \in pcs

stageOf == [h \in Handles |->
    CASE Queued(h) -> "waiting"
      [] InTable(h) -> "visible"
      [] ServedAt(h, {"setup", "register"}) -> "starting"
      [] ServedAt(h, {"dispose", "close"}) -> "leaving"
      [] OTHER -> "out"]

lineOf == [i \in DOMAIN queue |-> queue[i].client]

Service == INSTANCE ClientService WITH
    Clients <- Handles, Capacity <- MaxSessions, line <- lineOf, stage <- stageOf

\* Every step of the tasks is a step the abstract service allows, or changes
\* nothing a client can tell: admitted clients are served first come first
\* served, and only the end of its own service removes one.
ImplementsService == Service!Spec
=============================================================================
