--------------------------- MODULE MCSessionPool ---------------------------
(* Small instances of SessionPool for TLC.                                  *)
EXTENDS SessionPoolRefines, TLC

\* Handles and contexts are addresses: nothing depends on which one malloc
\* returns.
Addresses == Permutations(Handles) \cup Permutations(Ctxs)
=============================================================================
