------------------------------ MODULE MCStartup ------------------------------
(* Session tasks are interchangeable: no definition names one.              *)
EXTENDS Startup

WorkerSymmetry == Permutations(Workers)
=============================================================================
