----------------------------- MODULE MCSettings -----------------------------
(* Three fields stand for the five: a rate the driver may refuse, a format  *)
(* field it may refuse although the command decodes, and the flow control,  *)
(* which no command sets.                                                   *)
EXTENDS Settings

MCChoice  == <<{9600, 0}, {1, 15}, {0, 1}>>
MCRefused == {<<1, 0>>, <<2, 15>>}
MCBooted  == <<9600, 1, 0>>
MCUpdates == {<<9600, 15, 1>>}
=============================================================================
