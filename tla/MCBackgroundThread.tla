------------------------- MODULE MCBackgroundThread -------------------------
(* TLC instances of BackgroundThread: a work replaced by a periodic one,   *)
(* and a thread that starts with no work.                                  *)
EXTENDS BackgroundThread

Replaced == <<"NoTimeout", "WithTimeout">>
Unset == <<"Empty", "WithTimeout">>
=============================================================================
