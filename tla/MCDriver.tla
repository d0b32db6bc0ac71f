------------------------------- MODULE MCDriver -------------------------------
(* Two threads, buffers of 2 and 3 bytes, writes of up to four bytes, one     *)
(* load with a parameter among any number of loads.                           *)
EXTENDS Driver

CONSTANTS t1, t2, a, b

MCMessage == {<<a>>, <<b, a>>, <<a, b, a, b>>}
MCOffset  == {-1, 0, 2}
==============================================================================
