----------------------------- MODULE MCWordCount -----------------------------
(* Four words, whose hash codes collide in every way modulo 3 and modulo 6.   *)
EXTENDS WordCount

CONSTANTS w1, w2, w3, w4

MCWord == {w1, w2, w3, w4}
MCHash == {h \in [MCWord -> {0, 2, 3, 5}] : h[w1] \in {2, 5}}
==============================================================================
