------------------------------ MODULE MCPrograms ------------------------------
EXTENDS Programs

(* Four words, whose hash codes collide in every way modulo 3 and modulo 6.   *)
CONSTANTS w1, w2, w3, w4

MCWord == {w1, w2, w3, w4}
MCHash == {h \in [MCWord -> {0, 2, 3, 5}] : h[w1] \in {2, 5}}

(* Texts that are empty, that fit, that fit exactly, and that are cut in a    *)
(* word or before it; answers with what looks like a prompt, and without.     *)
MCChar == {" ", ".", "CR", "LF", "a", "b", "c", "d", "e", "f", "g", "h", "t", "#"}
MCArgv == {<<>>, <<<<"a">>>>, <<<<"a", "b">>, <<>>, <<"c">>>>,
           <<<<"a", "b", "c", "d", "e", "f">>, <<"g">>>>,
           <<<<"a", "b", "c", "d", "e">>, <<>>, <<"g", "h">>>>}
MCFont == {1, 4}
MCBanner == {<<>>, <<"t", "CR", "LF">>, <<"t", ".", "CR", "LF", "t", "CR", "LF">>}
MCArt == {<<"#", "CR", "LF">>, <<"#", "CR", "LF", ".", "#", "CR", "LF">>,
          <<"#", ".", "CR", "LF", "#", "CR", "LF">>}

(* Archives of no, one or two members, behind nothing or behind five bytes,   *)
(* with a comment that may hold an end record.                                *)
ZipMember(n, name, extra, comment) ==
    [name |-> n, name_len |-> name, extra_len |-> extra, comment_len |-> comment,
     comp_size |-> 1, uncomp_size |-> 1, method |-> 0, gp_flag |-> 0, disk |-> 0, nul |-> 0]

MCMember == {ZipMember("a", 1, 0, 0), ZipMember("b", 2, 1, 1)}
MCPrefix == {0, 5}
MCComment == {[len |-> 0, false |-> 0], [len |-> 2, false |-> 0], [len |-> 4, false |-> 1]}
MCValue == {0, 1, 2, 7, 20, 63}

(* The columns of up to MaxRows rows.                                         *)
MCNumber == {-2, 0, 3}

(* The data of the code.                                                      *)
MCData == <<4, 8, 15, 16, 23, 42>>
==============================================================================
