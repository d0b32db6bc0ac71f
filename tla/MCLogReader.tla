------------------------------ MODULE MCLogReader ------------------------------
(* Two workers; an empty directory, and three files that share URLs and       *)
(* referers.                                                                  *)
EXTENDS LogReader

CONSTANTS w1, w2, u, v, r, g

Ln(x, b, y) == [url |-> x, bytes |-> b, ref |-> y]

MCLog == { <<>>,
           << <<Ln(u, 2, r), Ln(NoUrl, 1, r)>>, <<Ln(u, 1, r), Ln(v, 0, g)>>, <<Ln(v, 3, g)>> >> }
==============================================================================
