------------------------------- MODULE MCLogger -------------------------------
(* Two threads, three messages between them, at ERROR and INFO; three environments.    *)
EXTENDS Logger

CONSTANTS t1, t2

Files(e, i) == [l \in Level |-> CASE l = ERROR -> e [] l = INFO -> i [] OTHER -> "unset"]

BothFiles == [enabled |-> TRUE, level |-> 7, common |-> "ok", file |-> Files("ok", "ok")]
OwnInfo   == [enabled |-> TRUE, level |-> 5, common |-> "bad", file |-> Files("bad", "ok")]
Disabled  == [enabled |-> FALSE, level |-> 7, common |-> "ok", file |-> Files("ok", "ok")]

MCQuota == [t \in {t1, t2} |-> IF t = t1 THEN 2 ELSE 1]
MCEnv == {BothFiles, OwnInfo, Disabled}
==============================================================================
