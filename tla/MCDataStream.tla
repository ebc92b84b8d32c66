---------------------------- MODULE MCDataStream ----------------------------
(***************************************************************************)
(* Small instances of DataStream: two threads, each with its own topics.   *)
(***************************************************************************)
EXTENDS DataStream, TLC

CONSTANTS c1, c2, t1, t2

MCCallers   == {c1, c2}
MCTopics    == {t1, t2}
MCOneCaller == {c1}
MCOneTopic  == {t1}

\* Each thread looks after one topic.
MCOwnProgram == (c1 :> {t1}) @@ (c2 :> {t2})

\* One thread, one topic.
MCSingleProgram == c1 :> {t1}
=============================================================================
