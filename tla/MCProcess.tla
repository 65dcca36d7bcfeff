------------------------------ MODULE MCProcess -----------------------------
(***************************************************************************)
(* A small instance of Process, and of the pool in it, for TLC.            *)
(***************************************************************************)
EXTENDS Process, TLC

CONSTANTS t1, t2, t3, c1, c2, c3

MCThreads == {t1, t2, t3}
MCConnections == {c1, c2, c3}

\* A file without database settings and without a threshold, and none.
MCConfigFiles == {"log_level" :> "loud" @@ "server_port" :> 40000, NoFile}
=============================================================================
