----------------------------- MODULE MCDbProbe -----------------------------
(* Small instances of DbProbe for TLC.                                     *)
EXTENDS DbProbe, TLC

\* Two database servers and a web server.
MCSockets == {"pg", "redis", "web"}
MCPort == [s \in MCSockets |-> CASE s = "pg" -> PG_PORT [] s = "redis" -> REDIS_PORT
                                 [] OTHER -> 80]
\* An error, the end of the stream, and more than the largest payload.
MCRets == {-1, 0, MAX_DB_PAYLOAD_LEN + 1}

Symmetric == Permutations(Threads) \cup Permutations(Slots)
=============================================================================
