----------------------------- MODULE MCStartup -----------------------------
(* Two tables; both rows belong to the second, so a backfill may stop half *)
(* way, and the services may insert either.                                *)
EXTENDS Startup

MCTableOf == [r \in Rows |-> 2]
MCFallback == [HTTP_PORT |-> 8080, DB_MAX_IDLE_CONNS |-> 10]
MCLeast == [HTTP_PORT |-> 1, DB_MAX_IDLE_CONNS |-> 0]
MCText(kind, value) == [kind |-> kind, value |-> value]
MCEnv(port, idle, level, zju) ==
  [text |-> [HTTP_PORT |-> port, DB_MAX_IDLE_CONNS |-> idle], level |-> level, zju |-> zju]
MCEnvs ==
  {MCEnv(MCText("blank", 0), MCText("number", 0), TRUE, zju) : zju \in BOOLEAN}
  \cup {MCEnv(MCText("number", 0), MCText("blank", 0), TRUE, TRUE),
        MCEnv(MCText("blank", 0), MCText("junk", 0), FALSE, TRUE)}
=============================================================================
