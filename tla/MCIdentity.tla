----------------------------- MODULE MCIdentity -----------------------------
(* Instances of Identity: the token of the configuration and one for the    *)
(* command line, two agents.                                                *)
EXTENDS Identity

CONSTANTS a1, a2, t1, t2, none, local

McAgents == {a1, a2}
McTokens == {t1, t2}
McConfigIds == {none, a1}
=============================================================================
