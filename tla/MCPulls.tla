------------------------------- MODULE MCPulls -------------------------------
(***************************************************************************)
(* Two standing works and the pulled settings, with work parameters and    *)
(* root lists for TLC.                                                     *)
(***************************************************************************)
EXTENDS Refresh

\* Work parameters that cover the sources agentd knows and those it does not.
Src(kind, target, ok, folds) == [kind |-> kind, target |-> target, collectable |-> ok, folds |-> folds]

UnitList(s) ==
    CASE s = "logs" -> <<[unit |-> "u1", capability |-> "collect_logs", interval |-> 0,
                          sources |-> <<Src("FileGlob", "p1", TRUE, FALSE), Src("FileGlob", "p2", TRUE, TRUE),
                                        Src("Exporter", "e1", TRUE, FALSE), Src("FileGlob", "rel", FALSE, FALSE)>>]>>
      [] s = "metrics" -> <<[unit |-> "m1", capability |-> "collect_metrics", interval |-> 0, sources |-> <<>>],
                            [unit |-> "m2", capability |-> "collect_metrics", interval |-> 30, sources |-> <<>>]>>

SentRoots == {{"r1", "r2", "rbad"}, {"r1"}}
=============================================================================
