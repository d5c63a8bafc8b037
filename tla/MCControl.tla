----------------------------- MODULE MCControl -----------------------------
(* Instances of Control: commands of the gateway and local ones that meet    *)
(* crashes, lost requests, refused credentials and failing files.            *)
EXTENDS Control, TLC

CONSTANTS c1, c2, l1, l2, none

Scenario(kinds, local, crash, lost, refuse, fault) ==
  [kind |-> kinds, local |-> local, grant |-> "on",
   crash |-> crash, lost |-> lost, refuse |-> refuse, fault |-> fault]

McRemote == {c1, c2}
McLocal == {l1, l2}
McScenarios ==
  {Scenario(c1 :> "investigate" @@ c2 :> "refresh", {}, 0, 1, 0, 0),
   Scenario(c1 :> "investigate", {}, 1, 0, 1, 0),
   Scenario(c1 :> "refresh", {}, 1, 0, 1, 1),
   Scenario(c1 :> "unknown", {l1, l2}, 0, 0, 0, 0),
   Scenario(<<>>, {l1, l2}, 0, 0, 0, 1),
   Scenario(<<>>, {l1}, 0, 0, 1, 0),
   Scenario(c1 :> "probe", {}, 0, 0, 0, 2),
   Scenario(c1 :> "bad_params" @@ c2 :> "unknown", {}, 0, 1, 0, 0),
   Scenario(<<>>, {}, 1, 1, 2, 2)}
=============================================================================
