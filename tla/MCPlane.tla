------------------------------- MODULE MCPlane -------------------------------
(* An instance of the data plane: two probes, three items, two runs of the kernel log,
   two log inputs and one that cannot be collected. *)
EXTENDS Plane

MCProbeOrder == <<"process", "container">>
MCItems == {"p1", "p2", "c1"}
MCKindOf == [p1 |-> "process", p2 |-> "process", c1 |-> "container"]
MCClassOf == [p1 |-> "identified", p2 |-> "named", c1 |-> "container"]
MCProcessSets == <<"identified", "named", "unidentified">>
MCBuiltin == [process |-> 1, container |-> 2]
\* An empty table, and one with contradicting bounds and with an interval beyond its bound.
MCPolicies ==
    {<<>>, [container |-> [min |-> 2, max |-> 1, asked |-> 0], process |-> [min |-> 1, max |-> 2, asked |-> 3]]}
MCStartHosts == {{"p1", "c1"}}
MCRunOrder == <<"r1", "r2">>
MCInputOrder == <<"i1", "i2", "u">>
\* A good output, a file output beside a tcp.framing that does not exist, an output that
\* cannot be built, and one that is not enabled.
MCLocalOutputs ==
    {[enabled |-> TRUE, sound |-> TRUE, framed |-> TRUE], [enabled |-> TRUE, sound |-> TRUE, framed |-> FALSE],
     [enabled |-> TRUE, sound |-> FALSE, framed |-> FALSE], [enabled |-> FALSE, sound |-> TRUE, framed |-> TRUE]}
MCRemarkOrder == <<"NoiseDropped">>
=============================================================================
