----------------------------- MODULE MCLogInput -----------------------------
(* Instances of LogInput for the model checker. *)
EXTENDS LogInput

OneChain == {<<"b", "b1", "b2">>}
OneOrder == <<"b", "b1", "b2">>
ActiveOnly == {<<"b">>}
ActiveOrder == <<"b">>
TwoChains == {<<"a">>, <<"b", "b1">>}
TwoOrder == <<"a", "b", "b1">>

\* between the inspection of a file and its read, and while its checkpoint is written
Reading == {"rotated", "read", "commit"}
\* a file may be renamed away between its inspection and its read
Renaming == Reading \ {"read"}
\* the whole batch
Batch == Reading \cup {"inspect", "overflow", "send", "seq"}
=============================================================================
