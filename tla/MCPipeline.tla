----------------------------- MODULE MCPipeline -----------------------------
(***************************************************************************)
(* One request, over every endpoint and form of answer modelled.  Lines    *)
(* are few but of every kind: what matters is where among them the         *)
(* timer, the upstream and the client strike.                              *)
(***************************************************************************)
EXTENDS Pipeline

MCProtocols == {"messages", "chat", "responses"}
MCModes     == {"stream", "buffer"}
MCTexts     == {"a"}
MCReasons   == {}
MCUsages    == {NoUsage, [NoUsage EXCEPT !.outputTokens = 7]}
MCInputs    == {"object"}
MCMessages  == {"<402> quota", "boom"}
MCPrefix    == [m \in MCMessages |-> IF m = "boom" THEN 502 ELSE 402]
MCSizes     == {2, 3}
MCRefusals  == {402, 503}
=============================================================================
