------------------------------ MODULE MCRouter ------------------------------
(* A model-checking instance of Router: an agent that calls a tool, the    *)
(* tool installed twice, and the plugin that talks to the user.            *)
EXTENDS Router

CONSTANTS agent, tool, tool2, ui

Ask(cap, risky, outside) == [cap |-> cap, risky |-> risky, outside |-> outside]

MCIdOf == [b \in Boots |-> IF b = tool2 THEN "tool" ELSE
                           IF b = tool THEN "tool" ELSE
                           IF b = agent THEN "agent" ELSE "ui"]

MCOffers == [b \in Boots |-> IF b \in {tool, tool2} THEN {"run"} ELSE
                             IF b = agent THEN {"plan"} ELSE {"ui.prompt"}]

MCAsks == {Ask("run", FALSE, FALSE), Ask("run", TRUE, FALSE), Ask("run", FALSE, TRUE),
           Ask("plan", FALSE, FALSE)}

MCRequires == [b \in Boots |-> IF b = agent THEN {"run"} ELSE {}]

=============================================================================
