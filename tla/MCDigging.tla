----------------------------- MODULE MCDigging -----------------------------
(* A survival player and a creative one, two cells, dirt that takes a while *)
(* to dig and bedrock.                                                      *)
EXTENDS Digging

CONSTANTS sam, cleo, x, y, dirt, bedrock

MCPlayers   == {sam, cleo}
MCCreative  == {cleo}
MCBlocks    == {dirt, bedrock}
MCBreakTime == [b \in {dirt, bedrock, Air} |-> IF b = dirt THEN 1 ELSE IF b = bedrock THEN -1 ELSE 0]

MCCells    == {x, y}
MCTerrains == {[i \in MCCells |-> IF i = x THEN dirt ELSE b] : b \in MCBlocks}

\* The order of registration, the reverse, and listeners in another order.
MCOrders == {<<"place", "action", "start", "cancel", "finish">>,
             <<"finish", "cancel", "start", "action", "place">>,
             <<"action", "finish", "start", "place", "cancel">>}
=============================================================================
