--------------------------- MODULE MCGatewayStart ---------------------------
(* Small instance of GatewayStart: two clouds, a setup that may choose     *)
(* either, three names for config files, one port that other programs may  *)
(* hold, and a file written by hand well or badly.                         *)
EXTENDS GatewayStart

MCStems == {Numbered(1), Numbered(2), Numbered(3)}
Server == [valid |-> TRUE, host |-> <<"localhost", ":", "90">>]
Typo == [valid |-> FALSE, host |-> <<"localhost">>]
MCHosts == {Server, Typo}

MCSlugs == {<<"shop">>}

Protected == [servers |-> <<"idp">>, resource |-> "", methods |-> <<>>, scopes |-> <<>>]
MCHandWritten ==
  {BrokenFile,
   ConfigFile([DefaultConfig EXCEPT !.mcp = Server, !.port = 80, !.auth = Protected,
                !.name = <<"shop">>,
                !.cloud = [token |-> "old", server |-> <<"shop">>, endpoint |-> NoValue]])}

(* A setup and a gateway touch each other through files and ports only,    *)
(* and a gateway reads its file in one step: here the setup comes first.   *)
SetupFirst == gateway.at = "none" \/ (setups = MaxSetups /\ setup.at = "none")
=============================================================================
