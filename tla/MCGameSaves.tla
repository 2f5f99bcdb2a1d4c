---------------------------- MODULE MCGameSaves ----------------------------
(* Two games for the checks of GameSaves: a small one with a battery, which *)
(* starts with the console, and one with a longer state and no such RAM.    *)
EXTENDS GameSaves

MCGames == {"small", "large"}
MCCore == [g \in MCGames |-> IF g = "large" THEN 3 ELSE 1]
MCRam == [g \in MCGames |-> IF g = "large" THEN 0 ELSE 1]
MCBattery == {"small"}
MCPaths == {"default", "other"}
=============================================================================
