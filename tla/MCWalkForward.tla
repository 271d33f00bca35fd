---- MODULE MCWalkForward ----
EXTENDS WalkForward
MCConfigs == [mode : {"rolling", "anchored", "expanding"}, training : {0, 2}, validation : {1}, test : {1, 2}, step : {1, 2}, purge : {-1, 0, 1}, embargo : {0, 1}]
====
