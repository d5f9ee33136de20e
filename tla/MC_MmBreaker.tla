---------------------------- MODULE MC_MmBreaker ----------------------------
(* Instances of MmBreaker for TLC.                                          *)
EXTENDS MmBreaker

\* No directional engine runs beside the market maker.
NoEngines == {}

\* Positions are marked at cost, or under it by a unit.
AtOrUnder == {0, -1}

\* What the rows may hold: losses, which a row taken over takes away again.
Losses == {-1, 0}
WidePnl == -3 .. 3
=============================================================================
