------------------------------ MODULE MCGraph ------------------------------
(***************************************************************************)
(* Small instances of GraphStrategy.  Levels are at 3: a bar stays on the  *)
(* level, sweeps below it and closes above, closes above it, or breaks the *)
(* level's buffer.                                                         *)
(***************************************************************************)
EXTENDS GraphStrategy

Calm == <<3, 3, 3>>
Sweep == <<4, 2, 4>>
Above == <<4, 4, 4>>
Crash == <<1, 1, 1>>

Ids == <<"bridge", "cond", "cool", "cross", "edge", "exit", "gate", "hold", "level", "lower">>
Alphabetical == [n \in ToSet(Ids) |-> CHOOSE k \in DOMAIN Ids : Ids[k] = n]
Reversed == [n \in ToSet(Ids) |-> 11 - Alphabetical[n]]

Graph(wiring, mode, bars, history, ranks) ==
  [wiring |-> wiring, mode |-> mode, bars |-> bars, expires |-> 2, history |-> history,
   ranks |-> ranks]

MCGraphs ==
  [plain |-> Graph("plain", "none", 1, 1, Alphabetical),
   held |-> Graph("plain", "none", 2, 2, Reversed),
   sweep |-> Graph("edge", "sweep_reclaim", 1, 1, Alphabetical),
   retest |-> Graph("edge", "breakout_retest", 2, 1, Reversed),
   breakout |-> Graph("cross", "breakout", 1, 2, Alphabetical)]

Conditions == {<<c, Calm, 3>> : c \in {"true", "false", "unready"}}

Candles(hit, break) ==
  {<<"false", Calm, 3>>, <<"true", Calm, 3>>, <<"true", Calm, 0>>, <<"true", hit, 3>>,
   <<"false", break, 3>>}

MCShapes ==
  [plain |-> Conditions, held |-> Conditions, sweep |-> Candles(Sweep, Crash),
   retest |-> Candles(Above, Crash), breakout |-> Candles(Above, Void)]

OddCandles(hit) == {<<"true", hit, 3>>, <<"false", Calm, 3>>}

MCOddShapes ==
  [plain |-> OddCandles(Calm), held |-> OddCandles(Calm), sweep |-> OddCandles(Sweep),
   retest |-> OddCandles(Above), breakout |-> OddCandles(Above)]

MCMaxBars == [plain |-> 5, held |-> 5, sweep |-> 5, retest |-> 5, breakout |-> 5]
=============================================================================
