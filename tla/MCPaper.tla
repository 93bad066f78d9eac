------------------------------ MODULE MCPaper ------------------------------
(* Small instances of PaperSession.  Prices are multiples of Unit, for which *)
(* every cost, fee and average is exact.                                     *)
EXTENDS PaperSession

Unit == 60000

MarkedCandle(open, high, low, close, volume, mark, rate) ==
  [open |-> open * Unit, high |-> high * Unit, low |-> low * Unit, close |-> close * Unit,
   volume |-> volume, mark |-> mark * Unit, rate |-> rate]

Candle(open, high, low, close, volume) == MarkedCandle(open, high, low, close, volume, close, 0)

Setup(side, type, entry, stop, target, qty) ==
  [side |-> side, type |-> type, entry |-> entry * Unit, stop |-> stop * Unit,
   target |-> target * Unit, qty |-> qty]

\* Calm, both levels touched, gaps down and up, a rise, no volume; little or enough volume.
CarryBars ==
  {Candle(5, 5, 5, 5, 1), Candle(5, 5, 5, 5, 3), Candle(5, 7, 3, 5, 2), Candle(3, 4, 3, 4, 1),
   Candle(7, 8, 7, 8, 1), Candle(7, 7, 6, 6, 1), Candle(5, 5, 4, 4, 0)}
CarrySetups ==
  {Setup("buy", "market", 5, 3, 8, 3), Setup("buy", "limit", 5, 4, 7, 2),
   Setup("sell", "stop", 5, 7, 3, 2)}

\* An open beyond the stop, with volume for the rest of an entry and for an exit.
GapBars == {Candle(5, 5, 5, 5, 1), Candle(2, 3, 2, 3, 3)}

\* The mark leaves the traded price behind, and funding settles both ways.
MarginBars ==
  {Candle(5, 5, 5, 5, 3), Candle(5, 6, 5, 6, 1), MarkedCandle(5, 5, 5, 5, 1, 5, 1),
   MarkedCandle(5, 6, 5, 6, 3, 6, -1), MarkedCandle(4, 5, 4, 4, 1, 1, 1),
   MarkedCandle(6, 6, 5, 6, 1, 9, 0), Candle(3, 4, 3, 4, 1)}
MarginSetups == {Setup("buy", "market", 5, 3, 7, 3), Setup("sell", "limit", 6, 8, 4, 3)}

\* The next open is dearer than the signal; protection sleeps on the entry's candle.
FixedBars ==
  {Candle(5, 5, 5, 5, 1), Candle(6, 6, 5, 5, 1), Candle(5, 7, 4, 6, 1), Candle(4, 4, 3, 3, 1),
   Candle(7, 8, 7, 8, 1)}
FixedSetups ==
  {Setup("buy", "market", 5, 4, 7, 2), Setup("buy", "market", 5, 4, 7, 3),
   Setup("buy", "limit", 5, 3, 6, 2), Setup("buy", "stop", 6, 4, 8, 2),
   Setup("sell", "market", 5, 6, 4, 1)}

LegacySetups ==
  {Setup("buy", "market", 5, 4, 7, 2), Setup("sell", "market", 6, 7, 4, 1),
   Setup("buy", "limit", 5, 3, 7, 1), Setup("sell", "stop", 4, 6, 3, 2)}

Fees == [maker |-> 0, taker |-> 1]

\* Volume-limited fills, the rest of an entry carried.
Carry ==
  [profile |-> "realistic", market |-> "future", starting |-> 20 * Unit, leverage |-> 1,
   scale |-> 100, adjustment |-> 2, fee |-> Fees, remainder |-> "carry", fill_delay |-> 0,
   protection_delay |-> 0, min_notional |-> 0, maintenance |-> 0, liquidation_fee |-> 0,
   max_bars |-> 5, bars_per_day |-> 2, end_policy |-> "mark",
   bars |-> CarryBars, setups |-> CarrySetups, stops |-> {4 * Unit, 6 * Unit},
   targets |-> {7 * Unit}]

\* Leverage, mark prices, latency, the rest of an entry canceled.
Margin ==
  [Carry EXCEPT !.starting = 8 * Unit, !.leverage = 3, !.remainder = "cancel", !.fill_delay = 1,
                !.protection_delay = 1, !.maintenance = 20, !.liquidation_fee = 5, !.max_bars = 7,
                !.end_policy = "flatten", !.bars = MarginBars, !.setups = MarginSetups,
                !.stops = {5 * Unit}, !.targets = {}]

Spot ==
  [Carry EXCEPT !.profile = "fixed", !.market = "spot", !.starting = 12 * Unit,
                !.remainder = "none", !.max_bars = 6, !.bars = FixedBars, !.setups = FixedSetups,
                !.stops = {3 * Unit, 5 * Unit}, !.targets = {}]

Legacy ==
  [Carry EXCEPT !.profile = "legacy", !.remainder = "none", !.max_bars = 4,
                !.end_policy = "flatten", !.bars = FixedBars, !.setups = LegacySetups,
                !.stops = {3 * Unit, 5 * Unit}, !.targets = {6 * Unit}]

\* A minimum notional that an entry keeps at its own price, and loses at a gap.
Notional ==
  [Carry EXCEPT !.remainder = "none", !.min_notional = 8 * Unit, !.bars = GapBars,
                !.stops = {}, !.targets = {}]

\* The rest of an entry meets a gap before protection is active.
Gap ==
  [Carry EXCEPT !.protection_delay = 2, !.bars = GapBars, !.stops = {}, !.targets = {}]

AllProfiles == {Carry, Margin, Spot, Legacy, Notional, Gap}
=============================================================================
