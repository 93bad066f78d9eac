--------------------------- MODULE MCSpotRecipes ---------------------------
(***************************************************************************)
(* Instances of SpotRecipes for TLC.                                       *)
(***************************************************************************)
EXTENDS SpotRecipes

Basketful(cycle, targets, flattens, additions) ==
  {OrderId(cycle, 0, "base", 0)}
    \cup {OrderId(cycle, s, "addition", 0) : s \in additions}
    \cup {OrderId(cycle, 0, "target", g) : g \in 0 .. targets - 1}
    \cup {OrderId(cycle, 0, "flatten", g) : g \in 0 .. flattens - 1}

Rungs(slots, buys, sells, flattens) ==
  {OrderId(1, s, "grid_buy", g) : s \in slots, g \in 0 .. buys - 1}
    \cup {OrderId(1, s, "grid_sell", g) : s \in slots, g \in 0 .. sells - 1}
    \cup {OrderId(1, 0, "flatten", g) : g \in 0 .. flattens - 1}

\* One cycle with an addition; what is left of it can be dust.
OneCycle ==
  [recipe |-> "dca", size |-> 2, add |-> 1, slots |-> {1}, min |-> 2, limit |-> 3, market |-> 2,
   levels |-> {"valid", "invalid", "refused"}, signals |-> {"none", "start", "stop_and_hold"},
   commands |-> {}, reasons |-> {}, orders |-> Basketful(1, 2, 2, {1}), events |-> 5, bars |-> 2,
   candles |-> {}, expires |-> 0, behaviours |-> {}]

\* The same cycle where no size is too small.
Divisible == [OneCycle EXCEPT !.min = 1, !.levels = {"valid"}]

\* One cycle that is closed in pieces, with every close that can follow.
Pieces ==
  [recipe |-> "dca", size |-> 2, add |-> 1, slots |-> {}, min |-> 1, limit |-> 1, market |-> 1,
   levels |-> {"valid"}, signals |-> {"none", "start"},
   commands |-> {}, reasons |-> {}, orders |-> Basketful(1, 2, 3, {}), events |-> 8, bars |-> 2,
   candles |-> {}, expires |-> 0, behaviours |-> {}]

\* Two cycles of a base order, its target and a close, and an operator.
TwoCycles ==
  [recipe |-> "dca", size |-> 1, add |-> 1, slots |-> {}, min |-> 1, limit |-> 1, market |-> 1,
   levels |-> {"valid"}, signals |-> {"none", "start"},
   commands |-> {"k"}, reasons |-> {"manual"},
   orders |-> Basketful(1, 1, 1, {}) \cup Basketful(2, 1, 1, {}), events |-> 4, bars |-> 2,
   candles |-> {}, expires |-> 0, behaviours |-> {"thirdAsset"}]

\* The same two cycles, and an operator who gives two commands for any reason.
TwoCommands ==
  [TwoCycles EXCEPT !.commands = {"k", "l"}, !.reasons = {"manual", "target", "empty_base"},
                    !.behaviours = {}]

\* Two slots of a grid, whose bids can leave dust; the cash can be short of a second bid.
TwoSlots ==
  [recipe |-> "grid", size |-> 2, add |-> 1, slots |-> {1, 2}, min |-> 2, limit |-> 2, market |-> 2,
   levels |-> {"valid"}, signals |-> {"none", "start"}, commands |-> {}, reasons |-> {},
   orders |-> Rungs({1, 2}, 2, 1, 1), events |-> 4, bars |-> 2,
   candles |-> {}, expires |-> 0, behaviours |-> {"baseFee"}]

\* One slot that buys again.
OneSlot ==
  [recipe |-> "grid", size |-> 2, add |-> 1, slots |-> {1}, min |-> 1, limit |-> 2, market |-> 2,
   levels |-> {"valid"}, signals |-> {"none", "start"},
   commands |-> {"k"}, reasons |-> {"manual"}, orders |-> Rungs({1}, 2, 2, 1), events |-> 5, bars |-> 2,
   candles |-> {}, expires |-> 0, behaviours |-> {}]

\* A slot whose lot is closed in pieces while its SELL may execute.
LotInPieces ==
  [OneSlot EXCEPT !.market = 1, !.commands = {}, !.orders = Rungs({1}, 1, 1, 3), !.events = 6]

Cycles == {OneCycle, TwoCycles, TwoCommands, TwoSlots, OneSlot}
CycleOrders == UNION {p.orders : p \in Cycles}
Resized == {Divisible}
=============================================================================
