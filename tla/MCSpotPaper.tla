---------------------------- MODULE MCSpotPaper ----------------------------
(***************************************************************************)
(* Instances of SpotPaper for TLC: paper sessions, and closes without one. *)
(***************************************************************************)
EXTENDS MCSpotRecipes, SpotPaper

Candles(open, low, high, close) ==
  {[open |-> open, low |-> low, high |-> high, close |-> close, volume |-> v] : v \in {1, 2}}

\* A paper session of a DCA cycle with an addition, on rising, falling and wide candles.
PaperBasket ==
  [recipe |-> "dca", size |-> 2, add |-> 1, slots |-> {1}, min |-> 1, limit |-> 3, market |-> 3,
   levels |-> {"valid"}, signals |-> {"none", "start"},
   commands |-> {"k"}, reasons |-> {"manual"},
   candles |-> Candles(3, 3, 3, 3) \cup Candles(3, 1, 4, 3) \cup Candles(3, 2, 3, 2)
               \cup Candles(2, 1, 2, 1) \cup Candles(3, 3, 4, 4) \cup Candles(0, 0, 2, 2),
   expires |-> 0, orders |-> Basketful(1, 4, 3, {1}), events |-> 0, bars |-> 5,
   behaviours |-> {}]

\* The same basket where no close may take all of it, and commands may name the stop.
CappedBasket ==
  [PaperBasket EXCEPT !.market = 1, !.reasons = {"stop"}, !.orders = Basketful(1, 4, 4, {1}),
                      !.candles = Candles(3, 3, 3, 3) \cup Candles(3, 1, 4, 3)]

\* A paper session of a grid, with gaps under its stop and orders that expire.
PaperGrid ==
  [recipe |-> "grid", size |-> 1, add |-> 1, slots |-> {1, 2}, min |-> 1, limit |-> 2, market |-> 2,
   levels |-> {"valid"}, signals |-> {"none", "start"},
   commands |-> {}, reasons |-> {},
   candles |-> Candles(4, 4, 4, 4) \cup Candles(4, 2, 4, 3) \cup Candles(0, 0, 3, 3)
               \cup Candles(4, 1, 4, 2) \cup Candles(5, 3, 5, 5),
   expires |-> 2, orders |-> Rungs({1, 2}, 3, 3, 3), events |-> 0, bars |-> 4,
   behaviours |-> {"rejected"}]

Closings == {Pieces, LotInPieces, PaperBasket, CappedBasket, PaperGrid}
ClosingOrders == UNION {p.orders : p \in Closings}
=============================================================================
