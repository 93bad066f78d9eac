------------------------------ MODULE SpotGrid ------------------------------
(***************************************************************************)
(* The Grid recipe: a slot buys at its bid, sells what it acquired at the  *)
(* point above, and buys again.  A slot's orders all have its size; which  *)
(* of the bids are under the price is part of the observation.             *)
(***************************************************************************)
EXTENDS SpotController

SlotCost == plan.size * UnitCost

\* The grid opens once, inside its range and with the cash for every bid under the price;
\* otherwise the observation is refused altogether.
OpensGrid(d) == d.c.phase = "idle" /\ d.kind = "closed_bar" /\ d.start

OpenGrid(d) ==
  LET e == [d EXCEPT !.c.cycle = @ + 1, !.c.phase = "active", !.c.stop = TRUE, !.c.grid = d.below]
  IN  IF d.mark = "high" \/ d.below = {} \/ Cardinality(d.below) * SlotCost > free_quote(d.a)
      THEN [d EXCEPT !.raised = TRUE]
      ELSE [e EXCEPT !.out = @ \o [n \in 1 .. Cardinality(d.below) |->
                                     Intent(e, "grid_buy", InOrder(d.below)[n], plan.size)]]

\* mutant: the slot does not wait for its SELL
RungOverlapping(d, s) ==
  LET Of(purpose) == {id \in Owned(d, purpose) : id.slot = s}
      buy == Latest(Of("grid_buy"))
  IN  IF Of("grid_buy") = {} \/ ~d.a.orders[buy].terminal_reconciled THEN d
      ELSE IF Of("grid_sell") = {} /\ d.a.lots[buy] >= plan.min
           THEN Submitting(d, Intent(d, "grid_sell", s, d.a.lots[buy]))
      ELSE IF /\ d.kind = "closed_bar" /\ d.bar > d.c.ended[s]
              /\ d.mark # "high" /\ free_quote(d.a) >= SlotCost
           THEN Submitting(d, Intent(d, "grid_buy", s, plan.size))
      ELSE d

\* A slot whose orders are settled sells its lot, or what is left of it; when that is dust,
\* it buys again at the close of a later bar, with free cash and below the top.
Rung(d, s) ==
  LET Of(purpose) == {id \in Owned(d, purpose) : id.slot = s}
      buy == Latest(Of("grid_buy"))
  IN  IF \/ Of("grid_buy") = {}
         \/ \E id \in {buy} \cup Of("grid_sell") : ~d.a.orders[id].terminal_reconciled
        THEN d
      ELSE IF d.a.lots[buy] >= plan.min
           THEN Submitting(d, Intent(d, "grid_sell", s, d.a.lots[buy]))
      ELSE IF /\ d.kind = "closed_bar" /\ d.bar > d.c.ended[s]
              /\ d.mark # "high" /\ free_quote(d.a) >= SlotCost
           THEN Submitting(d, Intent(d, "grid_buy", s, plan.size))
      ELSE d

\* The slots of the grid, one after the other.
Ladder(d) ==
  LET N == Cardinality(d.c.grid)
      upTo[n \in 0 .. N] == IF n = 0 THEN d ELSE Rung(upTo[n - 1], InOrder(d.c.grid)[n])
  IN  upTo[N]

Grid(d) ==
  IF OpensGrid(d) THEN OpenGrid(d) ELSE IF d.c.phase = "active" THEN Ladder(d) ELSE d
=============================================================================
