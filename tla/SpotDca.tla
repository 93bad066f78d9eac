------------------------------ MODULE SpotDca ------------------------------
(***************************************************************************)
(* The DCA recipe.  Every BUY execution changes the average entry, so the  *)
(* desired target is named by the quantity bought in the cycle.  The       *)
(* target's rules are reduced to its largest and smallest size; the        *)
(* additions' prices are valid, invalid as a grid of levels, or such that  *)
(* admission refuses them: a choice.                                       *)
(*                                                                         *)
(* A target that cannot be placed drops what was decided to be submitted   *)
(* with it, the additions; nothing else is decided before it.              *)
(***************************************************************************)
EXTENDS SpotController

Gross(d) ==
  MapThenSumSet(LAMBDA id : d.a.orders[id].filled, Owned(d, "base") \cup Owned(d, "addition"))

Target(d) ==
  LET working == {id \in Owned(d, "target") : ~d.a.orders[id].terminal_reconciled}
      stale == {id \in working : \/ d.c.target # d.c.desired
                                 \/ d.a.orders[id].size - d.a.orders[id].filled # d.a.base}
  IN  CASE d.a.base = 0 -> d
        [] d.a.base > plan.limit ->
             Stop([d EXCEPT !.c.refusal = "target_constraints", !.out = <<>>], "target_constraints")
        [] d.a.base > 0 /\ d.a.base < plan.min ->
             [d EXCEPT !.c.refusal = "target_dust"]
        [] OTHER ->
             IF working # {} THEN [d EXCEPT !.out = @ \o Cancels(d, stale, "target_replace")]
             ELSE [d EXCEPT !.out = Append(@, Intent(d, "target", 0, d.a.base)),
                            !.c.target = d.c.desired, !.c.target_bar = d.bar]

\* With the base order settled, the anchor fixes the additions, once.  slots
\* keeps whether admission will take them.
Anchor(d, levels) ==
  IF \E id \in Owned(d, "base") : d.a.orders[id].terminal_reconciled /\ ~d.c.anchored
    THEN IF levels = "invalid"
           THEN [d EXCEPT !.c.anchored = TRUE, !.c.refusal = "normalized_additions_invalid"]
           ELSE [d EXCEPT !.c.anchored = TRUE, !.c.slots = levels, !.c.phase = "active"]
    ELSE d

Stage(d) ==
  IF d.c.refusal = "none" /\ Owned(d, "addition") = {} /\ d.c.slots # "none"
    THEN [d EXCEPT !.out = @ \o [n \in 1 .. Cardinality(plan.slots) |->
                                    Intent(d, "addition", InOrder(plan.slots)[n], plan.add)]]
    ELSE d

Armed(d) == [d EXCEPT !.c.stop = TRUE, !.c.desired = Gross(d)]

Running(d, levels) ==
  IF d.mark = "low" THEN Stop(Armed(d), "stop")
                    ELSE Target(Stage(Anchor(Armed(d), levels)))

CycleCost == (plan.size + Cardinality(plan.slots) * plan.add) * UnitCost

\* mutant: any phase may start a cycle
StartsAnyPhase(d) == d.kind = "closed_bar" /\ d.start /\ d.bar > d.c.last_cycle_bar

\* A start from "idle" or "complete", on a later bar than the last cycle's end.
Starts(d) == d.kind = "closed_bar" /\ d.start /\ d.c.phase \in {"idle", "complete"}
             /\ d.bar > d.c.last_cycle_bar

NewCycle(d) ==
  LET e == [d EXCEPT !.c = Fresh(d.c.cycle + 1, "base_pending", d.c.last_cycle_bar),
                     !.a.cleanup = Cleanup, !.a.cycle = CycleCost]
  IN  IF CycleCost + Cleanup > d.a.cash THEN [d EXCEPT !.c.refusal = "insufficient_cycle_cash"]
      ELSE [e EXCEPT !.out = Append(@, Intent(e, "base", 0, plan.size))]

Dca(d, levels) ==
  LET bases == Owned(d, "base")
  IN  CASE Starts(d) -> NewCycle(d)
        [] ~Starts(d) /\ \E id \in bases : d.a.orders[id].filled > 0 -> Running(d, levels)
        [] ~Starts(d) /\ \E id \in bases : /\ d.a.orders[id].filled = 0
                                           /\ d.a.orders[id].terminal_reconciled ->
             Stop(d, "empty_base")
        [] OTHER -> d
=============================================================================
