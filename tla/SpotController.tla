--------------------------- MODULE SpotController ---------------------------
(***************************************************************************)
(* What the recipes of a multi-order session share: the plan of a session, *)
(* its controller state, the decision under way, the terminal barrier and  *)
(* the triggers of an observation.                                         *)
(*                                                                         *)
(* A price is "low" (at or under the stop), "mid" or "high" (at or over a  *)
(* target, past the top of a grid).                                        *)
(***************************************************************************)
EXTENDS MultiOrderAccount

CONSTANTS
  Plans                \* the recipes, market rules and bounds to explore

\* A candle's path and the volume a session may take from it.
IsCandle(c) == c.low <= Min({c.open, c.close}) /\ Max({c.open, c.close}) <= c.high /\ c.volume \in Nat

\* The size of the base order or of a grid slot, the size of one addition, and the slots
\* of the additions or of the grid.
IsRecipe(p) ==
  /\ p.recipe \in {"dca", "grid"}
  /\ p.size \in 1 .. MaxSize /\ p.add \in 1 .. MaxSize
  /\ p.slots \subseteq Nat /\ IsFiniteSet(p.slots)
  /\ p.recipe = "grid" => p.size >= p.min
  /\ p.recipe = "dca" => Cardinality(p.slots) + 1 <= MaxOpen

\* The smallest and largest size of a limit order, the largest of a market
\* order, and what the rules may say of the additions' prices.
IsInstrument(p) ==
  /\ p.min \in Nat \ {0} /\ p.market \in p.min .. MaxSize /\ p.limit \in p.min .. MaxSize
  /\ p.levels \subseteq {"valid", "invalid", "refused"}

\* The reasons of a command that the recipes or the paper session tell apart. A reason is
\* free text, and every other one acts as "manual", its default.
CommandReasons == {"manual", "target", "empty_base", "stop"}

\* A plan: a recipe on an instrument; what the graph may signal at a close, the
\* ids of the operator's commands and their reasons; the candles of a paper session, if it is
\* one, and after how many bars its orders expire, if they do; and its bounds:
\* the orders, the venue's events, the bars, and what else the venue may do.
IsPlan(p) ==
  /\ IsRecipe(p) /\ IsInstrument(p)
  /\ p.signals \subseteq {"none", "start", "stop_and_hold", "stop_and_flatten"}
  /\ p.reasons \subseteq CommandReasons
  /\ p.expires \in Nat /\ \A c \in p.candles : IsCandle(c)
  /\ p.orders \subseteq Ids /\ p.events \in 0 .. MaxEvents /\ p.bars \in Nat
  /\ p.behaviours \subseteq Behaviours

ASSUME PlansAssumption == 2 <= MaxOpen /\ \A p \in Plans : IsPlan(p)

VARIABLES
  plan,     \* the plan, fixed at the start
  ctl,      \* the controller state
  bar,      \* bar_index
  closed,   \* whether that bar's closed_bar observation was applied
  mark,     \* the last price against the stop: "low" or not
  given     \* commands received

\* ended is the bar on which an order of a grid slot last reached a terminal status.
NoCommand == <<"none", 0>>
Fresh(cycle, phase, lastBar) ==
  [cycle |-> cycle, phase |-> phase, last_cycle_bar |-> lastBar, stop |-> FALSE, desired |-> 0,
   anchored |-> FALSE, slots |-> "none", target |-> 0, target_bar |-> 0, grid |-> {},
   ended |-> [s \in IF plan.recipe = "grid" THEN plan.slots ELSE {} |-> 0], action |-> "none",
   reason |-> "none", command |-> NoCommand, close_command |-> NoCommand, refusal |-> "none"]

-----------------------------------------------------------------------------
(***************************************************************************)
(* A decision under way: the controller c, the account a with the reserves *)
(* the controller may change, the intents decided, out, and whether the    *)
(* controller raised.  below is the grid slots with a bid under the price. *)
(***************************************************************************)
Observation(kind, a, c) ==
  [kind |-> kind, a |-> a, c |-> c, out |-> <<>>, raised |-> FALSE, bar |-> bar, mark |-> mark,
   start |-> FALSE, below |-> {}, event |-> "none"]

OrderId(cycle, slot, purpose, gen) ==
  [cycle |-> cycle, slot |-> slot, purpose |-> purpose, gen |-> gen]
Owned(d, purpose) == {id \in Known(d.a) : id.cycle = d.c.cycle /\ id.purpose = purpose}
InOrder(slots) == SetToSortSeq(slots, LAMBDA s, t : s < t)
Latest(ids) == CHOOSE id \in ids : \A i \in ids : i.gen <= id.gen

\* new_intent: the next generation of its cycle, slot and purpose.
Intent(d, purpose, slot, size) ==
  LET gens == {id.gen : id \in {i \in Owned(d, purpose) : i.slot = slot}}
  IN  [kind |-> "submit", size |-> size,
       id |-> OrderId(d.c.cycle, slot, purpose, IF gens = {} THEN 0 ELSE Max(gens) + 1)]
Submitting(d, intent) == [d EXCEPT !.out = Append(@, intent)]

CancellableUnfilled(o) ==   \* mutant: an order with fills is not canceled
  ~o.terminal_reconciled /\ o.status \notin TERMINAL /\ o.cancel = "none" /\ o.filled = 0
Cancellable(o) == ~o.terminal_reconciled /\ o.status \notin TERMINAL /\ o.cancel = "none"
Cancels(d, ids, command) ==
  SetToSeq({[kind |-> "cancel", id |-> id, command |-> command] :
              id \in {i \in ids : Cancellable(d.a.orders[i])}})

TriggerAlways(c, action, reason, command) ==   \* mutant: the last reason wins
  [c EXCEPT !.action = action, !.reason = reason, !.command = command, !.phase = "stopping"]

\* trigger_terminal
Trigger(c, action, reason, command) ==
  IF \/ reason = "target" /\ c.action # "none" /\ c.reason # "target"
     \/ c.action = "stop_and_flatten" /\ action = "stop_and_hold"
  THEN c
  ELSE [c EXCEPT !.action = action, !.reason = reason, !.command = command,
                 !.phase = "stopping"]
TriggerFlatten(c, reason) == Trigger(c, "stop_and_flatten", reason, <<reason, c.cycle>>)

-----------------------------------------------------------------------------
(***************************************************************************)
(* terminal_decisions: the barrier.  Every other order is canceled and     *)
(* settled before the reserves are released and a close is sent.           *)
(***************************************************************************)
Others(a) == {id \in Known(a) : id.purpose # "flatten"}
SettledBeforeAsked(a) ==   \* mutant: a cancellation asked for passes the barrier
  \A id \in Others(a) : a.orders[id].terminal_reconciled \/ a.orders[id].cancel # "none"
BarrierPassed(a) == \A id \in Others(a) : a.orders[id].terminal_reconciled

CloseSize(a) == Min({free_base(a), plan.market})

\* Nothing is left: a target's cycle is complete and may be followed by another.
Finished(d) ==
  [d EXCEPT !.c.phase = IF d.c.reason \in {"target", "empty_base"} THEN "complete"
                                                                  ELSE "stopped_flat",
            !.c.last_cycle_bar = IF d.c.phase = "complete" THEN @ ELSE d.bar]

\* Past the barrier.  A close that failed needs a command of its own to go on.
Failed(d, closes) ==
  /\ d.c.close_command = d.c.command
  /\ closes # {} /\ d.a.orders[Latest(closes)].status # "filled"

Flatten(d) ==
  LET closes == Owned(d, "flatten")
      open == {id \in closes : ~d.a.orders[id].terminal_reconciled}
      Phase(p) == [d EXCEPT !.c.phase = p]
  IN  IF open # {} THEN d
      ELSE IF d.a.base = 0 THEN Finished(d)
      ELSE IF Failed(d, closes) THEN Phase("containment")
      ELSE IF CloseSize(d.a) < plan.min THEN Phase("stopped_with_dust")
      ELSE [d EXCEPT !.out = Append(@, Intent(d, "flatten", 0, CloseSize(d.a))),
                     !.c.close_command = d.c.command]

Terminal(d) ==
  LET e == [d EXCEPT !.out = @ \o Cancels(d, Others(d.a), "terminal")]
      f == [e EXCEPT !.a.cycle = 0, !.a.cleanup = 0]
  IN  CASE Halted(d.a) -> [d EXCEPT !.c.phase = "reconciling"]
        [] ~Halted(d.a) /\ ~BarrierPassed(d.a) -> e
        [] OTHER -> IF d.c.action = "stop_and_hold" THEN [f EXCEPT !.c.phase = "stopped_holding"]
                                                    ELSE Flatten(f)

\* A trigger that is acted on at once.
Stop(d, reason) == Terminal([d EXCEPT !.c = TriggerFlatten(@, reason)])

-----------------------------------------------------------------------------
(***************************************************************************)
(* common_safety: the triggers of an observation.                          *)
(***************************************************************************)
Touched(d) ==
  \E id \in Owned(d, "target") :
    /\ d.a.orders[id].status \notin TERMINAL \cup {"pending"}
    /\ d.c.target_bar < d.bar /\ d.mark = "high"

StopTouched(d) ==
  d.kind = "price" /\ d.c.stop /\ d.a.base > 0 /\ d.mark = "low" /\ d.c.phase # "stopped_holding"

Stopped(d) == IF StopTouched(d) THEN [d EXCEPT !.c = TriggerFlatten(@, "stop")] ELSE d
TargetFilled(d) ==
  \/ d.kind = "executions" /\ d.event.id.purpose = "target" /\ d.event.size > 0
  \/ d.kind = "price" /\ d.c.action = "none" /\ Touched(d)
Targeted(d) == IF TargetFilled(d) THEN [d EXCEPT !.c = TriggerFlatten(@, "target")] ELSE d
Triggered(d) == Targeted(Stopped(d))
=============================================================================
