---------------------------- MODULE SpotRecipes ----------------------------
(***************************************************************************)
(* A recipe on the multi-order account: advance_spot applies one           *)
(* observation (an execution, a reconciliation, a price, a closed bar, a   *)
(* command, a fee's value) to the account, lets the controller decide, and *)
(* routes the decided intents through admission, all or nothing.           *)
(***************************************************************************)
EXTENDS SpotDca, SpotGrid

CONSTANTS
  Ahead,               \* bound: events delivered ahead of their turn
  Lag                  \* bound: events under way

ASSUME DeliveryAssumption == Ahead \in Nat /\ Lag \in Nat \ {0}

spotVars == <<acct, venue, plan, ctl, bar, closed, mark, given>>

SpotInit ==
  /\ plan \in Plans
  /\ acct = Opened(plan.orders) /\ venue = <<>>
  /\ ctl = Fresh(0, "idle", 0)
  /\ bar = 1 /\ closed = FALSE /\ mark = "mid" /\ given = {}

\* _decide: a completed cycle may restart only at a later explicit start.
Restarted(d) == IF Starts(d) /\ d.c.phase = "complete" THEN [d EXCEPT !.c.action = "none"] ELSE d
Decided(d, levels) ==
  IF d.c.action # "none" THEN Terminal(d)
  ELSE IF Halted(d.a) THEN d
  ELSE IF plan.recipe = "dca" THEN Dca(d, levels)
  ELSE Grid(d)
Decide(d, levels) == Decided(Triggered(Restarted(d)), levels)

-----------------------------------------------------------------------------
(***************************************************************************)
(* advance_spot: route the intents; if one is refused while inventory is   *)
(* held, drop them all and contain.                                        *)
(***************************************************************************)
\* A grid SELL names the BUY whose lot it sells, the last one of its slot.
LotsFor(a, id) ==
  IF id.purpose # "grid_sell" THEN Lots(a)
  ELSE {Latest({b \in Known(a) : b.purpose = "grid_buy" /\ b.cycle = id.cycle /\ b.slot = id.slot})}

Routable(s, i) ==
  /\ s.ok
  /\ IF i.kind = "cancel" THEN CanCancel(s.a, i.id, i.command)
     ELSE /\ s.c.action # "none" => i.id.purpose = "flatten"
          /\ i.id.purpose = "addition" => s.c.slots # "refused"
          /\ CanSubmit(s.a, i.id, i.size, LotsFor(s.a, i.id))
RouteOne(s, i) ==
  IF ~Routable(s, i) THEN [s EXCEPT !.ok = FALSE]
  ELSE [s EXCEPT !.a = IF i.kind = "cancel" THEN Canceled(@, i.id, i.command)
                                            ELSE Submitted(@, i.id, i.size, LotsFor(@, i.id))]
Route(d) ==
  LET upTo[n \in 0 .. Len(d.out)] ==
        IF n = 0 THEN [a |-> d.a, c |-> d.c, ok |-> TRUE] ELSE RouteOne(upTo[n - 1], d.out[n])
  IN  upTo[Len(d.out)]

Contained(d) == Stop([d EXCEPT !.out = <<>>, !.c.refusal = "admission_failure"],
                     "admission_failure")

\* bound: the plan's generations and cycles
Bounded(d) == \A n \in 1 .. Len(d.out) : d.out[n].id \in plan.orders

\* What the decision d becomes, once routed.
Applied(d, routed) == routed.ok /\ Bounded(d) /\ ctl' = d.c /\ acct' = routed.a
Protected(d) == d.a.base > 0 /\ Applied(d, Route(d))
Admitted(d, routed) ==
  \/ Applied(d, routed)
  \/ ~routed.ok /\ Bounded(d) /\ Protected(Contained(d))

\* It raises, and nothing changes, if the controller did or neither route admits.
Settled(d) == ~d.raised /\ Admitted(d, Route(d))
Advance(d, levels) == Settled(Decide(d, levels))

Unroutable(d) == d.raised \/ (~Route(d).ok /\ (d.a.base = 0 \/ ~Route(Contained(d)).ok))
Raises(d, levels) == Unroutable(Decide(d, levels))

\* An execution with an unvalued fee refuses BUYs until a reconciliation finds
\* every fee valued.
FeeRefusal(b, log) ==
  LET new == \E n \in b.events \ acct.events : log[n].third
      refusal == IF new THEN "unvalued_fee" ELSE ctl.refusal
  IN  IF refusal = "unvalued_fee" /\ ~b.fees THEN "none" ELSE refusal

\* The slots of which an order has just reached a terminal status.
EndedSlots(b) ==
  {id.slot : id \in {i \in Known(b) : /\ b.orders[i].status \in TERMINAL
                                    /\ acct.orders[i].status \notin TERMINAL}}

\* The controller state as the account's part of an observation leaves it, when the venue's
\* events are log.
Noted(b, log) ==
  [ctl EXCEPT !.refusal = FeeRefusal(b, log),
              !.ended = [s \in DOMAIN @ |-> IF s \in EndedSlots(b) THEN bar ELSE @[s]]]

\* A fill of the base order moves the stop against the last price.
BaseFilled(a) ==
  {id \in Known(a) : id.purpose = "base" /\ a.orders[id].filled > acct.orders[id].filled}
Marks(a) == IF BaseFilled(a) = {} THEN {mark} ELSE {"low", "mid"}

Executed(e, m, log) ==
  LET b == ApplyEvent(acct, e)
  IN  [Observation("executions", b, Noted(b, log)) EXCEPT !.mark = m, !.event = e]

ReconciledWith(r, m) == [Observation("reconciliation", r, Noted(r, venue)) EXCEPT !.mark = m]

ObserveExecution(n, levels) ==
  /\ ~Refused(acct, venue[n])
  /\ mark' \in Marks(ApplyEvent(acct, venue[n]))
  /\ Advance(Executed(venue[n], mark', venue), levels)
  /\ UNCHANGED <<venue, bar, closed, given>>

ObserveReconciliation(k, levels) ==
  LET b == Replayed(acct, k)
  IN  /\ acct.quarantine = {} /\ Agrees(b, k)
      /\ mark' \in Marks(b)
      /\ \E valued \in SUBSET b.unvalued :
           Advance(ReconciledWith(Reconciled(b, valued), mark'), levels)
      /\ UNCHANGED <<venue, bar, closed, given>>

ObserveValuation(n, levels) ==
  /\ n \in acct.unvalued
  /\ Advance(Observation("fee_valuation", [acct EXCEPT !.unvalued = @ \ {n}], ctl), levels)
  /\ UNCHANGED <<venue, bar, closed, mark, given>>

Against(p) == IF p = "low" THEN "low" ELSE "mid"

\* A price of this bar, or the first of the next one.
Priced(p, b) == [Observation("price", acct, ctl) EXCEPT !.bar = b, !.mark = p]

ObservePrice(p, levels) ==
  /\ bar' = IF closed THEN bar + 1 ELSE bar
  /\ bar' <= plan.bars
  /\ closed' = FALSE /\ mark' = Against(p)
  /\ Advance(Priced(p, bar'), levels)
  /\ UNCHANGED <<venue, given>>

\* The closed bar, with the graph's signals and the slots whose bid is under the close.
Closing(p, signal, below) ==
  LET c == IF signal \in {"stop_and_hold", "stop_and_flatten"}
             THEN Trigger(ctl, signal, "signal", <<"signal", bar>>) ELSE ctl
  IN  [Observation("closed_bar", acct, c) EXCEPT !.mark = p, !.start = (signal = "start"),
                                                 !.below = below]

ObserveClose(p, signal, levels) ==
  /\ ~closed
  /\ closed' = TRUE /\ mark' = Against(p)
  /\ Advance(Closing(p, signal, IF p = "low" THEN {} ELSE plan.slots), levels)
  /\ UNCHANGED <<venue, bar, given>>

\* A command: its id, its action and its reason.
Actions == {"stop_and_hold", "stop_and_flatten"}
Command(key, action, reason) == [key |-> key, action |-> action, reason |-> reason]

\* An id comes again only with the same command, which is obeyed again.
Consistent(command) == \A g \in given : g.key = command.key => g = command

Commanded(command) ==
  Observation("command", acct,
              Trigger(ctl, command.action, command.reason, <<"operator", command.key>>))

ObserveCommand(command, levels) ==
  /\ Consistent(command)
  /\ given' = given \cup {command}
  /\ Advance(Commanded(command), levels)
  /\ UNCHANGED <<venue, bar, closed, mark>>

-----------------------------------------------------------------------------
(***************************************************************************)
(* The host observes in any order; the venue runs at most Lag events ahead *)
(* of the account.                                                         *)
(***************************************************************************)
InPlan == Len(venue) < plan.events /\ Len(venue) - acct.seq < Lag

SpotVenue ==
  /\ InPlan
  /\ Venue
  /\ venue' # venue => LET e == Last(venue')
                       IN  /\ e.third => "thirdAsset" \in plan.behaviours
                           /\ e.status = "rejected" => "rejected" \in plan.behaviours
                           /\ Buys(e.id) /\ e.base < e.size => "baseFee" \in plan.behaviours
  /\ UNCHANGED <<ctl, bar, closed, mark, given>>

\* The levels are a choice of the step that can fix the anchor.
LevelChoices ==
  IF ~ctl.anchored /\ \E id \in Known(acct) :
       id.purpose = "base" /\ id.cycle = ctl.cycle /\ VenueDone(id)
    THEN plan.levels ELSE {"valid"}

Deliverable == {n \in 1 .. Len(venue) : n <= acct.seq + 1 + Ahead}

\* A grid has no target to touch, and looks at its top at a close only.
PriceChoices == IF plan.recipe = "dca" THEN {"low", "mid", "high"} ELSE {"low", "mid"}
CloseChoices == IF plan.recipe = "dca" THEN {"low", "mid"} ELSE {"low", "mid", "high"}

Price == \E p \in PriceChoices, levels \in LevelChoices : ObservePrice(p, levels)
Close ==
  \E p \in CloseChoices, signal \in plan.signals, levels \in LevelChoices : ObserveClose(p, signal, levels)

Operator ==
  \E key \in plan.commands, action \in Actions, reason \in plan.reasons, levels \in LevelChoices :
    ObserveCommand(Command(key, action, reason), levels)

Execution == \E n \in Deliverable, levels \in LevelChoices : ObserveExecution(n, levels)
Reconciliation ==
  \E k \in acct.seq .. Len(venue), levels \in LevelChoices : ObserveReconciliation(k, levels)
Valuation == \E n \in acct.unvalued, levels \in LevelChoices : ObserveValuation(n, levels)

SpotNext ==
  /\ SpotVenue \/ Price \/ Close \/ Operator \/ Execution \/ Reconciliation \/ Valuation
  /\ UNCHANGED plan

SpotSpec == SpotInit /\ [][SpotNext]_spotVars

\* The venue ends a close, and an order it was asked to cancel; the host
\* reconciles with everything the venue did.
VenueEnds(id) ==
  /\ plan.candles = {} /\ InPlan /\ id \in Known(acct)
  /\ id.purpose = "flatten" \/ acct.orders[id].cancel # "none"
  /\ EmitStatus(id, "canceled") \/ EmitFill(id, VenueLeft(id), FALSE, FALSE, FALSE, FALSE)
  /\ UNCHANGED <<plan, ctl, bar, closed, mark, given>>
ReconciledFully ==
  UNCHANGED plan /\ \E levels \in LevelChoices : ObserveReconciliation(Len(venue), levels)

\* There is something to reconcile, and a complete report would be accepted.
Reconcilable ==
  /\ plan.candles = {}
  /\ acct.quarantine = {} /\ Agrees(Replayed(acct, Len(venue)), Len(venue))
  /\ \/ acct.seq < Len(venue) \/ acct.reconciliation
     \/ \E id \in Unreconciled(acct) : acct.orders[id].status \in TERMINAL

\* The second conjunct is weak fairness of ReconciledFully with its enabling
\* condition spelled out.
FairHost ==
  /\ []<>~Reconcilable \/ []<><<ReconciledFully>>_spotVars
  /\ \A id \in Ids : WF_spotVars(VenueEnds(id))

-----------------------------------------------------------------------------
(***************************************************************************)
(* Properties.                                                             *)
(***************************************************************************)
\* A close is alone: while one may execute, every other order has ended at the
\* venue and is settled, so that no BUY adds to what is being closed and no
\* target sells it twice (terminal_decisions).
FlattenAlone ==
  \A id \in Known(acct) :
    id.purpose = "flatten" /\ ~acct.orders[id].terminal_reconciled =>
      \A other \in Others(acct) : acct.orders[other].terminal_reconciled /\ VenueDone(other)

\* A cycle starts from nothing: no base is held and every order of the cycles
\* before is settled (_decide, _dca).  So does a slot of a grid: when its bid or
\* its SELL is submitted, its orders before have ended at the venue, and when it
\* is a bid, only dust is left of what they bought (_grid).
CycleFromFlat ==
  [][/\ ctl'.cycle > ctl.cycle =>
          /\ acct.base = 0 /\ Unreconciled(acct) = {}
          /\ \A id \in Known(acct) : VenueDone(id)
     /\ \A id \in Known(acct)' \ Known(acct) : \A old \in Known(acct) :
          id.slot = old.slot /\ id.purpose \in {"grid_buy", "grid_sell"} =>
            /\ VenueDone(old) /\ acct'.orders[old].terminal_reconciled
            /\ id.purpose = old.purpose /\ Buys(id) => acct'.lots[old] < plan.min]_spotVars

\* Among the commands is a flatten whose reason does not complete a cycle, and none that
\* undoes it: a flatten for "empty_base" takes its place and completes the cycle, one for
\* "target" is dropped under another action.
FlattenedForGood(commands) ==
  LET flattens == {g \in commands : g.action = "stop_and_flatten"}
  IN  /\ \E g \in flattens : g.reason \notin {"target", "empty_base"}
      /\ \A g \in flattens : g.reason # "empty_base"

\* An operator's flatten is final, unless its reason is one of the two by which a
\* recipe completes a cycle: no BUY is submitted after it, in this cycle or another,
\* whatever target fills arrive late, and whatever commands follow but a flatten for
\* "empty_base" (trigger_terminal, terminal_decisions, _decide).
FlattenIsFinal ==
  [][FlattenedForGood(given') => \A id \in Known(acct)' \ Known(acct) : ~Buys(id)]_spotVars

\* A flatten ends: the basket is flat, or what is left is dust or waits in
\* containment for the operator (terminal_decisions).
FlattenEnds ==
  plan.candles = {} /\ ctl.action = "stop_and_flatten"
    ~> ctl.phase \in {"complete", "stopped_flat", "stopped_with_dust", "containment"}

\* A target that has filled, in part or in full, freezes the additions: none is
\* submitted after it in its cycle (agents_docs/spot_multi_order.md:186 of
\* common_safety and _dca).
TargetFillFreezes ==
  [][\A id \in Known(acct)' \ Known(acct) :
       id.purpose = "addition" =>
         \A target \in Known(acct) :
           target.purpose = "target" /\ target.cycle = id.cycle
             => acct'.orders[target].filled = 0]_spotVars
=============================================================================
