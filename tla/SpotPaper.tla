----------------------------- MODULE SpotPaper -----------------------------
(***************************************************************************)
(* The paper session drives a recipe over candles.  A candle is a path of  *)
(* price points, open, low, high, close, with a point at every limit price *)
(* and stop on the way; at a point working SELLs execute, then the price   *)
(* is observed, then working BUYs execute, within the candle's volume.     *)
(* After each observation the session acknowledges, cancels and reconciles *)
(* until nothing is left to do (_drain).                                   *)
(*                                                                         *)
(* What a call has still to do is todo, its first task first; a step       *)
(* expands that task or makes one observation.                             *)
(***************************************************************************)
EXTENDS SpotRecipes

VARIABLE
  session   \* todo; finished, failed; the candle's volume and what of it is used; active, the
            \* bar from which each order may execute; stop_bar, stop_reference_bar

sessionVars == <<spotVars, session>>

Paper == plan.candles # {}
Idle == session.todo = <<>>

SessionInit ==
  /\ SpotInit
  /\ session = [todo |-> <<>>, finished |-> FALSE, failed |-> FALSE, low |-> 0, volume |-> 0,
                used |-> 0, active |-> [id \in plan.orders |-> 0], stop_bar |-> 0]

-----------------------------------------------------------------------------
(***************************************************************************)
(* Prices: 1 is the stop.  A DCA base is bought above its additions and    *)
(* below its target; the bid of a grid's slot is under its ask.            *)
(***************************************************************************)
StopPrice == 1
BasePrice == Cardinality(plan.slots) + 2
Top == IF plan.recipe = "dca" THEN BasePrice + 1 ELSE Max(plan.slots) + 2

IsMarket(id) == id.purpose \in {"base", "flatten"}
LimitPrice(id) ==
  CASE id.purpose = "target" -> Top
    [] id.purpose = "addition" -> BasePrice - id.slot
    [] id.purpose = "grid_buy" -> id.slot + 1
    [] id.purpose = "grid_sell" -> id.slot + 2

View(price) ==
  IF price <= StopPrice THEN "low"
  ELSE IF price > Top \/ (plan.recipe = "dca" /\ price = Top) THEN "high" ELSE "mid"

UnderStop(price) == ctl.stop /\ acct.base > 0 /\ price <= StopPrice

Eligible(id) ==
  id \in Known(acct) /\ acct.orders[id].status \notin TERMINAL \cup {"unknown"}
  /\ session.active[id] <= bar

-----------------------------------------------------------------------------
(***************************************************************************)
(* Moves: an observation, if there is one, the venue's events with it, and *)
(* the session after it.                                                   *)
(***************************************************************************)
Then(tasks) == [session EXCEPT !.todo = tasks \o Tail(@)]
Silently(s) == [observes |-> FALSE, s |-> s]
Observing(d, s) == [observes |-> TRUE, d |-> d, log |-> venue, s |-> s]
Emitting(e, s) ==
  [observes |-> TRUE, d |-> Executed(e, mark, Append(venue, e)), log |-> Append(venue, e), s |-> s]
Reporting(id, status, s) == Emitting(Event(id, status, 0, 0, 0, FALSE, FALSE), s)

Drain == [task |-> "drain"]
PriceAt(price) == <<[task |-> "price", at |-> price], Drain>>

\* _drain: acknowledge, then cancel, then reconcile, and again.
In(status) == {id \in Known(acct) : acct.orders[id].status = status}
Unsettled == {id \in Unreconciled(acct) : acct.orders[id].status \in TERMINAL}
Draining ==
  IF Halted(acct) THEN {Silently(Then(<<>>))}
  ELSE IF In("pending") # {} THEN {Reporting(id, "accepted", session) : id \in In("pending")}
  ELSE IF In("cancel_pending") # {}
    THEN {Reporting(id, "canceled", session) : id \in In("cancel_pending")}
  ELSE IF Unsettled # {} THEN {Observing(ReconciledWith(Reconciled(acct, {}), mark), session)}
  ELSE {Silently(Then(<<>>))}

\* modeled_event: what the volume left lets execute, or a rejection outside the price band.
Matching(id, s) ==
  LET left == acct.orders[id].size - acct.orders[id].filled
      size == Min({left, session.volume - session.used})
  IN  (IF "rejected" \in plan.behaviours THEN {Reporting(id, "rejected", s)} ELSE {})
      \cup
      (IF size = 0 THEN {Silently(s)}
       ELSE {Emitting(Event(id, IF size = left THEN "filled" ELSE "partial", size, size * UnitCost,
                            size, FALSE, FALSE),
                      [s EXCEPT !.used = @ + size])})

Expiring(t) ==
  LET due == {id \in t.left : Eligible(id) /\ plan.expires > 0
                              /\ bar >= session.active[id] + plan.expires}
  IN  IF due = {} THEN {Silently(Then(<<>>))} ELSE {Reporting(id, "canceled", session) : id \in due}

\* _point: a stop is observed before anything executes.
Point(t) ==
  LET stopped == UnderStop(t.at) /\ ctl.phase # "stopped_holding"
  IN  {Silently(Then((IF stopped THEN PriceAt(t.at) ELSE <<>>)
                     \o <<[task |-> "visit", at |-> t.at, open |-> t.open]>>))}

\* The orders that may execute at the point are those known before.
Visit(t) ==
  LET Side(name) ==
        [task |-> name, at |-> t.at, open |-> t.open, left |-> Known(acct), matched |-> FALSE]
  IN  {Silently(Then(<<Side("sells")>> \o PriceAt(t.at) \o <<Side("buys")>>))}

\* A market SELL executes at an open, and at the first point after a stop.
Emergency == ctl.reason = "stop" /\ session.stop_bar # bar
SellsAt(t) ==
  {id \in t.left : /\ Eligible(id) /\ ~Buys(id)
                   /\ IF IsMarket(id) THEN t.open \/ Emergency ELSE t.at >= LimitPrice(id)}
BuysAt(t) ==
  {id \in t.left : /\ Eligible(id) /\ Buys(id)
                   /\ IF IsMarket(id) THEN t.open ELSE t.at <= LimitPrice(id)}

Selling(t) ==
  LET After(id) ==
        [Then(<<Drain, [t EXCEPT !.left = @ \ {id}]>>) EXCEPT
           !.stop_bar = IF IsMarket(id) /\ ~t.open THEN bar ELSE @]
  IN  IF SellsAt(t) = {} THEN {Silently(Then(<<>>))}
      ELSE UNION {Matching(id, After(id)) : id \in SellsAt(t)}

\* mutant: the stop is not looked at between two BUYs
BuyingOn(t) ==
  LET After(id) == Then(<<Drain, [t EXCEPT !.left = @ \ {id}, !.matched = TRUE]>>)
  IN  IF ctl.action # "none" \/ acct.reconciliation \/ BuysAt(t) = {} THEN {Silently(Then(<<>>))}
      ELSE UNION {Matching(id, After(id)) : id \in BuysAt(t)}

\* After each BUY, a point at or under the stop starts again.
Buying(t) ==
  LET After(id) == Then(<<Drain, [t EXCEPT !.left = @ \ {id}, !.matched = TRUE]>>)
  IN  IF t.matched /\ UnderStop(t.at)
        THEN {Silently(Then(<<[task |-> "point", at |-> t.at, open |-> FALSE]>>))}
      ELSE IF ctl.action # "none" \/ acct.reconciliation \/ BuysAt(t) = {}
        THEN {Silently(Then(<<>>))}
      ELSE UNION {Matching(id, After(id)) : id \in BuysAt(t)}

\* Where a path stops on its way: at BUYs and the stop going down, at SELLs going up.
Levels(from, to) ==
  {LimitPrice(id) : id \in {i \in Known(acct) :
                             Eligible(i) /\ ~IsMarket(i) /\ (Buys(i) <=> to < from)}}
    \cup (IF UnderStop(to) THEN {StopPrice} ELSE {})

\* mutant: the price the path is at counts again
AheadOrAt(price, from, to) == (to <= price /\ price <= from) \/ (from <= price /\ price <= to)
IsAhead(price, from, to) == (to <= price /\ price < from) \/ (from < price /\ price <= to)

\* _leg
Leg(t) ==
  LET stops == {t.to} \cup {p \in Levels(t.from, t.to) : IsAhead(p, t.from, t.to)}
      next == IF t.to < t.from THEN Max(stops) ELSE Min(stops)
  IN  IF t.from = t.to THEN {Silently(Then(<<>>))}
      ELSE {Silently(Then(<<[task |-> "point", at |-> next, open |-> FALSE],
                            [t EXCEPT !.from = next]>>))}

\* The candle's close: the graph is asked for its signals.
Deciding(t) ==
  {Observing(Closing(View(t.at), signal, {s \in plan.slots : s + 1 < t.at}), Then(<<>>)) :
     signal \in plan.signals}

\* finish: a close may still use the volume left of the last candle, once.
Finishing(t) ==
  LET closes == {id \in Known(acct) : /\ id.purpose = "flatten"
                                      /\ t.action = "stop_and_flatten" /\ ~acct.reconciliation}
  IN  {Silently(Then(<<[task |-> "end", left |-> closes]>>))}
Ending(t) ==
  LET closes == {id \in t.left : acct.orders[id].status \notin TERMINAL}
      After(id) == Then(<<Drain, [t EXCEPT !.left = @ \ {id}]>>)
  IN  IF closes = {} THEN {Silently([Then(<<>>) EXCEPT !.finished = TRUE])}
      ELSE UNION {Matching(id, After(id)) : id \in closes}

Moves(t) ==
  CASE t.task = "drain" -> Draining
    [] t.task = "expire" -> Expiring(t)
    [] t.task = "point" -> Point(t)
    [] t.task = "visit" -> Visit(t)
    [] t.task = "sells" -> Selling(t)
    [] t.task = "buys" -> Buying(t)
    [] t.task = "leg" -> Leg(t)
    [] t.task = "price" -> {Observing(Priced(View(t.at), bar), Then(<<>>))}
    [] t.task = "close" -> Deciding(t)
    [] t.task = "command" -> {Observing(Commanded(t.command), Then(<<>>))}
    [] t.task = "finish" -> Finishing(t)
    [] t.task = "end" -> Ending(t)
-----------------------------------------------------------------------------

\* Only the first close of a stop may execute on the bar it is made on.
Activation(id) ==
  IF id.purpose = "flatten" /\ ctl'.reason = "stop" /\ id.gen = 0 THEN bar ELSE bar + 1

\* An observation that raises fails the session for good.
Observed(m, levels) ==
  \/ /\ Advance(m.d, levels)
     /\ venue' = m.log /\ mark' = Against(m.d.mark) /\ closed' = (closed \/ m.d.kind = "closed_bar")
     /\ session' = [m.s EXCEPT !.active = [id \in DOMAIN @ |-> IF id \in Known(acct)' \ Known(acct)
                                                              THEN Activation(id) ELSE @[id]]]
  \/ /\ Raises(m.d, levels)
     /\ session' = [session EXCEPT !.todo = <<>>, !.failed = TRUE]
     /\ UNCHANGED <<acct, ctl, venue, mark, closed>>

Step ==
  /\ Paper /\ ~Idle
  /\ \E m \in Moves(Head(session.todo)) :
       \/ ~m.observes /\ session' = m.s /\ UNCHANGED <<acct, ctl, venue, mark, closed>>
       \/ m.observes /\ \E levels \in LevelChoices : Observed(m, levels)
  /\ UNCHANGED <<plan, bar, given>>

Between == Idle /\ ~session.failed
Ready == Between /\ ~session.finished
Calling(s) == session' = s /\ UNCHANGED <<acct, ctl, venue, mark>>

\* on_candle.  A base order meets the price it is named by.
Candle ==
  /\ Ready /\ bar < plan.bars
  /\ bar' = bar + 1 /\ closed' = FALSE
  /\ \E c \in plan.candles :
       /\ (\E id \in Known(acct) : id.purpose = "base" /\ acct.orders[id].filled = 0
                                 /\ acct.orders[id].status \notin TERMINAL) => c.open = BasePrice
       /\ Calling([session EXCEPT
            !.low = c.low, !.volume = c.volume, !.used = 0,
            !.todo = <<[task |-> "expire", left |-> Known(acct)], Drain,
                       [task |-> "point", at |-> c.open, open |-> TRUE],
                       [task |-> "leg", from |-> c.open, to |-> c.low],
                       [task |-> "leg", from |-> c.low, to |-> c.high],
                       [task |-> "leg", from |-> c.high, to |-> c.close]>>
                     \o PriceAt(c.close) \o <<[task |-> "close", at |-> c.close], Drain>>])
  /\ UNCHANGED given

\* command, which a finished session still takes, and finish, a command of its own.
Obeying(command, tasks) ==
  /\ Consistent(command)
  /\ given' = given \cup {command}
  /\ Calling([session EXCEPT !.todo = <<[task |-> "command", command |-> command], Drain>> \o tasks])
  /\ UNCHANGED <<bar, closed>>

Commands ==
  /\ Between
  /\ \E key \in plan.commands, action \in Actions, reason \in plan.reasons :
       Obeying(Command(key, action, reason), <<>>)
Finish ==
  /\ Ready
  /\ \E action \in Actions :
       Obeying(Command("end-of-data", action, "end_of_data"),
               <<[task |-> "finish", action |-> action]>>)

\* A candle that comes again changes nothing.
Repeated == Idle /\ UNCHANGED sessionVars

Call == (Candle \/ Commands \/ Finish \/ Repeated) /\ UNCHANGED plan

SessionNext ==
  \/ Paper /\ (Call \/ Step)
  \/ ~Paper /\ SpotNext /\ UNCHANGED session
SessionSpec == SessionInit /\ [][SessionNext]_sessionVars

\* A call runs until it returns: weak fairness of Step, which is enabled while a call runs.
FairSession == []<>Idle \/ []<><<Step>>_sessionVars
FairSessionSpec == SessionSpec /\ FairHost /\ FairSession

-----------------------------------------------------------------------------
(***************************************************************************)
(* Properties.                                                             *)
(***************************************************************************)
\* Every call returns: whatever a candle's path crosses and whatever the drain finds to
\* acknowledge, cancel and reconcile, nothing feeds itself (_drain, _leg, _point).
CallsReturn == ~Idle ~> Idle

\* What a stop's close could not take of the base: it was cut at the market maximum, it
\* executed in full, and its successor was made on this bar, for the next.
CutAtMaximum ==
  \E cut, rest \in {id \in Known(acct) : id.purpose = "flatten" /\ id.cycle = ctl.cycle} :
    /\ rest.gen = cut.gen + 1 /\ acct.orders[cut].filled = plan.market
    /\ session.active[rest] = bar + 1

=============================================================================
