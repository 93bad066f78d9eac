---------------------------- MODULE PaperSession ----------------------------
(***************************************************************************)
(* LiveEngine on the paper broker: one candle is one step, in which the    *)
(* engine lets the broker match it, applies every fill to the account and  *)
(* to the running trade, names the protective orders, drains the fill      *)
(* events, marks the account and acts on what the strategy decides.        *)
(*                                                                         *)
(* The handler is sequential, so it is a chain of operators on a record of *)
(* broker, account and engine.  failure marks an exception on its way out, *)
(* raised with or without containing the exposure first; the run loop then *)
(* finalizes the session and ends it.                                      *)
(***************************************************************************)
EXTENDS PaperBroker

Bars == config.bars             \* candles the feed may deliver, with volume, mark price and funding rate
Setups == config.setups         \* trade setups the strategy may propose
Stops == config.stops           \* stop prices a strategy may ask for in on_sl_update
Targets == config.targets       \* target prices a strategy may ask for in on_tp_update
MaxBars == config.max_bars      \* bound: candles of a session
BarsPerDay == config.bars_per_day
EndPolicy == config.end_policy  \* end_of_data_policy: "flatten" or "mark"

ASSUME BarsAssumption ==
  \A c \in Configs :
    /\ \A bar \in c.bars : bar.low <= bar.open /\ bar.low <= bar.close
                            /\ bar.open <= bar.high /\ bar.close <= bar.high /\ bar.low > 0
                            /\ {bar.open, bar.high, bar.low, bar.close} \subseteq Nat
                            /\ {bar.volume, bar.mark} \subseteq Nat /\ bar.rate \in Int
    /\ c.stops \cup c.targets \subseteq Int
    /\ c.max_bars \in Nat /\ c.bars_per_day \in Nat \ {0} /\ c.end_policy \in {"flatten", "mark"}
TradeSetup == [side : Sides, type : Types, entry : Int, stop : Int, target : Int, qty : Nat \ {0}]

ASSUME SetupsAssumption ==
  \A c \in Configs :
    /\ c.setups \subseteq TradeSetup
    /\ \A s \in c.setups : /\ Sign(s.side) * s.stop < Sign(s.side) * s.entry
                            /\ Sign(s.side) * s.entry < Sign(s.side) * s.target

VARIABLES
  broker,    \* the PaperBroker
  account,   \* the PlatformAccountState, which shares the broker's ledger
  engine,    \* the fields of LiveEngine
  status,    \* "running", "finished" or "failed"
  now        \* candles processed

vars == <<config, broker, account, engine, status, now>>

AccountPosition == [side : Sides, entry : Int, qty : Nat \ {0}, stop : Int, margin : Nat]
TradeEntry == [price : Int, qty : Nat \ {0}, fee : Int]

ASSUME NoPositionAssumption ==
  None \notin AccountPosition \cup TradeEntry \cup TradeSetup \cup {"raised", "contained"}

NoExits == [pnl |-> 0, qty |-> 0]

Init ==
  /\ config \in Configs
  /\ broker = NewBroker
  /\ account = [position |-> None, margin |-> 0, equity |-> Starting, marked |-> Starting,
                peak |-> Starting, day |-> None, day_start |-> Starting]
  /\ engine = [pending |-> FALSE, setup |-> None, open |-> None, entry |-> None,
               exits |-> NoExits, trade_id |-> 0, trades |-> <<>>, delivered |-> <<>>,
               halted |-> FALSE, close |-> 0]
  /\ status = "running"
  /\ now = 0

Session == [broker |-> broker, account |-> account, engine |-> engine, failure |-> None,
            rejected |-> FALSE]

-----------------------------------------------------------------------------
\* PlatformAccountState.

AccountOpen(a, fill, stop, margin) ==
  [a EXCEPT !.position = [side |-> fill.side, entry |-> fill.price, qty |-> fill.qty,
                          stop |-> stop, margin |-> margin],
            !.margin = @ + margin]

AccountEntryFill(a, fill) ==
  LET p == a.position
  IN [a EXCEPT !.position = [p EXCEPT !.entry = AveragePrice(@, p.qty, fill.price, fill.qty),
                                      !.qty = @ + fill.qty, !.margin = @ + fill.margin],
               !.margin = @ + fill.margin]

AccountPartialCloseKeepingMargin(a, qty) == [a EXCEPT !.position.qty = @ - qty]

AccountPartialClose(a, qty) ==
  LET left == a.position.qty - qty
      kept == Quotient(a.position.margin * left, a.position.qty)
  IN [a EXCEPT !.margin = Max({0, @ - (a.position.margin - kept)}),
               !.position = [@ EXCEPT !.qty = left, !.margin = kept]]

AccountClose(a, balance) ==
  [a EXCEPT !.margin = IF a.position = None THEN @ ELSE Max({0, @ - a.position.margin}),
            !.position = None, !.equity = balance, !.peak = Max({@, balance})]

\* A new day starts at the last equity mark, not at what this bar's fills made of it.
AccountBar(a, equity, time) ==
  LET day == time \div BarsPerDay
      turns == a.day # None /\ day > a.day
  IN [a EXCEPT !.day = day, !.day_start = IF turns THEN a.marked ELSE @,
               !.equity = equity, !.marked = equity, !.peak = Max({@, equity})]

-----------------------------------------------------------------------------
\* Leaving: the trade record, the fill events, containment and finalization.

TradeRecordOfLastExit(e, fill) == [pnl |-> fill.pnl - e.entry.fee, qty |-> fill.qty]

TradeRecord(e, fill) ==
  [pnl |-> e.exits.pnl + fill.pnl - (IF e.entry = None THEN 0 ELSE e.entry.fee),
   qty |-> e.exits.qty + fill.qty]

OnClose(s, fill) ==
  [s EXCEPT !.account = AccountClose(@, Balance(s.broker)),
            !.engine.trades = Append(@, TradeRecord(s.engine, fill)),
            !.engine.open = None, !.engine.entry = None, !.engine.exits = NoExits]

PollBrokerFills(s) ==
  [s EXCEPT !.engine.delivered = @ \o s.broker.events, !.broker.events = <<>>]

\* Only a position the account still holds is closed by a fill found here: the first one.
Drain(s) ==
  LET closing == {i \in DOMAIN s.broker.events : /\ s.broker.events[i].role # "entry"
                                                 /\ s.broker.events[i].fill.status = "filled"}
      polled == PollBrokerFills(s)
  IN IF closing = {} \/ s.account.position = None THEN polled
     ELSE OnClose(polled, s.broker.events[Min(closing)].fill)

ContainExposure(s) ==
  Drain([s EXCEPT !.broker = Flatten(@, s.broker.last_close).broker, !.engine.halted = TRUE,
                  !.engine.pending = FALSE])

CloseOut(s, flat) ==
  IF flat.fills = <<>> THEN [s EXCEPT !.broker = flat.broker]
  ELSE OnClose([s EXCEPT !.broker = flat.broker], Head(flat.fills))

Finalize(s, retain) ==
  LET held == s.broker.position # None \/ s.account.position # None
      working == s.broker.pending # None \/ s.engine.pending
      idle == [s EXCEPT !.broker.pending = None,
                        !.engine.pending = IF working THEN FALSE ELSE @,
                        !.engine.setup = IF working THEN None ELSE @]
  IN PollBrokerFills(IF held /\ ~retain THEN CloseOut(idle, Flatten(idle.broker, s.engine.close))
                     ELSE idle)

Raise(s) == [s EXCEPT !.failure = "raised"]
ContainAndRaise(s) == [s EXCEPT !.failure = "contained"]

-----------------------------------------------------------------------------
\* Applying the fills of a bar, in order.

\* A refused protective pair is contained and raised.
NameProtection(s, fill, qty, stop, target) ==
  IF AcceptsProtection(s.broker, fill.side, qty, stop, target)
  THEN [s EXCEPT !.broker = PlaceProtection(@, stop, target)]
  ELSE ContainAndRaise(s)

OnOpen(s, fill) ==
  LET setup == s.engine.setup
      r == ProtectionReference(s.broker)
      levels == IF r = None THEN setup ELSE r
      begun == [s EXCEPT !.engine.pending = FALSE, !.engine.trade_id = @ + 1,
                         !.engine.open = setup, !.engine.setup = None,
                         !.engine.entry = [price |-> fill.price, qty |-> fill.qty, fee |-> fill.fee]]
      margin == IF fill.margin # 0 THEN fill.margin ELSE MarginUsed(s.broker)
  IN IF setup = None THEN begun
     ELSE NameProtection([begun EXCEPT !.account = AccountOpen(@, fill, levels.stop, margin)],
                         fill, fill.qty, levels.stop, levels.target)

OnEntryFillDelta(s, fill) ==
  LET p == s.broker.position
      e == s.engine.entry
      total == e.qty + fill.qty
      levels == IF p = None THEN s.engine.open ELSE p
      grown == [s EXCEPT !.engine.entry = [price |-> AveragePrice(e.price, e.qty, fill.price, fill.qty),
                                           qty |-> total, fee |-> e.fee + fill.fee],
                         !.account = AccountEntryFill(@, fill)]
  IN IF s.engine.open = None \/ e = None THEN Raise(s)
     ELSE NameProtection(grown, fill, total, levels.stop, levels.target)

OnPartialClose(s, fill) ==
  IF s.account.position = None \/ fill.qty >= s.account.position.qty THEN Raise(s)
  ELSE [s EXCEPT !.account = AccountPartialClose(@, fill.qty),
                 !.engine.exits = [pnl |-> @.pnl + fill.pnl, qty |-> @.qty + fill.qty]]

ApplyPaperFill(s, fill) ==
  IF s.failure # None THEN s
  ELSE IF fill.kind = "entry"
       THEN IF s.account.position = None THEN OnOpen(s, fill) ELSE OnEntryFillDelta(s, fill)
  ELSE IF fill.status = "partial" THEN OnPartialClose(s, fill)
  ELSE OnClose(s, fill)

ConsumeRejection(s) ==
  IF s.broker.rejection
  THEN [s EXCEPT !.broker.rejection = FALSE, !.engine.pending = FALSE, !.engine.setup = None,
                !.rejected = TRUE]
  ELSE s

-----------------------------------------------------------------------------
\* A candle, up to the strategy's decision.

MarkAccount(s) == [s EXCEPT !.account = AccountBar(@, Equity(s.broker), now + 1)]

AfterFills(s) ==
  IF s.failure # None THEN s ELSE MarkAccount(PollBrokerFills(ConsumeRejection(s)))

ApplyPaperFills(s, r) ==
  LET matched == [s EXCEPT !.broker = r.broker, !.failure = IF r.raised THEN "raised" ELSE None]
      after[n \in 0 .. Len(r.fills)] ==
        IF n = 0 THEN matched ELSE ApplyPaperFill(after[n - 1], r.fills[n])
  IN after[Len(r.fills)]

MatchBar(bar) ==
  AfterFills(ApplyPaperFills([Session EXCEPT !.engine.close = bar.close],
                             ProcessBar(broker, bar, now + 1)))

Flat(s) == s.broker.position = None /\ s.account.position = None
Working(s) == s.engine.pending \/ s.broker.pending # None

\* An exception ends the run: it is finalized, and nothing is retained.
Outcome(s) ==
  IF s.failure = None THEN s
  ELSE Finalize(IF s.failure = "contained" THEN ContainExposure(s) ELSE s, FALSE)

Become(s) ==
  \E end \in {Outcome(s)} : /\ broker' = end.broker
                            /\ account' = end.account
                            /\ engine' = end.engine
                            /\ status' = IF s.failure = None THEN status ELSE "failed"
                            /\ now' = now + 1
                            /\ UNCHANGED config

\* The strategy decides nothing, or the bar raised before it was asked.
Observe(s) == Become(s)

CancelEntry(s) ==
  /\ s.failure = None /\ Flat(s) /\ Working(s)
  /\ LET canceled == [s EXCEPT !.broker.pending = None, !.engine.pending = FALSE,
                               !.engine.setup = None]
     IN Become(IF s.broker.pending # None THEN canceled ELSE ContainAndRaise(s))

Submitted(s, setup) ==
  [s EXCEPT !.engine.pending = TRUE, !.engine.setup = setup,
            !.broker = SubmitBracket(@, setup, now + 1)]

\* A legacy market entry fills at the close of the candle that decided it.
FillAtClose(s) == ApplyPaperFills(s, FillMarketIfPending(s.broker, s.engine.close, now + 1))

TryEnter(s, setup) ==
  /\ s.failure = None /\ Flat(s) /\ ~Working(s) /\ ~s.rejected /\ ~s.engine.halted
  /\ Become(IF ~Accepts(s.broker, setup) THEN s
            ELSE IF Costed THEN Submitted(s, setup)
            ELSE PollBrokerFills(FillAtClose(Submitted(s, setup))))

\* on_sl_update and on_tp_update; None keeps a leg.
UpdateProtection(s, stop, target) ==
  /\ s.failure = None /\ ~Flat(s)
  /\ LET p == s.broker.position
         newStop == IF stop = None THEN p.stop ELSE stop
         newTarget == IF target = None THEN p.target ELSE target
         modified == [s EXCEPT !.broker = ModifyProtection(@, newStop, newTarget),
                               !.engine.open = IF @ = None \/ target = None THEN @
                                               ELSE [@ EXCEPT !.target = newTarget]]
     IN Become(IF p = None \/ ~Modifies(s.broker, newStop, newTarget) THEN ContainAndRaise(s)
               ELSE IF stop = None THEN modified
               ELSE IF s.account.position = None THEN Raise(modified)
               ELSE [modified EXCEPT !.account.position.stop = newStop])

ProcessBarStep ==
  /\ status = "running" /\ now < MaxBars
  /\ \E bar \in Bars :
       \E s \in {MatchBar(bar)} :
         \/ Observe(s)
         \/ CancelEntry(s)
         \/ \E setup \in Setups : TryEnter(s, setup)
         \/ \E stop \in Stops \cup {None}, target \in Targets \cup {None} :
              /\ stop # None \/ target # None
              /\ UpdateProtection(s, stop, target)

\* A stop signal flattens; the end of the data may retain the position.
Finish ==
  /\ status = "running"
  /\ \E retain \in {FALSE, EndPolicy = "mark"} :
       \E end \in {Finalize(Session, retain)} :
         /\ broker' = end.broker
         /\ account' = end.account
         /\ engine' = end.engine
  /\ status' = "finished"
  /\ UNCHANGED <<config, now>>

Ended == status # "running" /\ UNCHANGED vars

Next == ProcessBarStep \/ Finish \/ Ended

Spec == Init /\ [][Next]_vars

-----------------------------------------------------------------------------
\* Properties.

Running == status = "running"

\* The broker's average-price books implement a plain cash account: whatever the
\* order of partial fills, partial exits, fundings and liquidations, the ledger holds
\* exactly what the executions paid, and no exit ever turns the position over.
Account == INSTANCE CashAccount WITH
  deposit <- Starting,
  cash <- Balance(broker)
          - (IF broker.position = None THEN 0
             ELSE Sign(broker.position.side) * broker.position.entry * broker.position.qty),
  inventory <- IF broker.position = None THEN 0
               ELSE Sign(broker.position.side) * broker.position.qty,
  executed <- broker.executed

ImplementsCashAccount == Account!Spec

\* After every candle what the engine believes is what the broker has: the account that risk
\* nodes read holds the same side, quantity, average price, stop and margin, though it is
\* rebuilt from the fills one by one, and the engine waits for an entry exactly as long as
\* the broker works one (PlatformAccountState against BrokerPosition,
\* _external_entry_pending).
EngineFollowsBroker ==
  Running =>
    /\ account.margin = MarginUsed(broker)
    /\ account.position =
         IF broker.position = None THEN None
         ELSE [side |-> broker.position.side, entry |-> broker.position.entry,
               qty |-> broker.position.qty, stop |-> broker.position.stop,
               margin |-> broker.position.margin]
    /\ engine.pending <=> broker.pending # None /\ broker.position = None
    /\ engine.pending <=> engine.setup # None

Earned(trades) == SumFunction([i \in DOMAIN trades |-> trades[i].pnl])

Fundings(b) == {n \in DOMAIN b.ledger : b.ledger[n].kind = "funding"}
Cashflows(b) == DOMAIN b.ledger \ Fundings(b)

\* Each of these events names the ledger entries it made, and together they name those of N once.
Named(events, b, N) ==
  /\ \A i \in DOMAIN events :
       events[i].fill.pnl = SumFunctionOnSet(Amounts(b), events[i].cash)
  /\ \A i, j \in DOMAIN events : i # j => events[i].cash \cap events[j].cash = {}
  /\ UNION {events[i].cash : i \in DOMAIN events} = N

\* The money is explained twice over.  Once flat, the trade records and the funding make up
\* the balance to the last unit: every fee and every partial exit is in exactly one record
\* (_trade_record).  Every delivered fill names exactly the ledger entries it made, and every
\* entry but a funding is named once (cashflow_sequences in _record_broker_fill).
CashIsExplained ==
  Running =>
    /\ broker.position = None =>
         Balance(broker) - Starting
           = Earned(engine.trades) + SumFunctionOnSet(Amounts(broker), Fundings(broker))
    /\ Named(engine.delivered, broker, Cashflows(broker))

\* The realistic profile keeps the setup's risk: stopped out with costs and fees, the
\* position loses no more than the setup's entry-to-stop distance times its size, however
\* many candles filled it (_risk_adjusted_order).
WithinRiskBudget ==
  Realistic /\ Running /\ broker.position # None =>
    LET p == broker.position
        stopFill == Adjusted(p.stop, Opposite(p.side))
    IN Sign(p.side) * (p.entry - stopFill) * p.qty + p.fee + Commission(p.qty, stopFill, "taker")
         <= Abs(engine.open.entry - engine.open.stop) * engine.open.qty

\* What the executions up to n have left of the position, and those that reduced it.
Bought(ex) ==
  [n \in DOMAIN ex |-> IF ex[n].kind = "entry" THEN ex[n].qty
                       ELSE IF ex[n].kind = "funding" THEN 0 ELSE -ex[n].qty]
Held(ex, n) == SumFunctionOnSet(Bought(ex), 1 .. n)
Exits(ex) == {n \in DOMAIN ex : ex[n].kind \notin {"entry", "funding"}}

\* Once an exit of a trade has executed, no rest of its entry adds to it again: an entry
\* comes after an exit only when the position was gone in between (_pending = None in
\* process_bar, _liquidate_if_required and flatten).
NoEntryAfterExit ==
  LET ex == broker.executed
  IN \A i \in Exits(ex), j \in DOMAIN ex :
       i < j /\ ex[j].kind = "entry" => \E k \in i .. j - 1 : Held(ex, k) = 0

=============================================================================
