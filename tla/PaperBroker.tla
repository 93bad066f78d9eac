---------------------------- MODULE PaperBroker ----------------------------
(***************************************************************************)
(* The simulated broker: bracket entries matched against OHLC bars, with   *)
(* working protection, partial fills from a bar's volume, funding,         *)
(* liquidation at the mark price and an append-only cash ledger.           *)
(*                                                                         *)
(* The broker is passive: LiveEngine calls it from one thread.  Its        *)
(* methods are operators on a state record here; the module that models    *)
(* the engine applies them.  A method returns the new state, the fills it  *)
(* returns in the code, and whether it raised.                             *)
(*                                                                         *)
(* A session is configured once: profile, market, costs and instrument     *)
(* rules are a record that never changes.                                  *)
(*                                                                         *)
(* Time is counted in bars.  Prices, cash and quantities are integers;     *)
(* rates are parts of Scale.  A quotient that is no integer is one of its  *)
(* two neighbours, where the code has a float near it (Quotient): the      *)
(* theorems hold for either.  TLC refuses such a quotient, so that the     *)
(* only rounding of an instance is down to the lot step, which is one.     *)
(***************************************************************************)
EXTENDS Integers, Sequences, FiniteSets, FiniteSetsExt, SequencesExt

CONSTANTS
  Configs,   \* the configurations a session may have
  None

VARIABLE config   \* the one it has, for good

Profile == config.profile                   \* "legacy", "fixed" or "realistic"
Market == config.market                     \* "spot" or "future"
Starting == config.starting                 \* starting balance
Leverage == config.leverage
Scale == config.scale                       \* denominator of the rates
Adjustment == config.adjustment             \* half the spread plus slippage, adverse on every costed fill
Fee == config.fee                           \* commission by liquidity role, maker and taker
Remainder == config.remainder               \* "none": no execution proxy; else what becomes of an unfilled entry
FillDelay == config.fill_delay              \* bars from the decision's candle close to the first eligible bar
ProtectionDelay == config.protection_delay  \* bars from the first fill to active protection
MinNotional == config.min_notional          \* of the instrument, which a realistic run has evidence for
Maintenance == config.maintenance           \* maintenance-margin rate; 0: no mark prices
LiquidationFee == config.liquidation_fee

Sides == {"buy", "sell"}
Types == {"market", "limit", "stop"}

ASSUME ProfileAssumption ==
  \A c \in Configs :
    /\ c.profile \in {"legacy", "fixed", "realistic"}
    /\ c.market \in {"spot", "future"} /\ (c.market = "spot" => c.leverage = 1)
    /\ c.remainder \in {"none", "carry", "cancel"}
    /\ (c.remainder # "none" \/ c.maintenance # 0) => c.profile = "realistic"
ASSUME AmountsAssumption ==
  \A c \in Configs :
    /\ {c.starting, c.leverage, c.scale} \subseteq Nat \ {0}
    /\ {c.adjustment, c.maintenance, c.liquidation_fee, c.fee["maker"], c.fee["taker"]}
         \subseteq 0 .. c.scale - 1
    /\ {c.fill_delay, c.protection_delay, c.min_notional} \subseteq Nat

Costed == Profile # "legacy"
Realistic == Profile = "realistic"
Proxied == Remainder # "none"

Sign(side) == IF side = "buy" THEN 1 ELSE -1
Opposite(side) == IF side = "buy" THEN "sell" ELSE "buy"
Abs(n) == IF n < 0 THEN -n ELSE n
Quotient(n, d) ==
  IF n % d = 0 THEN n \div d ELSE CHOOSE q \in Int : d * (q - 1) < n /\ n < d * (q + 1)

\* Whether price has reached level from the better, or from the worse, side.
Adverse(side, price, level) == Sign(side) * price <= Sign(side) * level
Favourable(side, price, level) == Sign(side) * price >= Sign(side) * level
Worst(side, bar) == IF side = "buy" THEN bar.low ELSE bar.high
Best(side, bar) == IF side = "buy" THEN bar.high ELSE bar.low

-----------------------------------------------------------------------------
\* Arithmetic of a fill.

Adjusted(reference, side) == reference + Sign(side) * Quotient(reference * Adjustment, Scale)
Commission(qty, price, role) == Quotient(qty * price * Fee[role], Scale)
RequiredMargin(qty, price) == Quotient(qty * price, Leverage)
Role(type) == IF type = "limit" THEN "maker" ELSE "taker"

\* The price of an entry that matched: costed, but never beyond its limit.
EntryPrice(o, matched) ==
  LET adjusted == Adjusted(matched, o.side)
  IN IF ~Costed THEN matched
     ELSE IF o.type = "limit" /\ Favourable(o.side, adjusted, o.entry) THEN o.entry
     ELSE adjusted

FirstPrice(price, qty, newPrice, newQty) == price

AveragePrice(price, qty, newPrice, newQty) ==
  Quotient(price * qty + newPrice * newQty, qty + newQty)

-----------------------------------------------------------------------------
\* The account.

Position ==
  [side : Sides, entry : Int, qty : Nat \ {0}, stop : Int, target : Int, protected : BOOLEAN,
   fee : Int, margin : Nat, active : Int]
Order ==
  [side : Sides, type : Types, entry : Int, stop : Int, target : Int, qty : Nat \ {0},
   filled : Nat, budget : Int, eligible : Int]
Fill ==
  [kind : {"entry", "stop_loss", "take_profit", "manual_close", "liquidation"}, side : Sides,
   price : Int, qty : Nat \ {0}, pnl : Int, fee : Int, margin : Int,
   status : {"partial", "filled"}, cumulative : Nat \cup {None}]
Deferred == [fill : Fill, position : Position, role : {"stop", "target"}]

ASSUME NoneAssumption == None \notin Position \cup Order \cup Deferred

NewBroker ==
  [ledger |-> <<>>, position |-> None, pending |-> None, last_close |-> 0, entry_bar |-> 0,
   events |-> <<>>, deferred |-> None, journaled |-> 0, exit_cumulative |-> 0, rejection |-> FALSE,
   executed |-> <<>>]   \* history: what CashAccount sees

Record(b, kind, amount) == [b EXCEPT !.ledger = Append(@, [kind |-> kind, amount |-> amount])]

Amounts(b) == [n \in DOMAIN b.ledger |-> b.ledger[n].amount]
Balance(b) == Starting + SumFunction(Amounts(b))

Unrealized(b, price) ==
  IF b.position = None THEN 0
  ELSE (price - b.position.entry) * b.position.qty * Sign(b.position.side)

MarginUsed(b) == IF b.position = None THEN 0 ELSE b.position.margin
Equity(b) == Balance(b) + Unrealized(b, b.last_close)

\* Spot spends quote cash only; a future also spends what its position has gained.
Affordable(b, qty, price, role, mark) ==
  LET available == Balance(b) - MarginUsed(b)
                   + (IF Market = "spot" THEN 0 ELSE Unrealized(b, mark))
  IN Costed => RequiredMargin(qty, price) + Commission(qty, price, role) <= available

-----------------------------------------------------------------------------
\* Reporting: every fill becomes one event that names the ledger entries it made.
\* An exit matched before the engine named the protective orders waits for the names.

RecordFillRescanning(b, fill, role) ==
  [b EXCEPT !.events = Append(@, [role |-> role, fill |-> fill,
                                  cash |-> {i \in DOMAIN b.ledger : b.ledger[i].kind # "funding"}])]

RecordFill(b, fill, role) ==
  [b EXCEPT !.events = Append(@, [role |-> role, fill |-> fill,
                                  cash |-> {i \in b.journaled + 1 .. Len(b.ledger) :
                                              b.ledger[i].kind # "funding"}]),
            !.journaled = Len(b.ledger)]

RecordClose(b, fill, p) ==
  LET role == [stop_loss |-> "stop", take_profit |-> "target", manual_close |-> "flatten",
               liquidation |-> "flatten"][fill.kind]
  IN IF role # "flatten" /\ ~p.protected
     THEN [b EXCEPT !.deferred = [fill |-> fill, position |-> p, role |-> role]]
     ELSE RecordFill(b, fill, role)

RecordDeferred(b) ==
  IF b.deferred = None THEN b
  ELSE [RecordFill(b, b.deferred.fill, b.deferred.role) EXCEPT !.deferred = None]

Executed(b, fill) ==
  [b EXCEPT !.executed = Append(@, [kind |-> fill.kind, side |-> fill.side, qty |-> fill.qty,
                                    price |-> fill.price, fee |-> fill.fee])]

Result(b, fills) == [broker |-> b, fills |-> fills, raised |-> FALSE]

\* The outcome of a fill that left position p.
Reported(b, fill, p) == Result(RecordClose(Executed(b, fill), fill, p), <<fill>>)

-----------------------------------------------------------------------------
\* Closing.  cap is what is left of the bar's volume.

Unlimited == 1000000
Capacity(bar) == IF Proxied THEN bar.volume ELSE Unlimited

CloseAt(b, kind, q, price) ==
  LET p == b.position
      left == p.qty - q
      fee == IF Costed THEN Commission(q, price, "taker") ELSE 0
      gross == (price - p.entry) * q * Sign(p.side)
      fill == [kind |-> kind, side |-> p.side, price |-> price, qty |-> q, pnl |-> gross - fee,
               fee |-> fee, margin |-> 0, status |-> IF left > 0 THEN "partial" ELSE "filled",
               cumulative |-> b.exit_cumulative + q]
      traded == Record(b, "trade_pnl", gross)
      paid == IF fee = 0 THEN traded ELSE Record(traded, "commission", -fee)
  IN Reported(IF left > 0
              THEN [paid EXCEPT !.position.qty = left,
                                !.position.margin = Quotient(@ * left, p.qty),
                                !.exit_cumulative = @ + q]
              ELSE [paid EXCEPT !.position = None, !.exit_cumulative = 0, !.entry_bar = 0,
                                !.last_close = price],
              fill, p)

Close(b, reference, kind, cap) ==
  LET q == Min({b.position.qty, cap})
  IN IF q = 0 THEN Result(b, <<>>)
     ELSE CloseAt(b, kind, q,
                  IF Costed THEN Adjusted(reference, Opposite(b.position.side)) ELSE reference)

\* What working protection does on a bar: the open first when gap, then the stop
\* before the target, since OHLC does not say which was touched first.
ExitCross(b, bar, now, gap, cap) ==
  LET p == b.position
      touched == IF gap /\ Adverse(p.side, bar.open, p.stop) THEN <<"stop_loss", bar.open>>
                 ELSE IF gap /\ Favourable(p.side, bar.open, p.target)
                      THEN <<"take_profit", bar.open>>
                 ELSE IF Adverse(p.side, Worst(p.side, bar), p.stop) THEN <<"stop_loss", p.stop>>
                 ELSE IF Favourable(p.side, Best(p.side, bar), p.target)
                      THEN <<"take_profit", p.target>>
                 ELSE <<>>
  IN IF p = None THEN Result(b, <<>>)
     ELSE IF now < p.active \/ touched = <<>> THEN Result(b, <<>>)
     ELSE Close(b, touched[2], touched[1], cap)

KeepRemainder(r) == r

\* An exit that trades takes the unfilled rest of the entry with it.
CancelRemainder(r) == [r EXCEPT !.broker.pending = None]

Flatten(b, price) ==
  LET idle == [b EXCEPT !.pending = None]
  IN IF b.position = None THEN Result(idle, <<>>) ELSE Close(idle, price, "manual_close", Unlimited)

-----------------------------------------------------------------------------
\* Entries.

\* The open market order waits for the next bar in a costed profile; legacy fills it at once.
EntryCross(o, bar) ==
  IF o.type = "market" THEN IF Costed THEN bar.open ELSE None
  ELSE IF o.type = "limit"
       THEN IF Adverse(o.side, bar.open, o.entry) THEN bar.open
            ELSE IF o.entry \in bar.low .. bar.high THEN o.entry ELSE None
  ELSE IF Favourable(o.side, bar.open, o.entry) THEN bar.open
       ELSE IF Favourable(o.side, Best(o.side, bar), o.entry) THEN o.entry ELSE None

RiskLeftUnspent(b, o) == o.budget

\* What the budget leaves once the open position's stop and fees are paid from it.
RiskLeft(b, o) ==
  LET p == b.position
      stopFill == Adjusted(p.stop, Opposite(p.side))
  IN IF p = None THEN o.budget
     ELSE o.budget - Abs(p.entry - stopFill) * p.qty - p.fee - Commission(p.qty, stopFill, "taker")

\* What one unit loses when it is stopped out, fees included.
UnitRisk(b, o, price) ==
  LET stopFill == Adjusted(IF b.position = None THEN o.stop ELSE b.position.stop, Opposite(o.side))
  IN Abs(price - stopFill) + Commission(1, price, Role(o.type)) + Commission(1, stopFill, "taker")

Exhausted(b, o, price) == UnitRisk(b, o, price) <= 0 \/ RiskLeft(b, o) <= 0

\* max_quantity_for_stop_risk, down to whole lots.
RiskSize(b, o, price) ==
  IF Exhausted(b, o, price) THEN 0 ELSE RiskLeft(b, o) \div UnitRisk(b, o, price)

Normal(qty, price) == qty >= 1 /\ qty * price >= MinNotional

\* What stays working of an entry cut to size, of which q filled.
Rest(o, size, q) ==
  IF size > q /\ Remainder = "carry" THEN [o EXCEPT !.qty = size - q, !.filled = @ + q] ELSE None

Open(b, o, size, q, price, now) ==
  LET fee == IF Costed THEN Commission(q, price, Role(o.type)) ELSE 0
      margin == IF Costed THEN RequiredMargin(q, price) ELSE 0
      p == b.position
      left == size - q
      fill == [kind |-> "entry", side |-> o.side, price |-> price, qty |-> q, pnl |-> -fee,
               fee |-> fee, margin |-> margin,
               status |-> IF left > 0 THEN "partial" ELSE "filled", cumulative |-> o.filled + q]
      paid == IF Costed THEN Record(b, "commission", -fee) ELSE b
      opened == [paid EXCEPT
        !.position =
          IF p = None
          THEN [side |-> o.side, entry |-> price, qty |-> q, stop |-> o.stop, target |-> o.target,
                protected |-> FALSE, fee |-> fee, margin |-> margin,
                active |-> IF Proxied THEN now + ProtectionDelay ELSE 0]
          ELSE [p EXCEPT !.entry = AveragePrice(@, p.qty, price, q),
                         !.qty = @ + q, !.fee = @ + fee, !.margin = @ + margin],
        !.pending = Rest(o, size, q),
        !.entry_bar = now, !.last_close = price]
  IN Result(RecordFill(Executed(opened, fill), fill, "entry"), <<fill>>)

\* A fill already beyond its bracket is contained at once.
Breach(o, price) ==
  IF Adverse(o.side, price, o.stop) THEN "stop_loss"
  ELSE IF Favourable(o.side, price, o.target) THEN "take_profit"
  ELSE None

\* The exit on the bar that filled the entry, from the volume the entry left.
EntryBarExit(b, o, fill, bar, now, matched, cap) ==
  IF Profile = "fixed" THEN Result(b, <<>>)
  ELSE IF Breach(o, fill.price) # None /\ cap > 0
       THEN Close(b, matched, Breach(o, fill.price), cap)
  ELSE ExitCross(b, bar, now, FALSE, cap)

WithExit(fills, exit) ==
  IF exit.fills = <<>> THEN Result(exit.broker, fills)
  ELSE Result(CancelRemainder(exit).broker, fills \o exit.fills)

Protected(opened, o, bar, now, matched, cap) ==
  WithExit(opened.fills,
           EntryBarExit([opened.broker EXCEPT !.last_close = bar.close], o, Head(opened.fills),
                        bar, now, matched, cap))

Rejected(b) == Result([b EXCEPT !.pending = None, !.rejection = TRUE], <<>>)

FillSized(b, o, size, q, price, bar, now, matched) ==
  IF (Realistic /\ ~Normal(q, price)) \/ ~Affordable(b, q, price, Role(o.type), matched)
  THEN Rejected(b)
  ELSE Protected(Open(b, o, size, q, price, now), o, bar, now, matched, Capacity(bar) - q)

FillAt(b, o, price, bar, now, matched) ==
  LET size == IF Realistic THEN Min({o.qty, RiskSize(b, o, price)}) ELSE o.qty
  IN IF Realistic /\ ~Normal(o.qty, price) THEN [Result(b, <<>>) EXCEPT !.raised = TRUE]
     ELSE IF Realistic /\ Exhausted(b, o, price)
          THEN Result([b EXCEPT !.pending = None, !.rejection = (b.position = None)], <<>>)
     ELSE FillSized(b, o, size, Min({size, Capacity(bar)}), price, bar, now, matched)

FillEntry(b, bar, now) ==
  LET o == b.pending
      matched == EntryCross(o, bar)
      fits == Realistic => \A level \in {o.entry, o.stop, o.target} : Normal(o.qty, level)
  IN IF Proxied /\ now < o.eligible THEN Result(b, <<>>)
     ELSE IF ~fits THEN Rejected(b)
     ELSE IF matched = None \/ Capacity(bar) = 0 THEN Result(b, <<>>)
     ELSE FillAt(b, o, EntryPrice(o, matched), bar, now, matched)

FillMarketIfPending(b, price, now) ==
  IF b.pending = None \/ Costed THEN Result(b, <<>>)
  ELSE IF b.pending.type # "market" THEN Result(b, <<>>)
  ELSE Open(b, b.pending, b.pending.qty, b.pending.qty, price, now)

-----------------------------------------------------------------------------
\* A bar: funding, liquidation, working protection, then the entry.

SettleFunding(b, bar) ==
  LET amount == -Sign(b.position.side) * Quotient(b.position.qty * bar.rate * bar.mark, Scale)
  IN IF b.position = None \/ bar.rate = 0 THEN b
     ELSE Executed(Record(b, "funding", amount),
                   [kind |-> "funding", side |-> b.position.side, qty |-> 0, price |-> 0,
                    fee |-> -amount])

Liquidates(b, bar) ==
  /\ Maintenance # 0 /\ b.position # None
  /\ Balance(b) + Unrealized(b, bar.mark)
       <= Quotient(b.position.qty * bar.mark * Maintenance, Scale)

Liquidate(b, bar) ==
  LET p == b.position
      fee == Quotient(p.qty * bar.mark * LiquidationFee, Scale)
      gross == Unrealized(b, bar.mark)
      fill == [kind |-> "liquidation", side |-> p.side, price |-> bar.mark, qty |-> p.qty,
               pnl |-> gross - fee, fee |-> fee, margin |-> 0, status |-> "filled",
               cumulative |-> None]
      paid == Record(Record(b, "trade_pnl", gross), "liquidation_fee", -fee)
  IN Reported([paid EXCEPT !.position = None, !.pending = None, !.entry_bar = 0,
                           !.last_close = bar.mark], fill, p)

WorkingExit(b, bar, now) ==
  IF Profile = "fixed" /\ b.entry_bar = now THEN Result(b, <<>>)
  ELSE ExitCross(b, bar, now, TRUE, Capacity(bar))

\* Working protection has the bar's volume first.
EntryUnlessExit(exit, bar, now) ==
  IF exit.fills # <<>> THEN CancelRemainder(exit)
  ELSE IF exit.broker.pending = None THEN exit
  ELSE FillEntry(exit.broker, bar, now)

MatchOrLiquidate(settled, bar, now) ==
  IF Liquidates(settled, bar) THEN Liquidate(settled, bar)
  ELSE EntryUnlessExit(WorkingExit([settled EXCEPT !.last_close = bar.close], bar, now), bar, now)

ProcessBar(b, bar, now) == MatchOrLiquidate(SettleFunding(b, bar), bar, now)

-----------------------------------------------------------------------------
\* Orders from the engine.

\* setup is a trade setup the engine has validated.
Accepts(b, setup) ==
  /\ ~(Market = "spot" /\ setup.side = "sell")
  /\ Affordable(b, setup.qty, setup.entry, Role(setup.type), b.last_close)

SubmitBracket(b, setup, now) ==
  [b EXCEPT !.pending =
     [side |-> setup.side, type |-> setup.type, entry |-> setup.entry, stop |-> setup.stop,
      target |-> setup.target, qty |-> setup.qty, filled |-> 0,
      budget |-> Abs(setup.entry - setup.stop) * setup.qty, eligible |-> now + 1 + FillDelay]]

ValidUpdate(side, old, stop, target) ==
  /\ Favourable(side, stop, old)
  /\ Sign(side) * stop < Sign(side) * target

\* modify_protection; a realistic run normalizes both prices first.
Modifies(b, stop, target) ==
  /\ b.position # None
  /\ Realistic => Normal(b.position.qty, stop) /\ Normal(b.position.qty, target)
  /\ ValidUpdate(b.position.side, b.position.stop, stop, target)

ModifyProtection(b, stop, target) ==
  [b EXCEPT !.position.stop = stop, !.position.target = target,
            !.pending = IF @ = None THEN None ELSE [@ EXCEPT !.stop = stop, !.target = target]]

\* The position at the fill, before any exit of the same bar.
ProtectionReference(b) == IF b.deferred # None THEN b.deferred.position ELSE b.position

AcceptsProtection(b, side, qty, stop, target) ==
  LET r == ProtectionReference(b)
  IN /\ r # None
     /\ side = r.side /\ qty = r.qty
     /\ \/ stop = r.stop /\ target = r.target
        \/ r.protected /\ ValidUpdate(side, r.stop, stop, target)
        \/ /\ ~r.protected /\ Favourable(side, stop, r.stop)
           /\ Sign(side) * stop < Sign(side) * r.entry
           /\ Sign(side) * r.entry < Sign(side) * target

PlaceProtection(b, stop, target) ==
  RecordDeferred(IF b.position = None THEN b
                 ELSE [b EXCEPT !.position.stop = stop, !.position.target = target,
                                !.position.protected = TRUE])
=============================================================================
