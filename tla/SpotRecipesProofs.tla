------------------------- MODULE SpotRecipesProofs -------------------------
(***************************************************************************)
(* Proofs about SpotRecipes: a close is alone, a cycle and a slot of a     *)
(* grid start from nothing, and an operator's flatten is final, for any    *)
(* plan, orders, amounts and observations.                                 *)
(*                                                                         *)
(* An observation goes through four stages: the account takes it in, the   *)
(* controller decides, the intents are routed, and a refused route becomes *)
(* a containment.  The invariant is an operator on the plan p, the account *)
(* a, the venue's events v and the controller c, so that it can be stated  *)
(* of each stage.                                                          *)
(***************************************************************************)
EXTENDS SpotRecipes, SumProofs

-----------------------------------------------------------------------------
(***************************************************************************)
(* The inductive invariant.                                                *)
(***************************************************************************)
LotsIn(p) == {LotOf(id) : id \in {i \in p.orders : Buys(i)}}

OrderIn(p) ==
  [status : {"none", "pending", "cancel_pending", "accepted", "partial", "unknown"} \cup TERMINAL,
   size : Int, filled : Int, reserved_quote : Int, reserved_base : Int,
   allocations : [LotsIn(p) -> Nat], terminal_reconciled : BOOLEAN,
   cancel : {"none", "terminal", "target_replace"}, unknown : {"none", "submit", "cancel"},
   replacement : Int]

EventIn(p) ==
  [seq : Nat, id : p.orders, status : {"accepted", "partial", "unknown"} \cup TERMINAL,
   size : Nat, quote : Nat, base : Nat, third : BOOLEAN, excess : BOOLEAN]

AccountIn(p) ==
  [cash : Int, base : Int, cleanup : Int, cycle : Int, orders : [p.orders -> OrderIn(p)],
   lots : [LotsIn(p) -> Int], born : [LotsIn(p) -> Nat], seq : Nat, events : SUBSET Nat,
   buffered : SUBSET EventIn(p), quarantine : SUBSET EventIn(p),
   reconciliation : BOOLEAN, fees : BOOLEAN, unvalued : SUBSET Nat]

IsControl(c) ==
  /\ DOMAIN c = {"cycle", "phase", "last_cycle_bar", "stop", "desired", "anchored", "slots",
                 "target", "target_bar", "grid", "ended", "action", "reason", "command",
                 "close_command", "refusal"}
  /\ c.cycle \in Nat /\ IsFiniteSet(c.grid)
  /\ c.action \in {"none", "stop_and_hold", "stop_and_flatten"}

\* The venue executes only what was submitted, and an order that is settled has
\* ended there.
Done(v, id) == \E n \in 1 .. Len(v) : v[n].id = id /\ v[n].status \in TERMINAL
EndInv(a, v) ==
  /\ \A n \in 1 .. Len(v) : v[n].id \in Known(a)
  /\ \A id \in Known(a) : a.orders[id].terminal_reconciled => a.orders[id].status \in TERMINAL
  /\ \A id \in Known(a) : a.orders[id].status \in TERMINAL => Done(v, id)

\* The generations of a slot follow each other, and only the last one may be unsettled.
GenerationInv(a) ==
  \A id, old \in Known(a) :
    SameSlot(id, old) /\ id # old =>
      id.gen # old.gen /\ (old.gen < id.gen => a.orders[old].terminal_reconciled)

\* Only the current cycle has orders that may execute.
CycleInv(a, c) ==
  \A id \in Known(a) :
    id.cycle <= c.cycle /\ (id.cycle < c.cycle => a.orders[id].terminal_reconciled)

\* A close is alone, and the controller is at it.
CloseInv(a, c) ==
  \A id \in Known(a) :
    id.purpose = "flatten" /\ ~a.orders[id].terminal_reconciled =>
      c.action # "none" /\ BarrierPassed(a)

\* Nothing was done before the first start, and nothing is left after a cycle.
Flat(a) == Unreconciled(a) = {} /\ a.base = 0
PhaseInv(p, a, c) ==
  /\ c.phase = "idle" => Known(a) = {} /\ a.base = 0 /\ c.action = "none"
  /\ c.phase = "complete" => Flat(a)

\* A cycle that is complete and not restarted was refused its start.
RestInv(p, a, c) ==
  c.phase = "complete" =>
    IF c.action = "none" THEN p.recipe = "dca" => c.refusal \notin {"none", "unvalued_fee"}
                         ELSE ~Halted(a)

\* The one cycle of a grid; of the BUYs of a slot, all but the last left dust.
GridPurposes == {"grid_buy", "grid_sell", "flatten"}
SlotInv(p, a, c) ==
  p.recipe = "grid" =>
    /\ \A id \in Known(a) : id.purpose \in GridPurposes /\ id.cycle = c.cycle
    /\ \A id, old \in Known(a) :
         id.purpose = "grid_buy" /\ SameSlot(id, old) /\ old.gen < id.gen => a.lots[old] < p.min

\* What holds at each stage of an observation, and between two.
StageInv(p, a, v, c) ==
  /\ p \in Plans /\ a \in AccountIn(p) /\ v \in Seq(EventIn(p)) /\ IsControl(c)
  /\ EndInv(a, v) /\ GenerationInv(a) /\ CycleInv(a, c) /\ CloseInv(a, c)
  /\ PhaseInv(p, a, c) /\ SlotInv(p, a, c)
RecipeInv(p, a, v, c) == StageInv(p, a, v, c) /\ RestInv(p, a, c)

\* An operator's flatten for good stays in force.
Final(c) ==
  /\ c.action = "stop_and_flatten" /\ c.reason \notin {"target", "empty_base"}
  /\ c.phase \notin {"idle", "complete"}
FinalInv(g, c) == FlattenedForGood(g) => Final(c)

Inv == RecipeInv(plan, acct, venue, ctl) /\ FinalInv(given, ctl)
-----------------------------------------------------------------------------
(***************************************************************************)
(* The data.                                                               *)
(***************************************************************************)
\* What IsPlan says of a plan, and that its orders and lots are finitely many.
LEMMA PlanFacts ==
  ASSUME NEW p \in Plans
  PROVE  /\ p.orders \subseteq Ids /\ IsFiniteSet(p.orders) /\ IsFiniteSet(LotsIn(p))
         /\ p.size \in Nat /\ p.add \in Nat /\ p.min \in Nat /\ p.market \in Nat
         /\ p.recipe \in {"dca", "grid"} /\ IsFiniteSet(p.slots)
         /\ \A id \in p.orders : id.cycle \in Nat /\ id.gen \in Nat
<1>1. IsPlan(p)
  BY PlansAssumption
<1>2. p.orders \subseteq Ids
  BY <1>1 DEF IsPlan
<1>3. IsFiniteSet(p.orders)
  BY <1>2, IdsAssumption, FS_Subset
<1>4. IsFiniteSet(LotsIn(p))
  <2> DEFINE S == {i \in p.orders : Buys(i)}
             f == [id \in S |-> LotOf(id)]
  <2>1. IsFiniteSet(S)
    BY <1>3, FS_Subset
  <2>2. f \in Surjection(S, LotsIn(p))
    BY DEF Surjection, LotsIn
  <2> HIDE DEF S, f
  <2> QED
    BY <2>1, <2>2, FS_Surjection
<1>5. /\ p.size \in Nat /\ p.add \in Nat /\ p.min \in Nat /\ p.market \in Nat
      /\ p.recipe \in {"dca", "grid"} /\ IsFiniteSet(p.slots)
  BY <1>1, AmountsAssumption DEF IsPlan, IsRecipe, IsInstrument
<1>6. \A id \in p.orders : id.cycle \in Nat /\ id.gen \in Nat
  BY <1>2, IdsAssumption
<1> QED
  BY <1>2, <1>3, <1>4, <1>5, <1>6

\* The extremes of two integers.
LEMMA MinOfTwo ==
  ASSUME NEW x \in Int, NEW y \in Int
  PROVE  Min({x, y}) = IF x <= y THEN x ELSE y
BY DEF Min

LEMMA MaxOfTwo ==
  ASSUME NEW x \in Int, NEW y \in Int
  PROVE  Max({x, y}) = IF x <= y THEN y ELSE x
BY DEF Max

\* The sums over the orders are integers.
LEMMA OrderSums ==
  ASSUME NEW p \in Plans, NEW a \in AccountIn(p)
  PROVE  /\ free_quote(a) \in Int /\ free_base(a) \in Int
         /\ \A lot \in LotsIn(p) : Allocated(a, lot) \in Int
<1> DEFINE q == [id \in p.orders |-> a.orders[id].reserved_quote]
           b == [id \in p.orders |-> a.orders[id].reserved_base]
           h(lot) == [id \in p.orders |-> a.orders[id].allocations[lot]]
<1>1. DOMAIN a.orders = p.orders /\ IsFiniteSet(p.orders)
  BY PlanFacts DEF AccountIn
<1>2. \A id \in p.orders : a.orders[id] \in OrderIn(p)
  BY DEF AccountIn
<1>3. /\ \A id \in p.orders : q[id] \in Int /\ b[id] \in Int
      /\ \A lot \in LotsIn(p) : \A id \in p.orders : h(lot)[id] \in Int
  BY <1>2 DEF OrderIn
<1>4. /\ reserved_quote(a) = SumFunctionOnSet(q, p.orders)
      /\ reserved_base(a) = SumFunctionOnSet(b, p.orders)
      /\ \A lot \in LotsIn(p) : Allocated(a, lot) = SumFunctionOnSet(h(lot), p.orders)
  BY <1>1 DEF reserved_quote, reserved_base, Allocated, SumFunction
<1>5. SumFunctionOnSet(q, p.orders) \in Int /\ SumFunctionOnSet(b, p.orders) \in Int
  <2> HIDE DEF q, b
  <2> QED
    BY <1>1, <1>3, SumType
<1>6. ASSUME NEW lot \in LotsIn(p) PROVE SumFunctionOnSet(h(lot), p.orders) \in Int
  <2> HIDE DEF h
  <2> QED
    BY <1>1, <1>3, SumType
<1>7. a.cash \in Int /\ a.cleanup \in Int /\ a.cycle \in Int /\ a.base \in Int
  BY DEF AccountIn
<1> HIDE DEF q, b, h
<1> QED
  BY <1>4, <1>5, <1>6, <1>7 DEF free_quote, free_base

\* Each lot gives at most what it has.
LEMMA OldestType ==
  ASSUME NEW p \in Plans, NEW a \in AccountIn(p), NEW amount \in [LotsIn(p) -> Nat],
         NEW need \in Int
  PROVE  /\ Oldest(a, amount, need) \in [LotsIn(p) -> Nat]
         /\ \A lot \in LotsIn(p) : Oldest(a, amount, need)[lot] <= amount[lot]
<1> DEFINE L == LotsIn(p)
           older(lot) == {l \in L : a.born[l] < a.born[lot]}
           before(lot) == SumFunctionOnSet(amount, older(lot))
           gives(lot) == Min({amount[lot], Max({0, need - before(lot)})})
<1>1. Lots(a) = L /\ IsFiniteSet(L)
  BY PlanFacts DEF Lots, AccountIn
<1>2. ASSUME NEW lot \in L PROVE gives(lot) \in Nat /\ gives(lot) <= amount[lot]
  <2>1. IsFiniteSet(older(lot)) /\ \A l \in older(lot) : amount[l] \in Int
    BY <1>1, FS_Subset
  <2>2. before(lot) \in Int
    <3> HIDE DEF older
    <3> QED
      BY <2>1, SumType
  <2> HIDE DEF before
  <2>3. amount[lot] \in Nat /\ need - before(lot) \in Int
    BY <2>2
  <2> DEFINE most == Max({0, need - before(lot)})
  <2>4. most \in Nat
    BY <2>3, MaxOfTwo
  <2>5. gives(lot) = Min({amount[lot], most})
    OBVIOUS
  <2> HIDE DEF most, gives
  <2>6. Min({amount[lot], most}) = IF amount[lot] <= most THEN amount[lot] ELSE most
    BY <2>3, <2>4, MinOfTwo
  <2> QED
    BY <2>3, <2>4, <2>5, <2>6
<1>3. Oldest(a, amount, need) = [lot \in L |-> gives(lot)]
  BY <1>1 DEF Oldest
<1> HIDE DEF gives, L
<1> QED
  BY <1>2, <1>3 DEF L

\* What a lot has free is counted in naturals.
LEMMA AvailableType ==
  ASSUME NEW p \in Plans, NEW a \in AccountIn(p), NEW lots
  PROVE  Available(a, lots) \in [LotsIn(p) -> Nat]
<1>1. Lots(a) = LotsIn(p) /\ \A lot \in LotsIn(p) : a.lots[lot] \in Int
  BY DEF Lots, AccountIn
<1>2. ASSUME NEW lot \in LotsIn(p) PROVE Max({0, a.lots[lot] - Allocated(a, lot)}) \in Nat
  <2>1. a.lots[lot] - Allocated(a, lot) \in Int
    BY <1>1, OrderSums
  <2> HIDE DEF Allocated
  <2> QED
    BY <2>1, MaxOfTwo
<1> QED
  BY <1>1, <1>2 DEF Available

-----------------------------------------------------------------------------
(***************************************************************************)
(* apply_spot_event.                                                       *)
(***************************************************************************)
\* What booking an execution leaves alone: every order's status, and the base of
\* the other BUYs of a grid.
Books(p, a, b, e) ==
  /\ b \in AccountIn(p)
  /\ \A id \in p.orders :
       /\ b.orders[id].status = a.orders[id].status
       /\ b.orders[id].terminal_reconciled = a.orders[id].terminal_reconciled
       /\ id.purpose = "grid_buy" /\ id # e.id => b.lots[id] <= a.lots[id]

\* The lot of a BUY is the session's; a grid BUY's is its own.
LEMMA GridLot ==
  ASSUME NEW p, NEW id \in p.orders, Buys(id)
  PROVE  /\ LotOf(id) \in LotsIn(p)
         /\ id.purpose = "grid_buy" => LotOf(id) = id
         /\ \A other : other.purpose = "grid_buy" /\ LotOf(id) = other => other = id
<1>1. LotOf(id) \in LotsIn(p)
  BY DEF LotsIn
<1>2. Basket.purpose # "grid_buy"
  BY DEF Basket
<1> QED
  BY <1>1, <1>2 DEF LotOf

\* An account with other balances, lots and orders is an account.
LEMMA AccountFields ==
  ASSUME NEW p, NEW a \in AccountIn(p), NEW b,
         b = [a EXCEPT !.cash = b.cash, !.base = b.base, !.lots = b.lots, !.born = b.born,
                       !.orders = b.orders],
         b.cash \in Int, b.base \in Int, b.lots \in [LotsIn(p) -> Int],
         b.born \in [LotsIn(p) -> Nat], b.orders \in [p.orders -> OrderIn(p)]
  PROVE  b \in AccountIn(p)
<1> DEFINE cash == b.cash
           base == b.base
           lots == b.lots
           born == b.born
           orders == b.orders
<1>1. b = [a EXCEPT !.cash = cash, !.base = base, !.lots = lots, !.born = born,
                    !.orders = orders]
  OBVIOUS
<1>2. /\ cash \in Int /\ base \in Int /\ orders \in [p.orders -> OrderIn(p)]
      /\ lots \in [LotsIn(p) -> Int] /\ born \in [LotsIn(p) -> Nat]
  OBVIOUS
<1> HIDE DEF cash, base, lots, born, orders
<1> QED
  BY <1>1, <1>2 DEF AccountIn

\* A BUY execution.
LEMMA BoughtBooks ==
  ASSUME NEW p \in Plans, NEW a \in AccountIn(p), NEW e \in EventIn(p), Buys(e.id)
  PROVE  Books(p, a, Bought(a, e), e)
<1> DEFINE lot == LotOf(e.id)
           o == a.orders[e.id]
           b == Bought(a, e)
<1>1. e.id \in p.orders /\ e.quote \in Nat /\ e.base \in Nat /\ e.seq \in Nat
  BY DEF EventIn
<1>2. /\ lot \in LotsIn(p)
      /\ \A other \in p.orders : other.purpose = "grid_buy" /\ lot = other => other = e.id
  BY <1>1, GridLot
<1>3. o \in OrderIn(p) /\ o.reserved_quote \in Int
  BY <1>1 DEF AccountIn, OrderIn
<1>4. /\ b = [a EXCEPT !.cash = b.cash, !.base = b.base, !.lots = b.lots, !.born = b.born,
                       !.orders = b.orders]
      /\ b.cash = a.cash - e.quote /\ b.base = a.base + e.base
      /\ b.lots = [a.lots EXCEPT ![lot] = @ + e.base]
      /\ b.born = [a.born EXCEPT ![lot] = IF @ = 0 THEN e.seq ELSE @]
      /\ b.orders = [a.orders EXCEPT ![e.id].reserved_quote = @ - e.quote]
  BY DEF Bought, AccountIn
<1> HIDE DEF b, lot
<1>5. /\ b.cash \in Int /\ b.base \in Int
      /\ b.lots \in [LotsIn(p) -> Int] /\ b.born \in [LotsIn(p) -> Nat]
  BY <1>1, <1>2, <1>4 DEF AccountIn
<1> DEFINE r == [o EXCEPT !.reserved_quote = @ - e.quote]
<1>6. /\ r \in OrderIn(p) /\ r.status = o.status
      /\ r.terminal_reconciled = o.terminal_reconciled
  BY <1>1, <1>3 DEF OrderIn
<1>7. b.orders = [a.orders EXCEPT ![e.id] = r] /\ a.orders \in [p.orders -> OrderIn(p)]
  BY <1>4 DEF AccountIn
<1> HIDE DEF r
<1>8. b.orders \in [p.orders -> OrderIn(p)]
  BY <1>1, <1>6, <1>7
<1>9. ASSUME NEW id \in p.orders
      PROVE  /\ b.orders[id].status = a.orders[id].status
             /\ b.orders[id].terminal_reconciled = a.orders[id].terminal_reconciled
  BY <1>1, <1>6, <1>7
<1>10. ASSUME NEW id \in p.orders, id.purpose = "grid_buy", id # e.id
       PROVE  b.lots[id] <= a.lots[id]
  <2>1. id \in LotsIn(p) /\ id # lot
    BY <1>2, <1>10, GridLot DEF Buys
  <2>2. b.lots[id] = a.lots[id] /\ a.lots[id] \in Int
    BY <1>4, <2>1 DEF AccountIn
  <2> QED
    BY <2>2
<1>11. b \in AccountIn(p)
  BY <1>4, <1>5, <1>8, AccountFields
<1> QED
  BY <1>9, <1>10, <1>11 DEF Books, b

\* A SELL execution.
LEMMA SoldBooks ==
  ASSUME NEW p \in Plans, NEW a \in AccountIn(p), NEW e \in EventIn(p)
  PROVE  Books(p, a, Sold(a, e), e)
<1> DEFINE L == LotsIn(p)
           o == a.orders[e.id]
           given_up == o.allocations
           taken == Oldest(a, given_up, e.base)
           b == Sold(a, e)
<1>1. e.id \in p.orders /\ e.quote \in Nat /\ e.base \in Nat
  BY DEF EventIn
<1>2. o \in OrderIn(p) /\ given_up \in [L -> Nat] /\ o.reserved_base \in Int
  BY <1>1 DEF AccountIn, OrderIn
<1>3. taken \in [L -> Nat] /\ \A lot \in L : taken[lot] <= given_up[lot]
  <2> HIDE DEF given_up
  <2> QED
    BY <1>1, <1>2, OldestType
<1>4. Lots(a) = L /\ a.lots \in [L -> Int] /\ a.orders \in [p.orders -> OrderIn(p)]
  BY DEF Lots, AccountIn
<1> DEFINE left == [lot \in L |-> given_up[lot] - taken[lot]]
           r == [o EXCEPT !.reserved_base = @ - e.base, !.allocations = left]
<1>5. /\ b = [a EXCEPT !.cash = @ + e.quote, !.base = @ - e.base,
                       !.lots = [lot \in L |-> @[lot] - taken[lot]],
                       !.orders[e.id].reserved_base = @ - e.base,
                       !.orders[e.id].allocations = [lot \in L |-> @[lot] - taken[lot]]]
      /\ b.cash = a.cash + e.quote /\ b.base = a.base - e.base
      /\ b.lots = [lot \in L |-> a.lots[lot] - taken[lot]]
      /\ b.orders = [a.orders EXCEPT ![e.id] = r]
  <2>1. b = [a EXCEPT !.cash = @ + e.quote, !.base = @ - e.base,
                      !.lots = [lot \in L |-> @[lot] - taken[lot]],
                      !.orders[e.id].reserved_base = @ - e.base,
                      !.orders[e.id].allocations = [lot \in L |-> @[lot] - taken[lot]]]
    BY <1>4 DEF Sold, taken, given_up
  <2> HIDE DEF b
  <2>2. b.orders = [a.orders EXCEPT ![e.id].reserved_base = @ - e.base,
                           ![e.id].allocations = [lot \in L |-> @[lot] - taken[lot]]]
    BY <2>1 DEF AccountIn
  <2>3. b.orders = [a.orders EXCEPT ![e.id] = r]
    BY <1>1, <1>2, <1>4, <2>2 DEF OrderIn
  <2>4. /\ b.cash = a.cash + e.quote /\ b.base = a.base - e.base
        /\ b.lots = [lot \in L |-> a.lots[lot] - taken[lot]]
    BY <2>1 DEF AccountIn
  <2> QED
    BY <2>1, <2>3, <2>4
<1> HIDE DEF b, taken
<1>6. /\ b.cash \in Int /\ b.base \in Int
  BY <1>1, <1>5 DEF AccountIn
<1>7. ASSUME NEW lot \in L PROVE given_up[lot] - taken[lot] \in Nat
  <2>1. given_up[lot] \in Nat /\ taken[lot] \in Nat /\ taken[lot] <= given_up[lot]
    BY <1>2, <1>3
  <2> HIDE DEF given_up
  <2> QED
    BY <2>1
<1>8. b.lots \in [L -> Int]
  <2>1. \A lot \in L : a.lots[lot] - taken[lot] \in Int
    BY <1>3, <1>4
  <2> QED
    BY <1>5, <2>1
<1>9. /\ r \in OrderIn(p) /\ r.status = o.status
      /\ r.terminal_reconciled = o.terminal_reconciled
  <2>1. left \in [L -> Nat]
    BY <1>7
  <2>2. o.reserved_base - e.base \in Int
    BY <1>1, <1>2
  <2> HIDE DEF left, given_up
  <2> QED
    BY <1>2, <2>1, <2>2 DEF OrderIn
<1> HIDE DEF r
<1>10. b.orders \in [p.orders -> OrderIn(p)]
  BY <1>1, <1>4, <1>5, <1>9
<1>11. ASSUME NEW id \in p.orders
       PROVE  /\ b.orders[id].status = a.orders[id].status
              /\ b.orders[id].terminal_reconciled = a.orders[id].terminal_reconciled
  BY <1>1, <1>4, <1>5, <1>9
<1>12. ASSUME NEW id \in p.orders, id.purpose = "grid_buy" PROVE b.lots[id] <= a.lots[id]
  <2>1. id \in L
    BY <1>12, GridLot DEF Buys
  <2>2. b.lots[id] = a.lots[id] - taken[id] /\ a.lots[id] \in Int /\ taken[id] \in Nat
    BY <1>3, <1>4, <1>5, <2>1
  <2> QED
    BY <2>2
<1>13. b \in AccountIn(p)
  BY <1>5, <1>6, <1>8, <1>10 DEF AccountIn
<1> QED
  BY <1>11, <1>12, <1>13 DEF Books, b

\* An execution, with its fee.
LEMMA AccountedBooks ==
  ASSUME NEW p \in Plans, NEW a \in AccountIn(p), NEW e \in EventIn(p)
  PROVE  Books(p, a, Accounted(a, e), e)
<1> DEFINE b == IF e.size = 0 THEN a ELSE IF Buys(e.id) THEN Bought(a, e) ELSE Sold(a, e)
<1>1. Books(p, a, a, e)
  <2>1. ASSUME NEW id \in p.orders, id.purpose = "grid_buy" PROVE a.lots[id] <= a.lots[id]
    <3>1. id \in LotsIn(p)
      BY <2>1, GridLot DEF Buys
    <3>2. a.lots[id] \in Int
      BY <3>1 DEF AccountIn
    <3> QED
      BY <3>2
  <2> QED
    BY <2>1 DEF Books
<1>2. Books(p, a, b, e)
  BY <1>1, BoughtBooks, SoldBooks
<1> HIDE DEF b
<1>3. b \in AccountIn(p) /\ e.seq \in Nat
  BY <1>2 DEF Books, EventIn
<1> DEFINE n == [b EXCEPT !.unvalued = @ \cup {e.seq}, !.fees = TRUE]
<1>4. n \in AccountIn(p) /\ n.orders = b.orders /\ n.lots = b.lots
  BY <1>3 DEF AccountIn
<1>5. Accounted(a, e) = IF e.third THEN n ELSE b
  BY DEF Accounted, b
<1> HIDE DEF n
<1>6. Books(p, a, n, e)
  BY <1>2, <1>4 DEF Books
<1> QED
  BY <1>2, <1>5, <1>6

-----------------------------------------------------------------------------
(***************************************************************************)
(* What the account takes in keeps what was settled.                       *)
(***************************************************************************)
\* The orders stay known, a settled one stays settled and its lot does not grow,
\* and with every order settled nothing is executed.
Keeps(a, b) ==
  /\ Known(b) = Known(a)
  /\ \A id \in Known(a) :
       a.orders[id].terminal_reconciled =>
         /\ b.orders[id].terminal_reconciled
         /\ id.purpose = "grid_buy" => b.lots[id] <= a.lots[id]
  /\ Unreconciled(a) = {} => b.base = a.base /\ b.events = a.events

\* The orders that were submitted.
LEMMA KnownOrders ==
  ASSUME NEW p, NEW a \in AccountIn(p)
  PROVE  /\ DOMAIN a.orders = p.orders
         /\ Known(a) = {id \in p.orders : a.orders[id].status # "none"}
         /\ \A id \in Known(a) : id \in p.orders /\ a.orders[id] \in OrderIn(p)
         /\ \A id \in Known(a) : id.purpose = "grid_buy" => id \in LotsIn(p) /\ a.lots[id] \in Int
<1>1. DOMAIN a.orders = p.orders /\ \A id \in p.orders : a.orders[id] \in OrderIn(p)
  BY DEF AccountIn
<1>2. ASSUME NEW id \in Known(a), id.purpose = "grid_buy"
      PROVE  id \in LotsIn(p) /\ a.lots[id] \in Int
  <2>1. id \in p.orders /\ Buys(id)
    BY <1>1, <1>2 DEF Known, Buys
  <2>2. id \in LotsIn(p)
    BY <1>2, <2>1, GridLot
  <2> QED
    BY <2>2 DEF AccountIn
<1> QED
  BY <1>1, <1>2 DEF Known

\* The buffer, the refusals and the latches are not part of it.
LEMMA SameOrdersKeep ==
  ASSUME NEW p, NEW a \in AccountIn(p), NEW b, b.orders = a.orders, b.lots = a.lots,
         b.base = a.base, b.events = a.events
  PROVE  Keeps(a, b)
<1>1. ASSUME NEW id \in Known(a), id.purpose = "grid_buy" PROVE b.lots[id] <= a.lots[id]
  <2>1. a.lots[id] \in Int
    BY <1>1, KnownOrders
  <2> QED
    BY <2>1
<1> QED
  BY <1>1 DEF Keeps, Known

LEMMA KeepsTransitive ==
  ASSUME NEW p, NEW a \in AccountIn(p), NEW b \in AccountIn(p), NEW c \in AccountIn(p),
         Keeps(a, b), Keeps(b, c)
  PROVE  Keeps(a, c)
<1>1. Known(b) = Known(a) /\ Known(c) = Known(a)
  BY DEF Keeps
<1>2. ASSUME NEW id \in Known(a), a.orders[id].terminal_reconciled
      PROVE  /\ c.orders[id].terminal_reconciled
             /\ id.purpose = "grid_buy" => c.lots[id] <= a.lots[id]
  <2>1. b.orders[id].terminal_reconciled /\ c.orders[id].terminal_reconciled
    BY <1>1, <1>2 DEF Keeps
  <2>2. ASSUME id.purpose = "grid_buy" PROVE c.lots[id] <= a.lots[id]
    <3>1. a.lots[id] \in Int /\ b.lots[id] \in Int /\ c.lots[id] \in Int
      BY <1>1, <2>2, KnownOrders
    <3>2. b.lots[id] <= a.lots[id] /\ c.lots[id] <= b.lots[id]
      BY <1>1, <1>2, <2>1, <2>2 DEF Keeps
    <3> QED
      BY <3>1, <3>2
  <2> QED
    BY <2>1, <2>2
<1>3. ASSUME Unreconciled(a) = {} PROVE c.base = a.base /\ c.events = a.events
  <2>1. Unreconciled(b) = {}
    BY <1>1, <1>2, <1>3 DEF Keeps, Unreconciled
  <2> QED
    BY <1>3, <2>1 DEF Keeps
<1> QED
  BY <1>1, <1>2, <1>3 DEF Keeps

\* An execution that is recorded is one of an order that is not settled.
LEMMA RecordedKeeps ==
  ASSUME NEW p \in Plans, NEW a \in AccountIn(p), NEW v \in Seq(EventIn(p)), EndInv(a, v),
         NEW n \in 1 .. Len(v), InTurn(a, v[n]), a.orders[v[n].id].status \notin TERMINAL
  PROVE  /\ Recorded(a, v[n]) \in AccountIn(p) /\ EndInv(Recorded(a, v[n]), v)
         /\ Keeps(a, Recorded(a, v[n]))
<1> DEFINE e == v[n]
           id == e.id
           o == a.orders[id]
           b == Accounted(a, e)
           r == Recorded(a, e)
           unknown == UnknownAfter(o, e)
           status == StatusAfter(o, e)
<1>1. e \in EventIn(p) /\ id \in Known(a) /\ ~o.terminal_reconciled
  BY DEF EndInv, InTurn
<1>2. id \in p.orders /\ o \in OrderIn(p) /\ o.status # "none"
  BY <1>1, KnownOrders DEF Known
<1>3. /\ e.size \in Nat /\ e.seq \in Nat
      /\ e.status \in {"accepted", "partial", "unknown"} \cup TERMINAL
  BY <1>1 DEF EventIn
<1>4. Books(p, a, b, e)
  BY <1>1, AccountedBooks
<1> HIDE DEF b
<1>5. /\ unknown \in {"none", "submit", "cancel"} /\ status # "none"
      /\ status \in {"cancel_pending", "accepted", "partial", "unknown"} \cup TERMINAL
      /\ status \in TERMINAL => e.status \in TERMINAL
  BY <1>2, <1>3 DEF UnknownAfter, StatusAfter, OrderIn, TERMINAL
<1>6. /\ b \in AccountIn(p) /\ b.orders \in [p.orders -> OrderIn(p)]
      /\ b.orders[id] \in OrderIn(p) /\ ~b.orders[id].terminal_reconciled
  BY <1>1, <1>2, <1>4 DEF Books, AccountIn
<1> DEFINE q == [b.orders[id] EXCEPT !.filled = @ + e.size, !.unknown = unknown,
                                     !.status = status]
<1>7. r = [b EXCEPT !.orders[id].filled = @ + e.size, !.orders[id].unknown = unknown,
                    !.orders[id].status = status,
                    !.reconciliation = @ \/ e.status = "unknown",
                    !.seq = e.seq, !.events = @ \cup {e.seq}]
  BY DEF Recorded, b
<1> HIDE DEF r, unknown, status
<1>8. r.orders = [b.orders EXCEPT ![id] = q] /\ r.lots = b.lots
  <2>1. r.orders = [b.orders EXCEPT ![id].filled = @ + e.size, ![id].unknown = unknown,
                                    ![id].status = status]
    BY <1>6, <1>7 DEF AccountIn
  <2>2. r.orders = [b.orders EXCEPT ![id] = q]
    BY <1>2, <1>6, <2>1 DEF OrderIn
  <2> QED
    BY <1>6, <1>7, <2>2 DEF AccountIn
<1>9. q \in OrderIn(p) /\ q.status = status /\ ~q.terminal_reconciled
  <2> DEFINE s == b.orders[id]
  <2>1. s \in OrderIn(p) /\ s.filled + e.size \in Int /\ ~s.terminal_reconciled
    BY <1>3, <1>6 DEF OrderIn
  <2>2. q = [s EXCEPT !.filled = @ + e.size, !.unknown = unknown, !.status = status]
    OBVIOUS
  <2> HIDE DEF q, s
  <2> QED
    BY <1>5, <2>1, <2>2 DEF OrderIn
<1> HIDE DEF q
<1>10. r.orders \in [p.orders -> OrderIn(p)] /\ r.orders[id] = q
  BY <1>2, <1>6, <1>8, <1>9
<1>11. r \in AccountIn(p)
  BY <1>3, <1>6, <1>7, <1>10 DEF AccountIn
<1>12. \A i \in p.orders \ {id} :
         /\ r.orders[i].status = a.orders[i].status
         /\ r.orders[i].terminal_reconciled = a.orders[i].terminal_reconciled
         /\ i.purpose = "grid_buy" => r.lots[i] <= a.lots[i]
  BY <1>2, <1>4, <1>6, <1>8 DEF Books
<1>13. Known(r) = Known(a)
  <2>1. /\ Known(r) = {i \in p.orders : r.orders[i].status # "none"}
        /\ Known(a) = {i \in p.orders : a.orders[i].status # "none"}
    BY <1>11, KnownOrders
  <2> QED
    BY <1>2, <1>5, <1>9, <1>10, <1>12, <2>1
<1>14. Keeps(a, r)
  <2>1. ASSUME NEW i \in Known(a), a.orders[i].terminal_reconciled
        PROVE  /\ r.orders[i].terminal_reconciled
               /\ i.purpose = "grid_buy" => r.lots[i] <= a.lots[i]
    <3>1. i \in p.orders \ {id}
      BY <1>1, <2>1, KnownOrders
    <3> QED
      BY <1>12, <2>1, <3>1
  <2>2. Unreconciled(a) # {}
    BY <1>1 DEF Unreconciled
  <2> QED
    BY <1>13, <2>1, <2>2 DEF Keeps
<1>15. EndInv(r, v)
  <2>1. \A m \in 1 .. Len(v) : v[m].id \in Known(r)
    BY <1>13 DEF EndInv
  <2>2. ASSUME NEW i \in Known(r), r.orders[i].terminal_reconciled
        PROVE  r.orders[i].status \in TERMINAL
    <3>1. i \in Known(a) /\ i \in p.orders \ {id}
      BY <1>9, <1>10, <1>13, <2>2, KnownOrders
    <3> QED
      BY <1>12, <2>2, <3>1 DEF EndInv
  <2>3. ASSUME NEW i \in Known(r), r.orders[i].status \in TERMINAL PROVE Done(v, i)
    <3>1. i \in Known(a) /\ i \in p.orders
      BY <1>13, KnownOrders
    <3>2. CASE i = id
      <4>1. e.status \in TERMINAL
        BY <1>5, <1>9, <1>10, <2>3, <3>2
      <4> QED
        BY <3>2, <4>1 DEF Done
    <3>3. CASE i # id
      BY <1>12, <2>3, <3>1, <3>3 DEF EndInv
    <3> QED
      BY <3>2, <3>3
  <2> QED
    BY <2>1, <2>2, <2>3 DEF EndInv
<1> QED
  BY <1>11, <1>14, <1>15 DEF r

\* An account taken in: typed, its settled orders have ended, and it keeps what was settled.
Takes(p, a, b, v) == b \in AccountIn(p) /\ EndInv(b, v) /\ Keeps(a, b)

\* The buffer, the refusals and the latches are not part of it.
LEMMA SameOrdersTake ==
  ASSUME NEW p, NEW a \in AccountIn(p), NEW v, EndInv(a, v), NEW b \in AccountIn(p),
         b.orders = a.orders, b.lots = a.lots, b.base = a.base, b.events = a.events
  PROVE  Takes(p, a, b, v)
<1>1. Keeps(a, b)
  BY SameOrdersKeep
<1>2. EndInv(b, v)
  BY DEF EndInv, Known
<1> QED
  BY <1>1, <1>2 DEF Takes

\* apply_spot_event, and one event of a replay.
LEMMA EventTakes ==
  ASSUME NEW p \in Plans, NEW a \in AccountIn(p), NEW v \in Seq(EventIn(p)), EndInv(a, v),
         NEW n \in 1 .. Len(v)
  PROVE  /\ ~Refused(a, v[n]) => Takes(p, a, ApplyEvent(a, v[n]), v)
         /\ Takes(p, a, ReplayOne(a, v[n]), v)
<1> DEFINE e == v[n]
           buffers == [a EXCEPT !.buffered = @ \cup {e}, !.reconciliation = TRUE]
           refuses == [a EXCEPT !.buffered = @ \cup {e}]
           quarantines == [a EXCEPT !.quarantine = @ \cup {e}, !.reconciliation = TRUE]
<1>1. e \in EventIn(p)
  OBVIOUS
<1>2. Takes(p, a, a, v)
  BY SameOrdersTake
<1>3. /\ buffers \in AccountIn(p) /\ buffers.orders = a.orders /\ buffers.lots = a.lots
      /\ buffers.base = a.base /\ buffers.events = a.events
  BY <1>1 DEF AccountIn
<1>4. /\ refuses \in AccountIn(p) /\ refuses.orders = a.orders /\ refuses.lots = a.lots
      /\ refuses.base = a.base /\ refuses.events = a.events
  BY <1>1 DEF AccountIn
<1>5. /\ quarantines \in AccountIn(p) /\ quarantines.orders = a.orders
      /\ quarantines.lots = a.lots /\ quarantines.base = a.base /\ quarantines.events = a.events
  BY <1>1 DEF AccountIn
<1>6. /\ ApplyEvent(a, e) \in {a, buffers, quarantines, Recorded(a, e)}
      /\ ApplyEvent(a, e) = Recorded(a, e) =>
           \/ ApplyEvent(a, e) \in {a, buffers, quarantines}
           \/ InTurn(a, e) /\ a.orders[e.id].status \notin TERMINAL
      /\ ReplayOne(a, e) \in {refuses, ApplyEvent(a, e)}
  BY DEF ApplyEvent, Refused, ReplayOne
<1> HIDE DEF buffers, refuses, quarantines
<1>7. Takes(p, a, buffers, v) /\ Takes(p, a, refuses, v) /\ Takes(p, a, quarantines, v)
  BY <1>3, <1>4, <1>5, SameOrdersTake
<1>8. ASSUME InTurn(a, e), a.orders[e.id].status \notin TERMINAL
      PROVE  Takes(p, a, Recorded(a, e), v)
  BY <1>8, RecordedKeeps DEF Takes
<1>9. Takes(p, a, ApplyEvent(a, e), v)
  BY <1>2, <1>6, <1>7, <1>8
<1> QED
  BY <1>6, <1>7, <1>9

-----------------------------------------------------------------------------
(***************************************************************************)
(* Recursive functions: a state after each step, when every step stays in  *)
(* a set.                                                                  *)
(***************************************************************************)
AreSteps(S, N, start, F, g) ==
  g \in [0 .. N -> S] /\ \A n \in 0 .. N : g[n] = IF n = 0 THEN start ELSE F[n][g[n - 1]]
Stepper(S, N, F) == F \in [1 .. N -> [S -> S]]

\* There is such a function.
LEMMA StepsExist ==
  ASSUME NEW S, NEW N \in Nat, NEW start \in S, NEW F, Stepper(S, N, F)
  PROVE  \E g : AreSteps(S, N, start, F, g)
<1> DEFINE Steps(M, g) == \A n \in 0 .. M : g[n] = IF n = 0 THEN start ELSE F[n][g[n - 1]]
           P == {M \in Nat : M <= N => \E g \in [0 .. M -> S] : Steps(M, g)}
<1>1. 0 \in P
  <2> DEFINE g == [n \in 0 .. 0 |-> start]
  <2>1. g \in [0 .. 0 -> S] /\ Steps(0, g)
    OBVIOUS
  <2> HIDE DEF g
  <2> QED
    BY <2>1
<1>2. ASSUME NEW M \in P PROVE M + 1 \in P
  <2> SUFFICES ASSUME M + 1 <= N PROVE \E g \in [0 .. M + 1 -> S] : Steps(M + 1, g)
    OBVIOUS
  <2>1. PICK g \in [0 .. M -> S] : Steps(M, g)
    BY DEF P
  <2> DEFINE h == [n \in 0 .. M + 1 |-> IF n <= M THEN g[n] ELSE F[M + 1][g[M]]]
  <2>2. M \in Nat /\ M + 1 \in 1 .. N /\ g[M] \in S
    BY <2>1
  <2>3. F[M + 1][g[M]] \in S
    BY <2>2 DEF Stepper
  <2>4. h \in [0 .. M + 1 -> S]
    BY <2>1, <2>2, <2>3
  <2>5. ASSUME NEW n \in 0 .. M + 1
        PROVE  h[n] = IF n = 0 THEN start ELSE F[n][h[n - 1]]
    <3>1. CASE n = M + 1
      <4>1. n # 0 /\ n - 1 = M /\ ~(n <= M) /\ M \in 0 .. M + 1
        BY <2>2, <3>1
      <4> QED
        BY <3>1, <4>1
    <3>2. CASE n # M + 1
      <4>1. n \in 0 .. M /\ n <= M
        BY <2>2, <3>2
      <4>2. n # 0 => n - 1 \in 0 .. M + 1 /\ n - 1 <= M
        BY <2>2, <4>1
      <4>3. h[n] = g[n] /\ (n # 0 => h[n - 1] = g[n - 1])
        BY <4>1, <4>2
      <4> HIDE DEF h
      <4> QED
        BY <2>1, <4>1, <4>3
    <3> QED
      BY <3>1, <3>2
  <2> HIDE DEF h
  <2> QED
    BY <2>4, <2>5
<1>3. P = Nat
  <2> HIDE DEF P
  <2>1. P \subseteq Nat
    BY DEF P
  <2> QED
    BY <1>1, <1>2, <2>1, InductionOnNat
<1>4. PICK g \in [0 .. N -> S] : Steps(N, g)
  <2>1. N \in P
    <3> HIDE DEF P
    <3> QED
      BY <1>3
  <2>2. N <= N
    OBVIOUS
  <2> QED
    BY <2>1, <2>2
<1> QED
  BY <1>4 DEF AreSteps

\* And it ends in the set.
LEMMA StepsStay ==
  ASSUME NEW S, NEW N \in Nat, NEW g, g[0] \in S, \A n \in 1 .. N : g[n - 1] \in S => g[n] \in S
  PROVE  g[N] \in S
<1> DEFINE P == {n \in Nat : n <= N => g[n] \in S}
<1>1. 0 \in P
  OBVIOUS
<1>2. ASSUME NEW n \in P PROVE n + 1 \in P
  <2> SUFFICES ASSUME n + 1 <= N PROVE g[n + 1] \in S
    OBVIOUS
  <2>1. n + 1 \in 1 .. N /\ (n + 1) - 1 = n /\ n <= N
    OBVIOUS
  <2> QED
    BY <2>1
<1>3. P = Nat
  <2> HIDE DEF P
  <2>1. P \subseteq Nat
    BY DEF P
  <2> QED
    BY <1>1, <1>2, <2>1, InductionOnNat
<1> QED
  BY <1>3

-----------------------------------------------------------------------------
(***************************************************************************)
(* reconcile_spot_state.                                                   *)
(***************************************************************************)
LEMMA TakesTransitive ==
  ASSUME NEW p, NEW a \in AccountIn(p), NEW b, NEW c, NEW v, Takes(p, a, b, v), Takes(p, b, c, v)
  PROVE  Takes(p, a, c, v)
BY KeepsTransitive DEF Takes

\* A replay applies the report's events one by one.
LEMMA ReplayedTakes ==
  ASSUME NEW p \in Plans, NEW a \in AccountIn(p), venue \in Seq(EventIn(p)), EndInv(a, venue),
         NEW k
  PROVE  Takes(p, a, Replayed(a, k), venue)
<1> DEFINE N == Len(venue)
           S == {b \in AccountIn(p) : Takes(p, a, b, venue)}
           start == [a EXCEPT !.buffered = {}]
           step(b, n) == IF InReport(a, k, venue[n]) THEN ReplayOne(b, venue[n]) ELSE b
           F == [n \in 1 .. N |-> [b \in S |-> step(b, n)]]
           G(g) == g = [n \in 0 .. N |-> IF n = 0 THEN start
                                          ELSE IF InReport(a, k, venue[n])
                                                 THEN ReplayOne(g[n - 1], venue[n])
                                                 ELSE g[n - 1]]
           h == CHOOSE g : G(g)
<1>1. N \in Nat
  OBVIOUS
<1>2. start \in S
  <2>1. /\ start \in AccountIn(p) /\ start.orders = a.orders /\ start.lots = a.lots
        /\ start.base = a.base /\ start.events = a.events
    BY DEF AccountIn
  <2> HIDE DEF start
  <2> QED
    BY <2>1, SameOrdersTake
<1>3. ASSUME NEW n \in 1 .. N, NEW b \in S PROVE step(b, n) \in S
  <2>1. b \in AccountIn(p) /\ EndInv(b, venue) /\ Takes(p, a, b, venue)
    BY <1>3 DEF Takes
  <2>2. Takes(p, b, ReplayOne(b, venue[n]), venue)
    BY <2>1, EventTakes
  <2>3. Takes(p, a, ReplayOne(b, venue[n]), venue)
    BY <2>1, <2>2, TakesTransitive
  <2> QED
    BY <2>3, <1>3 DEF Takes
<1>4. Stepper(S, N, F)
  <2> HIDE DEF S, step
  <2> QED
    BY <1>3 DEF Stepper
<1>5. PICK g : AreSteps(S, N, start, F, g)
  <2> HIDE DEF N, S, start, F
  <2> QED
    BY <1>1, <1>2, <1>4, StepsExist
<1>6. G(g)
  <2>1. ASSUME NEW n \in 0 .. N, n # 0 PROVE F[n][g[n - 1]] = step(g[n - 1], n)
    <3>1. n \in 1 .. N /\ n - 1 \in 0 .. N
      BY <2>1, <1>1
    <3>2. g[n - 1] \in S
      BY <1>5, <3>1 DEF AreSteps
    <3> HIDE DEF S, step
    <3> QED
      BY <3>1, <3>2
  <2> DEFINE e(n) == IF n = 0 THEN start ELSE step(g[n - 1], n)
  <2>2. \A n \in 0 .. N : g[n] = e(n)
    BY <1>5, <2>1 DEF AreSteps
  <2> HIDE DEF e, N
  <2>3. g = [n \in 0 .. N |-> e(n)]
    BY <1>5, <2>2 DEF AreSteps
  <2> QED
    BY <2>3 DEF e, N
<1>7. G(h)
  <2> HIDE DEF G
  <2> QED
    BY <1>6
<1>8. Replayed(a, k) = h[N]
  BY DEF Replayed
<1> HIDE DEF h
<1>9. h[0] \in S /\ \A n \in 1 .. N : h[n - 1] \in S => h[n] \in S
  <2>1. h[0] = start
    BY <1>1, <1>7
  <2>2. ASSUME NEW n \in 1 .. N PROVE h[n] = step(h[n - 1], n)
    <3> DEFINE e(m) == IF m = 0 THEN start ELSE step(h[m - 1], m)
    <3>1. h = [m \in 0 .. N |-> e(m)]
      BY <1>7
    <3>2. n \in 0 .. N /\ n # 0
      BY <1>1
    <3> HIDE DEF e, N
    <3>3. h[n] = e(n)
      BY <3>1, <3>2
    <3> HIDE DEF step
    <3> QED
      BY <3>2, <3>3 DEF e
  <2> HIDE DEF S, step
  <2> QED
    BY <1>2, <1>3, <2>1, <2>2
<1>10. h[N] \in S
  <2> HIDE DEF N, S
  <2> QED
    BY <1>1, <1>9, StepsStay
<1> QED
  BY <1>8, <1>10

\* A report settles the orders it finds ended.
LEMMA ReleasedOrder ==
  ASSUME NEW p, NEW o \in OrderIn(p)
  PROVE  /\ Released(o) \in OrderIn(p) /\ Released(o).status = o.status
         /\ o.terminal_reconciled => Released(o).terminal_reconciled
         /\ Released(o).terminal_reconciled => o.terminal_reconciled \/ o.status \in TERMINAL
<1> DEFINE L == LotsIn(p)
           none == Nothing(L)
           zero == 0
           r == [o EXCEPT !.reserved_quote = zero, !.reserved_base = zero, !.allocations = none,
                          !.terminal_reconciled = TRUE]
<1>1. o.allocations \in [L -> Nat] /\ DOMAIN o.allocations = L /\ none \in [L -> Nat]
  BY DEF OrderIn, Nothing
<1>2. Released(o) = IF o.status \in TERMINAL THEN r ELSE o
  BY <1>1 DEF Released
<1>3. r.status = o.status /\ r.terminal_reconciled
  BY DEF OrderIn
<1>5. zero \in Int
  OBVIOUS
<1> HIDE DEF none, zero
<1>4. r \in OrderIn(p)
  BY <1>1, <1>5 DEF OrderIn
<1> HIDE DEF r
<1> QED
  BY <1>2, <1>3, <1>4

\* reconcile_spot_state, its report found to agree.
LEMMA ReconciledTakes ==
  ASSUME NEW p, NEW a \in AccountIn(p), NEW v, EndInv(a, v), NEW valued
  PROVE  Takes(p, a, Reconciled(a, valued), v)
<1> DEFINE b == Reconciled(a, valued)
           left == a.unvalued \ valued
<1>1. a.orders \in [p.orders -> OrderIn(p)] /\ DOMAIN a.orders = p.orders /\ left \in SUBSET Nat
  BY DEF AccountIn
<1>2. ASSUME NEW o \in OrderIn(p)
      PROVE  /\ Released(o) \in OrderIn(p) /\ Released(o).status = o.status
             /\ o.terminal_reconciled => Released(o).terminal_reconciled
             /\ Released(o).terminal_reconciled => o.terminal_reconciled \/ o.status \in TERMINAL
  BY <1>2, ReleasedOrder
<1> DEFINE orders == [id \in p.orders |-> Released(a.orders[id])]
<1>3. /\ b = [a EXCEPT !.orders = orders, !.unvalued = left, !.fees = (@ /\ left # {}),
                       !.reconciliation = FALSE]
  BY <1>1 DEF Reconciled
<1>4. orders \in [p.orders -> OrderIn(p)]
  BY <1>1, <1>2
<1> HIDE DEF b, left
<1>5. /\ b \in AccountIn(p) /\ b.orders = orders /\ b.lots = a.lots /\ b.base = a.base
      /\ b.events = a.events
  <2> HIDE DEF orders
  <2> DEFINE fees == a.fees /\ left # {}
  <2>1. fees \in BOOLEAN
    BY DEF AccountIn
  <2>2. b = [a EXCEPT !.orders = orders, !.unvalued = left, !.fees = fees,
                       !.reconciliation = FALSE]
    BY <1>3
  <2> HIDE DEF fees
  <2> QED
    BY <1>1, <1>4, <2>1, <2>2 DEF AccountIn
<1>6. \A id \in p.orders : /\ a.orders[id] \in OrderIn(p)
                           /\ b.orders[id] = Released(a.orders[id])
  BY <1>1, <1>5
<1>7. \A id \in p.orders :
        /\ b.orders[id].status = a.orders[id].status
        /\ a.orders[id].terminal_reconciled => b.orders[id].terminal_reconciled
        /\ b.orders[id].terminal_reconciled =>
             a.orders[id].terminal_reconciled \/ a.orders[id].status \in TERMINAL
  BY <1>2, <1>6
<1>8. /\ Known(b) = {i \in p.orders : b.orders[i].status # "none"}
      /\ Known(a) = {i \in p.orders : a.orders[i].status # "none"}
      /\ \A id \in Known(a) : id.purpose = "grid_buy" => a.lots[id] \in Int
  BY <1>5, KnownOrders
<1>9. Known(b) = Known(a)
  BY <1>7, <1>8
<1>10. Keeps(a, b)
  <2>1. \A id \in Known(a) : id.purpose = "grid_buy" => b.lots[id] <= a.lots[id]
    BY <1>5, <1>8
  <2> QED
    BY <1>5, <1>7, <1>8, <1>9, <2>1 DEF Keeps
<1>11. EndInv(b, v)
  BY <1>7, <1>8, <1>9 DEF EndInv
<1> QED
  BY <1>5, <1>10, <1>11 DEF Takes, b

-----------------------------------------------------------------------------
(***************************************************************************)
(* The invariant, once the account has taken something in.                 *)
(***************************************************************************)
LEMMA TakesInv ==
  ASSUME NEW p, NEW a, NEW v, NEW c, StageInv(p, a, v, c), NEW b, Takes(p, a, b, v)
  PROVE  StageInv(p, b, v, c)
<1>1. a \in AccountIn(p) /\ b \in AccountIn(p) /\ EndInv(b, v) /\ Keeps(a, b)
  BY DEF StageInv, Takes
<1>2. /\ Known(b) = Known(a)
      /\ \A id \in Known(a) :
           a.orders[id].terminal_reconciled => b.orders[id].terminal_reconciled
  BY <1>1 DEF Keeps
<1>3. GenerationInv(b) /\ CycleInv(b, c)
  BY <1>2 DEF StageInv, GenerationInv, CycleInv
<1>4. CloseInv(b, c)
  <2>1. BarrierPassed(a) => BarrierPassed(b)
    BY <1>2 DEF BarrierPassed, Others
  <2> QED
    BY <1>2, <2>1 DEF StageInv, CloseInv
<1>5. PhaseInv(p, b, c)
  <2>1. Unreconciled(a) = {} => Unreconciled(b) = {} /\ b.base = a.base
    BY <1>1, <1>2 DEF Unreconciled, Keeps
  <2>2. Known(a) = {} => Unreconciled(a) = {}
    BY DEF Unreconciled
  <2> QED
    BY <1>2, <2>1, <2>2 DEF StageInv, PhaseInv, Flat
<1>6. SlotInv(p, b, c)
  <2> SUFFICES ASSUME p.recipe = "grid", NEW id \in Known(b), NEW old \in Known(b),
                      id.purpose = "grid_buy", SameSlot(id, old), old.gen < id.gen
               PROVE  b.lots[old] < p.min
    BY <1>2 DEF StageInv, SlotInv
  <2>1. id \in Known(a) /\ old \in Known(a) /\ old.purpose = "grid_buy"
    BY <1>2 DEF SameSlot
  <2>2. a.lots[old] < p.min
    BY <2>1 DEF StageInv, SlotInv
  <2>3. id # old
    <3>1. old.gen \in Nat
      BY <1>1, <2>1, KnownOrders, PlanFacts DEF StageInv
    <3> QED
      BY <3>1
  <2>4. a.orders[old].terminal_reconciled
    BY <2>1, <2>3 DEF StageInv, GenerationInv
  <2>5. b.lots[old] <= a.lots[old]
    BY <1>1, <2>1, <2>4 DEF Keeps
  <2>6. a.lots[old] \in Int /\ b.lots[old] \in Int /\ p.min \in Nat
    BY <1>1, <2>1, KnownOrders, PlanFacts DEF StageInv
  <2> QED
    BY <2>2, <2>5, <2>6
<1> QED
  BY <1>1, <1>3, <1>4, <1>5, <1>6 DEF StageInv

\* A controller state that differs in neither its cycle, phase nor action.
LEMMA SameControlInv ==
  ASSUME NEW p, NEW a, NEW v, NEW c, StageInv(p, a, v, c), NEW e, IsControl(e),
         e.cycle = c.cycle, e.phase = c.phase, e.action = c.action
  PROVE  StageInv(p, a, v, e)
BY DEF StageInv, CycleInv, CloseInv, PhaseInv, SlotInv

\* A refused start is kept apart from a fee without a value.
RefusedStart(p, c) ==
  c.phase = "complete" /\ c.action = "none" /\ p.recipe = "dca" =>
    c.refusal \notin {"none", "unvalued_fee"}

\* The account's part of an observation changes the refusal and the ended slots only.
LEMMA NotedFields ==
  ASSUME IsControl(ctl), NEW b, NEW log
  PROVE  /\ IsControl(Noted(b, log))
         /\ \A f \in {"cycle", "phase", "action", "reason", "grid", "last_cycle_bar"} :
              Noted(b, log)[f] = ctl[f]
         /\ Noted(b, log).refusal = FeeRefusal(b, log)
<1> DEFINE ended == [s \in DOMAIN ctl.ended |-> IF s \in EndedSlots(b) THEN bar ELSE ctl.ended[s]]
           refusal == FeeRefusal(b, log)
           c == [ctl EXCEPT !.refusal = refusal, !.ended = ended]
<1>1. Noted(b, log) = c
  BY DEF Noted, IsControl
<1> HIDE DEF ended, refusal
<1>2. IsControl(c) /\ c.refusal = refusal
  BY DEF IsControl
<1>3. \A f \in {"cycle", "phase", "action", "reason", "grid", "last_cycle_bar"} : c[f] = ctl[f]
  BY DEF IsControl
<1> QED
  BY <1>1, <1>2, <1>3 DEF refusal

\* The observation of an execution or of a report.
LEMMA NotedInv ==
  ASSUME NEW p, RecipeInv(p, acct, venue, ctl), NEW b, Takes(p, acct, b, venue), NEW log
  PROVE  /\ StageInv(p, b, venue, Noted(b, log)) /\ RefusedStart(p, Noted(b, log))
         /\ Final(ctl) => Final(Noted(b, log))
<1> DEFINE c == Noted(b, log)
<1>1. StageInv(p, b, venue, ctl) /\ IsControl(ctl)
  BY TakesInv DEF RecipeInv, StageInv
<1>2. /\ IsControl(c) /\ c.cycle = ctl.cycle /\ c.phase = ctl.phase /\ c.action = ctl.action
      /\ c.reason = ctl.reason /\ c.refusal = FeeRefusal(b, log)
  BY <1>1, NotedFields
<1> HIDE DEF c
<1>3. StageInv(p, b, venue, c)
  BY <1>1, <1>2, SameControlInv
<1>4. RefusedStart(p, c)
  <2> SUFFICES ASSUME c.phase = "complete", c.action = "none", p.recipe = "dca"
               PROVE  c.refusal \notin {"none", "unvalued_fee"}
    BY DEF RefusedStart
  <2>1. ctl.refusal \notin {"none", "unvalued_fee"} /\ Unreconciled(acct) = {}
    BY <1>2 DEF RecipeInv, StageInv, RestInv, PhaseInv, Flat
  <2>2. b.events = acct.events
    BY <2>1 DEF Takes, Keeps
  <2> QED
    BY <1>2, <2>1, <2>2 DEF FeeRefusal
<1> QED
  BY <1>2, <1>3, <1>4 DEF c, Final

-----------------------------------------------------------------------------
(***************************************************************************)
(* A decision under way.                                                   *)
(***************************************************************************)
\* What the controller may ask for.  A close only behind the barrier, and a
\* submission at all only in a running cycle.  A BUY or a SELL of a grid only
\* when the orders of its slot are settled, and a BUY when they left dust.
SlotReady(p, a, id) ==
  /\ p.recipe = "grid"
  /\ \A old \in Known(a) :
       old.slot = id.slot =>
         /\ a.orders[old].terminal_reconciled
         /\ id.purpose = "grid_buy" /\ old.purpose = "grid_buy" => a.lots[old] < p.min

LawfulSubmit(p, a, c, i) ==
  /\ i.size \in Int /\ i.id.cycle = c.cycle /\ c.phase \notin {"idle", "complete"}
  /\ i.id.purpose = "flatten" => c.action # "none" /\ BarrierPassed(a)
  /\ p.recipe = "grid" => i.id.purpose \in GridPurposes
  /\ i.id.purpose \in {"grid_buy", "grid_sell"} => SlotReady(p, a, i.id)

LawfulIntent(p, a, c, i) ==
  \/ i.kind = "cancel" /\ i.command \in {"terminal", "target_replace"}
  \/ i.kind = "submit" /\ LawfulSubmit(p, a, c, i)

Lawful(p, a, c, out) ==
  \E S : out \in Seq(S) /\ \A i \in S : LawfulIntent(p, a, c, i)

DecisionFields ==
  {"kind", "a", "c", "out", "raised", "bar", "mark", "start", "below", "event"}

\* The invariant of a decision under way.
Decides(p, v, d) ==
  /\ DOMAIN d = DecisionFields
  /\ StageInv(p, d.a, v, d.c) /\ RefusedStart(p, d.c) /\ Lawful(p, d.a, d.c, d.out)
  /\ IsFiniteSet(d.below)

\* A controller that has finished its cycle can only rest on an account it may act on.
Rests(d) == d.c.phase = "complete" /\ d.c.action # "none" => ~Halted(d.a)

\* The account is left alone but for the reserves of the cycle, a cycle starts
\* from nothing at a close, and an operator's flatten stays in force.
Tuned(a, b) == \E i, j \in Int : b = [a EXCEPT !.cycle = i, !.cleanup = j]
Follows(d, e) ==
  /\ Tuned(d.a, e.a)
  /\ \/ e.c.cycle = d.c.cycle
     \/ e.c.cycle = d.c.cycle + 1 /\ Flat(d.a) /\ d.kind = "closed_bar"
  /\ Final(d.c) => Final(e.c)

\* A decision that goes on in the same cycle.
Becomes(p, v, d, e) ==
  Decides(p, v, e) /\ Follows(d, e) /\ e.c.cycle = d.c.cycle /\ e.kind = d.kind

\* Other reserves of the cycle leave the rest of the account alone.
LEMMA TunedFields ==
  ASSUME NEW p, NEW a \in AccountIn(p), NEW b, Tuned(a, b)
  PROVE  /\ b \in AccountIn(p) /\ b.orders = a.orders /\ b.lots = a.lots /\ b.base = a.base
         /\ b.reconciliation = a.reconciliation /\ b.quarantine = a.quarantine
         /\ b.events = a.events /\ b.seq = a.seq
<1>1. PICK i \in Int, j \in Int : b = [a EXCEPT !.cycle = i, !.cleanup = j]
  BY DEF Tuned
<1> QED
  BY <1>1 DEF AccountIn

LEMMA SelfTuned ==
  ASSUME NEW p, NEW a \in AccountIn(p)
  PROVE  Tuned(a, a)
<1>1. /\ a = [a EXCEPT !.cycle = a.cycle, !.cleanup = a.cleanup]
      /\ a.cycle \in Int /\ a.cleanup \in Int
  BY DEF AccountIn
<1> QED
  BY <1>1 DEF Tuned

LEMMA TunedTwice ==
  ASSUME NEW p, NEW a \in AccountIn(p), NEW b, NEW c, Tuned(a, b), Tuned(b, c)
  PROVE  Tuned(a, c)
<1>1. PICK i \in Int, j \in Int : b = [a EXCEPT !.cycle = i, !.cleanup = j]
  BY DEF Tuned
<1>2. PICK k \in Int, l \in Int : c = [b EXCEPT !.cycle = k, !.cleanup = l]
  BY DEF Tuned
<1>3. c = [a EXCEPT !.cycle = k, !.cleanup = l]
  BY <1>1, <1>2 DEF AccountIn
<1> QED
  BY <1>3 DEF Tuned

\* The reserves of the cycle are no part of the invariant, nor of what is lawful.
LEMMA TunedInv ==
  ASSUME NEW p, NEW v, NEW a, NEW b, NEW c, StageInv(p, a, v, c), Tuned(a, b)
  PROVE  /\ StageInv(p, b, v, c) /\ (Halted(b) <=> Halted(a)) /\ (Flat(b) <=> Flat(a))
         /\ \A i : LawfulIntent(p, b, c, i) <=> LawfulIntent(p, a, c, i)
<1>1. /\ b \in AccountIn(p) /\ b.orders = a.orders /\ b.lots = a.lots /\ b.base = a.base
      /\ b.reconciliation = a.reconciliation /\ b.quarantine = a.quarantine
  BY TunedFields DEF StageInv
<1>2. /\ Known(b) = Known(a) /\ Unreconciled(b) = Unreconciled(a)
      /\ (BarrierPassed(b) <=> BarrierPassed(a))
  BY <1>1 DEF Known, Unreconciled, BarrierPassed, Others
<1>3. EndInv(b, v) /\ GenerationInv(b) /\ CycleInv(b, c) /\ CloseInv(b, c)
  BY <1>1, <1>2 DEF StageInv, EndInv, GenerationInv, CycleInv, CloseInv
<1>4. PhaseInv(p, b, c) /\ SlotInv(p, b, c)
  BY <1>1, <1>2 DEF StageInv, PhaseInv, Flat, SlotInv
<1>5. StageInv(p, b, v, c)
  BY <1>1, <1>3, <1>4 DEF StageInv
<1>6. (Halted(b) <=> Halted(a)) /\ (Flat(b) <=> Flat(a))
  BY <1>1, <1>2 DEF Halted, Flat
<1>7. ASSUME NEW i PROVE LawfulIntent(p, b, c, i) <=> LawfulIntent(p, a, c, i)
  <2>1. SlotReady(p, b, i.id) <=> SlotReady(p, a, i.id)
    BY <1>1, <1>2 DEF SlotReady
  <2> QED
    BY <1>2, <2>1 DEF LawfulIntent, LawfulSubmit
<1> QED
  BY <1>5, <1>6, <1>7

\* Decisions one after the other.
LEMMA FollowsItself ==
  ASSUME NEW p, NEW v, NEW d, StageInv(p, d.a, v, d.c)
  PROVE  Follows(d, d)
BY SelfTuned DEF Follows, StageInv

LEMMA FollowsTwice ==
  ASSUME NEW p, NEW v, NEW d, StageInv(p, d.a, v, d.c), NEW e, NEW f, Follows(d, e), Follows(e, f),
         e.c.cycle = d.c.cycle, e.kind = d.kind
  PROVE  Follows(d, f)
<1>1. d.a \in AccountIn(p) /\ Tuned(d.a, f.a)
  BY TunedTwice DEF Follows, StageInv
<1>2. Flat(e.a) => Flat(d.a)
  BY TunedInv DEF Follows
<1> QED
  BY <1>1, <1>2 DEF Follows

\* Intents one after the other.
LEMMA LawfulEmpty == ASSUME NEW p, NEW a, NEW c PROVE Lawful(p, a, c, <<>>)
<1> DEFINE S == {}
<1>1. <<>> \in Seq(S) /\ \A i \in S : LawfulIntent(p, a, c, i)
  OBVIOUS
<1> HIDE DEF S
<1> QED
  BY <1>1 DEF Lawful

LEMMA LawfulJoin ==
  ASSUME NEW p, NEW a, NEW c, NEW out, NEW more, Lawful(p, a, c, out), Lawful(p, a, c, more)
  PROVE  Lawful(p, a, c, out \o more)
<1>1. PICK S : out \in Seq(S) /\ \A i \in S : LawfulIntent(p, a, c, i)
  BY DEF Lawful
<1>2. PICK T : more \in Seq(T) /\ \A i \in T : LawfulIntent(p, a, c, i)
  BY DEF Lawful
<1>3. out \in Seq(S \cup T) /\ more \in Seq(S \cup T)
  BY <1>1, <1>2
<1>4. out \o more \in Seq(S \cup T)
  BY <1>3
<1> QED
  BY <1>1, <1>2, <1>4 DEF Lawful

LEMMA LawfulAppend ==
  ASSUME NEW p, NEW a, NEW c, NEW out, NEW i, Lawful(p, a, c, out), LawfulIntent(p, a, c, i)
  PROVE  Lawful(p, a, c, Append(out, i))
<1>1. PICK S : out \in Seq(S) /\ \A j \in S : LawfulIntent(p, a, c, j)
  BY DEF Lawful
<1>2. out \in Seq(S \cup {i})
  BY <1>1
<1>3. Append(out, i) \in Seq(S \cup {i})
  BY <1>2
<1> QED
  BY <1>1, <1>3 DEF Lawful

\* What is lawful depends on the cycle, the phase and the action alone.
LEMMA LawfulSame ==
  ASSUME NEW p, NEW a, NEW c, NEW out, Lawful(p, a, c, out), NEW e,
         e.cycle = c.cycle, e.phase = c.phase, e.action = c.action
  PROVE  Lawful(p, a, e, out)
<1>1. \A i : LawfulIntent(p, a, c, i) => LawfulIntent(p, a, e, i)
  BY DEF LawfulIntent, LawfulSubmit
<1> QED
  BY <1>1 DEF Lawful

\* new_intent: what it asks for.
LEMMA IntentFields ==
  ASSUME NEW d, NEW purpose, NEW slot, NEW size
  PROVE  LET i == Intent(d, purpose, slot, size)
         IN  /\ i.kind = "submit" /\ i.size = size /\ i.id.cycle = d.c.cycle
             /\ i.id.slot = slot /\ i.id.purpose = purpose
BY DEF Intent, OrderId

\* A cancellation is always lawful.
LEMMA CancelsLawful ==
  ASSUME NEW p, NEW d, IsFiniteSet(Known(d.a)), NEW ids \in SUBSET Known(d.a), NEW command,
         command \in {"terminal", "target_replace"}, NEW a, NEW c
  PROVE  Lawful(p, a, c, Cancels(d, ids, command))
<1> DEFINE T == {i \in ids : Cancellable(d.a.orders[i])}
           f == [id \in T |-> [kind |-> "cancel", id |-> id, command |-> command]]
           S == {[kind |-> "cancel", id |-> id, command |-> command] : id \in T}
           N == Cardinality(S)
<1>1. IsFiniteSet(S)
  <2>1. IsFiniteSet(T)
    <3>1. T \subseteq Known(d.a)
      OBVIOUS
    <3> HIDE DEF T
    <3> QED
      BY <3>1, FS_Subset
  <2>2. f \in Surjection(T, S)
    BY DEF Surjection
  <2> HIDE DEF S, T, f
  <2> QED
    BY <2>1, <2>2, FS_Surjection
<1>2. \A i \in S : LawfulIntent(p, a, c, i)
  BY DEF LawfulIntent
<1>3. Cancels(d, ids, command) = SetToSeq(S)
  BY DEF Cancels
<1> HIDE DEF S
<1>4. N \in Nat /\ ExistsBijection(1 .. N, S)
  BY <1>1, FS_CardinalityType
<1>5. PICK g : g \in Bijection(1 .. N, S)
  BY <1>4 DEF ExistsBijection
<1>6. g \in [1 .. N -> S] /\ IsInjective(g)
  BY <1>5 DEF Bijection, Injection, IsInjective
<1>7. SetToSeq(S) \in [1 .. N -> S]
  BY <1>6 DEF SetToSeq
<1>8. SetToSeq(S) \in Seq(S)
  BY <1>4, <1>7
<1> QED
  BY <1>2, <1>3, <1>8 DEF Lawful

-----------------------------------------------------------------------------
(***************************************************************************)
(* The terminal barrier.                                                   *)
(***************************************************************************)
\* A controller that stops, in the same cycle.
LEMMA StoppingInv ==
  ASSUME NEW p, NEW v, NEW a, NEW c, StageInv(p, a, v, c), NEW e, IsControl(e),
         e.cycle = c.cycle, e.action # "none", e.phase # "idle", e.phase = "complete" => Flat(a)
  PROVE  StageInv(p, a, v, e) /\ RefusedStart(p, e)
<1>1. CycleInv(a, e) /\ SlotInv(p, a, e)
  BY DEF StageInv, CycleInv, SlotInv
<1>2. CloseInv(a, e) /\ PhaseInv(p, a, e)
  BY DEF StageInv, CloseInv, PhaseInv
<1> QED
  BY <1>1, <1>2 DEF StageInv, RefusedStart

\* trigger_terminal.
LEMMA TriggerInv ==
  ASSUME NEW p, NEW v, NEW a, NEW c, StageInv(p, a, v, c), RefusedStart(p, c),
         NEW action \in Actions, NEW reason, NEW command
  PROVE  LET e == Trigger(c, action, reason, command)
         IN  /\ StageInv(p, a, v, e) /\ RefusedStart(p, e)
             /\ e.cycle = c.cycle /\ e.action # "none"
             /\ Final(c) /\ (action = "stop_and_hold" \/ reason # "empty_base") => Final(e)
             /\ e.grid = c.grid
<1> DEFINE e == [c EXCEPT !.action = action, !.reason = reason, !.command = command,
                          !.phase = "stopping"]
<1>1. IsControl(c)
  BY DEF StageInv
<1>2. /\ IsControl(e) /\ e.cycle = c.cycle /\ e.action = action /\ e.phase = "stopping"
      /\ e.reason = reason /\ e.grid = c.grid
  BY <1>1 DEF IsControl, Actions
<1>3. /\ Trigger(c, action, reason, command) \in {c, e}
      /\ Trigger(c, action, reason, command) # e => c.action # "none"
      /\ Final(c) /\ Trigger(c, action, reason, command) # c
           => reason # "target" /\ action = "stop_and_flatten"
      /\ action # "none"
  BY DEF Trigger, Final, Actions
<1> HIDE DEF e
<1>4. StageInv(p, a, v, e) /\ RefusedStart(p, e)
  BY <1>2, <1>3, StoppingInv
<1>5. reason \notin {"target", "empty_base"} /\ action = "stop_and_flatten" => Final(e)
  BY <1>2 DEF Final
<1> QED
  BY <1>2, <1>3, <1>4, <1>5

\* Past the barrier.
LEMMA FlattenDecides ==
  ASSUME NEW v, NEW d, Decides(plan, v, d), BarrierPassed(d.a), ~Halted(d.a),
         d.c.action # "none", \A c : Lawful(plan, d.a, c, d.out)
  PROVE  LET e == Flatten(d)
         IN  /\ Decides(plan, v, e) /\ Rests(e) /\ e.a = d.a /\ e.c.cycle = d.c.cycle
             /\ (Final(d.c) => Final(e.c)) /\ e.c.action # "none" /\ e.kind = d.kind
<1> DEFINE closes == Owned(d, "flatten")
           open == {id \in closes : ~d.a.orders[id].terminal_reconciled}
           to(x) == [d EXCEPT !.c.phase = x]
           size == CloseSize(d.a)
           i == Intent(d, "flatten", 0, size)
           sent == [d EXCEPT !.out = Append(@, i), !.c.close_command = d.c.command]
<1>1. /\ DOMAIN d = DecisionFields /\ IsControl(d.c) /\ d.a \in AccountIn(plan)
      /\ StageInv(plan, d.a, v, d.c) /\ plan \in Plans /\ IsFiniteSet(d.below)
  BY DEF Decides, StageInv
<1>2. ASSUME NEW c, IsControl(c), c.cycle = d.c.cycle, c.action = d.c.action, c.phase # "idle",
             c.phase = "complete" => Flat(d.a), Final(d.c) => Final(c),
             NEW e, e = [d EXCEPT !.c = c]
      PROVE  /\ Decides(plan, v, e) /\ Rests(e) /\ e.a = d.a /\ e.c.cycle = d.c.cycle
             /\ (Final(d.c) => Final(e.c)) /\ e.c.action # "none" /\ e.kind = d.kind
  <2>1. StageInv(plan, d.a, v, c) /\ RefusedStart(plan, c)
    BY <1>1, <1>2, StoppingInv
  <2>2. /\ DOMAIN e = DecisionFields /\ e.c = c /\ e.out = d.out /\ e.a = d.a
        /\ e.kind = d.kind /\ e.below = d.below
    BY <1>1, <1>2 DEF DecisionFields
  <2>3. Lawful(plan, e.a, e.c, e.out)
    BY <2>2
  <2>4. Decides(plan, v, e)
    BY <1>1, <2>1, <2>2, <2>3 DEF Decides
  <2> QED
    BY <1>2, <2>2, <2>4 DEF Rests
<1>3. ASSUME NEW x, x \notin {"idle", "complete"}
      PROVE  /\ Decides(plan, v, to(x)) /\ Rests(to(x)) /\ to(x).a = d.a
             /\ to(x).c.cycle = d.c.cycle /\ (Final(d.c) => Final(to(x).c))
             /\ to(x).c.action # "none" /\ to(x).kind = d.kind
  <2> DEFINE c == [d.c EXCEPT !.phase = x]
             e == to(x)
  <2>1. /\ IsControl(c) /\ c.cycle = d.c.cycle /\ c.action = d.c.action /\ c.phase = x
        /\ c.reason = d.c.reason
    BY <1>1 DEF IsControl
  <2>2. e = [d EXCEPT !.c = c]
    BY <1>1 DEF DecisionFields
  <2>3. Final(d.c) => Final(c)
    BY <1>3, <2>1 DEF Final
  <2>4. x # "idle" /\ x # "complete"
    BY <1>3
  <2> HIDE DEF c, e
  <2>5. /\ Decides(plan, v, e) /\ Rests(e) /\ e.a = d.a /\ e.c.cycle = d.c.cycle
        /\ (Final(d.c) => Final(e.c)) /\ e.c.action # "none" /\ e.kind = d.kind
    BY <1>2, <2>1, <2>2, <2>3, <2>4
  <2> QED
    BY <2>5 DEF e
<1>4. /\ Decides(plan, v, d) /\ Rests(d) /\ (Final(d.c) => Final(d.c))
  BY DEF Rests
<1>5. ASSUME open = {}, d.a.base = 0
      PROVE  LET e == Finished(d)
             IN  /\ Decides(plan, v, e) /\ Rests(e) /\ e.a = d.a /\ e.c.cycle = d.c.cycle
                 /\ (Final(d.c) => Final(e.c)) /\ e.c.action # "none" /\ e.kind = d.kind
  <2> DEFINE phase == IF d.c.reason \in {"target", "empty_base"} THEN "complete"
                                                                ELSE "stopped_flat"
             last == IF d.c.phase = "complete" THEN d.c.last_cycle_bar ELSE d.bar
             c == [d.c EXCEPT !.phase = phase, !.last_cycle_bar = last]
             e == Finished(d)
  <2>1. Flat(d.a)
    <3>1. ASSUME NEW id \in Known(d.a), ~d.a.orders[id].terminal_reconciled PROVE FALSE
      <4>1. id.purpose = "flatten"
        BY <3>1 DEF BarrierPassed, Others
      <4>2. id.cycle = d.c.cycle
        <5>1. id.cycle <= d.c.cycle /\ ~(id.cycle < d.c.cycle)
          BY <1>1, <3>1 DEF StageInv, CycleInv
        <5>2. id.cycle \in Nat /\ d.c.cycle \in Nat
          BY <1>1, KnownOrders, PlanFacts DEF IsControl
        <5> QED
          BY <5>1, <5>2
      <4> QED
        BY <1>5, <3>1, <4>1, <4>2 DEF Owned
    <3> QED
      BY <1>5, <3>1 DEF Flat, Unreconciled
  <2>2. /\ IsControl(c) /\ c.cycle = d.c.cycle /\ c.action = d.c.action /\ c.phase = phase
        /\ c.reason = d.c.reason
    BY <1>1 DEF IsControl
  <2>3. Final(d.c) => Final(c)
    BY <2>2 DEF Final
  <2>4. e = [d EXCEPT !.c = c]
    BY <1>1 DEF DecisionFields, Finished, IsControl
  <2> HIDE DEF c, e
  <2> QED
    BY <1>2, <2>1, <2>2, <2>3, <2>4 DEF e
<1>6. ASSUME d.a.base # 0
      PROVE  /\ Decides(plan, v, sent) /\ Rests(sent) /\ sent.a = d.a
             /\ sent.c.cycle = d.c.cycle /\ (Final(d.c) => Final(sent.c))
             /\ sent.c.action # "none" /\ sent.kind = d.kind
  <2> DEFINE c == [d.c EXCEPT !.close_command = d.c.command]
             out == Append(d.out, i)
  <2>1. /\ IsControl(c) /\ c.cycle = d.c.cycle /\ c.action = d.c.action
        /\ c.phase = d.c.phase /\ c.reason = d.c.reason
    BY <1>1 DEF IsControl
  <2>2. size \in Int
    <3>1. free_base(d.a) \in Int /\ plan.market \in Int
      BY <1>1, OrderSums, PlanFacts
    <3>2. Min({free_base(d.a), plan.market}) \in Int
      BY <3>1, MinOfTwo
    <3> QED
      BY <3>2 DEF CloseSize
  <2>3. d.c.phase \notin {"idle", "complete"}
    BY <1>1, <1>6 DEF StageInv, PhaseInv, Flat
  <2> HIDE DEF size
  <2>4. LawfulIntent(plan, d.a, c, i)
    BY <2>1, <2>2, <2>3, IntentFields DEF LawfulIntent, LawfulSubmit, GridPurposes
  <2>5. Lawful(plan, d.a, c, out)
    BY <2>4, LawfulAppend
  <2>6. StageInv(plan, d.a, v, c) /\ RefusedStart(plan, c)
    BY <1>1, <2>1, <2>3, StoppingInv
  <2>7. /\ DOMAIN sent = DecisionFields /\ sent.c = c /\ sent.out = out /\ sent.a = d.a
        /\ sent.kind = d.kind /\ sent.below = d.below
    <3> HIDE DEF i
    <3> QED
      BY <1>1 DEF DecisionFields
  <2>8. Final(d.c) => Final(c)
    BY <2>1 DEF Final
  <2> HIDE DEF c, out, sent
  <2>9. Decides(plan, v, sent)
    BY <1>1, <2>5, <2>6, <2>7 DEF Decides
  <2> QED
    BY <2>1, <2>7, <2>8, <2>9 DEF Rests
<1> DEFINE e == Flatten(d)
<1>7. /\ open # {} => e = d
      /\ open = {} /\ d.a.base = 0 => e = Finished(d)
      /\ open = {} /\ d.a.base # 0 => e \in {to("containment"), to("stopped_with_dust"), sent}
  BY DEF Flatten
<1> HIDE DEF to, sent, open, e
<1> QED
  BY <1>3, <1>4, <1>5, <1>6, <1>7 DEF e

\* Finitely many orders are known.
LEMMA KnownFinite ==
  ASSUME NEW p \in Plans, NEW a \in AccountIn(p)
  PROVE  IsFiniteSet(Known(a))
<1>1. Known(a) \subseteq p.orders /\ IsFiniteSet(p.orders)
  BY KnownOrders, PlanFacts
<1> QED
  BY <1>1, FS_Subset

\* A decision that is given other reserves of the cycle.
LEMMA OtherReserves ==
  ASSUME NEW p, NEW v, NEW d, Decides(p, v, d), NEW a, Tuned(d.a, a),
         NEW e, e = [d EXCEPT !.a = a]
  PROVE  /\ Decides(p, v, e) /\ e.a = a /\ e.c = d.c /\ e.out = d.out /\ e.kind = d.kind
<1>1. d.a \in AccountIn(p) /\ DOMAIN d = DecisionFields /\ StageInv(p, d.a, v, d.c)
  BY DEF Decides, StageInv
<1>2. /\ DOMAIN e = DecisionFields /\ e.a = a /\ e.c = d.c /\ e.out = d.out
      /\ e.kind = d.kind /\ e.below = d.below
  BY <1>1 DEF DecisionFields
<1>3. /\ StageInv(p, a, v, d.c)
      /\ \A k : LawfulIntent(p, a, d.c, k) <=> LawfulIntent(p, d.a, d.c, k)
  BY <1>1, TunedInv
<1>4. Lawful(p, a, d.c, d.out)
  BY <1>3 DEF Decides, Lawful
<1>5. Decides(p, v, e)
  BY <1>2, <1>3, <1>4 DEF Decides
<1> QED
  BY <1>2, <1>5

\* terminal_decisions.
LEMMA TerminalDecides ==
  ASSUME NEW v, NEW d, Decides(plan, v, d), d.out = <<>>, d.c.action # "none"
  PROVE  LET e == Terminal(d)
         IN  Becomes(plan, v, d, e) /\ Rests(e) /\ e.c.action # "none"
<1> DEFINE out == d.out \o Cancels(d, Others(d.a), "terminal")
           e == [d EXCEPT !.out = @ \o Cancels(d, Others(d.a), "terminal")]
           f == [e EXCEPT !.a.cycle = 0, !.a.cleanup = 0]
           to(g, x) == [g EXCEPT !.c.phase = x]
<1>1. /\ DOMAIN d = DecisionFields /\ IsControl(d.c) /\ d.a \in AccountIn(plan)
      /\ StageInv(plan, d.a, v, d.c) /\ plan \in Plans
  BY DEF Decides, StageInv
<1>2. \A a, c : Lawful(plan, a, c, d.out) /\ Lawful(plan, a, c, out)
  <2>1. Others(d.a) \in SUBSET Known(d.a) /\ IsFiniteSet(Known(d.a))
    BY <1>1, KnownFinite DEF Others
  <2>2. \A a, c : Lawful(plan, a, c, Cancels(d, Others(d.a), "terminal"))
    BY <2>1, CancelsLawful
  <2> QED
    BY <2>2, LawfulEmpty, LawfulJoin
<1>3. /\ DOMAIN e = DecisionFields /\ e.c = d.c /\ e.out = out /\ e.a = d.a
      /\ e.kind = d.kind /\ e.below = d.below
  BY <1>1 DEF DecisionFields
<1> HIDE DEF e, out
<1>4. Decides(plan, v, e)
  BY <1>2, <1>3 DEF Decides
<1>5. /\ Decides(plan, v, f) /\ Tuned(d.a, f.a) /\ f.c = d.c /\ f.out = out /\ f.kind = d.kind
  <2> DEFINE a == [d.a EXCEPT !.cycle = 0, !.cleanup = 0]
             g == f
  <2>1. Tuned(e.a, a)
    <3>1. a = [e.a EXCEPT !.cycle = 0, !.cleanup = 0] /\ 0 \in Int
      BY <1>3
    <3> HIDE DEF a
    <3> QED
      BY <3>1, Zenon DEF Tuned
  <2>2. g = [e EXCEPT !.a = a]
    BY <1>1, <1>3 DEF DecisionFields, AccountIn
  <2> HIDE DEF a, g
  <2>3. /\ Decides(plan, v, g) /\ g.a = a /\ g.c = e.c /\ g.out = e.out /\ g.kind = e.kind
    BY <1>4, <2>1, <2>2, OtherReserves
  <2> QED
    BY <1>3, <2>1, <2>3 DEF g
<1> HIDE DEF f
<1>6. ASSUME NEW g, Decides(plan, v, g), g.c = d.c, Tuned(d.a, g.a), g.kind = d.kind,
             \A c : Lawful(plan, g.a, c, g.out),
             NEW x \in {"reconciling", "stopped_holding"},
             x = "stopped_holding" => d.c.action = "stop_and_hold"
      PROVE  /\ Decides(plan, v, to(g, x)) /\ Rests(to(g, x)) /\ Follows(d, to(g, x))
             /\ to(g, x).c.cycle = d.c.cycle /\ to(g, x).c.action # "none"
             /\ to(g, x).kind = d.kind
  <2> DEFINE c == [g.c EXCEPT !.phase = x]
             h == to(g, x)
  <2>1. /\ IsControl(c) /\ c.cycle = d.c.cycle /\ c.action = d.c.action /\ c.phase = x
        /\ c.reason = d.c.reason
    BY <1>1, <1>6 DEF IsControl
  <2>2. /\ DOMAIN h = DecisionFields /\ h.c = c /\ h.out = g.out /\ h.a = g.a
        /\ h.kind = g.kind /\ h.below = g.below
    BY <1>6 DEF DecisionFields, Decides
  <2> HIDE DEF c, h
  <2>3. StageInv(plan, g.a, v, c) /\ RefusedStart(plan, c)
    <3>1. StageInv(plan, g.a, v, d.c)
      BY <1>6 DEF Decides
    <3>2. c.phase # "idle" /\ c.phase # "complete"
      BY <1>6, <2>1
    <3> QED
      BY <2>1, <3>1, <3>2, StoppingInv
  <2>4. Decides(plan, v, h)
    BY <1>6, <2>2, <2>3 DEF Decides
  <2>5. Final(d.c) => Final(c)
    BY <1>6, <2>1 DEF Final
  <2>6. Rests(h) /\ Follows(d, h)
    BY <1>6, <2>1, <2>2, <2>5 DEF Rests, Follows
  <2> QED
    BY <1>6, <2>1, <2>2, <2>4, <2>6 DEF h
<1>7. CASE Halted(d.a)
  <2>1. Terminal(d) = to(d, "reconciling")
    BY <1>7 DEF Terminal
  <2>2. Tuned(d.a, d.a)
    BY <1>1, SelfTuned
  <2> HIDE DEF to
  <2> QED
    BY <1>2, <1>6, <2>1, <2>2 DEF Becomes
<1>8. CASE ~Halted(d.a) /\ ~BarrierPassed(d.a)
  <2>1. Terminal(d) = e
    BY <1>8 DEF Terminal, e
  <2>2. Tuned(d.a, e.a)
    BY <1>1, <1>3, SelfTuned
  <2> QED
    BY <1>3, <1>4, <1>8, <2>1, <2>2 DEF Rests, Follows, Becomes
<1>9. CASE ~Halted(d.a) /\ BarrierPassed(d.a)
  <2>1. Terminal(d) = IF d.c.action = "stop_and_hold" THEN to(f, "stopped_holding") ELSE Flatten(f)
    BY <1>9 DEF Terminal, e, f
  <2>2. ~Halted(f.a) /\ BarrierPassed(f.a)
    <3>1. /\ f.a.orders = d.a.orders /\ f.a.reconciliation = d.a.reconciliation
          /\ f.a.quarantine = d.a.quarantine
      BY <1>1, <1>5, TunedFields
    <3> QED
      BY <1>9, <3>1 DEF Halted, BarrierPassed, Others, Known
  <2>3. \A c : Lawful(plan, f.a, c, f.out)
    BY <1>2, <1>5
  <2> DEFINE g == Flatten(f)
  <2>4. /\ Decides(plan, v, g) /\ Rests(g) /\ g.a = f.a /\ g.c.cycle = d.c.cycle
        /\ (Final(d.c) => Final(g.c)) /\ g.c.action # "none" /\ g.kind = d.kind
    BY <1>5, <2>2, <2>3, FlattenDecides
  <2> HIDE DEF g, to
  <2>5. Follows(d, g)
    BY <1>5, <2>4 DEF Follows
  <2>6. CASE d.c.action = "stop_and_hold"
    BY <1>5, <1>6, <2>1, <2>3, <2>6 DEF Becomes
  <2>7. CASE d.c.action # "stop_and_hold"
    BY <2>1, <2>4, <2>5, <2>7 DEF g, Becomes
  <2> QED
    BY <2>6, <2>7
<1> QED
  BY <1>7, <1>8, <1>9

\* A trigger, before it is acted on.
LEMMA TriggeringDecides ==
  ASSUME NEW v, NEW d, Decides(plan, v, d), d.out = <<>>, NEW reason,
         Final(d.c) => reason # "empty_base"
  PROVE  LET e == [d EXCEPT !.c = TriggerFlatten(@, reason)]
         IN  /\ Decides(plan, v, e) /\ e.a = d.a /\ e.c.cycle = d.c.cycle /\ e.c.action # "none"
             /\ (Final(d.c) => Final(e.c)) /\ e.out = <<>> /\ e.kind = d.kind
<1> DEFINE c == TriggerFlatten(d.c, reason)
           e == [d EXCEPT !.c = TriggerFlatten(@, reason)]
<1>1. StageInv(plan, d.a, v, d.c) /\ RefusedStart(plan, d.c) /\ DOMAIN d = DecisionFields
  BY DEF Decides
<1>2. /\ StageInv(plan, d.a, v, c) /\ RefusedStart(plan, c)
      /\ c.cycle = d.c.cycle /\ c.action # "none" /\ (Final(d.c) => Final(c))
  BY <1>1, TriggerInv DEF TriggerFlatten, Actions
<1>3. /\ DOMAIN e = DecisionFields /\ e.c = c /\ e.out = <<>> /\ e.a = d.a
      /\ e.kind = d.kind /\ e.below = d.below
  <2> HIDE DEF c
  <2>1. e = [d EXCEPT !.c = c]
    BY <1>1 DEF DecisionFields, c
  <2> QED
    BY <1>1, <2>1 DEF DecisionFields
<1> HIDE DEF c, e
<1>4. Decides(plan, v, e)
  BY <1>2, <1>3, LawfulEmpty DEF Decides
<1> QED
  BY <1>2, <1>3, <1>4 DEF e

\* A trigger that is acted on at once.
LEMMA StopDecides ==
  ASSUME NEW v, NEW d, Decides(plan, v, d), d.out = <<>>, NEW reason,
         Final(d.c) => reason # "empty_base"
  PROVE  LET e == Stop(d, reason)
         IN  Becomes(plan, v, d, e) /\ Rests(e) /\ e.c.action # "none"
<1> DEFINE e == [d EXCEPT !.c = TriggerFlatten(@, reason)]
           f == Terminal(e)
<1>1. /\ Decides(plan, v, e) /\ e.a = d.a /\ e.c.cycle = d.c.cycle /\ e.c.action # "none"
      /\ (Final(d.c) => Final(e.c)) /\ e.out = <<>> /\ e.kind = d.kind
  BY TriggeringDecides
<1>2. Stop(d, reason) = f
  BY DEF Stop
<1> HIDE DEF e
<1>3. Becomes(plan, v, e, f) /\ Rests(f) /\ f.c.action # "none"
  BY <1>1, TerminalDecides
<1> HIDE DEF f
<1> QED
  BY <1>1, <1>2, <1>3 DEF Becomes, Follows

-----------------------------------------------------------------------------
(***************************************************************************)
(* The DCA recipe.                                                         *)
(***************************************************************************)
LEMMA BecomesTwice ==
  ASSUME NEW p, NEW v, NEW d, StageInv(p, d.a, v, d.c), NEW e, NEW f,
         Becomes(p, v, d, e), Becomes(p, v, e, f)
  PROVE  Becomes(p, v, d, f)
BY FollowsTwice DEF Becomes

\* Another controller state, other intents.
Rewrites(d, e) ==
  DOMAIN e = DecisionFields /\ e.a = d.a /\ e.kind = d.kind /\ e.below = d.below

\* In the same cycle and with the same action; the phase may become that of a
\* running cycle.
LEMMA ControlDecides ==
  ASSUME NEW p, NEW v, NEW d, Decides(p, v, d), NEW e, Rewrites(d, e), IsControl(e.c),
         e.c.cycle = d.c.cycle, e.c.action = d.c.action, e.c.reason = d.c.reason,
         e.c.phase \in {d.c.phase, "active"}, RefusedStart(p, e.c), Lawful(p, d.a, e.c, e.out)
  PROVE  Becomes(p, v, d, e)
<1>1. StageInv(p, d.a, v, d.c) /\ DOMAIN d = DecisionFields
  BY DEF Decides
<1>2. DOMAIN e = DecisionFields /\ e.a = d.a /\ e.kind = d.kind /\ e.below = d.below
  BY DEF Rewrites
<1> DEFINE c == e.c
<1>3. StageInv(p, d.a, v, c)
  <2>1. /\ IsControl(c) /\ c.cycle = d.c.cycle /\ c.action = d.c.action
        /\ c.phase \in {d.c.phase, "active"}
    OBVIOUS
  <2> HIDE DEF c
  <2> QED
    BY <1>1, <2>1 DEF StageInv, CycleInv, CloseInv, PhaseInv, SlotInv
<1>4. Decides(p, v, e)
  BY <1>2, <1>3 DEF Decides
<1>5. Final(d.c) => Final(e.c)
  BY DEF Final
<1>6. Tuned(d.a, d.a)
  BY <1>1, SelfTuned DEF StageInv
<1> QED
  BY <1>2, <1>4, <1>5, <1>6 DEF Becomes, Follows

\* _dca: a cycle starts with its base order, or is refused for its cost.
LEMMA NewCycleDecides ==
  ASSUME NEW v, NEW d, DOMAIN d = DecisionFields, StageInv(plan, d.a, v, d.c), d.out = <<>>,
         d.c.phase \in {"idle", "complete"}, d.c.action = "none", d.kind = "closed_bar",
         plan.recipe = "dca", IsFiniteSet(d.below)
  PROVE  LET e == NewCycle(d)
         IN  Decides(plan, v, e) /\ Follows(d, e) /\ e.c.action = "none"
<1> DEFINE refused == [d.c EXCEPT !.refusal = "insufficient_cycle_cash"]
           c == Fresh(d.c.cycle + 1, "base_pending", d.c.last_cycle_bar)
           a == [d.a EXCEPT !.cleanup = Cleanup, !.cycle = CycleCost]
           e == [d EXCEPT !.c = c, !.a.cleanup = Cleanup, !.a.cycle = CycleCost]
           i == Intent(e, "base", 0, plan.size)
           sent == [e EXCEPT !.out = Append(@, i)]
           kept == [d EXCEPT !.c.refusal = "insufficient_cycle_cash"]
<1>1. /\ plan \in Plans /\ IsControl(d.c) /\ d.c.cycle \in Nat /\ d.a \in AccountIn(plan)
      /\ EndInv(d.a, v) /\ GenerationInv(d.a)
  BY DEF StageInv, IsControl
<1>2. Flat(d.a)
  BY DEF StageInv, PhaseInv, Flat, Unreconciled
<1>3. Tuned(d.a, d.a) /\ ~Final(d.c)
  BY <1>1, SelfTuned DEF Final
<1>4. Decides(plan, v, kept) /\ Follows(d, kept) /\ kept.c.action = "none"
  <2>1. /\ IsControl(refused) /\ refused.cycle = d.c.cycle /\ refused.action = d.c.action
        /\ refused.phase = d.c.phase /\ refused.refusal = "insufficient_cycle_cash"
    BY <1>1 DEF IsControl
  <2>2. /\ DOMAIN kept = DecisionFields /\ kept.c = refused /\ kept.out = <<>>
        /\ kept.a = d.a /\ kept.below = d.below
    BY DEF DecisionFields
  <2> HIDE DEF refused, kept
  <2>3. StageInv(plan, d.a, v, refused) /\ RefusedStart(plan, refused)
    BY <2>1, SameControlInv DEF RefusedStart
  <2> QED
    BY <1>3, <2>1, <2>2, <2>3, LawfulEmpty DEF Decides, Follows
<1>5. Decides(plan, v, sent) /\ Follows(d, sent) /\ sent.c.action = "none"
  <2>1. CycleCost \in Int /\ Cleanup \in Int
    <3>1. /\ plan.size \in Int /\ plan.add \in Int /\ UnitCost \in Int /\ Cleanup \in Int
          /\ Cardinality(plan.slots) \in Int
      BY <1>1, PlanFacts, AmountsAssumption, FS_CardinalityType
    <3>2. plan.size + Cardinality(plan.slots) * plan.add \in Int
      BY <3>1
    <3>3. \A x, y \in Int : x * y \in Int
      OBVIOUS
    <3> QED
      BY <3>1, <3>2, <3>3 DEF CycleCost
  <2>2. Tuned(d.a, a)
    <3>1. a = [d.a EXCEPT !.cycle = CycleCost, !.cleanup = Cleanup]
      OBVIOUS
    <3> HIDE DEF a
    <3> QED
      BY <2>1, <3>1 DEF Tuned
  <2>3. /\ DOMAIN c = DOMAIN d.c /\ c.cycle = d.c.cycle + 1 /\ c.phase = "base_pending"
        /\ c.action = "none" /\ c.grid = {}
    BY <1>1 DEF Fresh, IsControl
  <2>4. IsControl(c)
    <3>1. IsFiniteSet(c.grid)
      BY <2>3, FS_EmptySet
    <3>2. c.cycle \in Nat
      BY <1>1, <2>3
    <3> HIDE DEF c
    <3> QED
      BY <1>1, <2>3, <3>1, <3>2 DEF IsControl
  <2> HIDE DEF c
  <2>5. /\ DOMAIN e = DecisionFields /\ e.c = c /\ e.out = <<>> /\ e.a = a
        /\ e.kind = d.kind /\ e.below = d.below
    BY <1>1 DEF DecisionFields, AccountIn
  <2> HIDE DEF a, e
  <2>6. a \in AccountIn(plan) /\ StageInv(plan, a, v, d.c) /\ Flat(a)
    BY <1>1, <1>2, <2>2, TunedFields, TunedInv
  <2>7. CycleInv(a, c)
    <3> SUFFICES ASSUME NEW id \in Known(a)
                 PROVE  id.cycle <= c.cycle /\ a.orders[id].terminal_reconciled
      BY DEF CycleInv
    <3>1. id.cycle \in Nat /\ id.cycle <= d.c.cycle
      BY <1>1, <2>6, KnownOrders, PlanFacts DEF StageInv, CycleInv
    <3>2. a.orders[id].terminal_reconciled
      BY <2>6 DEF Flat, Unreconciled
    <3> QED
      BY <1>1, <2>3, <3>1, <3>2
  <2>8. CloseInv(a, c)
    BY <2>6 DEF Flat, Unreconciled, CloseInv
  <2>9. StageInv(plan, a, v, c) /\ RefusedStart(plan, c)
    BY <2>3, <2>4, <2>6, <2>7, <2>8 DEF StageInv, PhaseInv, SlotInv, RefusedStart
  <2>10. /\ i.kind = "submit" /\ i.size = plan.size /\ i.id.cycle = c.cycle
         /\ i.id.purpose = "base"
    BY <2>5, IntentFields
  <2> HIDE DEF i
  <2>11. /\ DOMAIN sent = DecisionFields /\ sent.c = c /\ sent.out = Append(<<>>, i)
         /\ sent.a = a /\ sent.kind = d.kind /\ sent.below = d.below
    BY <2>5 DEF DecisionFields
  <2> HIDE DEF sent
  <2>12. LawfulIntent(plan, a, c, i)
    BY <1>1, <2>3, <2>10, PlanFacts DEF LawfulIntent, LawfulSubmit
  <2>13. Lawful(plan, a, c, sent.out)
    BY <2>11, <2>12, LawfulEmpty, LawfulAppend
  <2>14. Decides(plan, v, sent)
    BY <2>9, <2>11, <2>13 DEF Decides
  <2> QED
    BY <1>2, <1>3, <2>2, <2>3, <2>11, <2>14 DEF Follows
<1>6. NewCycle(d) \in {kept, sent}
  BY DEF NewCycle
<1> HIDE DEF kept, sent
<1> QED
  BY <1>4, <1>5, <1>6

\* _dca, with a base order that was executed.
LEMMA ArmedDecides ==
  ASSUME NEW v, NEW d, Decides(plan, v, d), d.out = <<>>
  PROVE  LET e == Armed(d)
         IN  Becomes(plan, v, d, e) /\ Rewrites(d, e) /\ e.c.action = d.c.action /\ e.out = <<>>
<1> DEFINE gross == Gross(d)
           c == [d.c EXCEPT !.stop = TRUE, !.desired = gross]
           e == Armed(d)
<1>1. DOMAIN d = DecisionFields /\ IsControl(d.c) /\ RefusedStart(plan, d.c)
  BY DEF Decides, StageInv
<1> HIDE DEF gross
<1>2. /\ IsControl(c) /\ c.cycle = d.c.cycle /\ c.action = d.c.action /\ c.phase = d.c.phase
      /\ c.reason = d.c.reason /\ c.refusal = d.c.refusal
  BY <1>1 DEF IsControl
<1>3. /\ DOMAIN e = DecisionFields /\ e.c = c /\ e.out = <<>> /\ e.a = d.a
      /\ e.kind = d.kind /\ e.below = d.below
  <2>1. e = [d EXCEPT !.c = c]
    BY <1>1 DEF Armed, gross, DecisionFields, IsControl
  <2> HIDE DEF e
  <2> QED
    BY <1>1, <2>1 DEF DecisionFields
<1> HIDE DEF c, e
<1>4. Rewrites(d, e) /\ RefusedStart(plan, e.c)
  BY <1>1, <1>2, <1>3 DEF Rewrites, RefusedStart
<1>5. Becomes(plan, v, d, e)
  BY <1>2, <1>3, <1>4, LawfulEmpty, ControlDecides
<1> QED
  BY <1>2, <1>3, <1>4, <1>5 DEF e

\* _dca: the anchor of the additions.
LEMMA AnchorDecides ==
  ASSUME NEW v, NEW d, Decides(plan, v, d), d.out = <<>>, NEW levels
  PROVE  LET e == Anchor(d, levels)
         IN  Becomes(plan, v, d, e) /\ Rewrites(d, e) /\ e.c.action = d.c.action /\ e.out = <<>>
<1> DEFINE invalid == [d.c EXCEPT !.anchored = TRUE, !.refusal = "normalized_additions_invalid"]
           active == [d.c EXCEPT !.anchored = TRUE, !.slots = levels, !.phase = "active"]
           e == Anchor(d, levels)
<1>1. DOMAIN d = DecisionFields /\ IsControl(d.c) /\ RefusedStart(plan, d.c)
  BY DEF Decides, StageInv
<1>2. \A c \in {d.c, invalid, active} :
        /\ IsControl(c) /\ c.cycle = d.c.cycle /\ c.action = d.c.action
        /\ c.phase \in {d.c.phase, "active"} /\ c.reason = d.c.reason
        /\ c.phase # "active" => c = d.c \/ c.refusal = "normalized_additions_invalid"
  BY <1>1 DEF IsControl
<1>3. /\ DOMAIN e = DecisionFields /\ e.c \in {d.c, invalid, active} /\ e.out = <<>>
      /\ e.a = d.a /\ e.kind = d.kind /\ e.below = d.below
  <2>1. e \in {d, [d EXCEPT !.c = invalid], [d EXCEPT !.c = active]}
    BY <1>1 DEF Anchor, DecisionFields, IsControl
  <2> HIDE DEF e, invalid, active
  <2> QED
    BY <1>1, <2>1 DEF DecisionFields
<1> HIDE DEF invalid, active, e
<1>4. Rewrites(d, e) /\ RefusedStart(plan, e.c)
  BY <1>1, <1>2, <1>3 DEF Rewrites, RefusedStart
<1>5. Becomes(plan, v, d, e)
  BY <1>2, <1>3, <1>4, LawfulEmpty, ControlDecides
<1> QED
  BY <1>2, <1>3, <1>4, <1>5 DEF e

\* The additions are decided in a running cycle: one that is complete and was
\* refused its next start has a refusal.
LEMMA StageDecides ==
  ASSUME NEW v, NEW d, Decides(plan, v, d), d.out = <<>>, d.c.action = "none",
         plan.recipe = "dca", Known(d.a) # {}
  PROVE  LET e == Stage(d)
         IN  Becomes(plan, v, d, e) /\ Rewrites(d, e) /\ e.c = d.c
<1> DEFINE N == Cardinality(plan.slots)
           more == [n \in 1 .. N |-> Intent(d, "addition", InOrder(plan.slots)[n], plan.add)]
           S == {Intent(d, "addition", InOrder(plan.slots)[n], plan.add) : n \in 1 .. N}
           sent == [d EXCEPT !.out = @ \o more]
<1>1. /\ DOMAIN d = DecisionFields /\ IsControl(d.c) /\ RefusedStart(plan, d.c)
      /\ StageInv(plan, d.a, v, d.c) /\ plan \in Plans
  BY DEF Decides, StageInv
<1>2. Becomes(plan, v, d, d) /\ Rewrites(d, d)
  BY <1>1, FollowsItself DEF Becomes, Rewrites
<1>3. ASSUME d.c.refusal = "none"
      PROVE  Becomes(plan, v, d, sent) /\ Rewrites(d, sent) /\ sent.c = d.c
  <2>1. N \in Nat /\ plan.add \in Int
    BY <1>1, PlanFacts, FS_CardinalityType
  <2>2. d.c.phase \notin {"idle", "complete"}
    BY <1>1, <1>3 DEF StageInv, PhaseInv, RefusedStart
  <2>3. \A i \in S : LawfulIntent(plan, d.a, d.c, i)
    <3> SUFFICES ASSUME NEW n \in 1 .. N
                 PROVE  LawfulIntent(plan, d.a, d.c,
                                     Intent(d, "addition", InOrder(plan.slots)[n], plan.add))
      OBVIOUS
    <3> DEFINE i == Intent(d, "addition", InOrder(plan.slots)[n], plan.add)
    <3>1. /\ i.kind = "submit" /\ i.size = plan.add /\ i.id.cycle = d.c.cycle
          /\ i.id.purpose = "addition"
      BY IntentFields
    <3> HIDE DEF i
    <3>2. LawfulIntent(plan, d.a, d.c, i)
      BY <2>1, <2>2, <3>1 DEF LawfulIntent, LawfulSubmit
    <3> QED
      BY <3>2 DEF i
  <2>4. more \in Seq(S)
    <3>1. \A n \in 1 .. N : more[n] \in S
      OBVIOUS
    <3>2. more \in [1 .. N -> S]
      BY <3>1
    <3> HIDE DEF more, S
    <3> QED
      BY <2>1, <3>2
  <2> HIDE DEF S
  <2>5. Lawful(plan, d.a, d.c, more)
    BY <2>3, <2>4 DEF Lawful
  <2> HIDE DEF more
  <2>6. Lawful(plan, d.a, d.c, d.out \o more)
    BY <2>5, LawfulJoin DEF Decides
  <2>7. Rewrites(d, sent) /\ sent.c = d.c /\ sent.out = d.out \o more
    BY <1>1 DEF DecisionFields, Rewrites
  <2> HIDE DEF sent
  <2> QED
    BY <1>1, <2>6, <2>7, ControlDecides
<1>4. Stage(d) = d \/ (d.c.refusal = "none" /\ Stage(d) = sent)
  BY DEF Stage
<1> HIDE DEF sent
<1> QED
  BY <1>2, <1>3, <1>4

\* _dca: the target.
LEMMA TargetDecides ==
  ASSUME NEW v, NEW d, Decides(plan, v, d), d.c.action = "none", plan.recipe = "dca"
  PROVE  LET e == Target(d)
         IN  Becomes(plan, v, d, e) /\ Rests(e)
<1> DEFINE working == {id \in Owned(d, "target") : ~d.a.orders[id].terminal_reconciled}
           stale == {id \in working : \/ d.c.target # d.c.desired
                                      \/ d.a.orders[id].size - d.a.orders[id].filled # d.a.base}
           large == [d EXCEPT !.c.refusal = "target_constraints", !.out = <<>>]
           dust == [d EXCEPT !.c.refusal = "target_dust"]
           cancels == [d EXCEPT !.out = @ \o Cancels(d, stale, "target_replace")]
           i == Intent(d, "target", 0, d.a.base)
           sent == [d EXCEPT !.out = Append(@, i), !.c.target = d.c.desired,
                             !.c.target_bar = d.bar]
<1>1. /\ DOMAIN d = DecisionFields /\ IsControl(d.c) /\ RefusedStart(plan, d.c)
      /\ StageInv(plan, d.a, v, d.c) /\ plan \in Plans /\ d.a \in AccountIn(plan)
      /\ Lawful(plan, d.a, d.c, d.out)
  BY DEF Decides, StageInv
<1>2. Becomes(plan, v, d, d) /\ Rests(d)
  BY <1>1, FollowsItself DEF Becomes, Rests
<1> DEFINE refused(x) == [d.c EXCEPT !.refusal = x]
<1>3. ASSUME NEW x \in {"target_constraints", "target_dust"}
      PROVE  /\ IsControl(refused(x)) /\ refused(x).cycle = d.c.cycle
             /\ refused(x).action = d.c.action /\ refused(x).phase = d.c.phase
             /\ refused(x).reason = d.c.reason /\ RefusedStart(plan, refused(x))
  BY <1>1, <1>3 DEF IsControl, RefusedStart
<1>4. Becomes(plan, v, d, Stop(large, "target_constraints"))
      /\ Rests(Stop(large, "target_constraints"))
  <2>1. Rewrites(d, large) /\ large.c = refused("target_constraints") /\ large.out = <<>>
    BY <1>1 DEF DecisionFields, Rewrites, IsControl
  <2> HIDE DEF large, refused
  <2>2. Becomes(plan, v, d, large)
    BY <1>3, <2>1, LawfulEmpty, ControlDecides
  <2> DEFINE e == Stop(large, "target_constraints")
  <2>3. Becomes(plan, v, large, e) /\ Rests(e)
    BY <2>1, <2>2, StopDecides DEF Becomes
  <2> HIDE DEF e
  <2>4. Becomes(plan, v, d, e)
    BY <1>1, <2>2, <2>3, BecomesTwice
  <2> QED
    BY <2>3, <2>4 DEF e
<1>5. Becomes(plan, v, d, dust) /\ Rests(dust)
  <2>1. Rewrites(d, dust) /\ dust.c = refused("target_dust") /\ dust.out = d.out
    BY <1>1 DEF DecisionFields, Rewrites, IsControl
  <2> HIDE DEF dust, refused
  <2>2. Lawful(plan, d.a, dust.c, dust.out)
    BY <1>1, <1>3, <2>1, LawfulSame
  <2>3. Becomes(plan, v, d, dust)
    BY <1>3, <2>1, <2>2, ControlDecides
  <2> QED
    BY <1>3, <2>1, <2>3 DEF Rests
<1>6. Becomes(plan, v, d, cancels) /\ Rests(cancels)
  <2>1. stale \in SUBSET Known(d.a) /\ IsFiniteSet(Known(d.a))
    BY <1>1, KnownFinite DEF Owned
  <2> DEFINE more == Cancels(d, stale, "target_replace")
  <2> HIDE DEF stale
  <2>2. Lawful(plan, d.a, d.c, more)
    BY <2>1, CancelsLawful
  <2> HIDE DEF more
  <2>3. Lawful(plan, d.a, d.c, d.out \o more)
    BY <1>1, <2>2, LawfulJoin
  <2>4. Rewrites(d, cancels) /\ cancels.c = d.c /\ cancels.out = d.out \o more
    BY <1>1 DEF DecisionFields, Rewrites, more
  <2> HIDE DEF cancels
  <2> QED
    BY <1>1, <2>3, <2>4, ControlDecides DEF Rests
<1>7. ASSUME d.a.base # 0 PROVE Becomes(plan, v, d, sent) /\ Rests(sent)
  <2> DEFINE c == [d.c EXCEPT !.target = d.c.desired, !.target_bar = d.bar]
  <2>1. /\ IsControl(c) /\ c.cycle = d.c.cycle /\ c.action = d.c.action
        /\ c.phase = d.c.phase /\ c.reason = d.c.reason /\ c.refusal = d.c.refusal
    BY <1>1 DEF IsControl
  <2>2. d.c.phase \notin {"idle", "complete"} /\ d.a.base \in Int
    BY <1>1, <1>7 DEF StageInv, PhaseInv, Flat, AccountIn
  <2>3. /\ i.kind = "submit" /\ i.size = d.a.base /\ i.id.cycle = d.c.cycle
        /\ i.id.purpose = "target"
    BY IntentFields
  <2> HIDE DEF i
  <2>4. LawfulIntent(plan, d.a, d.c, i)
    BY <2>2, <2>3 DEF LawfulIntent, LawfulSubmit
  <2>5. Rewrites(d, sent) /\ sent.c = c /\ sent.out = Append(d.out, i)
    BY <1>1 DEF DecisionFields, Rewrites, IsControl
  <2> HIDE DEF c, sent
  <2>6. Lawful(plan, d.a, sent.c, sent.out)
    BY <1>1, <2>1, <2>4, <2>5, LawfulAppend, LawfulSame
  <2>7. RefusedStart(plan, sent.c)
    BY <1>1, <2>1, <2>5 DEF RefusedStart
  <2> QED
    BY <2>1, <2>5, <2>6, <2>7, ControlDecides DEF Rests
<1>8. \/ Target(d) \in {d, Stop(large, "target_constraints"), dust}
      \/ d.a.base # 0 /\ Target(d) \in {cancels, sent}
  <2> HIDE DEF i
  <2> QED
    BY DEF Target, i
<1> HIDE DEF large, dust, cancels, sent
<1> QED
  BY <1>2, <1>4, <1>5, <1>6, <1>7, <1>8

\* _dca: a cycle under way.
LEMMA RunningDecides ==
  ASSUME NEW v, NEW d, Decides(plan, v, d), d.out = <<>>, d.c.action = "none",
         plan.recipe = "dca", Known(d.a) # {}, NEW levels
  PROVE  LET e == Running(d, levels)
         IN  Becomes(plan, v, d, e) /\ Rests(e)
<1> DEFINE e == Armed(d)
           f == Anchor(e, levels)
           g == Stage(f)
           h == Target(g)
           s == Stop(e, "stop")
<1>1. StageInv(plan, d.a, v, d.c)
  BY DEF Decides
<1>2. Becomes(plan, v, d, e) /\ Rewrites(d, e) /\ e.c.action = "none" /\ e.out = <<>>
  BY ArmedDecides
<1>3. Running(d, levels) = IF d.mark = "low" THEN s ELSE h
  BY DEF Running
<1> HIDE DEF e
<1>4. Becomes(plan, v, d, s) /\ Rests(s)
  <2>1. Becomes(plan, v, e, s) /\ Rests(s)
    BY <1>2, StopDecides DEF Becomes
  <2> HIDE DEF s
  <2> QED
    BY <1>1, <1>2, <2>1, BecomesTwice
<1>5. Becomes(plan, v, e, f) /\ Rewrites(e, f) /\ f.c.action = "none" /\ f.out = <<>>
  BY <1>2, AnchorDecides DEF Becomes
<1> HIDE DEF f
<1>6. Becomes(plan, v, d, f) /\ Known(f.a) # {}
  BY <1>1, <1>2, <1>5, BecomesTwice DEF Rewrites
<1>7. Becomes(plan, v, f, g) /\ g.c = f.c
  BY <1>5, <1>6, StageDecides DEF Becomes
<1> HIDE DEF g
<1>8. Becomes(plan, v, d, g) /\ g.c.action = "none"
  BY <1>1, <1>5, <1>6, <1>7, BecomesTwice
<1>9. Becomes(plan, v, g, h) /\ Rests(h)
  BY <1>8, TargetDecides DEF Becomes
<1> HIDE DEF h, s
<1>10. Becomes(plan, v, d, h)
  BY <1>1, <1>8, <1>9, BecomesTwice
<1> QED
  BY <1>3, <1>4, <1>9, <1>10

\* _dca, as a whole.
LEMMA DcaDecides ==
  ASSUME NEW v, NEW d, Decides(plan, v, d), d.out = <<>>, d.c.action = "none",
         plan.recipe = "dca", NEW levels
  PROVE  LET e == Dca(d, levels)
         IN  Decides(plan, v, e) /\ Follows(d, e) /\ Rests(e)
<1> DEFINE e == Dca(d, levels)
           bases == Owned(d, "base")
<1>1. StageInv(plan, d.a, v, d.c) /\ DOMAIN d = DecisionFields /\ IsFiniteSet(d.below)
  BY DEF Decides
<1>2. Decides(plan, v, d) /\ Follows(d, d) /\ Rests(d)
  BY <1>1, FollowsItself DEF Rests
<1>3. ASSUME Starts(d)
      PROVE  Decides(plan, v, NewCycle(d)) /\ Follows(d, NewCycle(d)) /\ Rests(NewCycle(d))
  <2> DEFINE f == NewCycle(d)
  <2>1. Decides(plan, v, f) /\ Follows(d, f) /\ f.c.action = "none"
    BY <1>1, <1>3, NewCycleDecides DEF Starts
  <2> HIDE DEF f
  <2> QED
    BY <2>1 DEF Rests, f
<1>4. ASSUME bases # {} PROVE Becomes(plan, v, d, Running(d, levels)) /\ Rests(Running(d, levels))
  <2>1. Known(d.a) # {}
    BY <1>4 DEF Owned
  <2> QED
    BY <2>1, RunningDecides
<1>5. Becomes(plan, v, d, Stop(d, "empty_base")) /\ Rests(Stop(d, "empty_base"))
  <2>1. ~Final(d.c)
    BY DEF Final
  <2> QED
    BY <2>1, StopDecides
<1>6. \/ e = d
      \/ Starts(d) /\ e = NewCycle(d)
      \/ bases # {} /\ e = Running(d, levels)
      \/ e = Stop(d, "empty_base")
  BY DEF Dca
<1> HIDE DEF e, bases
<1> QED
  BY <1>2, <1>3, <1>4, <1>5, <1>6 DEF e, Becomes

-----------------------------------------------------------------------------
(***************************************************************************)
(* The grid recipe.                                                        *)
(***************************************************************************)
\* _grid: the grid opens with a BUY for each bid under the price.
LEMMA OpenGridDecides ==
  ASSUME NEW v, NEW d, Decides(plan, v, d), d.out = <<>>, d.c.action = "none", OpensGrid(d),
         plan.recipe = "grid"
  PROVE  LET e == OpenGrid(d)
         IN  Decides(plan, v, e) /\ Follows(d, e) /\ e.c.action = "none"
<1> DEFINE N == Cardinality(d.below)
           c == [d.c EXCEPT !.cycle = @ + 1, !.phase = "active", !.stop = TRUE, !.grid = d.below]
           e == [d EXCEPT !.c.cycle = @ + 1, !.c.phase = "active", !.c.stop = TRUE,
                          !.c.grid = d.below]
           more == [n \in 1 .. N |-> Intent(e, "grid_buy", InOrder(d.below)[n], plan.size)]
           S == {Intent(e, "grid_buy", InOrder(d.below)[n], plan.size) : n \in 1 .. N}
           sent == [e EXCEPT !.out = @ \o more]
           kept == [d EXCEPT !.raised = TRUE]
<1>1. /\ DOMAIN d = DecisionFields /\ IsControl(d.c) /\ RefusedStart(plan, d.c)
      /\ StageInv(plan, d.a, v, d.c) /\ plan \in Plans /\ d.a \in AccountIn(plan)
      /\ IsFiniteSet(d.below) /\ Lawful(plan, d.a, d.c, d.out)
  BY DEF Decides, StageInv
<1>2. Known(d.a) = {} /\ Flat(d.a) /\ d.kind = "closed_bar" /\ ~Final(d.c)
  BY <1>1 DEF OpensGrid, StageInv, PhaseInv, Flat, Unreconciled, Final
<1>3. N \in Nat /\ plan.size \in Int /\ d.c.cycle \in Nat
  BY <1>1, FS_CardinalityType, PlanFacts DEF IsControl
<1>4. Decides(plan, v, kept) /\ Follows(d, kept) /\ kept.c.action = "none"
  <2>1. /\ DOMAIN kept = DecisionFields /\ kept.c = d.c /\ kept.out = d.out /\ kept.a = d.a
        /\ kept.below = d.below
    BY <1>1 DEF DecisionFields
  <2>2. Tuned(d.a, d.a)
    BY <1>1, SelfTuned
  <2> HIDE DEF kept
  <2> QED
    BY <1>1, <2>1, <2>2 DEF Decides, Follows
<1>5. Decides(plan, v, sent) /\ Follows(d, sent) /\ sent.c.action = "none"
  <2>1. /\ IsControl(c) /\ c.cycle = d.c.cycle + 1 /\ c.action = "none" /\ c.phase = "active"
    BY <1>1, <1>3 DEF IsControl
  <2>2. /\ DOMAIN e = DecisionFields /\ e.c = c /\ e.out = <<>> /\ e.a = d.a
        /\ e.kind = d.kind /\ e.below = d.below
    <3>1. e = [d EXCEPT !.c = c]
      BY <1>1 DEF DecisionFields, IsControl
    <3> HIDE DEF e, c
    <3> QED
      BY <1>1, <3>1 DEF DecisionFields
  <2> HIDE DEF c, e
  <2>3. StageInv(plan, d.a, v, c) /\ RefusedStart(plan, c)
    BY <1>1, <1>2, <2>1 DEF StageInv, CycleInv, CloseInv, PhaseInv, SlotInv, RefusedStart
  <2>4. \A i \in S : LawfulIntent(plan, d.a, c, i)
    <3> SUFFICES ASSUME NEW n \in 1 .. N
                 PROVE  LawfulIntent(plan, d.a, c,
                                     Intent(e, "grid_buy", InOrder(d.below)[n], plan.size))
      OBVIOUS
    <3> DEFINE i == Intent(e, "grid_buy", InOrder(d.below)[n], plan.size)
    <3>1. /\ i.kind = "submit" /\ i.size = plan.size /\ i.id.cycle = c.cycle
          /\ i.id.purpose = "grid_buy"
      BY <2>2, IntentFields
    <3> HIDE DEF i
    <3>2. SlotReady(plan, d.a, i.id)
      BY <1>2 DEF SlotReady
    <3>3. LawfulIntent(plan, d.a, c, i)
      BY <1>3, <2>1, <3>1, <3>2 DEF LawfulIntent, LawfulSubmit, GridPurposes
    <3> QED
      BY <3>3 DEF i
  <2>5. more \in Seq(S)
    <3>1. \A n \in 1 .. N : more[n] \in S
      OBVIOUS
    <3>2. more \in [1 .. N -> S]
      BY <3>1
    <3> HIDE DEF more, S
    <3> QED
      BY <1>3, <3>2
  <2> HIDE DEF S
  <2>6. Lawful(plan, d.a, c, more)
    BY <2>4, <2>5 DEF Lawful
  <2> HIDE DEF more
  <2>7. Lawful(plan, d.a, c, <<>> \o more)
    BY <2>6, LawfulEmpty, LawfulJoin
  <2>8. /\ DOMAIN sent = DecisionFields /\ sent.c = c /\ sent.out = <<>> \o more
        /\ sent.a = d.a /\ sent.kind = d.kind /\ sent.below = d.below
    BY <2>2 DEF DecisionFields
  <2> HIDE DEF sent
  <2>9. Decides(plan, v, sent)
    BY <1>1, <2>3, <2>7, <2>8 DEF Decides
  <2>10. Tuned(d.a, d.a)
    BY <1>1, SelfTuned
  <2> QED
    BY <1>2, <2>1, <2>8, <2>9, <2>10 DEF Follows
<1>6. OpenGrid(d) \in {kept, sent}
  BY DEF OpenGrid
<1> HIDE DEF kept, sent
<1> QED
  BY <1>4, <1>5, <1>6

\* The last order of a slot.
LEMMA LatestOne ==
  ASSUME NEW ids, IsFiniteSet(ids), ids # {}, \A id \in ids : id.gen \in Nat
  PROVE  Latest(ids) \in ids /\ \A id \in ids : id.gen <= Latest(ids).gen
<1> DEFINE P == {T \in SUBSET ids : T # {} => \E last \in T : \A id \in T : id.gen <= last.gen}
<1>1. {} \in P
  OBVIOUS
<1>2. ASSUME NEW T \in SUBSET ids, NEW x \in ids \ T, T \in P PROVE T \cup {x} \in P
  <2>1. x.gen \in Nat /\ x.gen <= x.gen /\ \A id \in T : id.gen \in Nat
    OBVIOUS
  <2>2. CASE T = {}
    BY <2>1, <2>2
  <2>3. CASE T # {}
    <3>1. PICK last \in T : \A id \in T : id.gen <= last.gen
      BY <1>2, <2>3
    <3>2. CASE x.gen <= last.gen
      BY <3>1, <3>2
    <3>3. CASE ~(x.gen <= last.gen)
      <4>1. \A id \in T : id.gen <= x.gen
        BY <2>1, <3>1, <3>3
      <4> QED
        BY <2>1, <4>1
    <3> QED
      BY <3>2, <3>3
  <2> QED
    BY <2>2, <2>3
<1>3. ids \in P
  <2> HIDE DEF P
  <2> QED
    BY <1>1, <1>2, InductionOnSubsets
<1>4. PICK last \in ids : \A id \in ids : id.gen <= last.gen
  BY <1>3
<1> QED
  BY <1>4 DEF Latest

\* A slot that may act is settled, and one that may buy again left dust.
LEMMA SlotIsReady ==
  ASSUME NEW v, NEW d, StageInv(plan, d.a, v, d.c), d.c.action = "none", plan.recipe = "grid",
         NEW s, NEW buys, buys = {id \in Owned(d, "grid_buy") : id.slot = s}, buys # {},
         NEW buy, buy = Latest(buys), d.a.orders[buy].terminal_reconciled,
         \A id \in Owned(d, "grid_sell") : id.slot = s => d.a.orders[id].terminal_reconciled,
         NEW id, id.slot = s, id.purpose = "grid_buy" => d.a.lots[buy] < plan.min
  PROVE  SlotReady(plan, d.a, id) /\ d.a.lots[buy] \in Int
<1>1. /\ plan \in Plans /\ d.a \in AccountIn(plan) /\ CloseInv(d.a, d.c)
      /\ GenerationInv(d.a) /\ SlotInv(plan, d.a, d.c)
  BY DEF StageInv
<1>2. buys \subseteq Known(d.a) /\ \A old \in Known(d.a) : old.gen \in Nat
  BY <1>1, KnownOrders, PlanFacts DEF Owned
<1>3. IsFiniteSet(buys)
  BY <1>1, <1>2, KnownFinite, FS_Subset
<1>4. buy \in buys /\ \A old \in buys : old.gen <= buy.gen
  BY <1>2, <1>3, LatestOne
<1>5. /\ buy \in Known(d.a) /\ buy.purpose = "grid_buy" /\ buy.slot = s
      /\ buy.cycle = d.c.cycle
  BY <1>4 DEF Owned
<1>6. d.a.lots[buy] \in Int
  BY <1>1, <1>5, KnownOrders
<1>7. ASSUME NEW old \in Known(d.a), old.slot = s
      PROVE  /\ d.a.orders[old].terminal_reconciled
             /\ id.purpose = "grid_buy" /\ old.purpose = "grid_buy" => d.a.lots[old] < plan.min
  <2>1. old.purpose \in GridPurposes /\ old.cycle = d.c.cycle
    BY <1>1 DEF SlotInv
  <2>2. CASE old.purpose = "flatten"
    BY <1>1, <2>2 DEF CloseInv
  <2>3. CASE old.purpose = "grid_sell"
    BY <1>7, <2>1, <2>3 DEF Owned
  <2>4. CASE old.purpose = "grid_buy" /\ old # buy
    <3>1. old \in buys /\ SameSlot(buy, old)
      BY <1>5, <1>7, <2>1, <2>4 DEF Owned, SameSlot
    <3>2. old.gen < buy.gen
      <4>1. old.gen <= buy.gen /\ buy.gen # old.gen /\ old.gen \in Nat /\ buy.gen \in Nat
        BY <1>1, <1>2, <1>4, <1>5, <2>4, <3>1 DEF GenerationInv
      <4> QED
        BY <4>1
    <3>3. d.a.orders[old].terminal_reconciled
      BY <1>1, <1>5, <2>4, <3>1, <3>2 DEF GenerationInv
    <3>4. d.a.lots[old] < plan.min
      BY <1>1, <1>5, <3>1, <3>2 DEF SlotInv
    <3> QED
      BY <3>3, <3>4
  <2>5. CASE old = buy
    BY <2>5
  <2> QED
    BY <2>1, <2>2, <2>3, <2>4, <2>5 DEF GridPurposes
<1> QED
  BY <1>6, <1>7 DEF SlotReady

\* One slot decides at most one intent, from the account and the controller alone.
LEMMA RungDecides ==
  ASSUME NEW v, NEW d, Decides(plan, v, d), d.c.action = "none", plan.recipe = "grid",
         d.c.phase = "active", NEW s, NEW x, Rewrites(d, x), x.c = d.c
  PROVE  \/ Rung(x, s) = x
         \/ \E purpose \in {"grid_buy", "grid_sell"}, size \in Int :
              LET i == Intent(d, purpose, s, size)
              IN  LawfulIntent(plan, d.a, d.c, i) /\ Rung(x, s) = Submitting(x, i)
<1> DEFINE Of(purpose) == {id \in Owned(d, purpose) : id.slot = s}
           buys == Of("grid_buy")
           buy == Latest(buys)
<1>1. StageInv(plan, d.a, v, d.c) /\ plan \in Plans
  BY DEF Decides, StageInv
<1>2. x.a = d.a /\ x.c = d.c /\ \A purpose : Owned(x, purpose) = Owned(d, purpose)
  BY DEF Rewrites, Owned
<1>3. ASSUME NEW purpose, NEW size
      PROVE  Intent(x, purpose, s, size) = Intent(d, purpose, s, size)
  <2>1. Owned(x, purpose) = Owned(d, purpose)
    BY <1>2
  <2> QED
    BY <1>2, <2>1, Zenon DEF Intent
<1> DEFINE ready == /\ buys # {} /\ d.a.orders[buy].terminal_reconciled
                    /\ \A id \in Owned(d, "grid_sell") :
                         id.slot = s => d.a.orders[id].terminal_reconciled
           sells == Rung(x, s) = Submitting(x, Intent(d, "grid_sell", s, d.a.lots[buy]))
           bids == Rung(x, s) = Submitting(x, Intent(d, "grid_buy", s, plan.size))
<1>4. \/ Rung(x, s) = x
      \/ ready /\ d.a.lots[buy] >= plan.min /\ sells
      \/ ready /\ ~(d.a.lots[buy] >= plan.min) /\ bids
  <2> DEFINE stay == \/ buys = {}
                     \/ \E id \in {buy} \cup Of("grid_sell") : ~d.a.orders[id].terminal_reconciled
             again == /\ x.kind = "closed_bar" /\ x.bar > x.c.ended[s]
                      /\ x.mark # "high" /\ free_quote(x.a) >= SlotCost
             sell == Submitting(x, Intent(d, "grid_sell", s, d.a.lots[buy]))
             bid == Submitting(x, Intent(d, "grid_buy", s, plan.size))
  <2>1. Rung(x, s) = IF stay THEN x ELSE IF d.a.lots[buy] >= plan.min THEN sell
                     ELSE IF again THEN bid ELSE x
    <3> DEFINE XOf(purpose) == {id \in Owned(x, purpose) : id.slot = s}
               xbuy == Latest(XOf("grid_buy"))
    <3>1. XOf("grid_buy") = buys /\ XOf("grid_sell") = Of("grid_sell")
      BY <1>2, Zenon
    <3>2. Rung(x, s) =
            IF \/ XOf("grid_buy") = {}
               \/ \E id \in {xbuy} \cup XOf("grid_sell") : ~x.a.orders[id].terminal_reconciled
              THEN x
            ELSE IF x.a.lots[xbuy] >= plan.min
                   THEN Submitting(x, Intent(x, "grid_sell", s, x.a.lots[xbuy]))
            ELSE IF again THEN Submitting(x, Intent(x, "grid_buy", s, plan.size))
            ELSE x
      BY DEF Rung
    <3>3. xbuy = buy
      BY <3>1
    <3> HIDE DEF XOf, xbuy, buys, Of
    <3> QED
      BY <1>2, <1>3, <3>1, <3>2, <3>3 DEF buys, Of
  <2>2. ~stay => ready
    OBVIOUS
  <2> HIDE DEF stay, again, sell, bid, ready, buy
  <2> QED
    BY <2>1, <2>2 DEF sell, bid
<1>5. ASSUME ready, NEW purpose \in {"grid_buy", "grid_sell"}, NEW size,
             ~(purpose = "grid_buy" /\ d.a.lots[buy] >= plan.min),
             size = IF purpose = "grid_buy" THEN plan.size ELSE d.a.lots[buy]
      PROVE  size \in Int /\ LawfulIntent(plan, d.a, d.c, Intent(d, purpose, s, size))
  <2> DEFINE i == Intent(d, purpose, s, size)
  <2>1. /\ i.kind = "submit" /\ i.size = size /\ i.id.cycle = d.c.cycle
        /\ i.id.slot = s /\ i.id.purpose = purpose
    BY IntentFields
  <2> HIDE DEF i
  <2> DEFINE id == i.id
             old == buy
             set == buys
  <2>2. /\ set = {j \in Owned(d, "grid_buy") : j.slot = s} /\ set # {} /\ old = Latest(set)
        /\ d.a.orders[old].terminal_reconciled
        /\ \A j \in Owned(d, "grid_sell") : j.slot = s => d.a.orders[j].terminal_reconciled
    BY <1>5
  <2> HIDE DEF set, old, buy, buys
  <2>3. \A j : j.slot = s /\ (j.purpose = "grid_buy" => d.a.lots[old] < plan.min)
                => SlotReady(plan, d.a, j) /\ d.a.lots[old] \in Int
    BY <1>1, <2>2, SlotIsReady
  <2>4. d.a.lots[old] \in Int /\ plan.size \in Int /\ plan.min \in Int
    <3> DEFINE j == [slot |-> s, purpose |-> "grid_sell"]
    <3>1. j.slot = s /\ j.purpose # "grid_buy"
      OBVIOUS
    <3> HIDE DEF j
    <3> QED
      BY <1>1, <2>3, <3>1, PlanFacts
  <2>5. old = buy
    BY DEF old
  <2>6. id.slot = s /\ (id.purpose = "grid_buy" => d.a.lots[old] < plan.min)
    BY <1>5, <2>1, <2>4, <2>5
  <2>7. SlotReady(plan, d.a, id)
    BY <2>3, <2>6
  <2>8. LawfulIntent(plan, d.a, d.c, i)
    BY <1>5, <2>1, <2>4, <2>5, <2>7 DEF LawfulIntent, LawfulSubmit, GridPurposes
  <2> QED
    BY <1>5, <2>4, <2>5, <2>8 DEF i
<1> HIDE DEF ready, buys, buy, Of
<1> QED
  BY <1>4, <1>5

\* The decisions that a ladder may have reached, with intents of U.
WithOut(d, out) == [d EXCEPT !.out = out]
OutsOf(d, U) == {d} \cup {WithOut(d, out) : out \in Seq(U)}

\* They differ from the first in the intents alone.
LEMMA OutsFields ==
  ASSUME NEW d, DOMAIN d = DecisionFields, d.out = <<>>, NEW U, NEW x \in OutsOf(d, U)
  PROVE  /\ Rewrites(d, x) /\ x.c = d.c /\ x.out \in Seq(U)
         /\ \A i \in U : Submitting(x, i) \in OutsOf(d, U)
<1>1. x = d \/ \E out \in Seq(U) : x = WithOut(d, out)
  BY DEF OutsOf
<1>2. CASE x = d
  <2>1. Rewrites(d, d) /\ <<>> \in Seq(U)
    BY DEF Rewrites
  <2>2. ASSUME NEW i \in U PROVE Submitting(d, i) \in OutsOf(d, U)
    <3>1. Append(<<>>, i) \in Seq(U)
      OBVIOUS
    <3>2. Submitting(d, i) = WithOut(d, Append(<<>>, i))
      BY DEF Submitting, WithOut
    <3> HIDE DEF WithOut
    <3> QED
      BY <3>1, <3>2 DEF OutsOf
  <2> QED
    BY <1>2, <2>1, <2>2
<1>3. CASE \E out \in Seq(U) : x = WithOut(d, out)
  <2>1. PICK out \in Seq(U) : x = WithOut(d, out)
    BY <1>3
  <2>2. Rewrites(d, x) /\ x.c = d.c /\ x.out = out
    BY <2>1 DEF WithOut, Rewrites, DecisionFields
  <2>3. ASSUME NEW i \in U PROVE Submitting(x, i) \in OutsOf(d, U)
    <3>1. Append(out, i) \in Seq(U)
      BY <2>1
    <3>2. Submitting(x, i) = WithOut(d, Append(out, i))
      BY <2>1, <2>2 DEF Submitting, WithOut, DecisionFields
    <3> QED
      BY <3>1, <3>2 DEF OutsOf
  <2> QED
    BY <2>1, <2>2, <2>3
<1> QED
  BY <1>1, <1>2, <1>3

\* _grid: the slots, one after the other.
LEMMA LadderDecides ==
  ASSUME NEW v, NEW d, Decides(plan, v, d), d.out = <<>>, d.c.action = "none",
         plan.recipe = "grid", d.c.phase = "active"
  PROVE  LET e == Ladder(d)
         IN  Becomes(plan, v, d, e) /\ e.c = d.c
<1> DEFINE N == Cardinality(d.c.grid)
           slot(n) == InOrder(d.c.grid)[n]
           U == {i \in {Intent(d, purpose, slot(n), size) :
                          purpose \in {"grid_buy", "grid_sell"}, n \in 1 .. N, size \in Int} :
                   LawfulIntent(plan, d.a, d.c, i)}
           S == OutsOf(d, U)
           step(x, n) == Rung(x, slot(n))
           F == [n \in 1 .. N |-> [x \in S |-> step(x, n)]]
           G(g) == g = [n \in 0 .. N |-> IF n = 0 THEN d ELSE Rung(g[n - 1], InOrder(d.c.grid)[n])]
           h == CHOOSE g : G(g)
<1>1. /\ DOMAIN d = DecisionFields /\ IsControl(d.c) /\ RefusedStart(plan, d.c)
      /\ StageInv(plan, d.a, v, d.c) /\ plan \in Plans
  BY DEF Decides, StageInv
<1>2. N \in Nat
  BY <1>1, FS_CardinalityType DEF IsControl
<1>3. ASSUME NEW x \in S
      PROVE  /\ Rewrites(d, x) /\ x.c = d.c /\ x.out \in Seq(U)
             /\ \A i \in U : Submitting(x, i) \in S
  <2> HIDE DEF U
  <2> QED
    BY <1>1, <1>3, OutsFields
<1>4. d \in S
  BY DEF OutsOf
<1>5. ASSUME NEW n \in 1 .. N, NEW x \in S PROVE step(x, n) \in S
  <2> DEFINE s == slot(n)
  <2>1. \A purpose \in {"grid_buy", "grid_sell"}, size \in Int :
          LawfulIntent(plan, d.a, d.c, Intent(d, purpose, s, size))
            => Intent(d, purpose, s, size) \in U
    BY <1>5
  <2>2. /\ Rewrites(d, x) /\ x.c = d.c /\ \A i \in U : Submitting(x, i) \in S
    BY <1>3, <1>5
  <2> HIDE DEF s, U, S
  <2>3. \/ Rung(x, s) = x
        \/ \E purpose \in {"grid_buy", "grid_sell"}, size \in Int :
             LET i == Intent(d, purpose, s, size)
             IN  LawfulIntent(plan, d.a, d.c, i) /\ Rung(x, s) = Submitting(x, i)
    BY <2>2, RungDecides
  <2>4. Rung(x, s) \in S
    BY <1>5, <2>1, <2>2, <2>3
  <2> QED
    BY <2>4 DEF s
<1>6. Stepper(S, N, F)
  <2> HIDE DEF S, step
  <2> QED
    BY <1>5 DEF Stepper
<1>7. PICK g : AreSteps(S, N, d, F, g)
  <2> HIDE DEF N, S, F
  <2> QED
    BY <1>2, <1>4, <1>6, StepsExist
<1>8. G(g)
  <2>1. ASSUME NEW n \in 0 .. N, n # 0 PROVE F[n][g[n - 1]] = step(g[n - 1], n)
    <3>1. n \in 1 .. N /\ n - 1 \in 0 .. N
      BY <2>1, <1>2
    <3> HIDE DEF S, step
    <3>2. g[n - 1] \in S
      BY <1>7, <3>1 DEF AreSteps
    <3> QED
      BY <3>1, <3>2
  <2> DEFINE e(n) == IF n = 0 THEN d ELSE step(g[n - 1], n)
  <2>2. \A n \in 0 .. N : g[n] = e(n)
    <3> HIDE DEF S, step, F
    <3> QED
      BY <1>7, <2>1 DEF AreSteps
  <2> HIDE DEF e, N, S, F
  <2>3. g = [n \in 0 .. N |-> e(n)]
    BY <1>7, <2>2 DEF AreSteps
  <2> QED
    BY <2>3 DEF e, N
<1>9. G(h)
  <2> HIDE DEF G
  <2> QED
    BY <1>8
<1>10. Ladder(d) = h[N]
  BY DEF Ladder
<1> HIDE DEF h
<1>11. h[0] \in S /\ \A n \in 1 .. N : h[n - 1] \in S => h[n] \in S
  <2>1. h[0] = d
    BY <1>2, <1>9
  <2>2. ASSUME NEW n \in 1 .. N PROVE h[n] = step(h[n - 1], n)
    <3> DEFINE e(m) == IF m = 0 THEN d ELSE step(h[m - 1], m)
    <3>1. h = [m \in 0 .. N |-> e(m)]
      BY <1>9
    <3>2. n \in 0 .. N /\ n # 0
      BY <1>2
    <3> HIDE DEF e, N
    <3>3. h[n] = e(n)
      BY <3>1, <3>2
    <3> HIDE DEF step
    <3> QED
      BY <3>2, <3>3 DEF e
  <2> HIDE DEF S, step
  <2> QED
    BY <1>4, <1>5, <2>1, <2>2
<1>12. h[N] \in S
  <2> HIDE DEF N, S
  <2> QED
    BY <1>2, <1>11, StepsStay
<1> DEFINE e == Ladder(d)
           out == e.out
<1>13. e \in S
  BY <1>10, <1>12
<1> HIDE DEF e
<1>14. Rewrites(d, e) /\ e.c = d.c /\ out \in Seq(U)
  <2> HIDE DEF S, U
  <2> QED
    BY <1>3, <1>13
<1>15. Lawful(plan, d.a, d.c, out)
  <2>1. \A i \in U : LawfulIntent(plan, d.a, d.c, i)
    OBVIOUS
  <2> HIDE DEF U, out
  <2> QED
    BY <1>14, <2>1 DEF Lawful
<1>16. Becomes(plan, v, d, e)
  BY <1>1, <1>14, <1>15, ControlDecides
<1> QED
  BY <1>14, <1>16 DEF e


\* _grid, as a whole.
LEMMA GridDecides ==
  ASSUME NEW v, NEW d, Decides(plan, v, d), d.out = <<>>, d.c.action = "none",
         plan.recipe = "grid"
  PROVE  LET e == Grid(d)
         IN  Decides(plan, v, e) /\ Follows(d, e) /\ Rests(e)
<1> DEFINE e == Grid(d)
<1>1. CASE OpensGrid(d)
  <2>1. e = OpenGrid(d)
    BY <1>1 DEF Grid
  <2> HIDE DEF e
  <2> QED
    BY <1>1, <2>1, OpenGridDecides DEF Rests, e
<1>2. CASE ~OpensGrid(d) /\ d.c.phase = "active"
  <2>1. e = Ladder(d)
    BY <1>2 DEF Grid
  <2> HIDE DEF e
  <2>2. Becomes(plan, v, d, e) /\ e.c = d.c
    BY <1>2, <2>1, LadderDecides
  <2> QED
    BY <2>2 DEF Becomes, Rests, e
<1>3. CASE ~OpensGrid(d) /\ d.c.phase # "active"
  <2>1. e = d
    BY <1>3 DEF Grid
  <2>2. Follows(d, d)
    BY FollowsItself DEF Decides
  <2> HIDE DEF e
  <2> QED
    BY <2>1, <2>2 DEF Rests, e
<1> QED
  BY <1>1, <1>2, <1>3

-----------------------------------------------------------------------------
(***************************************************************************)
(* _decide.                                                                *)
(***************************************************************************)
\* common_safety.
LEMMA TriggeredDecides ==
  ASSUME NEW v, NEW d, Decides(plan, v, d), d.out = <<>>
  PROVE  LET e == Triggered(d)
         IN  /\ Decides(plan, v, e) /\ e.a = d.a /\ e.c.cycle = d.c.cycle
             /\ (Final(d.c) => Final(e.c)) /\ e.out = <<>> /\ e.kind = d.kind
<1> DEFINE s == Stopped(d)
           e == Targeted(s)
<1>1. /\ Decides(plan, v, s) /\ s.a = d.a /\ s.c.cycle = d.c.cycle
      /\ (Final(d.c) => Final(s.c)) /\ s.out = <<>> /\ s.kind = d.kind
  <2>1. CASE StopTouched(d)
    <3>1. s = [d EXCEPT !.c = TriggerFlatten(@, "stop")]
      BY <2>1 DEF Stopped
    <3> HIDE DEF s
    <3> QED
      BY <3>1, TriggeringDecides
  <2>2. CASE ~StopTouched(d)
    BY <2>2 DEF Stopped
  <2> QED
    BY <2>1, <2>2
<1> HIDE DEF s
<1>2. /\ Decides(plan, v, e) /\ e.a = s.a /\ e.c.cycle = s.c.cycle
      /\ (Final(s.c) => Final(e.c)) /\ e.out = <<>> /\ e.kind = s.kind
  <2>1. CASE TargetFilled(s)
    <3>1. e = [s EXCEPT !.c = TriggerFlatten(@, "target")]
      BY <2>1 DEF Targeted
    <3> HIDE DEF e
    <3> QED
      BY <1>1, <3>1, TriggeringDecides
  <2>2. CASE ~TargetFilled(s)
    BY <1>1, <2>2 DEF Targeted
  <2> QED
    BY <2>1, <2>2
<1>3. Triggered(d) = e
  BY DEF Triggered, s
<1> HIDE DEF e
<1> QED
  BY <1>1, <1>2, <1>3

\* The decision after the triggers: the barrier, or the recipe.
LEMMA DecidedDecides ==
  ASSUME NEW v, NEW d, Decides(plan, v, d), d.out = <<>>, NEW levels
  PROVE  LET e == Decided(d, levels)
         IN  Decides(plan, v, e) /\ Follows(d, e) /\ Rests(e)
<1> DEFINE e == Decided(d, levels)
<1>1. StageInv(plan, d.a, v, d.c) /\ plan.recipe \in {"dca", "grid"}
  BY PlanFacts DEF Decides, StageInv
<1>2. CASE d.c.action # "none"
  <2>1. e = Terminal(d)
    BY <1>2 DEF Decided
  <2> HIDE DEF e
  <2> QED
    BY <1>2, <2>1, TerminalDecides DEF Becomes, e
<1>3. CASE d.c.action = "none" /\ Halted(d.a)
  <2>1. e = d
    BY <1>3 DEF Decided
  <2>2. Follows(d, d)
    BY <1>1, FollowsItself
  <2> HIDE DEF e
  <2> QED
    BY <1>3, <2>1, <2>2 DEF Rests, e
<1>4. CASE d.c.action = "none" /\ ~Halted(d.a) /\ plan.recipe = "dca"
  <2>1. e = Dca(d, levels)
    BY <1>4 DEF Decided
  <2> HIDE DEF e
  <2> QED
    BY <1>4, <2>1, DcaDecides DEF e
<1>5. CASE d.c.action = "none" /\ ~Halted(d.a) /\ plan.recipe = "grid"
  <2>1. e = Grid(d)
    BY <1>5 DEF Decided
  <2> HIDE DEF e
  <2> QED
    BY <1>5, <2>1, GridDecides DEF e
<1> QED
  BY <1>1, <1>2, <1>3, <1>4, <1>5

\* A cycle that is complete leaves nothing that the action matters for.
LEMMA FlatInv ==
  ASSUME NEW p, NEW v, NEW a, NEW c, StageInv(p, a, v, c), c.phase = "complete",
         NEW e, IsControl(e), e.cycle = c.cycle, e.phase = c.phase
  PROVE  StageInv(p, a, v, e) /\ Flat(a)
<1>1. Flat(a)
  BY DEF StageInv, PhaseInv
<1>2. CycleInv(a, e) /\ PhaseInv(p, a, e) /\ SlotInv(p, a, e)
  BY DEF StageInv, CycleInv, PhaseInv, SlotInv
<1>3. CloseInv(a, e)
  BY <1>1 DEF Flat, Unreconciled, CloseInv
<1> QED
  BY <1>1, <1>2, <1>3 DEF StageInv

\* _decide: a start after a completed cycle.
LEMMA RestartedDecides ==
  ASSUME NEW v, NEW d, Decides(plan, v, d), d.out = <<>>, NEW levels, RestInv(plan, d.a, d.c),
         Starts(d), d.c.phase = "complete"
  PROVE  LET e == Decide(d, levels)
         IN  Decides(plan, v, e) /\ Follows(d, e) /\ Rests(e)
<1> DEFINE r == [d EXCEPT !.c.action = "none"]
           e == Decided(r, levels)
<1>1. /\ DOMAIN d = DecisionFields /\ IsControl(d.c) /\ RefusedStart(plan, d.c)
      /\ StageInv(plan, d.a, v, d.c) /\ plan.recipe \in {"dca", "grid"} /\ d.a \in AccountIn(plan)
      /\ d.kind = "closed_bar" /\ IsFiniteSet(d.below) /\ d.c.cycle \in Nat
  BY PlanFacts DEF Decides, StageInv, Starts, IsControl
<1>2. /\ Rewrites(d, r) /\ r.out = d.out /\ IsControl(r.c) /\ r.c.cycle = d.c.cycle
      /\ r.c.action = "none" /\ r.c.phase = d.c.phase /\ r.c.reason = d.c.reason
      /\ r.c.refusal = d.c.refusal
  BY <1>1 DEF Rewrites, DecisionFields, IsControl
<1>3. Decide(d, levels) = e
  <2>1. Restarted(d) = r
    BY DEF Restarted
  <2>2. Triggered(r) = r
    <3> HIDE DEF r
    <3> QED
      BY <1>1, <1>2 DEF Triggered, Targeted, Stopped, TargetFilled, StopTouched, Rewrites
  <2> HIDE DEF r
  <2> QED
    BY <2>1, <2>2 DEF Decide, e
<1> HIDE DEF r
<1>4. StageInv(plan, r.a, v, r.c) /\ Flat(d.a) /\ r.a = d.a /\ r.kind = d.kind
  BY <1>1, <1>2, FlatInv DEF Rewrites
<1>5. ASSUME RefusedStart(plan, r.c) PROVE Decides(plan, v, r) /\ Follows(d, r) /\ Rests(r)
  <2>1. Lawful(plan, r.a, r.c, r.out)
    BY <1>2, LawfulEmpty
  <2>2. Tuned(d.a, r.a)
    BY <1>1, <1>4, SelfTuned
  <2>3. ~Final(d.c)
    BY DEF Final
  <2> QED
    BY <1>1, <1>2, <1>4, <1>5, <2>1, <2>2, <2>3 DEF Decides, Follows, Rests, Rewrites
<1>6. CASE Halted(r.a)
  <2>1. e = r
    BY <1>2, <1>6 DEF Decided
  <2>2. RefusedStart(plan, r.c)
    BY <1>1, <1>2, <1>4, <1>6 DEF RestInv, RefusedStart
  <2> HIDE DEF e
  <2> QED
    BY <1>3, <1>5, <2>1, <2>2
<1>7. CASE ~Halted(r.a) /\ plan.recipe = "grid"
  <2>1. e = r
    <3>1. e = Grid(r)
      BY <1>2, <1>7 DEF Decided
    <3> HIDE DEF e
    <3> QED
      BY <1>2, <3>1 DEF Grid, OpensGrid
  <2>2. RefusedStart(plan, r.c)
    BY <1>7 DEF RefusedStart
  <2> HIDE DEF e
  <2> QED
    BY <1>3, <1>5, <2>1, <2>2
<1>8. CASE ~Halted(r.a) /\ plan.recipe = "dca"
  <2>1. Starts(r)
    <3>1. r.start = d.start /\ r.bar = d.bar /\ r.c.last_cycle_bar = d.c.last_cycle_bar
      BY <1>1 DEF r, DecisionFields, IsControl
    <3> QED
      BY <1>1, <1>2, <1>4, <3>1 DEF Starts
  <2>2. e = NewCycle(r)
    <3>1. e = Dca(r, levels)
      BY <1>2, <1>8 DEF Decided
    <3> HIDE DEF e
    <3> QED
      BY <2>1, <3>1 DEF Dca
  <2> HIDE DEF e
  <2>3. Decides(plan, v, e) /\ Follows(r, e) /\ e.c.action = "none"
    BY <1>1, <1>2, <1>4, <1>8, <2>2, NewCycleDecides DEF Rewrites
  <2>4. Follows(d, e)
    BY <1>2, <1>4, <2>3 DEF Follows, Final
  <2> QED
    BY <1>3, <2>3, <2>4 DEF Rests
<1> QED
  BY <1>1, <1>6, <1>7, <1>8

\* _decide, as a whole.
LEMMA DecideDecides ==
  ASSUME NEW v, NEW d, Decides(plan, v, d), d.out = <<>>, NEW levels,
         d.kind = "closed_bar" => RestInv(plan, d.a, d.c)
  PROVE  LET e == Decide(d, levels)
         IN  Decides(plan, v, e) /\ Follows(d, e) /\ Rests(e)
<1>1. CASE Starts(d) /\ d.c.phase = "complete"
  BY <1>1, RestartedDecides DEF Starts
<1>2. CASE ~(Starts(d) /\ d.c.phase = "complete")
  <2> DEFINE t == Triggered(d)
             e == Decided(t, levels)
  <2>1. Decide(d, levels) = e
    <3>1. Restarted(d) = d
      BY <1>2 DEF Restarted
    <3> QED
      BY <3>1 DEF Decide
  <2>2. /\ Decides(plan, v, t) /\ t.a = d.a /\ t.c.cycle = d.c.cycle
        /\ (Final(d.c) => Final(t.c)) /\ t.out = <<>> /\ t.kind = d.kind
    BY TriggeredDecides
  <2> HIDE DEF t
  <2>3. Decides(plan, v, e) /\ Follows(t, e) /\ Rests(e)
    BY <2>2, DecidedDecides
  <2> HIDE DEF e
  <2>4. StageInv(plan, d.a, v, d.c) /\ d.a \in AccountIn(plan)
    BY DEF Decides, StageInv
  <2>5. Follows(d, t)
    BY <2>2, <2>4, SelfTuned DEF Follows
  <2>6. Follows(d, e)
    BY <2>2, <2>3, <2>4, <2>5, FollowsTwice
  <2> QED
    BY <2>1, <2>3, <2>6
<1> QED
  BY <1>1, <1>2

\* advance_spot: a refused route of an account that holds base becomes a
\* containment, in the same cycle.
LEMMA ContainedDecides ==
  ASSUME NEW v, NEW d, StageInv(plan, d.a, v, d.c), NEW e, Decides(plan, v, e), Follows(d, e),
         Contained(e).a.base # 0
  PROVE  LET f == Contained(e)
         IN  Decides(plan, v, f) /\ Follows(d, f) /\ Rests(f)
<1> DEFINE g == [e EXCEPT !.out = <<>>, !.c.refusal = "admission_failure"]
           f == Stop(g, "admission_failure")
<1>1. /\ DOMAIN e = DecisionFields /\ IsControl(e.c) /\ RefusedStart(plan, e.c)
      /\ d.a \in AccountIn(plan)
  BY DEF Decides, StageInv
<1>2. /\ Rewrites(e, g) /\ g.out = <<>> /\ IsControl(g.c) /\ g.c.cycle = e.c.cycle
      /\ g.c.action = e.c.action /\ g.c.phase = e.c.phase /\ g.c.reason = e.c.reason
      /\ g.c.refusal = "admission_failure"
  BY <1>1 DEF Rewrites, DecisionFields, IsControl
<1>3. Contained(e) = f
  BY DEF Contained
<1> HIDE DEF g
<1>4. Becomes(plan, v, e, g)
  <2>1. RefusedStart(plan, g.c)
    BY <1>2 DEF RefusedStart
  <2>2. Lawful(plan, e.a, g.c, g.out)
    BY <1>2, LawfulEmpty
  <2> QED
    BY <1>2, <2>1, <2>2, ControlDecides
<1>5. Becomes(plan, v, g, f) /\ Rests(f)
  BY <1>2, <1>4, StopDecides DEF Becomes
<1> HIDE DEF f
<1>6. Becomes(plan, v, e, f)
  BY <1>4, <1>5, BecomesTwice DEF Decides
<1>7. Follows(d, f)
  <2>1. Tuned(d.a, f.a)
    BY <1>1, <1>6, TunedTwice DEF Becomes, Follows
  <2>2. e.c.cycle = d.c.cycle
    <3>1. e.a \in AccountIn(plan)
      BY DEF Decides, StageInv
    <3>2. f.a.base = e.a.base
      BY <1>6, <3>1, TunedFields DEF Becomes, Follows
    <3> QED
      BY <1>1, <1>3, <3>2, TunedFields DEF Follows, Flat
  <2> QED
    BY <1>6, <2>1, <2>2 DEF Becomes, Follows
<1> QED
  BY <1>3, <1>5, <1>6, <1>7 DEF Becomes

-----------------------------------------------------------------------------
(***************************************************************************)
(* The route.                                                              *)
(***************************************************************************)
\* An account into which intents of d were admitted: what was settled stays as
\* it was, and the new orders are lawful ones, of which only the closes were
\* submitted under an action.
Asked(p, d, id) ==
  /\ \E i : i.id = id /\ LawfulSubmit(p, d.a, d.c, i)
  /\ d.c.action # "none" => id.purpose = "flatten"
SameSettled(a, b) ==
  /\ Known(a) \subseteq Known(b)
  /\ \A id \in Known(a) : b.orders[id].terminal_reconciled = a.orders[id].terminal_reconciled
  /\ b.lots = a.lots /\ b.base = a.base /\ b.events = a.events
  /\ b.quarantine = a.quarantine /\ b.reconciliation = a.reconciliation
Admits(p, v, d, b) ==
  /\ b \in AccountIn(p) /\ EndInv(b, v) /\ GenerationInv(b) /\ SameSettled(d.a, b)
  /\ \A id \in Known(b) \ Known(d.a) : ~b.orders[id].terminal_reconciled /\ Asked(p, d, id)

\* submit_spot_order
LEMMA SubmittedAccount ==
  ASSUME NEW p \in Plans, NEW a \in AccountIn(p), NEW id, NEW size \in Int, NEW lots,
         id \notin Known(a)
  PROVE  LET b == Submitted(a, id, size, lots)
         IN  /\ b \in AccountIn(p) /\ SameSettled(a, b)
             /\ Known(b) \subseteq Known(a) \cup {id}
             /\ \A old \in Known(a) : b.orders[old] = a.orders[old]
             /\ id \in Known(b) =>
                  ~b.orders[id].terminal_reconciled /\ b.orders[id].status = "pending"
<1> DEFINE new == [NoOrder(Lots(a)) EXCEPT !.status = "pending", !.size = size,
                     !.reserved_quote = IF Buys(id) THEN size * UnitCost ELSE 0,
                     !.reserved_base = IF Buys(id) THEN 0 ELSE size,
                     !.allocations = IF Buys(id) THEN @
                                     ELSE Oldest(a, Available(a, lots), size)]
           left == CycleLeft(a, id, size)
           b == [a EXCEPT !.cycle = left, !.orders[id] = new]
<1>1. Submitted(a, id, size, lots) = b
  BY DEF Submitted
<1>2. Lots(a) = LotsIn(p) /\ a.cycle \in Int
  BY DEF Lots, AccountIn
<1>3. left \in Int
  <2>1. size * UnitCost \in Int
    BY AmountsAssumption
  <2>2. Transfer(a, id, size) \in Int
    BY <1>2, <2>1, MinOfTwo DEF Transfer
  <2> QED
    BY <1>2, <2>2 DEF CycleLeft
<1>4. new \in OrderIn(p) /\ ~new.terminal_reconciled /\ new.status = "pending"
  <2>1. Oldest(a, Available(a, lots), size) \in [LotsIn(p) -> Nat]
    BY AvailableType, OldestType
  <2>2. NoOrder(Lots(a)) \in OrderIn(p) /\ NoOrder(Lots(a)).terminal_reconciled = FALSE
    BY <1>2 DEF NoOrder, OrderIn, Nothing
  <2> DEFINE o == NoOrder(Lots(a))
             quote == IF Buys(id) THEN size * UnitCost ELSE 0
             base == IF Buys(id) THEN 0 ELSE size
             taken == IF Buys(id) THEN o.allocations ELSE Oldest(a, Available(a, lots), size)
  <2>3. quote \in Int /\ base \in Int
    BY AmountsAssumption
  <2>4. taken \in [LotsIn(p) -> Nat]
    <3>1. o.allocations \in [LotsIn(p) -> Nat]
      BY <2>2 DEF OrderIn
    <3> HIDE DEF o
    <3> QED
      BY <2>1, <3>1
  <2>5. new = [o EXCEPT !.status = "pending", !.size = size, !.reserved_quote = quote,
                        !.reserved_base = base, !.allocations = taken]
    BY <2>2 DEF OrderIn
  <2> HIDE DEF o, quote, base, taken, new
  <2>6. o \in OrderIn(p) /\ o.terminal_reconciled = FALSE
    BY <2>2 DEF o
  <2> QED
    BY <2>3, <2>4, <2>5, <2>6 DEF OrderIn
<1> HIDE DEF new, left
<1>5. /\ b \in AccountIn(p) /\ b.lots = a.lots /\ b.base = a.base /\ b.events = a.events
      /\ b.quarantine = a.quarantine /\ b.reconciliation = a.reconciliation
      /\ DOMAIN b.orders = p.orders
      /\ \A old \in p.orders : b.orders[old] = IF old = id THEN new ELSE a.orders[old]
  BY <1>3, <1>4 DEF AccountIn
<1> HIDE DEF b
<1>6. /\ Known(a) = {old \in p.orders : a.orders[old].status # "none"}
      /\ Known(b) = {old \in p.orders : b.orders[old].status # "none"}
  BY <1>5, KnownOrders
<1>7. \A old \in Known(a) : old # id /\ old \in Known(b) /\ b.orders[old] = a.orders[old]
  BY <1>5, <1>6
<1> QED
  BY <1>1, <1>4, <1>5, <1>6, <1>7 DEF SameSettled

\* cancel_spot_order
LEMMA CanceledAccount ==
  ASSUME NEW p, NEW a \in AccountIn(p), NEW id \in Known(a), NEW command,
         command \in {"terminal", "target_replace"}
  PROVE  LET b == Canceled(a, id, command)
         IN  /\ b \in AccountIn(p) /\ SameSettled(a, b) /\ Known(b) = Known(a)
             /\ \A old \in Known(a) :
                  b.orders[old].status \in TERMINAL <=> a.orders[old].status \in TERMINAL
<1> DEFINE b == Canceled(a, id, command)
           o == a.orders[id]
<1>1. CASE o.terminal_reconciled \/ o.cancel # "none"
  BY <1>1 DEF Canceled, SameSettled
<1>2. CASE ~(o.terminal_reconciled \/ o.cancel # "none")
  <2> DEFINE status == IF o.status \in TERMINAL THEN o.status ELSE "cancel_pending"
             new == [o EXCEPT !.cancel = command, !.status = status]
  <2>1. id \in p.orders /\ o \in OrderIn(p) /\ o.status # "none"
    BY KnownOrders
  <2>2. /\ new \in OrderIn(p) /\ new.terminal_reconciled = o.terminal_reconciled
        /\ (new.status \in TERMINAL <=> o.status \in TERMINAL) /\ new.status # "none"
    BY <2>1 DEF OrderIn, TERMINAL
  <2>3. b = [a EXCEPT !.orders[id] = new]
    BY <1>2, <2>1 DEF Canceled, AccountIn, OrderIn
  <2> HIDE DEF new, b
  <2>4. /\ b \in AccountIn(p) /\ b.lots = a.lots /\ b.base = a.base /\ b.events = a.events
        /\ b.quarantine = a.quarantine /\ b.reconciliation = a.reconciliation
        /\ DOMAIN b.orders = p.orders
        /\ \A old \in p.orders : b.orders[old] = IF old = id THEN new ELSE a.orders[old]
    BY <2>1, <2>2, <2>3 DEF AccountIn
  <2>5. /\ Known(a) = {old \in p.orders : a.orders[old].status # "none"}
        /\ Known(b) = {old \in p.orders : b.orders[old].status # "none"}
    BY <2>4, KnownOrders
  <2> QED
    BY <2>1, <2>2, <2>4, <2>5 DEF SameSettled, b
<1> QED
  BY <1>1, <1>2

LEMMA SettledTwice ==
  ASSUME NEW a, NEW b, NEW c, SameSettled(a, b), SameSettled(b, c)
  PROVE  SameSettled(a, c)
<1>1. \A id \in Known(a) : id \in Known(b) /\ id \in Known(c)
  BY DEF SameSettled
<1> QED
  BY <1>1 DEF SameSettled

\* An admitted submission.
LEMMA SubmitAdmits ==
  ASSUME NEW p \in Plans, NEW v, NEW d, NEW a, Admits(p, v, d, a), NEW i, NEW lots,
         LawfulSubmit(p, d.a, d.c, i), d.c.action # "none" => i.id.purpose = "flatten",
         CanSubmit(a, i.id, i.size, lots)
  PROVE  Admits(p, v, d, Submitted(a, i.id, i.size, lots))
<1> DEFINE id == i.id
           b == Submitted(a, id, i.size, lots)
<1>1. a \in AccountIn(p) /\ EndInv(a, v) /\ GenerationInv(a) /\ SameSettled(d.a, a)
  BY DEF Admits
<1>2. id \notin Known(a) /\ Succeeds(a, id) /\ i.size \in Int
  BY DEF CanSubmit, LawfulSubmit
<1>3. /\ b \in AccountIn(p) /\ SameSettled(a, b) /\ Known(b) \subseteq Known(a) \cup {id}
      /\ \A old \in Known(a) : b.orders[old] = a.orders[old]
      /\ id \in Known(b) => ~b.orders[id].terminal_reconciled /\ b.orders[id].status = "pending"
  <2> HIDE DEF id, b
  <2>1. LET c == Submitted(a, id, i.size, lots)
        IN  /\ c \in AccountIn(p) /\ SameSettled(a, c)
            /\ Known(c) \subseteq Known(a) \cup {id}
            /\ \A old \in Known(a) : c.orders[old] = a.orders[old]
            /\ id \in Known(c) =>
                 ~c.orders[id].terminal_reconciled /\ c.orders[id].status = "pending"
    BY <1>1, <1>2, SubmittedAccount
  <2> QED
    BY <2>1 DEF b
<1> HIDE DEF b
<1>4. Known(a) \subseteq Known(b) /\ \A x \in Known(b) : x \in p.orders /\ x.gen \in Nat
  BY <1>3, KnownOrders, PlanFacts DEF SameSettled
<1>5. EndInv(b, v)
  <2>1. \A n \in 1 .. Len(v) : v[n].id \in Known(b)
    BY <1>1, <1>4 DEF EndInv
  <2>2. ASSUME NEW x \in Known(b), x = id PROVE b.orders[x].status \notin TERMINAL
    BY <1>3, <2>2 DEF TERMINAL
  <2>3. ASSUME NEW x \in Known(b), x # id PROVE x \in Known(a) /\ b.orders[x] = a.orders[x]
    BY <1>3, <2>3
  <2>4. ASSUME NEW x \in Known(b)
        PROVE  /\ b.orders[x].terminal_reconciled => b.orders[x].status \in TERMINAL
               /\ b.orders[x].status \in TERMINAL => Done(v, x)
    <3>1. CASE x = id
      BY <1>3, <2>2, <3>1
    <3>2. CASE x # id
      BY <1>1, <2>3, <3>2 DEF EndInv
    <3> QED
      BY <3>1, <3>2
  <2> QED
    BY <2>1, <2>4 DEF EndInv
<1>6. GenerationInv(b)
  <2>1. ASSUME NEW x \in Known(b), NEW old \in Known(b), SameSlot(x, old), x # old
        PROVE  x.gen # old.gen /\ (old.gen < x.gen => b.orders[old].terminal_reconciled)
    <3>1. CASE x = id
      <4>1. old \in Known(a) /\ b.orders[old] = a.orders[old]
        BY <1>3, <2>1, <3>1
      <4>2. a.orders[old].terminal_reconciled /\ old.gen < id.gen
        BY <1>2, <2>1, <3>1, <4>1 DEF Succeeds
      <4> QED
        BY <1>4, <3>1, <4>1, <4>2
    <3>2. CASE old = id
      <4>1. x \in Known(a) /\ SameSlot(id, x)
        BY <1>3, <2>1, <3>2 DEF SameSlot
      <4>2. x.gen < id.gen
        BY <1>2, <4>1 DEF Succeeds
      <4> QED
        BY <1>4, <3>2, <4>2
    <3>3. CASE x # id /\ old # id
      <4>1. x \in Known(a) /\ old \in Known(a) /\ b.orders[old] = a.orders[old]
        BY <1>3, <3>3
      <4> QED
        BY <1>1, <2>1, <4>1 DEF GenerationInv
    <3> QED
      BY <3>1, <3>2, <3>3
  <2> QED
    BY <2>1 DEF GenerationInv
<1>7. ASSUME NEW x \in Known(b) \ Known(d.a)
      PROVE  ~b.orders[x].terminal_reconciled /\ Asked(p, d, x)
  <2>1. CASE x \in Known(a)
    BY <1>3, <2>1 DEF Admits
  <2>2. CASE x \notin Known(a)
    BY <1>3, <2>2 DEF Asked
  <2> QED
    BY <2>1, <2>2
<1>8. SameSettled(d.a, b)
  BY <1>1, <1>3, SettledTwice
<1> QED
  BY <1>3, <1>5, <1>6, <1>7, <1>8 DEF Admits, b

\* An admitted cancellation.
LEMMA CancelAdmits ==
  ASSUME NEW p, NEW v, NEW d, NEW a, Admits(p, v, d, a), NEW id \in Known(a), NEW command,
         command \in {"terminal", "target_replace"}
  PROVE  Admits(p, v, d, Canceled(a, id, command))
<1> DEFINE b == Canceled(a, id, command)
<1>1. a \in AccountIn(p) /\ EndInv(a, v) /\ GenerationInv(a) /\ SameSettled(d.a, a)
  BY DEF Admits
<1>2. /\ b \in AccountIn(p) /\ SameSettled(a, b) /\ Known(b) = Known(a)
      /\ \A old \in Known(a) :
           b.orders[old].status \in TERMINAL <=> a.orders[old].status \in TERMINAL
  BY <1>1, CanceledAccount
<1> HIDE DEF b
<1>3. \A old \in Known(a) : b.orders[old].terminal_reconciled = a.orders[old].terminal_reconciled
  BY <1>2 DEF SameSettled
<1>4. EndInv(b, v) /\ GenerationInv(b) /\ SameSettled(d.a, b)
  BY <1>1, <1>2, <1>3, SettledTwice DEF EndInv, GenerationInv
<1> QED
  BY <1>2, <1>3, <1>4 DEF Admits, b

\* One intent, admitted or not.
LEMMA RouteOneAdmits ==
  ASSUME NEW v, NEW d, plan \in Plans, NEW i, LawfulIntent(plan, d.a, d.c, i),
         NEW s \in [a : {a \in AccountIn(plan) : Admits(plan, v, d, a)}, c : {d.c}, ok : BOOLEAN]
  PROVE  RouteOne(s, i) \in
           [a : {a \in AccountIn(plan) : Admits(plan, v, d, a)}, c : {d.c}, ok : BOOLEAN]
<1> DEFINE A == {a \in AccountIn(plan) : Admits(plan, v, d, a)}
           new == IF i.kind = "cancel" THEN Canceled(s.a, i.id, i.command)
                                       ELSE Submitted(s.a, i.id, i.size, LotsFor(s.a, i.id))
<1>1. s.a \in A /\ s.c = d.c /\ s.ok \in BOOLEAN
  OBVIOUS
<1>2. CASE ~Routable(s, i)
  BY <1>2 DEF RouteOne
<1>3. CASE Routable(s, i)
  <2>1. RouteOne(s, i) = [s EXCEPT !.a = new]
    BY <1>3 DEF RouteOne
  <2>2. Admits(plan, v, d, new)
    <3>1. CASE i.kind = "cancel"
      <4>1. i.id \in Known(s.a) /\ i.command \in {"terminal", "target_replace"}
        BY <1>3, <3>1 DEF Routable, CanCancel, LawfulIntent
      <4> QED
        BY <1>1, <3>1, <4>1, CancelAdmits
    <3>2. CASE i.kind # "cancel"
      <4>1. /\ LawfulSubmit(plan, d.a, d.c, i) /\ (d.c.action # "none" => i.id.purpose = "flatten")
            /\ CanSubmit(s.a, i.id, i.size, LotsFor(s.a, i.id))
        BY <1>1, <1>3, <3>2 DEF Routable, LawfulIntent
      <4> QED
        BY <1>1, <3>2, <4>1, SubmitAdmits
    <3> QED
      BY <3>1, <3>2
  <2>3. new \in A
    BY <2>2 DEF Admits
  <2> HIDE DEF new, A
  <2>4. [s EXCEPT !.a = new] \in [a : A, c : {d.c}, ok : BOOLEAN]
    BY <2>3 DEF A
  <2> QED
    BY <2>1, <2>4 DEF A
<1> QED
  BY <1>2, <1>3

\* The whole route, up to its first refusal.
LEMMA RouteAdmits ==
  ASSUME NEW v, NEW d, Decides(plan, v, d)
  PROVE  Admits(plan, v, d, Route(d).a)
<1> DEFINE N == Len(d.out)
           S == [a : {a \in AccountIn(plan) : Admits(plan, v, d, a)}, c : {d.c}, ok : BOOLEAN]
           start == [a |-> d.a, c |-> d.c, ok |-> TRUE]
           step(s, n) == RouteOne(s, d.out[n])
           F == [n \in 1 .. N |-> [s \in S |-> step(s, n)]]
           G(g) == g = [n \in 0 .. N |-> IF n = 0 THEN [a |-> d.a, c |-> d.c, ok |-> TRUE]
                                                  ELSE RouteOne(g[n - 1], d.out[n])]
           h == CHOOSE g : G(g)
<1>1. plan \in Plans /\ d.a \in AccountIn(plan) /\ EndInv(d.a, v) /\ GenerationInv(d.a)
  BY DEF Decides, StageInv
<1>2. N \in Nat /\ \A n \in 1 .. N : LawfulIntent(plan, d.a, d.c, d.out[n])
  BY DEF Decides, Lawful
<1>3. start \in S
  BY <1>1 DEF Admits, SameSettled
<1>4. ASSUME NEW n \in 1 .. N, NEW s \in S PROVE step(s, n) \in S
  BY <1>1, <1>2, <1>4, RouteOneAdmits
<1>5. Stepper(S, N, F)
  <2> HIDE DEF S, step
  <2> QED
    BY <1>4 DEF Stepper
<1>6. PICK g : AreSteps(S, N, start, F, g)
  <2> HIDE DEF N, S, F, start
  <2> QED
    BY <1>2, <1>3, <1>5, StepsExist
<1>7. G(g)
  <2>1. ASSUME NEW n \in 0 .. N, n # 0 PROVE F[n][g[n - 1]] = step(g[n - 1], n)
    <3>1. n \in 1 .. N /\ n - 1 \in 0 .. N
      BY <2>1, <1>2
    <3> HIDE DEF S, step
    <3>2. g[n - 1] \in S
      BY <1>6, <3>1 DEF AreSteps
    <3> QED
      BY <3>1, <3>2
  <2> DEFINE e(n) == IF n = 0 THEN start ELSE step(g[n - 1], n)
  <2>2. \A n \in 0 .. N : g[n] = e(n)
    <3> HIDE DEF S, step, F, start
    <3> QED
      BY <1>6, <2>1 DEF AreSteps
  <2> HIDE DEF e, N, S, F, start
  <2>3. g = [n \in 0 .. N |-> e(n)]
    BY <1>6, <2>2 DEF AreSteps
  <2> QED
    BY <2>3 DEF e, N, start
<1>8. G(h)
  <2> HIDE DEF G
  <2> QED
    BY <1>7
<1>9. Route(d) = h[N]
  BY DEF Route
<1> HIDE DEF h
<1>10. h[0] \in S /\ \A n \in 1 .. N : h[n - 1] \in S => h[n] \in S
  <2>1. h[0] = start
    BY <1>2, <1>8
  <2>2. ASSUME NEW n \in 1 .. N PROVE h[n] = step(h[n - 1], n)
    <3> DEFINE e(m) == IF m = 0 THEN start ELSE step(h[m - 1], m)
    <3>1. h = [m \in 0 .. N |-> e(m)]
      BY <1>8
    <3>2. n \in 0 .. N /\ n # 0
      BY <1>2
    <3> HIDE DEF e, N
    <3>3. h[n] = e(n)
      BY <3>1, <3>2
    <3> HIDE DEF step, start
    <3> QED
      BY <3>2, <3>3 DEF e
  <2> HIDE DEF S, step, start
  <2> QED
    BY <1>3, <1>4, <2>1, <2>2
<1>11. h[N] \in S
  <2> HIDE DEF N, S
  <2> QED
    BY <1>2, <1>10, StepsStay
<1> QED
  BY <1>9, <1>11

\* The invariant, once the intents are routed.
LEMMA AdmitsInv ==
  ASSUME NEW p, NEW v, NEW d, Decides(p, v, d), Rests(d), NEW b, Admits(p, v, d, b)
  PROVE  RecipeInv(p, b, v, d.c)
<1> DEFINE a == d.a
           c == d.c
           fresh == Known(b) \ Known(a)
<1>1. /\ p \in Plans /\ a \in AccountIn(p) /\ v \in Seq(EventIn(p)) /\ IsControl(c)
      /\ CycleInv(a, c) /\ CloseInv(a, c) /\ PhaseInv(p, a, c) /\ SlotInv(p, a, c)
  BY DEF Decides, StageInv
<1>2. /\ b \in AccountIn(p) /\ EndInv(b, v) /\ GenerationInv(b) /\ Known(a) \subseteq Known(b)
      /\ \A id \in Known(a) : b.orders[id].terminal_reconciled = a.orders[id].terminal_reconciled
      /\ b.lots = a.lots /\ b.base = a.base
      /\ b.quarantine = a.quarantine /\ b.reconciliation = a.reconciliation
  BY DEF Admits, SameSettled
<1>3. \A id \in fresh :
        /\ ~b.orders[id].terminal_reconciled /\ id.cycle = c.cycle
        /\ c.phase \notin {"idle", "complete"}
        /\ id.purpose = "flatten" => c.action # "none" /\ BarrierPassed(a)
        /\ p.recipe = "grid" => id.purpose \in GridPurposes
        /\ id.purpose \in {"grid_buy", "grid_sell"} => SlotReady(p, a, id)
        /\ c.action # "none" => id.purpose = "flatten"
  BY DEF Admits, Asked, LawfulSubmit
<1>4. \A id \in Known(b) : id.cycle \in Nat /\ id.gen \in Nat
  BY <1>1, <1>2, KnownOrders, PlanFacts
<1>5. c.cycle \in Nat
  BY <1>1 DEF IsControl
<1> HIDE DEF a, c
<1>6. CycleInv(b, c)
  <2>1. ASSUME NEW id \in Known(b)
        PROVE  id.cycle <= c.cycle /\ (id.cycle < c.cycle => b.orders[id].terminal_reconciled)
    <3>1. CASE id \in Known(a)
      BY <1>1, <1>2, <3>1 DEF CycleInv
    <3>2. CASE id \in fresh
      BY <1>3, <1>5, <3>2
    <3> QED
      BY <3>1, <3>2
  <2> QED
    BY <2>1 DEF CycleInv
<1>7. CloseInv(b, c)
  <2>1. ASSUME NEW id \in Known(b), id.purpose = "flatten", ~b.orders[id].terminal_reconciled
        PROVE  c.action # "none" /\ BarrierPassed(a)
    <3>1. CASE id \in Known(a)
      BY <1>1, <1>2, <2>1, <3>1 DEF CloseInv
    <3>2. CASE id \in fresh
      BY <1>3, <2>1, <3>2
    <3> QED
      BY <3>1, <3>2
  <2>2. ASSUME c.action # "none", BarrierPassed(a) PROVE BarrierPassed(b)
    BY <1>2, <1>3, <2>2 DEF BarrierPassed, Others
  <2> QED
    BY <2>1, <2>2 DEF CloseInv
<1>8. PhaseInv(p, b, c)
  <2>1. ASSUME c.phase \in {"idle", "complete"} PROVE Known(b) = Known(a)
    BY <1>2, <1>3, <2>1
  <2>2. ASSUME c.phase = "complete" PROVE Flat(b)
    BY <1>1, <1>2, <2>1, <2>2 DEF PhaseInv, Flat, Unreconciled
  <2> QED
    BY <1>1, <1>2, <2>1, <2>2 DEF PhaseInv
<1>9. SlotInv(p, b, c)
  <2> SUFFICES ASSUME p.recipe = "grid"
      PROVE  /\ \A id \in Known(b) : id.purpose \in GridPurposes /\ id.cycle = c.cycle
             /\ \A id, old \in Known(b) :
                  id.purpose = "grid_buy" /\ SameSlot(id, old) /\ old.gen < id.gen
                    => b.lots[old] < p.min
    BY DEF SlotInv
  <2>1. \A id \in Known(b) : id.purpose \in GridPurposes /\ id.cycle = c.cycle
    BY <1>1, <1>3 DEF SlotInv
  <2>2. ASSUME NEW id \in Known(b), NEW old \in Known(b),
               id.purpose = "grid_buy", SameSlot(id, old), old.gen < id.gen
        PROVE  b.lots[old] < p.min
    <3>1. b.orders[old].terminal_reconciled
      BY <1>2, <1>4, <2>2 DEF GenerationInv
    <3>2. old \in Known(a)
      BY <1>3, <3>1
    <3>3. CASE id \in Known(a)
      BY <1>1, <1>2, <2>2, <3>2, <3>3 DEF SlotInv
    <3>4. CASE id \in fresh
      BY <1>2, <1>3, <2>2, <3>2, <3>4 DEF SlotReady, SameSlot
    <3> QED
      BY <3>3, <3>4
  <2> QED
    BY <2>1, <2>2
<1>10. RestInv(p, b, c)
  <2>1. Halted(b) = Halted(a)
    BY <1>2 DEF Halted
  <2> QED
    BY <2>1 DEF Decides, RefusedStart, Rests, RestInv, a, c
<1> QED
  BY <1>1, <1>2, <1>6, <1>7, <1>8, <1>9, <1>10 DEF RecipeInv, StageInv, c

-----------------------------------------------------------------------------
(***************************************************************************)
(* advance_spot.                                                           *)
(***************************************************************************)
\* What the decision f made of the observation d, once it is routed.
Outcome(d, f) ==
  /\ Decides(plan, venue, f) /\ Follows(d, f) /\ Rests(f)
  /\ ctl' = f.c /\ Admits(plan, venue, f, acct')

\* A decision whose route is admitted.
LEMMA AppliedOutcome ==
  ASSUME NEW d, NEW f, Decides(plan, venue, f), Follows(d, f), Rests(f), Applied(f, Route(f))
  PROVE  Outcome(d, f)
<1>1. Admits(plan, venue, f, Route(f).a)
  BY RouteAdmits
<1> QED
  BY <1>1 DEF Applied, Outcome

\* An observation is decided and admitted, or contained.
LEMMA AdvanceOutcome ==
  ASSUME NEW d, Decides(plan, venue, d), d.out = <<>>, NEW levels,
         d.kind = "closed_bar" => RestInv(plan, d.a, d.c), Advance(d, levels)
  PROVE  \E f : Outcome(d, f)
<1> DEFINE e == Decide(d, levels)
<1>1. Decides(plan, venue, e) /\ Follows(d, e) /\ Rests(e)
  BY DecideDecides
<1>2. Applied(e, Route(e)) \/ Protected(Contained(e))
  BY DEF Advance, Settled, Admitted
<1> HIDE DEF e
<1>3. CASE Applied(e, Route(e))
  BY <1>1, <1>3, AppliedOutcome
<1>4. CASE Protected(Contained(e))
  <2> DEFINE f == Contained(e)
  <2>1. f.a.base > 0 /\ Applied(f, Route(f))
    BY <1>4 DEF Protected
  <2>2. StageInv(plan, d.a, venue, d.c)
    BY DEF Decides
  <2>3. f.a.base # 0
    BY <2>1
  <2>4. Decides(plan, venue, f) /\ Follows(d, f) /\ Rests(f)
    BY <1>1, <2>2, <2>3, ContainedDecides
  <2> HIDE DEF f
  <2> QED
    BY <2>1, <2>4, AppliedOutcome
<1> QED
  BY <1>2, <1>3, <1>4

\* What a step does, as the action properties see it.
Steps ==
  /\ ctl'.cycle > ctl.cycle => Flat(acct)
  /\ \A id \in Known(acct') \ Known(acct) :
       /\ Final(ctl') => id.purpose = "flatten"
       /\ id.purpose \in {"grid_buy", "grid_sell"} =>
            \A old \in Known(acct) : old.slot = id.slot =>
              /\ VenueDone(old) /\ acct'.orders[old].terminal_reconciled
              /\ id.purpose = "grid_buy" /\ old.purpose = "grid_buy" => acct'.lots[old] < plan.min

\* An order that has ended in the account has ended at the venue.
LEMMA DoneAtVenue ==
  ASSUME NEW a, EndInv(a, venue), NEW id \in Known(a), a.orders[id].terminal_reconciled
  PROVE  VenueDone(id)
<1>1. Done(venue, id)
  BY DEF EndInv
<1> QED
  BY <1>1 DEF Done, VenueDone, Emitted

\* An observation, from the decision to the account and controller after it.
LEMMA Advances ==
  ASSUME NEW d, Decides(plan, venue, d), d.out = <<>>, NEW levels, Advance(d, levels),
         d.kind = "closed_bar" => d.a = acct /\ RestInv(plan, d.a, d.c),
         Known(d.a) = Known(acct), d.c.cycle = ctl.cycle
  PROVE  RecipeInv(plan, acct', venue, ctl') /\ (Final(d.c) => Final(ctl')) /\ Steps
<1>1. PICK f : Outcome(d, f)
  BY AdvanceOutcome
<1>2. /\ Decides(plan, venue, f) /\ Follows(d, f) /\ Rests(f)
      /\ ctl' = f.c /\ Admits(plan, venue, f, acct')
  BY <1>1 DEF Outcome
<1>3. RecipeInv(plan, acct', venue, ctl')
  BY <1>2, AdmitsInv
<1>4. Final(d.c) => Final(ctl')
  BY <1>2 DEF Follows
<1>5. ctl'.cycle > ctl.cycle => Flat(acct)
  <2>1. ctl.cycle \in Nat
    BY DEF Decides, StageInv, IsControl
  <2> QED
    BY <1>2, <2>1 DEF Follows
<1>6. Known(f.a) = Known(acct) /\ EndInv(f.a, venue)
  <2>1. d.a \in AccountIn(plan)
    BY DEF Decides, StageInv
  <2>2. f.a.orders = d.a.orders
    BY <1>2, <2>1, TunedFields DEF Follows
  <2> QED
    BY <1>2, <2>2 DEF Known, Decides, StageInv
<1>7. ASSUME NEW id \in Known(acct') \ Known(acct)
      PROVE  /\ Final(ctl') => id.purpose = "flatten"
             /\ id.purpose \in {"grid_buy", "grid_sell"} =>
                  \A old \in Known(acct) : old.slot = id.slot =>
                    /\ VenueDone(old) /\ acct'.orders[old].terminal_reconciled
                    /\ id.purpose = "grid_buy" /\ old.purpose = "grid_buy"
                         => acct'.lots[old] < plan.min
  <2>1. Asked(plan, f, id)
    BY <1>2, <1>6, <1>7 DEF Admits
  <2>2. Final(ctl') => id.purpose = "flatten"
    BY <1>2, <2>1 DEF Asked, Final
  <2>3. ASSUME id.purpose \in {"grid_buy", "grid_sell"}, NEW old \in Known(acct), old.slot = id.slot
        PROVE  /\ VenueDone(old) /\ acct'.orders[old].terminal_reconciled
               /\ id.purpose = "grid_buy" /\ old.purpose = "grid_buy"
                    => acct'.lots[old] < plan.min
    <3>1. SlotReady(plan, f.a, id)
      BY <2>1, <2>3 DEF Asked, LawfulSubmit
    <3>2. /\ f.a.orders[old].terminal_reconciled
          /\ id.purpose = "grid_buy" /\ old.purpose = "grid_buy" => f.a.lots[old] < plan.min
      BY <1>6, <2>3, <3>1 DEF SlotReady
    <3>3. VenueDone(old)
      BY <1>6, <3>2, DoneAtVenue
    <3>4. /\ acct'.orders[old].terminal_reconciled = f.a.orders[old].terminal_reconciled
          /\ acct'.lots = f.a.lots
      BY <1>2, <1>6 DEF Admits, SameSettled
    <3> QED
      BY <3>2, <3>3, <3>4
  <2> QED
    BY <2>2, <2>3
<1> QED
  BY <1>3, <1>4, <1>5, <1>7 DEF Steps

-----------------------------------------------------------------------------
(***************************************************************************)
(* The observations.                                                       *)
(***************************************************************************)
\* An observation that is settled keeps the invariant and steps as the
\* properties ask.
LEMMA ObservedSteps ==
  ASSUME NEW d, DOMAIN d = DecisionFields, d.out = <<>>, IsFiniteSet(d.below),
         StageInv(plan, d.a, venue, d.c), RefusedStart(plan, d.c),
         d.kind = "closed_bar" => d.a = acct /\ RestInv(plan, d.a, d.c),
         Known(d.a) = Known(acct), d.c.cycle = ctl.cycle,
         NEW levels, Advance(d, levels), UNCHANGED <<plan, venue>>, FinalInv(given', d.c)
  PROVE  Inv' /\ Steps
<1>1. Decides(plan, venue, d)
  BY LawfulEmpty DEF Decides
<1>2. RecipeInv(plan, acct', venue, ctl') /\ (Final(d.c) => Final(ctl')) /\ Steps
  BY <1>1, Advances
<1>3. FinalInv(given', ctl')
  BY <1>2 DEF FinalInv
<1> QED
  BY <1>2, <1>3 DEF Inv

\* What an observation starts from.
LEMMA InvFacts ==
  ASSUME Inv
  PROVE  /\ RecipeInv(plan, acct, venue, ctl) /\ StageInv(plan, acct, venue, ctl)
         /\ RestInv(plan, acct, ctl) /\ RefusedStart(plan, ctl) /\ FinalInv(given, ctl)
         /\ plan \in Plans /\ acct \in AccountIn(plan) /\ venue \in Seq(EventIn(plan))
         /\ IsControl(ctl) /\ EndInv(acct, venue)
<1>1. StageInv(plan, acct, venue, ctl) /\ RestInv(plan, acct, ctl)
  BY DEF Inv, RecipeInv
<1>2. RefusedStart(plan, ctl)
  BY <1>1 DEF RestInv, RefusedStart
<1> QED
  BY <1>1, <1>2 DEF Inv, RecipeInv, StageInv

\* Observations in which the account takes something in.
LEMMA NotedSteps ==
  ASSUME Inv, NEW b, Takes(plan, acct, b, venue), NEW log, NEW d, DOMAIN d = DecisionFields,
         d.out = <<>>, d.below = {}, d.a = b, d.c = Noted(b, log), d.kind # "closed_bar",
         NEW levels, Advance(d, levels), UNCHANGED <<plan, venue, given>>
  PROVE  Inv' /\ Steps
<1>1. /\ StageInv(plan, b, venue, Noted(b, log)) /\ RefusedStart(plan, Noted(b, log))
      /\ Final(ctl) => Final(Noted(b, log))
  BY InvFacts, NotedInv
<1>2. Known(d.a) = Known(acct)
  BY DEF Takes, Keeps
<1>3. d.c.cycle = ctl.cycle
  BY InvFacts, NotedFields
<1>4. FinalInv(given', d.c)
  BY <1>1, InvFacts DEF FinalInv
<1>5. IsFiniteSet(d.below)
  BY FS_EmptySet
<1> QED
  BY <1>1, <1>2, <1>3, <1>4, <1>5, ObservedSteps

\* An execution.
LEMMA ExecutionSteps ==
  ASSUME Inv, NEW n \in 1 .. Len(venue), NEW levels, ObserveExecution(n, levels), UNCHANGED plan
  PROVE  Inv' /\ Steps
<1> DEFINE b == ApplyEvent(acct, venue[n])
           d == Executed(venue[n], mark', venue)
<1>1. Takes(plan, acct, b, venue)
  BY InvFacts, EventTakes DEF ObserveExecution
<1>2. /\ DOMAIN d = DecisionFields /\ d.out = <<>> /\ d.below = {} /\ d.a = b
      /\ d.c = Noted(b, venue) /\ d.kind # "closed_bar"
  BY DEF Executed, Observation, DecisionFields
<1>3. Advance(d, levels) /\ UNCHANGED <<plan, venue, given>>
  BY DEF ObserveExecution
<1> HIDE DEF b, d
<1> QED
  BY <1>1, <1>2, <1>3, NotedSteps

\* A reconciliation.
LEMMA ReconciliationSteps ==
  ASSUME Inv, NEW k, NEW levels, ObserveReconciliation(k, levels), UNCHANGED plan
  PROVE  Inv' /\ Steps
<1> DEFINE r == Replayed(acct, k)
<1>1. PICK valued \in SUBSET r.unvalued :
        Advance(ReconciledWith(Reconciled(r, valued), mark'), levels)
  BY DEF ObserveReconciliation
<1> DEFINE b == Reconciled(r, valued)
           d == ReconciledWith(b, mark')
<1>2. Takes(plan, acct, b, venue)
  <2>1. Takes(plan, acct, r, venue)
    BY InvFacts, ReplayedTakes
  <2> HIDE DEF r
  <2>2. Takes(plan, r, b, venue)
    BY <2>1, ReconciledTakes DEF Takes
  <2> QED
    BY <2>1, <2>2, InvFacts, TakesTransitive
<1> HIDE DEF b
<1>3. /\ DOMAIN d = DecisionFields /\ d.out = <<>> /\ d.below = {} /\ d.a = b
      /\ d.c = Noted(b, venue) /\ d.kind # "closed_bar"
  BY DEF ReconciledWith, Observation, DecisionFields
<1>4. Advance(d, levels) /\ UNCHANGED <<plan, venue, given>>
  BY <1>1 DEF ObserveReconciliation, b
<1> HIDE DEF d
<1> QED
  BY <1>2, <1>3, <1>4, NotedSteps

\* A fee's value.
LEMMA ValuationSteps ==
  ASSUME Inv, NEW n, NEW levels, ObserveValuation(n, levels), UNCHANGED plan
  PROVE  Inv' /\ Steps
<1> DEFINE b == [acct EXCEPT !.unvalued = @ \ {n}]
           d == Observation("fee_valuation", b, ctl)
<1>1. Takes(plan, acct, b, venue)
  <2>1. /\ b \in AccountIn(plan) /\ b.orders = acct.orders /\ b.lots = acct.lots
        /\ b.base = acct.base /\ b.events = acct.events
    BY InvFacts DEF AccountIn
  <2> HIDE DEF b
  <2> QED
    BY <2>1, InvFacts, SameOrdersTake
<1>2. Advance(d, levels) /\ UNCHANGED <<plan, venue, given>>
  BY DEF ObserveValuation
<1> HIDE DEF b
<1>3. /\ DOMAIN d = DecisionFields /\ d.out = <<>> /\ d.below = {} /\ d.a = b
      /\ d.c = ctl /\ d.kind # "closed_bar"
  BY DEF Observation, DecisionFields
<1> HIDE DEF d
<1>4. StageInv(plan, b, venue, ctl) /\ Known(b) = Known(acct)
  BY <1>1, InvFacts, TakesInv DEF Takes, Keeps
<1>5. FinalInv(given', ctl) /\ IsFiniteSet(d.below)
  BY <1>2, <1>3, InvFacts, FS_EmptySet
<1> QED
  BY <1>2, <1>3, <1>4, <1>5, InvFacts, ObservedSteps

\* A price.
LEMMA PriceSteps ==
  ASSUME Inv, NEW p, NEW levels, ObservePrice(p, levels), UNCHANGED plan
  PROVE  Inv' /\ Steps
<1> DEFINE d == Priced(p, bar')
<1>1. Advance(d, levels) /\ UNCHANGED <<plan, venue, given>>
  BY DEF ObservePrice
<1>2. /\ DOMAIN d = DecisionFields /\ d.out = <<>> /\ d.below = {} /\ d.a = acct
      /\ d.c = ctl /\ d.kind # "closed_bar"
  BY DEF Priced, Observation, DecisionFields
<1> HIDE DEF d
<1>3. FinalInv(given', ctl) /\ IsFiniteSet(d.below)
  BY <1>1, <1>2, InvFacts, FS_EmptySet
<1> QED
  BY <1>1, <1>2, <1>3, InvFacts, ObservedSteps

\* A trigger of an observation, by a command or a signal.
LEMMA TriggeredControl ==
  ASSUME Inv, NEW action \in Actions, NEW reason, NEW command
  PROVE  LET c == Trigger(ctl, action, reason, command)
         IN  /\ StageInv(plan, acct, venue, c) /\ RefusedStart(plan, c) /\ c.cycle = ctl.cycle
             /\ RestInv(plan, acct, c)
             /\ Final(ctl) /\ (action = "stop_and_hold" \/ reason # "empty_base") => Final(c)
             /\ action = "stop_and_flatten" /\ reason \notin {"target", "empty_base"} => Final(c)
<1> DEFINE c == Trigger(ctl, action, reason, command)
           stopped == [ctl EXCEPT !.action = action, !.reason = reason, !.command = command,
                                  !.phase = "stopping"]
<1>1. /\ StageInv(plan, acct, venue, c) /\ RefusedStart(plan, c)
      /\ c.cycle = ctl.cycle /\ c.action # "none"
      /\ Final(ctl) /\ (action = "stop_and_hold" \/ reason # "empty_base") => Final(c)
  BY InvFacts, TriggerInv
<1>2. /\ c = ctl \/ c = stopped
      /\ action = "stop_and_flatten" /\ reason # "target" => c = stopped
  BY DEF Trigger
<1>3. stopped.phase = "stopping" /\ stopped.action = action /\ stopped.reason = reason
  BY InvFacts DEF IsControl
<1> HIDE DEF c, stopped
<1>4. RestInv(plan, acct, c)
  BY <1>2, <1>3, InvFacts DEF RestInv
<1>5. action = "stop_and_flatten" /\ reason \notin {"target", "empty_base"} => Final(c)
  BY <1>2, <1>3 DEF Final
<1> QED
  BY <1>1, <1>4, <1>5 DEF c

\* A closed bar.
LEMMA CloseSteps ==
  ASSUME Inv, NEW p, NEW signal, NEW levels, ObserveClose(p, signal, levels), UNCHANGED plan
  PROVE  Inv' /\ Steps
<1> DEFINE below == IF p = "low" THEN {} ELSE plan.slots
           c == IF signal \in {"stop_and_hold", "stop_and_flatten"}
                  THEN Trigger(ctl, signal, "signal", <<"signal", bar>>) ELSE ctl
           d == Closing(p, signal, below)
<1>1. Advance(d, levels) /\ UNCHANGED <<plan, venue, given>>
  BY DEF ObserveClose
<1>2. IsFiniteSet(below)
  BY InvFacts, PlanFacts, FS_EmptySet
<1>3. /\ StageInv(plan, acct, venue, c) /\ RefusedStart(plan, c) /\ c.cycle = ctl.cycle
      /\ (Final(ctl) => Final(c)) /\ RestInv(plan, acct, c)
  <2>1. CASE signal \in {"stop_and_hold", "stop_and_flatten"}
    BY <2>1, TriggeredControl DEF Actions
  <2>2. CASE signal \notin {"stop_and_hold", "stop_and_flatten"}
    BY <2>2, InvFacts
  <2> QED
    BY <2>1, <2>2
<1> HIDE DEF below
<1>4. d = [Observation("closed_bar", acct, c) EXCEPT !.mark = p, !.start = (signal = "start"),
                                                     !.below = below]
  BY DEF Closing
<1> HIDE DEF c
<1>5. /\ DOMAIN d = DecisionFields /\ d.out = <<>> /\ d.below = below /\ d.a = acct /\ d.c = c
  BY <1>4 DEF Observation, DecisionFields
<1> HIDE DEF d
<1>6. FinalInv(given', c)
  BY <1>1, <1>3, InvFacts DEF FinalInv
<1> QED
  BY <1>1, <1>2, <1>3, <1>5, <1>6, ObservedSteps

\* An operator's command.
LEMMA CommandSteps ==
  ASSUME Inv, NEW key, NEW action \in Actions, NEW reason, NEW levels,
         ObserveCommand(Command(key, action, reason), levels), UNCHANGED plan
  PROVE  Inv' /\ Steps
<1> DEFINE command == Command(key, action, reason)
           c == Trigger(ctl, action, reason, <<"operator", key>>)
           d == Commanded(command)
<1>1. /\ Advance(d, levels) /\ UNCHANGED <<plan, venue>> /\ given' = given \cup {command}
  BY DEF ObserveCommand
<1>2. /\ StageInv(plan, acct, venue, c) /\ RefusedStart(plan, c) /\ c.cycle = ctl.cycle
      /\ RestInv(plan, acct, c)
      /\ Final(ctl) /\ (action = "stop_and_hold" \/ reason # "empty_base") => Final(c)
      /\ action = "stop_and_flatten" /\ reason \notin {"target", "empty_base"} => Final(c)
  BY TriggeredControl
<1> HIDE DEF c
<1>3. /\ DOMAIN d = DecisionFields /\ d.out = <<>> /\ d.below = {} /\ d.a = acct /\ d.c = c
      /\ d.kind # "closed_bar"
  BY DEF Commanded, Command, Observation, DecisionFields, c
<1> HIDE DEF d
<1>4. FinalInv(given', c)
  <2> SUFFICES ASSUME FlattenedForGood(given') PROVE Final(c)
    BY DEF FinalInv
  <2>1. command \in given' /\ command.action = action /\ command.reason = reason
    BY <1>1 DEF Command
  <2>2. action = "stop_and_hold" \/ reason # "empty_base"
    BY <2>1 DEF FlattenedForGood, Actions
  <2>3. CASE action = "stop_and_flatten" /\ reason # "target"
    BY <1>2, <2>2, <2>3
  <2>4. CASE FlattenedForGood(given)
    BY <1>2, <2>2, <2>4, InvFacts DEF FinalInv
  <2>5. FlattenedForGood(given) \/ (action = "stop_and_flatten" /\ reason # "target")
    <3> HIDE DEF command
    <3> QED
      BY <1>1, <2>1 DEF FlattenedForGood
  <2> QED
    BY <2>3, <2>4, <2>5
<1>5. IsFiniteSet(d.below)
  BY <1>3, FS_EmptySet
<1> QED
  BY <1>1, <1>2, <1>3, <1>4, <1>5, ObservedSteps

\* The venue reports on an order that was submitted.
LEMMA VenueSteps ==
  ASSUME Inv, SpotVenue, UNCHANGED plan
  PROVE  Inv' /\ Steps
<1>1. /\ plan.orders \subseteq Ids /\ UnitCost \in Nat /\ MaxSize \in Nat
      /\ Known(acct) \subseteq plan.orders /\ Len(venue) \in Nat
  <2>1. Len(venue) \in Nat
    BY InvFacts
  <2> QED
    BY <2>1, InvFacts, PlanFacts, KnownOrders, AmountsAssumption
<1>2. UNCHANGED acct /\ \E e \in EventIn(plan) : e.id \in Known(acct) /\ venue' = Append(venue, e)
  <2>1. PICK id \in Known(acct) :
          \/ \E status \in (Behaviours \cap {"accepted", "rejected", "unknown"}) \cup {"canceled"} :
               EmitStatus(id, status)
          \/ \E size \in 1 .. MaxSize + 1, improved \in May("improved"), baseFee \in May("baseFee"),
                third \in May("thirdAsset"), excess \in May("excess") :
               EmitFill(id, size, improved, baseFee, third, excess)
    BY DEF SpotVenue, Venue
  <2>2. ASSUME NEW status \in {"accepted", "rejected", "unknown", "canceled"},
               EmitStatus(id, status)
        PROVE  /\ UNCHANGED acct
               /\ \E e \in EventIn(plan) : e.id \in Known(acct) /\ venue' = Append(venue, e)
    <3> DEFINE e == Event(id, status, 0, 0, 0, FALSE, FALSE)
    <3>1. e \in EventIn(plan) /\ e.id = id
      BY <1>1 DEF Event, EventIn, TERMINAL
    <3>2. UNCHANGED acct /\ venue' = Append(venue, e)
      BY <2>2 DEF EmitStatus
    <3> HIDE DEF e
    <3> QED
      BY <3>1, <3>2
  <2>3. ASSUME NEW size \in 1 .. MaxSize + 1, NEW improved \in BOOLEAN, NEW baseFee \in BOOLEAN,
               NEW third \in BOOLEAN, NEW excess \in BOOLEAN,
               EmitFill(id, size, improved, baseFee, third, excess)
        PROVE  /\ UNCHANGED acct
               /\ \E e \in EventIn(plan) : e.id \in Known(acct) /\ venue' = Append(venue, e)
    <3> DEFINE status == IF size >= VenueLeft(id) THEN "filled" ELSE "partial"
               quote == IF improved THEN size ELSE size * UnitCost
               base == IF baseFee THEN size - 1 ELSE size
               e == Event(id, status, size, quote, base, third, excess)
    <3>1. UNCHANGED acct /\ venue' = Append(venue, e)
      BY <2>3 DEF EmitFill
    <3>2. size \in Nat /\ quote \in Nat /\ base \in Nat
      BY <1>1
    <3>3. status \in {"filled", "partial"}
      OBVIOUS
    <3> HIDE DEF status, quote, base
    <3>4. e \in EventIn(plan) /\ e.id = id
      BY <1>1, <3>2, <3>3 DEF Event, EventIn, TERMINAL
    <3> HIDE DEF e
    <3> QED
      BY <3>1, <3>4
  <2>4. \A behaviour : May(behaviour) \subseteq BOOLEAN
    BY DEF May
  <2>5. CASE \E status \in (Behaviours \cap {"accepted", "rejected", "unknown"}) \cup {"canceled"} :
               EmitStatus(id, status)
    BY <2>2, <2>5
  <2>6. CASE \E size \in 1 .. MaxSize + 1, improved \in May("improved"), baseFee \in May("baseFee"),
                third \in May("thirdAsset"), excess \in May("excess") :
               EmitFill(id, size, improved, baseFee, third, excess)
    <3>1. PICK size \in 1 .. MaxSize + 1, improved \in BOOLEAN, baseFee \in BOOLEAN,
               third \in BOOLEAN, excess \in BOOLEAN :
            EmitFill(id, size, improved, baseFee, third, excess)
      BY <2>4, <2>6
    <3> QED
      BY <2>3, <3>1
  <2> QED
    BY <2>1, <2>5, <2>6
<1>3. PICK e \in EventIn(plan) : e.id \in Known(acct) /\ venue' = Append(venue, e)
  BY <1>2
<1>4. UNCHANGED <<plan, acct, ctl, given>>
  BY <1>2 DEF SpotVenue
<1>5. /\ venue' \in Seq(EventIn(plan)) /\ Len(venue') = Len(venue) + 1
      /\ \A n \in 1 .. Len(venue) : n \in 1 .. Len(venue') /\ venue'[n] = venue[n]
      /\ venue'[Len(venue) + 1] = e
  BY <1>1, <1>3, InvFacts
<1>6. EndInv(acct, venue')
  <2>1. \A n \in 1 .. Len(venue') : venue'[n].id \in Known(acct)
    BY <1>1, <1>3, <1>5, InvFacts DEF EndInv
  <2>2. \A id : Done(venue, id) => Done(venue', id)
    BY <1>5 DEF Done
  <2> QED
    BY <2>1, <2>2, InvFacts DEF EndInv
<1>7. RecipeInv(plan, acct, venue', ctl)
  BY <1>5, <1>6, InvFacts DEF RecipeInv, StageInv
<1>8. Inv'
  BY <1>4, <1>7, InvFacts DEF Inv
<1>9. Steps
  BY <1>4, InvFacts DEF Steps, IsControl
<1> QED
  BY <1>8, <1>9

\* Every step.
LEMMA SpotNextSteps ==
  ASSUME Inv, SpotNext
  PROVE  Inv' /\ Steps
<1>1. UNCHANGED plan
  BY DEF SpotNext
<1>2. CASE SpotVenue
  BY <1>1, <1>2, VenueSteps
<1>3. CASE Price
  BY <1>1, <1>3, PriceSteps DEF Price
<1>4. CASE Close
  BY <1>1, <1>4, CloseSteps DEF Close
<1>5. CASE Operator
  <2>1. PICK key \in plan.commands, action \in Actions, reason \in plan.reasons,
             levels \in LevelChoices : ObserveCommand(Command(key, action, reason), levels)
    BY <1>5 DEF Operator
  <2> QED
    BY <1>1, <2>1, CommandSteps
<1>6. CASE Execution
  BY <1>1, <1>6, ExecutionSteps DEF Execution, Deliverable
<1>7. CASE Reconciliation
  BY <1>1, <1>7, ReconciliationSteps DEF Reconciliation
<1>8. CASE Valuation
  BY <1>1, <1>8, ValuationSteps DEF Valuation
<1> QED
  BY <1>2, <1>3, <1>4, <1>5, <1>6, <1>7, <1>8 DEF SpotNext

\* Every session starts in the invariant.
LEMMA SpotInitInv ==
  ASSUME SpotInit
  PROVE  Inv
<1>1. plan \in Plans /\ venue = <<>> /\ given = {} /\ acct = Opened(plan.orders)
  BY DEF SpotInit
<1>2. /\ acct \in AccountIn(plan) /\ acct.base = 0
      /\ \A id \in plan.orders : acct.orders[id].status = "none"
  <2> DEFINE none == NoOrder(LotsIn(plan))
             nothing == Nothing(LotsIn(plan))
  <2>1. nothing \in [LotsIn(plan) -> Nat] /\ nothing \in [LotsIn(plan) -> Int]
    BY DEF Nothing
  <2>2. none \in OrderIn(plan) /\ none.status = "none"
    <3> HIDE DEF nothing
    <3> QED
      BY <2>1 DEF NoOrder, OrderIn, nothing
  <2>3. Budget \in Int /\ Cleanup \in Int
    BY AmountsAssumption
  <2>4. acct = [cash |-> Budget, base |-> 0, cleanup |-> Cleanup, cycle |-> 0,
                orders |-> [id \in plan.orders |-> none], lots |-> nothing, born |-> nothing,
                seq |-> 0, events |-> {}, buffered |-> {}, quarantine |-> {},
                reconciliation |-> FALSE, fees |-> FALSE, unvalued |-> {}]
    BY <1>1 DEF Opened, LotsIn
  <2> HIDE DEF none, nothing
  <2> QED
    BY <2>1, <2>2, <2>3, <2>4 DEF AccountIn
<1>3. Known(acct) = {}
  BY <1>2, KnownOrders
<1>4. /\ IsControl(ctl) /\ ctl.cycle = 0 /\ ctl.phase = "idle" /\ ctl.action = "none"
  BY FS_EmptySet DEF SpotInit, Fresh, IsControl
<1>5. venue \in Seq(EventIn(plan)) /\ EndInv(acct, venue)
  BY <1>1, <1>3 DEF EndInv
<1>6. /\ GenerationInv(acct) /\ CycleInv(acct, ctl) /\ CloseInv(acct, ctl)
      /\ SlotInv(plan, acct, ctl)
  BY <1>3 DEF GenerationInv, CycleInv, CloseInv, SlotInv
<1>7. PhaseInv(plan, acct, ctl) /\ RestInv(plan, acct, ctl)
  BY <1>2, <1>3, <1>4 DEF PhaseInv, RestInv
<1>8. FinalInv(given, ctl)
  BY <1>1 DEF FinalInv, FlattenedForGood
<1> QED
  BY <1>1, <1>2, <1>4, <1>5, <1>6, <1>7, <1>8 DEF Inv, RecipeInv, StageInv

-----------------------------------------------------------------------------
(***************************************************************************)
(* The theorems.                                                           *)
(***************************************************************************)
\* The invariant is one.
THEOREM RecipeInvariant == SpotSpec => []Inv
<1>1. SpotInit => Inv
  BY SpotInitInv
<1>2. Inv /\ [SpotNext]_spotVars => Inv'
  <2>1. ASSUME Inv, SpotNext PROVE Inv'
    BY <2>1, SpotNextSteps
  <2>2. ASSUME Inv, UNCHANGED spotVars PROVE Inv'
    BY <2>2 DEF Inv, spotVars
  <2> QED
    BY <2>1, <2>2
<1> QED
  BY <1>1, <1>2, PTL DEF SpotSpec

\* FlattenAlone: while a close may execute, every other order has ended at the
\* venue and is settled (terminal_decisions).
THEOREM FlattenStaysAlone == SpotSpec => []FlattenAlone
<1>1. Inv => FlattenAlone
  <2>1. ASSUME Inv, NEW id \in Known(acct), id.purpose = "flatten",
               ~acct.orders[id].terminal_reconciled, NEW other \in Others(acct)
        PROVE  acct.orders[other].terminal_reconciled /\ VenueDone(other)
    <3>1. BarrierPassed(acct) /\ EndInv(acct, venue)
      BY <2>1 DEF Inv, RecipeInv, StageInv, CloseInv
    <3>2. acct.orders[other].terminal_reconciled /\ other \in Known(acct)
      BY <2>1, <3>1 DEF BarrierPassed, Others
    <3> QED
      BY <3>1, <3>2, DoneAtVenue
  <2> QED
    BY <2>1 DEF FlattenAlone
<1> QED
  BY <1>1, RecipeInvariant, PTL

\* FlattenIsFinal: after an operator's flatten whose reason completes no cycle no BUY is
\* submitted, if no flatten for "empty_base" is commanded (trigger_terminal,
\* terminal_decisions, _decide).
THEOREM FlattenStaysFinal == SpotSpec => FlattenIsFinal
<1> DEFINE Step == FlattenedForGood(given') => \A id \in Known(acct)' \ Known(acct) : ~Buys(id)
<1>1. Inv /\ [SpotNext]_spotVars => [Step]_spotVars
  <2>1. ASSUME Inv, SpotNext, FlattenedForGood(given'), NEW id \in Known(acct') \ Known(acct)
        PROVE  ~Buys(id)
    <3>1. Final(ctl')
      BY <2>1, SpotNextSteps DEF Inv, FinalInv
    <3>2. id.purpose = "flatten"
      BY <2>1, <3>1, SpotNextSteps DEF Steps
    <3> QED
      BY <3>2 DEF Buys
  <2> QED
    BY <2>1
<1> QED
  BY <1>1, RecipeInvariant, PTL DEF SpotSpec, FlattenIsFinal

\* CycleFromFlat: a cycle, and a slot of a grid, start from nothing (_decide,
\* _dca, _grid).
THEOREM CyclesStartFlat == SpotSpec => CycleFromFlat
<1> DEFINE Step ==
             /\ ctl'.cycle > ctl.cycle =>
                  /\ acct.base = 0 /\ Unreconciled(acct) = {}
                  /\ \A id \in Known(acct) : VenueDone(id)
             /\ \A id \in Known(acct)' \ Known(acct) : \A old \in Known(acct) :
                  id.slot = old.slot /\ id.purpose \in {"grid_buy", "grid_sell"} =>
                    /\ VenueDone(old) /\ acct'.orders[old].terminal_reconciled
                    /\ id.purpose = old.purpose /\ Buys(id) => acct'.lots[old] < plan.min
<1>1. Inv /\ [SpotNext]_spotVars => [Step]_spotVars
  <2>1. ASSUME Inv, SpotNext, ctl'.cycle > ctl.cycle
        PROVE  /\ acct.base = 0 /\ Unreconciled(acct) = {}
               /\ \A id \in Known(acct) : VenueDone(id)
    <3>1. Flat(acct) /\ EndInv(acct, venue)
      BY <2>1, SpotNextSteps, InvFacts DEF Steps
    <3>2. \A id \in Known(acct) : acct.orders[id].terminal_reconciled
      BY <3>1 DEF Flat, Unreconciled
    <3> QED
      BY <3>1, <3>2, DoneAtVenue DEF Flat
  <2>2. ASSUME Inv, SpotNext, NEW id \in Known(acct') \ Known(acct), NEW old \in Known(acct),
               id.slot = old.slot, id.purpose \in {"grid_buy", "grid_sell"}
        PROVE  /\ VenueDone(old) /\ acct'.orders[old].terminal_reconciled
               /\ id.purpose = old.purpose /\ Buys(id) => acct'.lots[old] < plan.min
    BY <2>2, SpotNextSteps DEF Steps, Buys
  <2> QED
    BY <2>1, <2>2
<1> QED
  BY <1>1, RecipeInvariant, PTL DEF SpotSpec, CycleFromFlat
=============================================================================
