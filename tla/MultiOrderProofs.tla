-------------------------- MODULE MultiOrderProofs --------------------------
(***************************************************************************)
(* Proofs about MultiOrderAccount: the balances are the venue's events     *)
(* counted once, reservations stay covered, only what the venue did wrong  *)
(* is set aside, and one order of a slot executes at a time, for any       *)
(* orders, amounts and behaviours of the venue.                            *)
(*                                                                         *)
(* The functions of the code take a state and return one, so the           *)
(* invariant is an operator on an account a and the venue's events v, and  *)
(* there is one lemma for each of these functions.                         *)
(***************************************************************************)
EXTENDS MultiOrderAccount, SumProofs

-----------------------------------------------------------------------------
(***************************************************************************)
(* The inductive invariant.                                                *)
(***************************************************************************)
AllLots == {LotOf(id) : id \in {i \in Ids : Buys(i)}}

OrderType ==
  [status : {"none", "pending", "cancel_pending", "accepted", "partial", "unknown"} \cup TERMINAL,
   size : Nat, filled : Nat, reserved_quote : Nat, reserved_base : Nat,
   allocations : [AllLots -> Nat], terminal_reconciled : BOOLEAN,
   cancel : {"none", "cancel", "replace"}, unknown : {"none", "submit", "cancel"},
   replacement : Nat]

EventType ==
  [seq : Nat, id : Ids, status : {"accepted", "partial", "unknown"} \cup TERMINAL,
   size : Nat, quote : Nat, base : Nat, third : BOOLEAN, excess : BOOLEAN]

AccountType ==
  [cash : Int, base : Int, cleanup : {Cleanup}, cycle : Nat, orders : [Ids -> OrderType],
   lots : [AllLots -> Nat], born : [AllLots -> Nat], seq : Nat, events : SUBSET Nat,
   buffered : SUBSET EventType, quarantine : SUBSET EventType,
   reconciliation : BOOLEAN, fees : BOOLEAN, unvalued : SUBSET Nat]

\* What the events of v bring and take: quote, base, and the size of an order.
QuoteOf(v) == [n \in DOMAIN v |-> IF Buys(v[n].id) THEN -v[n].quote ELSE v[n].quote]
BaseOf(v) == [n \in DOMAIN v |-> IF Buys(v[n].id) THEN v[n].base ELSE -v[n].base]
SizeOf(v) == [n \in DOMAIN v |-> v[n].size]
Until(v, id, k) == {n \in 1 .. k : v[n].id = id}

\* An execution costs no more than was reserved for its size, a BUY acquires no
\* more than it and a SELL removes all of it.
Possible(e) ==
  e.quote <= e.size * UnitCost /\ e.base <= e.size /\ (~Buys(e.id) => e.base = e.size)

\* The venue numbers its events, and executes only what was submitted.
Numbered(a, v) ==
  /\ v \in Seq(EventType)
  /\ \A n \in 1 .. Len(v) : v[n].seq = n /\ v[n].id \in Known(a) /\ Possible(v[n])

\* The balances and each order's execution are those of the first seq events.
Counted(a, v) ==
  /\ a.seq <= Len(v) /\ a.events = 1 .. a.seq
  /\ a.cash = Budget + SumFunctionOnSet(QuoteOf(v), 1 .. a.seq)
  /\ a.base = SumFunctionOnSet(BaseOf(v), 1 .. a.seq)
  /\ \A id \in Ids : a.orders[id].filled = SumFunctionOnSet(SizeOf(v), Until(v, id, a.seq))

\* An order keeps what its remainder needs until a report proves that it ended.
Kept(id, o) ==
  /\ o.status = "none" => o = NoOrder(AllLots)
  /\ o.filled <= o.size
  /\ o.terminal_reconciled => o.status \in TERMINAL
  /\ IF Buys(id)
       THEN /\ o.reserved_base = 0 /\ o.allocations = Nothing(AllLots)
            /\ o.status \notin TERMINAL => (o.size - o.filled) * UnitCost <= o.reserved_quote
       ELSE /\ o.reserved_quote = 0 /\ SumFunction(o.allocations) = o.reserved_base
            /\ o.status \notin TERMINAL => o.reserved_base = o.size - o.filled
AllKept(a) == \A id \in Ids : Kept(id, a.orders[id])

\* Covered, of an account.
Funded(a) ==
  /\ free_quote(a) >= 0 /\ free_base(a) >= 0
  /\ SumFunction(a.lots) = a.base
  /\ \A lot \in AllLots : Allocated(a, lot) <= a.lots[lot]

\* Lots with base are told apart by the event that opened them, so that taking
\* from the oldest first is defined.
Aged(a) ==
  /\ \A lot \in AllLots : a.born[lot] <= a.seq /\ (a.lots[lot] > 0 => a.born[lot] > 0)
  /\ \A l, m \in AllLots : a.born[l] = a.born[m] /\ a.born[l] > 0 => l = m

\* An order with a terminal status has ended at the venue.
Done(v, id) == \E n \in 1 .. Len(v) : v[n].id = id /\ v[n].status \in TERMINAL
Ended(a, v) == \A id \in Ids : a.orders[id].status \in TERMINAL => Done(v, id)

Faulty(a, v) ==
  \A e \in a.quarantine :
    /\ e.seq \in 1 .. Len(v) /\ e.id \in Known(a)
    /\ \/ e.excess
       \/ SumFunctionOnSet(SizeOf(v), Until(v, e.id, e.seq)) > a.orders[e.id].size

OneLive(a, v) ==
  \A id, old \in Known(a) : SameSlot(id, old) /\ ~Done(v, id) /\ ~Done(v, old) => id = old

AccountInv(a, v) ==
  /\ a \in AccountType /\ Numbered(a, v) /\ Counted(a, v)
  /\ AllKept(a) /\ Funded(a) /\ Aged(a)
  /\ Ended(a, v) /\ Faulty(a, v) /\ OneLive(a, v)

-----------------------------------------------------------------------------
(***************************************************************************)
(* The operators of the account.                                           *)
(***************************************************************************)
LEMMA FiniteData == IsFiniteSet(Ids) /\ IsFiniteSet(AllLots)
<1> DEFINE S == {i \in Ids : Buys(i)}
           f == [id \in S |-> LotOf(id)]
<1>1. IsFiniteSet(Ids)
  BY IdsAssumption
<1>2. IsFiniteSet(S)
  BY <1>1, FS_Subset
<1>3. f \in Surjection(S, AllLots)
  BY DEF Surjection, AllLots
<1>4. IsFiniteSet(AllLots)
  <2> HIDE DEF S, f
  <2> QED
    BY <1>2, <1>3, FS_Surjection
<1> QED
  BY <1>1, <1>4

LEMMA MinOfTwo ==
  ASSUME NEW x \in Int, NEW y \in Int
  PROVE  Min({x, y}) = IF x <= y THEN x ELSE y
BY DEF Min

LEMMA MaxOfTwo ==
  ASSUME NEW x \in Int, NEW y \in Int
  PROVE  Max({x, y}) = IF x <= y THEN y ELSE x
BY DEF Max

\* What each lot gives, as Oldest has it.
Gives(L, born, amount, need, taken) ==
  taken = [lot \in L |->
             Min({amount[lot],
                  Max({0, need - SumFunctionOnSet(amount, {l \in L : born[l] < born[lot]})})})]

\* What the lots give together is what was asked for, when they have it: oldest
\* first, each lot gives all it has until the need is met.
LEMMA OldestGive ==
  ASSUME NEW L, IsFiniteSet(L), NEW born \in [L -> Nat], NEW amount \in [L -> Nat],
         \A l \in L : amount[l] > 0 => born[l] > 0,
         \A l, m \in L : born[l] = born[m] /\ born[l] > 0 => l = m,
         NEW top \in Nat, \A l \in L : born[l] <= top,
         NEW need \in Nat, need <= SumFunctionOnSet(amount, L),
         NEW taken, Gives(L, born, amount, need, taken)
  PROVE  /\ taken \in [L -> Nat] /\ \A l \in L : taken[l] <= amount[l]
         /\ SumFunctionOnSet(taken, L) = need
<1> DEFINE older(b) == {l \in L : born[l] < b}
           sum(b) == SumFunctionOnSet(amount, older(b))
           got(b) == SumFunctionOnSet(taken, older(b))
<1>1. ASSUME NEW b \in Nat PROVE older(b) \in SUBSET L /\ IsFiniteSet(older(b)) /\ sum(b) \in Nat
  <2>1. older(b) \in SUBSET L
    OBVIOUS
  <2>2. IsFiniteSet(older(b))
    BY <2>1, FS_Subset
  <2>3. \A l \in older(b) : amount[l] \in Nat
    OBVIOUS
  <2>4. sum(b) \in Nat
    <3> HIDE DEF older
    <3> QED
      BY <2>2, <2>3, SumNat
  <2> QED
    BY <2>1, <2>2, <2>4
<1>2. ASSUME NEW l \in L
      PROVE  /\ taken[l] \in Nat /\ taken[l] <= amount[l]
             /\ taken[l] = IF need <= sum(born[l]) THEN 0
                           ELSE IF amount[l] <= need - sum(born[l]) THEN amount[l]
                                ELSE need - sum(born[l])
  <2>1. taken[l] = Min({amount[l], Max({0, need - sum(born[l])})})
    BY DEF Gives
  <2>2. born[l] \in Nat /\ amount[l] \in Nat
    OBVIOUS
  <2>3. sum(born[l]) \in Nat
    BY <1>1, <2>2
  <2> HIDE DEF sum
  <2> DEFINE rest == need - sum(born[l])
  <2>4. rest \in Int
    BY <2>3
  <2>5. Max({0, rest}) = IF 0 <= rest THEN rest ELSE 0
    BY <2>4, MaxOfTwo
  <2> DEFINE given == Max({0, rest})
  <2>6. given \in Int /\ amount[l] \in Int /\ taken[l] = Min({amount[l], given})
    BY <2>1, <2>2, <2>4, <2>5
  <2> HIDE DEF given
  <2>7. taken[l] = IF amount[l] <= given THEN amount[l] ELSE given
    BY <2>6, MinOfTwo
  <2> USE DEF given
  <2> QED
    BY <2>2, <2>3, <2>5, <2>7
<1> HIDE DEF sum
<1>3. ASSUME NEW l \in L
      PROVE  amount[l] \in Int /\ taken[l] \in Int /\ (amount[l] = 0 => taken[l] = 0)
  <2>1. amount[l] \in Nat /\ taken[l] \in Nat /\ taken[l] <= amount[l]
    BY <1>2
  <2> QED
    BY <2>1
<1> HIDE DEF got
<1> DEFINE Q == {b \in Nat : got(b) = IF need <= sum(b) THEN need ELSE sum(b)}
<1>4. 0 \in Q
  <2>1. older(0) = {}
    OBVIOUS
  <2>2. got(0) = 0 /\ sum(0) = 0
    BY <2>1, SumEmpty DEF sum, got
  <2>3. need <= 0 => need = 0
    OBVIOUS
  <2> QED
    BY <2>2, <2>3
<1>5. ASSUME NEW b \in Q PROVE b + 1 \in Q
  <2>1. CASE \E l \in L : born[l] = b /\ b > 0
    <3>1. PICK l \in L : born[l] = b /\ b > 0
      BY <2>1
    <3>2. older(b + 1) = older(b) \cup {l} /\ l \in L \ older(b)
      BY <3>1
    <3>3. older(b) \in SUBSET L
      OBVIOUS
    <3>4. sum(b + 1) = sum(b) + amount[l] /\ got(b + 1) = got(b) + taken[l]
      <4> HIDE DEF older
      <4>1. \A k \in L : amount[k] \in Int
        BY <1>3
      <4>2. \A k \in L : taken[k] \in Int
        BY <1>3
      <4>3. SumFunctionOnSet(amount, older(b) \cup {l})
            = SumFunctionOnSet(amount, older(b)) + amount[l]
        BY <3>2, <3>3, <4>1, SumAdd
      <4>4. SumFunctionOnSet(taken, older(b) \cup {l})
            = SumFunctionOnSet(taken, older(b)) + taken[l]
        BY <3>2, <3>3, <4>2, SumAdd
      <4> QED
        BY <3>2, <4>3, <4>4 DEF sum, got
    <3>5. got(b) = IF need <= sum(b) THEN need ELSE sum(b)
      OBVIOUS
    <3>6. taken[l] = IF need <= sum(b) THEN 0
                     ELSE IF amount[l] <= need - sum(b) THEN amount[l] ELSE need - sum(b)
      BY <1>2, <3>1
    <3>7. sum(b) \in Nat /\ amount[l] \in Nat
      BY <1>1
    <3> QED
      BY <3>4, <3>5, <3>6, <3>7
  <2>2. CASE b = 0
    <3>1. \A l \in older(1) : amount[l] = 0 /\ taken[l] = 0
      <4> SUFFICES ASSUME NEW l \in older(1) PROVE amount[l] = 0 /\ taken[l] = 0
        OBVIOUS
      <4>1. l \in L /\ ~(born[l] > 0) /\ amount[l] \in Nat
        OBVIOUS
      <4>2. amount[l] = 0
        BY <4>1
      <4> QED
        BY <1>3, <4>1, <4>2
    <3>2. IsFiniteSet(older(1))
      BY <1>1
    <3>3. sum(1) = 0 /\ got(1) = 0
      <4> HIDE DEF older
      <4> QED
        BY <3>1, <3>2, SumZero DEF sum, got
    <3> QED
      BY <2>2, <3>3
  <2>3. CASE b # 0 /\ ~ \E l \in L : born[l] = b /\ b > 0
    <3>1. older(b + 1) = older(b)
      <4>1. \A l \in L : born[l] \in Nat /\ born[l] # b
        BY <2>3
      <4> QED
        BY <4>1
    <3>2. sum(b + 1) = sum(b) /\ got(b + 1) = got(b)
      BY <3>1 DEF sum, got
    <3> QED
      BY <3>2
  <2> QED
    BY <2>1, <2>2, <2>3
<1>6. top + 1 \in Q
  <2> HIDE DEF Q
  <2>1. Q \subseteq Nat
    BY DEF Q
  <2>2. Q = Nat
    BY <1>4, <1>5, <2>1, InductionOnNat
  <2> QED
    BY <2>2
<1>7. older(top + 1) = L
  OBVIOUS
<1>8. SumFunctionOnSet(taken, L) = need
  BY <1>6, <1>7 DEF sum, got
<1>9. taken \in [L -> Nat] /\ \A l \in L : taken[l] <= amount[l]
  <2>1. taken = [l \in L |-> taken[l]]
    BY DEF Gives
  <2> QED
    BY <1>2, <2>1
<1> QED
  BY <1>8, <1>9

\* The sums over the orders, when the amounts are naturals.
LEMMA OrderSums ==
  ASSUME NEW a, a.orders \in [Ids -> OrderType]
  PROVE  /\ reserved_quote(a) \in Nat /\ reserved_base(a) \in Nat
         /\ \A lot \in AllLots : Allocated(a, lot) \in Nat
         /\ \A id \in Ids :
              /\ a.orders[id].reserved_quote <= reserved_quote(a)
              /\ a.orders[id].reserved_base <= reserved_base(a)
              /\ \A lot \in AllLots : a.orders[id].allocations[lot] <= Allocated(a, lot)
<1> DEFINE q == [id \in Ids |-> a.orders[id].reserved_quote]
           b == [id \in Ids |-> a.orders[id].reserved_base]
           h(lot) == [id \in Ids |-> a.orders[id].allocations[lot]]
<1>1. DOMAIN a.orders = Ids /\ IsFiniteSet(Ids)
  BY FiniteData
<1>2. \A id \in Ids : a.orders[id] \in OrderType
  OBVIOUS
<1>3. /\ \A id \in Ids : q[id] \in Nat /\ b[id] \in Nat
      /\ \A lot \in AllLots : \A id \in Ids : h(lot)[id] \in Nat
  BY <1>2 DEF OrderType
<1>4. /\ reserved_quote(a) = SumFunctionOnSet(q, Ids)
      /\ reserved_base(a) = SumFunctionOnSet(b, Ids)
      /\ \A lot \in AllLots : Allocated(a, lot) = SumFunctionOnSet(h(lot), Ids)
  BY <1>1 DEF reserved_quote, reserved_base, Allocated, SumFunction
<1>5. SumFunctionOnSet(q, Ids) \in Nat /\ \A id \in Ids : q[id] <= SumFunctionOnSet(q, Ids)
  <2> HIDE DEF q
  <2> QED
    BY <1>1, <1>3, SumNat
<1>6. SumFunctionOnSet(b, Ids) \in Nat /\ \A id \in Ids : b[id] <= SumFunctionOnSet(b, Ids)
  <2> HIDE DEF b
  <2> QED
    BY <1>1, <1>3, SumNat
<1>7. ASSUME NEW lot \in AllLots
      PROVE  /\ SumFunctionOnSet(h(lot), Ids) \in Nat
             /\ \A id \in Ids : h(lot)[id] <= SumFunctionOnSet(h(lot), Ids)
  <2> HIDE DEF h
  <2> QED
    BY <1>1, <1>3, SumNat
<1> QED
  BY <1>4, <1>5, <1>6, <1>7

\* What the orders hold when one of them changes.
Shifts(a, b, id) ==
  /\ reserved_quote(b) = reserved_quote(a) - a.orders[id].reserved_quote
                                          + b.orders[id].reserved_quote
  /\ reserved_base(b) = reserved_base(a) - a.orders[id].reserved_base
                                        + b.orders[id].reserved_base
  /\ \A lot \in AllLots :
       Allocated(b, lot) = Allocated(a, lot) - a.orders[id].allocations[lot]
                                            + b.orders[id].allocations[lot]

LEMMA OneOrderChanges ==
  ASSUME NEW a, NEW b, a.orders \in [Ids -> OrderType], b.orders \in [Ids -> OrderType],
         NEW id \in Ids, \A i \in Ids \ {id} : b.orders[i] = a.orders[i]
  PROVE  Shifts(a, b, id)
<1>1. DOMAIN a.orders = Ids /\ DOMAIN b.orders = Ids /\ IsFiniteSet(Ids)
  BY FiniteData
<1>2. \A i \in Ids : a.orders[i] \in OrderType /\ b.orders[i] \in OrderType
  OBVIOUS
<1>3. reserved_quote(b) = reserved_quote(a) - a.orders[id].reserved_quote
                                           + b.orders[id].reserved_quote
  <2> DEFINE f(c) == [i \in Ids |-> c.orders[i].reserved_quote]
  <2>1. \A i \in Ids : f(a)[i] \in Int /\ f(b)[i] \in Int
    BY <1>2 DEF OrderType
  <2>2. \A i \in Ids \ {id} : f(a)[i] = f(b)[i]
    OBVIOUS
  <2>3. SumFunctionOnSet(f(b), Ids) = SumFunctionOnSet(f(a), Ids) - f(a)[id] + f(b)[id]
    <3> HIDE DEF f
    <3> QED
      BY <1>1, <2>1, <2>2, SumUpdate
  <2> QED
    BY <1>1, <2>3 DEF reserved_quote, SumFunction
<1>4. reserved_base(b) = reserved_base(a) - a.orders[id].reserved_base
                                         + b.orders[id].reserved_base
  <2> DEFINE f(c) == [i \in Ids |-> c.orders[i].reserved_base]
  <2>1. \A i \in Ids : f(a)[i] \in Int /\ f(b)[i] \in Int
    BY <1>2 DEF OrderType
  <2>2. \A i \in Ids \ {id} : f(a)[i] = f(b)[i]
    OBVIOUS
  <2>3. SumFunctionOnSet(f(b), Ids) = SumFunctionOnSet(f(a), Ids) - f(a)[id] + f(b)[id]
    <3> HIDE DEF f
    <3> QED
      BY <1>1, <2>1, <2>2, SumUpdate
  <2> QED
    BY <1>1, <2>3 DEF reserved_base, SumFunction
<1>5. ASSUME NEW lot \in AllLots
      PROVE  Allocated(b, lot) = Allocated(a, lot) - a.orders[id].allocations[lot]
                                                   + b.orders[id].allocations[lot]
  <2> DEFINE f(c) == [i \in Ids |-> c.orders[i].allocations[lot]]
  <2>1. \A i \in Ids : f(a)[i] \in Int /\ f(b)[i] \in Int
    BY <1>2 DEF OrderType
  <2>2. \A i \in Ids \ {id} : f(a)[i] = f(b)[i]
    OBVIOUS
  <2>3. SumFunctionOnSet(f(b), Ids) = SumFunctionOnSet(f(a), Ids) - f(a)[id] + f(b)[id]
    <3> HIDE DEF f
    <3> QED
      BY <1>1, <2>1, <2>2, SumUpdate
  <2> QED
    BY <1>1, <2>3 DEF Allocated, SumFunction
<1> QED
  BY <1>3, <1>4, <1>5 DEF Shifts

\* A sum over lots changed at one of them, or at each of them.
LEMMA LotSums ==
  ASSUME NEW f \in [AllLots -> Nat]
  PROVE  /\ SumFunction(f) \in Nat /\ \A lot \in AllLots : f[lot] <= SumFunction(f)
         /\ \A lot \in AllLots, n \in Nat :
              SumFunction([f EXCEPT ![lot] = @ + n]) = SumFunction(f) + n
         /\ \A g \in [AllLots -> Nat] :
              (\A lot \in AllLots : g[lot] <= f[lot]) =>
                /\ [lot \in AllLots |-> f[lot] - g[lot]] \in [AllLots -> Nat]
                /\ SumFunction([lot \in AllLots |-> f[lot] - g[lot]])
                   = SumFunction(f) - SumFunction(g)
<1>1. IsFiniteSet(AllLots) /\ DOMAIN f = AllLots
  BY FiniteData
<1>2. SumFunction(f) \in Nat /\ \A lot \in AllLots : f[lot] <= SumFunction(f)
  BY <1>1, SumNat DEF SumFunction
<1>3. ASSUME NEW lot \in AllLots, NEW n \in Nat
      PROVE  SumFunction([f EXCEPT ![lot] = @ + n]) = SumFunction(f) + n
  <2> DEFINE g == [f EXCEPT ![lot] = @ + n]
  <2>1. DOMAIN g = AllLots /\ g[lot] = f[lot] + n /\ \A y \in AllLots \ {lot} : f[y] = g[y]
    OBVIOUS
  <2>2. \A y \in AllLots : f[y] \in Int /\ g[y] \in Int
    OBVIOUS
  <2> HIDE DEF g
  <2>3. SumFunctionOnSet(g, AllLots) = SumFunctionOnSet(f, AllLots) - f[lot] + g[lot]
    BY <1>1, <2>1, <2>2, SumUpdate
  <2>4. SumFunction(g) = SumFunction(f) - f[lot] + g[lot]
    BY <1>1, <2>1, <2>3 DEF SumFunction
  <2>5. SumFunction(g) = SumFunction(f) + n
    BY <1>2, <2>1, <2>4
  <2> QED
    BY <2>5 DEF g
<1>4. ASSUME NEW g \in [AllLots -> Nat], \A lot \in AllLots : g[lot] <= f[lot]
      PROVE  /\ [lot \in AllLots |-> f[lot] - g[lot]] \in [AllLots -> Nat]
             /\ SumFunction([lot \in AllLots |-> f[lot] - g[lot]])
                = SumFunction(f) - SumFunction(g)
  <2> DEFINE h == [lot \in AllLots |-> f[lot] - g[lot]]
  <2>1. ASSUME NEW lot \in AllLots
        PROVE  h[lot] \in Nat /\ g[lot] \in Nat /\ f[lot] = h[lot] + g[lot]
    <3>1. f[lot] \in Nat /\ g[lot] \in Nat /\ g[lot] <= f[lot]
      BY <1>4
    <3> QED
      BY <3>1
  <2>2. DOMAIN h = AllLots /\ DOMAIN g = AllLots /\ h \in [AllLots -> Nat]
    BY <2>1
  <2> HIDE DEF h
  <2>3. SumFunctionOnSet(f, AllLots) = SumFunctionOnSet(h, AllLots) + SumFunctionOnSet(g, AllLots)
    BY <1>1, <2>1, SumPlus
  <2>4. SumFunctionOnSet(h, AllLots) \in Nat /\ SumFunctionOnSet(g, AllLots) \in Nat
    BY <1>1, <2>1, SumNat
  <2>5. h \in [AllLots -> Nat] /\ SumFunction(h) = SumFunction(f) - SumFunction(g)
    BY <1>1, <2>2, <2>3, <2>4 DEF SumFunction
  <2> QED
    BY <2>5 DEF h
<1> QED
  BY <1>2, <1>3, <1>4

-----------------------------------------------------------------------------
(***************************************************************************)
(* apply_spot_event.                                                       *)
(***************************************************************************)
\* What accounting for e makes of a: the balances, and the order's reservation
\* for what is left of it.
Booked(a, b, e) ==
  LET o == a.orders[e.id]
      p == b.orders[e.id]
  IN  /\ b \in AccountType /\ Funded(b)
      /\ b.cash = a.cash + (IF Buys(e.id) THEN -e.quote ELSE e.quote)
      /\ b.base = a.base + (IF Buys(e.id) THEN e.base ELSE -e.base)
      /\ \A lot \in AllLots : b.born[lot] <= e.seq /\ (b.lots[lot] > 0 => b.born[lot] > 0)
      /\ \A l, m \in AllLots : b.born[l] = b.born[m] /\ b.born[l] > 0 => l = m
      /\ \A i \in Ids \ {e.id} : b.orders[i] = a.orders[i]
      /\ b.seq = a.seq /\ b.events = a.events /\ b.quarantine = a.quarantine
      /\ p.status = o.status /\ p.size = o.size /\ p.filled = o.filled
      /\ p.terminal_reconciled = o.terminal_reconciled
      /\ p.cancel = o.cancel /\ p.unknown = o.unknown
      /\ IF Buys(e.id)
           THEN /\ p.reserved_base = 0 /\ p.allocations = Nothing(AllLots)
                /\ (o.size - (o.filled + e.size)) * UnitCost <= p.reserved_quote
           ELSE /\ p.reserved_quote = 0 /\ SumFunction(p.allocations) = p.reserved_base
                /\ p.reserved_base = o.size - (o.filled + e.size)

\* e is the next event of a, of an order that goes on.
IsNext(a, v, e) ==
  /\ AccountInv(a, v)
  /\ e = v[a.seq + 1] /\ a.seq + 1 \in 1 .. Len(v)
  /\ a.orders[e.id].status \notin TERMINAL

LEMMA NextEvent ==
  ASSUME NEW a, NEW v, NEW e, IsNext(a, v, e)
  PROVE  /\ e \in EventType /\ e.seq = a.seq + 1 /\ e.id \in Known(a) /\ e.id \in Ids
         /\ Possible(e) /\ a.orders[e.id] \in OrderType /\ Kept(e.id, a.orders[e.id])
         /\ a.orders[e.id].status # "none"
<1>1. /\ v \in Seq(EventType) /\ a.seq + 1 \in 1 .. Len(v) /\ e = v[a.seq + 1]
      /\ a \in AccountType /\ AllKept(a)
      /\ \A n \in 1 .. Len(v) : v[n].seq = n /\ v[n].id \in Known(a) /\ Possible(v[n])
  BY DEF IsNext, AccountInv, Numbered
<1>2. e \in EventType /\ e.seq = a.seq + 1 /\ e.id \in Known(a) /\ Possible(e)
  BY <1>1
<1>3. e.id \in Ids
  BY <1>2 DEF EventType
<1>4. a.orders \in [Ids -> OrderType]
  BY <1>1 DEF AccountType
<1> QED
  BY <1>1, <1>2, <1>3, <1>4 DEF AllKept, Known

\* The rest of an order costs no more than what its execution left.
LEMMA RestCosts ==
  ASSUME NEW size \in Nat, NEW filled \in Nat, NEW n \in Nat, NEW quote \in Nat,
         NEW reserved \in Nat,
         (size - filled) * UnitCost <= reserved, quote <= n * UnitCost
  PROVE  /\ (size - (filled + n)) * UnitCost <= reserved - quote
         /\ filled + n <= size => quote <= reserved
<1>1. UnitCost \in Nat
  BY AmountsAssumption
<1>2. (size - (filled + n)) * UnitCost = (size - filled) * UnitCost - n * UnitCost
  BY <1>1
<1>3. (size - filled) * UnitCost \in Int /\ n * UnitCost \in Int
  BY <1>1
<1>4. (size - (filled + n)) * UnitCost <= reserved - quote
  BY <1>2, <1>3
<1>5. ASSUME filled + n <= size PROVE 0 <= (size - (filled + n)) * UnitCost
  <2> DEFINE rest == size - (filled + n)
  <2>1. rest \in Nat
    BY <1>5
  <2> HIDE DEF rest
  <2>2. 0 <= rest * UnitCost
    BY <1>1, <2>1
  <2> QED
    BY <2>2 DEF rest
<1>6. (size - (filled + n)) * UnitCost \in Int
  BY <1>1
<1> QED
  BY <1>4, <1>5, <1>6

LEMMA BoughtBooks ==
  ASSUME NEW a, NEW v, NEW e, IsNext(a, v, e), Buys(e.id), ~Shortage(a, e)
  PROVE  Booked(a, Bought(a, e), e)
<1> DEFINE id == e.id
           o == a.orders[id]
           lot == LotOf(id)
           b == Bought(a, e)
<1>1. /\ e \in EventType /\ e.seq = a.seq + 1 /\ id \in Ids /\ Possible(e)
      /\ o \in OrderType /\ Kept(id, o)
  BY NextEvent
<1>2. a \in AccountType /\ Funded(a) /\ Aged(a) /\ o.status \notin TERMINAL
  BY DEF IsNext, AccountInv
<1>3. /\ o.filled + e.size <= o.size /\ e.quote <= o.reserved_quote
      /\ e.quote \in Nat /\ e.size \in Nat /\ e.base \in Nat /\ e.seq \in Nat
  <2>1. /\ e.quote \in Nat /\ e.size \in Nat /\ e.base \in Nat /\ e.seq \in Nat
        /\ o.size \in Nat /\ o.filled \in Nat /\ o.reserved_quote \in Nat
    BY <1>1 DEF EventType, OrderType
  <2>2. ~(o.filled + e.size > o.size) /\ ~(e.quote > o.reserved_quote)
    BY DEF Shortage
  <2> QED
    BY <2>1, <2>2
<1>4. lot \in AllLots
  BY <1>1 DEF AllLots
<1>5. /\ o.size \in Nat /\ o.filled \in Nat /\ o.reserved_quote \in Nat
      /\ o.reserved_base = 0 /\ o.allocations = Nothing(AllLots)
      /\ (o.size - o.filled) * UnitCost <= o.reserved_quote
  BY <1>1, <1>2 DEF Kept, OrderType
<1>6. /\ b = [a EXCEPT !.cash = b.cash, !.base = b.base, !.lots = b.lots, !.born = b.born,
                       !.orders = b.orders]
      /\ b.cash = a.cash - e.quote /\ b.base = a.base + e.base
      /\ b.lots = [a.lots EXCEPT ![lot] = @ + e.base]
      /\ b.born = [a.born EXCEPT ![lot] = IF @ = 0 THEN e.seq ELSE @]
      /\ b.orders = [a.orders EXCEPT ![id].reserved_quote = @ - e.quote]
  BY <1>2 DEF Bought, AccountType
<1> HIDE DEF b, lot
<1>7. /\ b.cash \in Int /\ b.base \in Int
      /\ b.lots \in [AllLots -> Nat] /\ b.born \in [AllLots -> Nat]
  BY <1>2, <1>3, <1>4, <1>6 DEF AccountType
<1>8. b.orders \in [Ids -> OrderType] /\ \A i \in Ids \ {id} : b.orders[i] = a.orders[i]
  <2>1. o.reserved_quote - e.quote \in Nat
    BY <1>3, <1>5
  <2>2. [o EXCEPT !.reserved_quote = @ - e.quote] \in OrderType
    BY <1>1, <2>1 DEF OrderType
  <2>3. b.orders = [a.orders EXCEPT ![id] = [o EXCEPT !.reserved_quote = @ - e.quote]]
    BY <1>6
  <2>4. a.orders \in [Ids -> OrderType]
    BY <1>2 DEF AccountType
  <2> QED
    BY <1>1, <2>2, <2>3, <2>4
<1>9. /\ b \in AccountType
      /\ b.seq = a.seq /\ b.events = a.events /\ b.quarantine = a.quarantine
      /\ b.cleanup = a.cleanup /\ b.cycle = a.cycle
  <2> DEFINE cash == b.cash
             base == b.base
             lots == b.lots
             born == b.born
             orders == b.orders
  <2>1. b = [a EXCEPT !.cash = cash, !.base = base, !.lots = lots, !.born = born,
                      !.orders = orders]
    BY <1>6
  <2>2. /\ cash \in Int /\ base \in Int /\ orders \in [Ids -> OrderType]
        /\ lots \in [AllLots -> Nat] /\ born \in [AllLots -> Nat]
    BY <1>7, <1>8
  <2> HIDE DEF cash, base, lots, born, orders
  <2> QED
    BY <1>2, <2>1, <2>2 DEF AccountType
<1>10. /\ b.orders[id].reserved_quote = o.reserved_quote - e.quote
       /\ b.orders[id].reserved_base = 0 /\ b.orders[id].allocations = Nothing(AllLots)
       /\ b.orders[id].status = o.status /\ b.orders[id].size = o.size
       /\ b.orders[id].filled = o.filled
       /\ b.orders[id].terminal_reconciled = o.terminal_reconciled
       /\ b.orders[id].cancel = o.cancel /\ b.orders[id].unknown = o.unknown
  BY <1>1, <1>2, <1>5, <1>6 DEF AccountType, OrderType
<1>11. Funded(b)
  <2>1. a.orders \in [Ids -> OrderType]
    BY <1>2 DEF AccountType
  <2>2. /\ reserved_quote(b) = reserved_quote(a) - e.quote
        /\ reserved_base(b) = reserved_base(a)
        /\ \A l \in AllLots : Allocated(b, l) = Allocated(a, l)
    <3>1. Shifts(a, b, id)
      BY <1>1, <1>8, <2>1, OneOrderChanges
    <3>2. /\ reserved_quote(a) \in Nat /\ reserved_base(a) \in Nat
          /\ \A l \in AllLots : Allocated(a, l) \in Nat
      BY <2>1, OrderSums
    <3>3. \A l \in AllLots : o.allocations[l] = 0 /\ b.orders[id].allocations[l] = 0
      BY <1>5, <1>10 DEF Nothing
    <3> QED
      BY <1>3, <1>5, <1>10, <3>1, <3>2, <3>3 DEF Shifts
  <2>3. free_quote(b) >= 0 /\ free_base(b) >= 0
    <3>1. /\ reserved_quote(a) \in Nat /\ reserved_base(a) \in Nat
          /\ a.cash \in Int /\ a.base \in Int /\ a.cleanup \in Int /\ a.cycle \in Int
      BY <1>2, <2>1, OrderSums, AmountsAssumption DEF AccountType
    <3>2. free_quote(a) >= 0 /\ free_base(a) >= 0
      BY <1>2 DEF Funded
    <3> QED
      BY <1>3, <1>6, <1>9, <2>2, <3>1, <3>2 DEF free_quote, free_base
  <2>4. SumFunction(b.lots) = b.base
    <3>1. a.lots \in [AllLots -> Nat] /\ SumFunction(a.lots) = a.base
      BY <1>2 DEF AccountType, Funded
    <3>2. SumFunction(b.lots) = SumFunction(a.lots) + e.base
      BY <1>3, <1>4, <1>6, <3>1, LotSums
    <3> QED
      BY <1>6, <3>1, <3>2
  <2>5. ASSUME NEW l \in AllLots PROVE Allocated(b, l) <= b.lots[l]
    <3>1. a.lots[l] \in Nat /\ Allocated(a, l) \in Nat /\ Allocated(a, l) <= a.lots[l]
      BY <1>2, <2>1, OrderSums DEF AccountType, Funded
    <3>2. b.lots[l] >= a.lots[l]
      BY <1>2, <1>3, <1>4, <1>6, <3>1 DEF AccountType
    <3> QED
      BY <1>7, <2>2, <3>1, <3>2
  <2> QED
    BY <2>3, <2>4, <2>5 DEF Funded
<1>12. /\ \A l \in AllLots : b.born[l] <= e.seq /\ (b.lots[l] > 0 => b.born[l] > 0)
       /\ \A l, m \in AllLots : b.born[l] = b.born[m] /\ b.born[l] > 0 => l = m
  <2>1. /\ a.lots \in [AllLots -> Nat] /\ a.born \in [AllLots -> Nat] /\ a.seq \in Nat
        /\ \A l \in AllLots : a.born[l] <= a.seq /\ (a.lots[l] > 0 => a.born[l] > 0)
        /\ \A l, m \in AllLots : a.born[l] = a.born[m] /\ a.born[l] > 0 => l = m
    BY <1>2 DEF AccountType, Aged
  <2>2. ASSUME NEW l \in AllLots
        PROVE  /\ b.born[l] = IF l = lot /\ a.born[l] = 0 THEN e.seq ELSE a.born[l]
               /\ b.lots[l] = IF l = lot THEN a.lots[l] + e.base ELSE a.lots[l]
    BY <1>4, <1>6, <2>1
  <2>3. e.seq = a.seq + 1
    BY <1>1
  <2>4. ASSUME NEW l \in AllLots PROVE b.born[l] <= e.seq /\ (b.lots[l] > 0 => b.born[l] > 0)
    <3>1. a.born[l] \in Nat /\ a.lots[l] \in Nat /\ a.born[l] <= a.seq
      BY <2>1
    <3> QED
      BY <2>1, <2>2, <2>3, <3>1
  <2>5. ASSUME NEW l \in AllLots, NEW m \in AllLots, b.born[l] = b.born[m], b.born[l] > 0
        PROVE  l = m
    <3>1. /\ a.born[l] \in Nat /\ a.born[m] \in Nat /\ a.born[l] < e.seq /\ a.born[m] < e.seq
          /\ a.seq \in Nat
      BY <2>1, <2>3
    <3> QED
      BY <2>1, <2>2, <2>5, <3>1
  <2> QED
    BY <2>4, <2>5
<1>13. (o.size - (o.filled + e.size)) * UnitCost <= b.orders[id].reserved_quote
  <2>1. e.quote <= e.size * UnitCost
    BY <1>1 DEF Possible
  <2> DEFINE size == o.size
             filled == o.filled
             n == e.size
             quote == e.quote
             reserved == o.reserved_quote
  <2>2. /\ size \in Nat /\ filled \in Nat /\ n \in Nat /\ quote \in Nat /\ reserved \in Nat
        /\ (size - filled) * UnitCost <= reserved /\ quote <= n * UnitCost
    BY <1>3, <1>5, <2>1
  <2> HIDE DEF size, filled, n, quote, reserved
  <2>3. (size - (filled + n)) * UnitCost <= reserved - quote
    BY <2>2, RestCosts
  <2> USE DEF size, filled, n, quote, reserved
  <2> QED
    BY <1>10, <2>3
<1>14. b.cash = a.cash + (-e.quote)
  BY <1>2, <1>3, <1>6 DEF AccountType
<1>15. Booked(a, b, e)
  BY <1>6, <1>8, <1>9, <1>10, <1>11, <1>12, <1>13, <1>14 DEF Booked
<1> QED
  BY <1>15 DEF b

\* Oldest gives what is asked for, of amounts that the lots have.
LEMMA OldestOfLots ==
  ASSUME NEW a, a \in AccountType, Aged(a), NEW amount \in [AllLots -> Nat],
         \A lot \in AllLots : amount[lot] <= a.lots[lot],
         NEW need \in Nat, need <= SumFunction(amount)
  PROVE  /\ Oldest(a, amount, need) \in [AllLots -> Nat]
         /\ \A lot \in AllLots : Oldest(a, amount, need)[lot] <= amount[lot]
         /\ SumFunction(Oldest(a, amount, need)) = need
<1> DEFINE taken == Oldest(a, amount, need)
           born == a.born
<1>1. /\ born \in [AllLots -> Nat] /\ a.lots \in [AllLots -> Nat] /\ Lots(a) = AllLots
      /\ a.seq \in Nat /\ IsFiniteSet(AllLots)
  BY FiniteData DEF AccountType, Lots
<1>2. Gives(AllLots, born, amount, need, taken)
  BY <1>1 DEF Gives, Oldest
<1>3. ASSUME NEW lot \in AllLots, amount[lot] > 0 PROVE born[lot] > 0
  <2>1. amount[lot] \in Nat /\ a.lots[lot] \in Nat /\ amount[lot] <= a.lots[lot]
    BY <1>1
  <2>2. a.lots[lot] > 0
    BY <1>3, <2>1
  <2> QED
    BY <2>2 DEF Aged
<1>4. /\ \A lot \in AllLots : born[lot] <= a.seq
      /\ \A l, m \in AllLots : born[l] = born[m] /\ born[l] > 0 => l = m
  BY DEF Aged
<1>5. need <= SumFunctionOnSet(amount, AllLots)
  BY DEF SumFunction
<1> HIDE DEF taken, born
<1>6. /\ taken \in [AllLots -> Nat] /\ \A lot \in AllLots : taken[lot] <= amount[lot]
      /\ SumFunctionOnSet(taken, AllLots) = need
  BY <1>1, <1>2, <1>3, <1>4, <1>5, OldestGive
<1>7. SumFunction(taken) = need
  BY <1>6 DEF SumFunction
<1> QED
  BY <1>6, <1>7 DEF taken

LEMMA SoldBooks ==
  ASSUME NEW a, NEW v, NEW e, IsNext(a, v, e), ~Buys(e.id), ~Shortage(a, e)
  PROVE  Booked(a, Sold(a, e), e)
<1> DEFINE id == e.id
           o == a.orders[id]
           taken == Oldest(a, o.allocations, e.base)
           b == Sold(a, e)
<1>1. /\ e \in EventType /\ e.seq = a.seq + 1 /\ id \in Ids /\ Possible(e)
      /\ o \in OrderType /\ Kept(id, o)
  BY NextEvent
<1>2. a \in AccountType /\ Funded(a) /\ Aged(a) /\ o.status \notin TERMINAL
  BY DEF IsNext, AccountInv
<1>3. /\ a.orders \in [Ids -> OrderType] /\ a.lots \in [AllLots -> Nat]
      /\ a.born \in [AllLots -> Nat] /\ Lots(a) = AllLots /\ a.seq \in Nat
      /\ a.cash \in Int /\ a.base \in Int /\ a.cleanup \in Int /\ a.cycle \in Int
  BY <1>2, AmountsAssumption DEF AccountType, Lots
<1>4. /\ e.quote \in Nat /\ e.size \in Nat /\ e.base \in Nat /\ e.base = e.size
      /\ o.size \in Nat /\ o.filled \in Nat /\ o.reserved_base \in Nat
      /\ o.allocations \in [AllLots -> Nat] /\ o.reserved_quote = 0
      /\ SumFunction(o.allocations) = o.reserved_base
      /\ o.reserved_base = o.size - o.filled
  BY <1>1, <1>2 DEF Kept, OrderType, EventType, Possible
<1>5. e.base <= o.reserved_base
  <2>1. ~(e.base > o.reserved_base)
    BY DEF Shortage
  <2> QED
    BY <1>4, <2>1
<1>6. /\ \A lot \in AllLots : Allocated(a, lot) \in Nat
      /\ \A lot \in AllLots : o.allocations[lot] <= Allocated(a, lot)
      /\ reserved_quote(a) \in Nat /\ reserved_base(a) \in Nat
  BY <1>1, <1>3, OrderSums
<1>7. ASSUME NEW lot \in AllLots PROVE o.allocations[lot] <= a.lots[lot]
  <2>1. Allocated(a, lot) <= a.lots[lot]
    BY <1>2 DEF Funded
  <2>2. o.allocations[lot] \in Nat /\ a.lots[lot] \in Nat /\ Allocated(a, lot) \in Nat
    BY <1>3, <1>4, <1>6
  <2> QED
    BY <1>6, <2>1, <2>2
<1>8. /\ taken \in [AllLots -> Nat] /\ SumFunction(taken) = e.base
      /\ \A lot \in AllLots : taken[lot] <= o.allocations[lot]
  <2> DEFINE amount == o.allocations
             need == e.base
  <2>1. amount \in [AllLots -> Nat] /\ need \in Nat /\ need <= SumFunction(amount)
    BY <1>4, <1>5
  <2>2. \A lot \in AllLots : amount[lot] <= a.lots[lot]
    BY <1>7
  <2> HIDE DEF amount, need
  <2>3. /\ Oldest(a, amount, need) \in [AllLots -> Nat]
        /\ \A lot \in AllLots : Oldest(a, amount, need)[lot] <= amount[lot]
        /\ SumFunction(Oldest(a, amount, need)) = need
    BY <1>2, <2>1, <2>2, OldestOfLots
  <2> QED
    BY <2>3 DEF amount, need
<1> HIDE DEF taken
<1> DEFINE left == [lot \in AllLots |-> o.allocations[lot] - taken[lot]]
           p == [o EXCEPT !.reserved_base = @ - e.base, !.allocations = left]
<1>9. /\ b = [a EXCEPT !.cash = @ + e.quote, !.base = @ - e.base,
                       !.lots = [lot \in AllLots |-> @[lot] - taken[lot]],
                       !.orders[id].reserved_base = @ - e.base,
                       !.orders[id].allocations = [lot \in AllLots |-> @[lot] - taken[lot]]]
      /\ b.cash = a.cash + e.quote /\ b.base = a.base - e.base
      /\ b.lots = [lot \in AllLots |-> a.lots[lot] - taken[lot]]
      /\ b.orders = [a.orders EXCEPT ![id] = p]
  <2>1. b = [a EXCEPT !.cash = @ + e.quote, !.base = @ - e.base,
                      !.lots = [lot \in AllLots |-> @[lot] - taken[lot]],
                      !.orders[id].reserved_base = @ - e.base,
                      !.orders[id].allocations = [lot \in AllLots |-> @[lot] - taken[lot]]]
    BY <1>3 DEF Sold, taken
  <2> HIDE DEF b
  <2>2. b.orders = [a.orders EXCEPT ![id].reserved_base = @ - e.base,
                           ![id].allocations = [lot \in AllLots |-> @[lot] - taken[lot]]]
    BY <1>2, <2>1 DEF AccountType
  <2>3. b.orders = [a.orders EXCEPT ![id] = p]
    BY <1>1, <1>3, <2>2 DEF OrderType
  <2>4. /\ b.cash = a.cash + e.quote /\ b.base = a.base - e.base
        /\ b.lots = [lot \in AllLots |-> a.lots[lot] - taken[lot]]
    BY <1>2, <2>1 DEF AccountType
  <2> QED
    BY <2>1, <2>3, <2>4
<1> HIDE DEF b, p
<1>10. \A lot \in AllLots : taken[lot] <= a.lots[lot]
  <2> SUFFICES ASSUME NEW lot \in AllLots PROVE taken[lot] <= a.lots[lot]
    OBVIOUS
  <2>1. /\ taken[lot] \in Nat /\ o.allocations[lot] \in Nat /\ a.lots[lot] \in Nat
        /\ taken[lot] <= o.allocations[lot] /\ o.allocations[lot] <= a.lots[lot]
    BY <1>3, <1>4, <1>7, <1>8
  <2> QED
    BY <2>1
<1>11. /\ left \in [AllLots -> Nat] /\ SumFunction(left) = o.reserved_base - e.base
       /\ b.lots \in [AllLots -> Nat] /\ SumFunction(b.lots) = a.base - e.base
  <2>1. SumFunction(a.lots) = a.base
    BY <1>2 DEF Funded
  <2> DEFINE amount == o.allocations
             lots == a.lots
  <2>2. amount \in [AllLots -> Nat] /\ lots \in [AllLots -> Nat]
    BY <1>3, <1>4
  <2>3. /\ \A lot \in AllLots : taken[lot] <= amount[lot]
        /\ \A lot \in AllLots : taken[lot] <= lots[lot]
    BY <1>8, <1>10
  <2> HIDE DEF amount, lots
  <2>4. /\ [lot \in AllLots |-> amount[lot] - taken[lot]] \in [AllLots -> Nat]
        /\ SumFunction([lot \in AllLots |-> amount[lot] - taken[lot]])
           = SumFunction(amount) - SumFunction(taken)
    BY <1>8, <2>2, <2>3, LotSums
  <2>5. /\ [lot \in AllLots |-> lots[lot] - taken[lot]] \in [AllLots -> Nat]
        /\ SumFunction([lot \in AllLots |-> lots[lot] - taken[lot]])
           = SumFunction(lots) - SumFunction(taken)
    BY <1>8, <2>2, <2>3, LotSums
  <2> QED
    BY <1>4, <1>8, <1>9, <2>1, <2>4, <2>5 DEF amount, lots
<1> HIDE DEF left
<1>12. b.orders \in [Ids -> OrderType] /\ \A i \in Ids \ {id} : b.orders[i] = a.orders[i]
  <2>1. o.reserved_base - e.base \in Nat
    BY <1>4, <1>5
  <2>2. p \in OrderType
    BY <1>1, <1>11, <2>1 DEF OrderType, p
  <2> QED
    BY <1>1, <1>3, <1>9, <2>2
<1>13. /\ b \in AccountType /\ b.born = a.born
       /\ b.seq = a.seq /\ b.events = a.events /\ b.quarantine = a.quarantine
       /\ b.cleanup = a.cleanup /\ b.cycle = a.cycle
  <2>1. b.cash \in Int /\ b.base \in Int
    BY <1>3, <1>4, <1>9
  <2> QED
    BY <1>2, <1>9, <1>11, <1>12, <2>1 DEF AccountType
<1>14. /\ b.orders[id].reserved_quote = 0
       /\ b.orders[id].reserved_base = o.reserved_base - e.base
       /\ b.orders[id].allocations = left
       /\ b.orders[id].status = o.status /\ b.orders[id].size = o.size
       /\ b.orders[id].filled = o.filled
       /\ b.orders[id].terminal_reconciled = o.terminal_reconciled
       /\ b.orders[id].cancel = o.cancel /\ b.orders[id].unknown = o.unknown
  <2>1. b.orders[id] = p
    BY <1>1, <1>3, <1>9
  <2> QED
    BY <1>1, <1>4, <2>1 DEF OrderType, p
<1>15. Funded(b)
  <2>1. /\ reserved_quote(b) = reserved_quote(a)
        /\ reserved_base(b) = reserved_base(a) - e.base
        /\ \A lot \in AllLots : Allocated(b, lot) = Allocated(a, lot) - taken[lot]
    <3>1. Shifts(a, b, id)
      BY <1>1, <1>3, <1>12, OneOrderChanges
    <3>2. /\ reserved_quote(b) = reserved_quote(a)
          /\ reserved_base(b) = reserved_base(a) - e.base
      BY <1>4, <1>6, <1>14, <3>1 DEF Shifts
    <3>3. ASSUME NEW lot \in AllLots PROVE Allocated(b, lot) = Allocated(a, lot) - taken[lot]
      <4>1. Allocated(b, lot) = Allocated(a, lot) - o.allocations[lot] + left[lot]
        BY <1>14, <3>1 DEF Shifts
      <4>2. left[lot] = o.allocations[lot] - taken[lot]
        BY DEF left
      <4>3. Allocated(a, lot) \in Nat /\ o.allocations[lot] \in Nat /\ taken[lot] \in Nat
        BY <1>4, <1>6, <1>8
      <4> QED
        BY <4>1, <4>2, <4>3
    <3> QED
      BY <3>2, <3>3
  <2>2. free_quote(b) >= 0 /\ free_base(b) >= 0
    <3>1. free_quote(a) >= 0 /\ free_base(a) >= 0
      BY <1>2 DEF Funded
    <3>2. a.cash - reserved_quote(a) - a.cleanup - a.cycle >= 0
          /\ a.base - reserved_base(a) >= 0
      BY <3>1 DEF free_quote, free_base
    <3>3. /\ b.cash = a.cash + e.quote /\ b.base = a.base - e.base
          /\ b.cleanup = a.cleanup /\ b.cycle = a.cycle
      BY <1>9, <1>13
    <3>4. /\ b.cash - reserved_quote(b) - b.cleanup - b.cycle >= 0
          /\ b.base - reserved_base(b) >= 0
      BY <1>3, <1>4, <1>6, <2>1, <3>2, <3>3
    <3> QED
      BY <3>4 DEF free_quote, free_base
  <2>3. ASSUME NEW lot \in AllLots PROVE Allocated(b, lot) <= b.lots[lot]
    <3>1. a.lots[lot] \in Nat /\ Allocated(a, lot) \in Nat /\ Allocated(a, lot) <= a.lots[lot]
          /\ taken[lot] \in Nat /\ b.lots[lot] = a.lots[lot] - taken[lot]
      BY <1>2, <1>3, <1>6, <1>8, <1>9 DEF Funded
    <3>2. Allocated(b, lot) = Allocated(a, lot) - taken[lot]
      BY <2>1
    <3> QED
      BY <3>1, <3>2
  <2> QED
    BY <1>9, <1>11, <2>2, <2>3 DEF Funded
<1>16. /\ \A lot \in AllLots : b.born[lot] <= e.seq /\ (b.lots[lot] > 0 => b.born[lot] > 0)
       /\ \A l, m \in AllLots : b.born[l] = b.born[m] /\ b.born[l] > 0 => l = m
  <2>1. ASSUME NEW lot \in AllLots
        PROVE  b.born[lot] <= e.seq /\ (b.lots[lot] > 0 => b.born[lot] > 0)
    <3>1. /\ b.born[lot] = a.born[lot] /\ a.born[lot] \in Nat /\ a.born[lot] <= a.seq
          /\ b.lots[lot] = a.lots[lot] - taken[lot] /\ taken[lot] \in Nat
          /\ a.lots[lot] \in Nat /\ (a.lots[lot] > 0 => a.born[lot] > 0)
      BY <1>2, <1>3, <1>8, <1>9, <1>13 DEF Aged
    <3> QED
      BY <1>1, <1>3, <3>1
  <2> QED
    BY <1>2, <1>13, <2>1 DEF Aged
<1>17. /\ b.orders[id].reserved_base = o.size - (o.filled + e.size)
       /\ b.cash = a.cash + e.quote /\ b.base = a.base + (-e.base)
       /\ SumFunction(b.orders[id].allocations) = b.orders[id].reserved_base
  <2>1. b.orders[id].reserved_base = o.size - (o.filled + e.size)
    BY <1>4, <1>14
  <2>2. b.cash = a.cash + e.quote /\ b.base = a.base + (-e.base)
    BY <1>3, <1>4, <1>9
  <2> QED
    BY <1>11, <1>14, <2>1, <2>2
<1>18. Booked(a, b, e)
  BY <1>12, <1>13, <1>14, <1>15, <1>16, <1>17 DEF Booked
<1> QED
  BY <1>18 DEF b

\* The balances of an account are those of another with the same books.
SameBooks(a, b) ==
  /\ b.cash = a.cash /\ b.base = a.base /\ b.cleanup = a.cleanup /\ b.cycle = a.cycle
  /\ b.orders = a.orders /\ b.lots = a.lots /\ b.born = a.born
  /\ b.seq = a.seq /\ b.events = a.events /\ b.quarantine = a.quarantine

LEMMA SameBooksFunded ==
  ASSUME NEW a, NEW b, SameBooks(a, b), Funded(a)
  PROVE  Funded(b)
BY DEF SameBooks, Funded, free_quote, free_base, reserved_quote, reserved_base, Allocated

LEMMA SameBooksInv ==
  ASSUME NEW a, NEW b, NEW v, SameBooks(a, b), b \in AccountType, AccountInv(a, v)
  PROVE  AccountInv(b, v)
<1>1. Funded(b)
  BY SameBooksFunded DEF AccountInv
<1>2. Known(b) = Known(a)
  BY DEF SameBooks, Known
<1> QED
  BY <1>1, <1>2 DEF SameBooks, AccountInv, Numbered, Counted, AllKept, Aged, Ended, Faulty,
                    OneLive

LEMMA AccountedBooks ==
  ASSUME NEW a, NEW v, NEW e, IsNext(a, v, e), e.size > 0 => ~Shortage(a, e)
  PROVE  Booked(a, Accounted(a, e), e)
<1> DEFINE b == IF e.size = 0 THEN a ELSE IF Buys(e.id) THEN Bought(a, e) ELSE Sold(a, e)
           c == [b EXCEPT !.unvalued = @ \cup {e.seq}, !.fees = TRUE]
           o == a.orders[e.id]
<1>1. /\ e \in EventType /\ e.seq = a.seq + 1 /\ e.id \in Ids /\ Possible(e)
      /\ o \in OrderType /\ Kept(e.id, o) /\ o.status \notin TERMINAL
  BY NextEvent DEF IsNext
<1>2. e.size \in Nat /\ e.quote \in Nat /\ e.base \in Nat /\ e.seq \in Nat
  BY <1>1 DEF EventType
<1>3. Booked(a, b, e)
  <2>1. CASE e.size = 0
    <3>1. e.quote = 0 /\ e.base = 0
      <4>1. e.quote <= e.size * UnitCost /\ e.base <= e.size
        BY <1>1 DEF Possible
      <4>2. e.size * UnitCost = 0
        BY <2>1, AmountsAssumption
      <4> QED
        BY <1>2, <2>1, <4>1, <4>2
    <3>2. a \in AccountType /\ Funded(a) /\ Aged(a)
      BY DEF IsNext, AccountInv
    <3>3. /\ a.cash \in Int /\ a.base \in Int /\ a.born \in [AllLots -> Nat] /\ a.seq \in Nat
      BY <3>2 DEF AccountType
    <3>4. /\ a.cash = a.cash + (IF Buys(e.id) THEN -e.quote ELSE e.quote)
          /\ a.base = a.base + (IF Buys(e.id) THEN e.base ELSE -e.base)
      BY <3>1, <3>3
    <3>5. \A lot \in AllLots : a.born[lot] <= e.seq
      <4> SUFFICES ASSUME NEW lot \in AllLots PROVE a.born[lot] <= e.seq
        OBVIOUS
      <4>1. a.born[lot] \in Nat /\ a.born[lot] <= a.seq
        BY <3>2, <3>3 DEF Aged
      <4> QED
        BY <1>1, <3>3, <4>1
    <3>6. o.size - (o.filled + e.size) = o.size - o.filled
      <4>1. o.size \in Nat /\ o.filled \in Nat
        BY <1>1 DEF OrderType
      <4> QED
        BY <2>1, <4>1
    <3>7. IF Buys(e.id)
            THEN /\ o.reserved_base = 0 /\ o.allocations = Nothing(AllLots)
                 /\ (o.size - (o.filled + e.size)) * UnitCost <= o.reserved_quote
            ELSE /\ o.reserved_quote = 0 /\ SumFunction(o.allocations) = o.reserved_base
                 /\ o.reserved_base = o.size - (o.filled + e.size)
      BY <1>1, <3>6 DEF Kept
    <3>8. Booked(a, a, e)
      BY <3>2, <3>4, <3>5, <3>7 DEF Booked, Aged
    <3> QED
      BY <2>1, <3>8
  <2>2. CASE e.size # 0
    <3>1. ~Shortage(a, e)
      BY <1>2, <2>2
    <3> QED
      BY <2>2, <3>1, BoughtBooks, SoldBooks
  <2> QED
    BY <2>1, <2>2
<1>4. Booked(a, c, e)
  <2> HIDE DEF b
  <2>1. b \in AccountType /\ Funded(b)
    BY <1>3 DEF Booked
  <2>2. c \in AccountType /\ SameBooks(b, c)
    BY <1>2, <2>1 DEF AccountType, SameBooks
  <2>3. Funded(c)
    BY <2>1, <2>2, SameBooksFunded
  <2> HIDE DEF c
  <2> QED
    BY <1>3, <2>2, <2>3 DEF Booked, SameBooks
<1>5. Accounted(a, e) = IF e.third THEN c ELSE b
  BY DEF Accounted
<1> HIDE DEF b, c
<1> QED
  BY <1>3, <1>4, <1>5

\* An execution within its order, at fees within the policy, violates nothing.
LEMMA ExecutionFits ==
  ASSUME NEW a, NEW v, NEW e, IsNext(a, v, e), ~e.excess,
         a.orders[e.id].filled + e.size <= a.orders[e.id].size
  PROVE  ~Violates(a, e)
<1> DEFINE o == a.orders[e.id]
<1>1. /\ e \in EventType /\ e.id \in Ids /\ Possible(e)
      /\ o \in OrderType /\ Kept(e.id, o) /\ o.status \notin TERMINAL
  BY NextEvent DEF IsNext
<1>2. /\ e.size \in Nat /\ e.quote \in Nat /\ e.base \in Nat /\ e.base <= e.size
      /\ o.size \in Nat /\ o.filled \in Nat /\ o.reserved_quote \in Nat
      /\ o.reserved_base \in Nat
  BY <1>1 DEF EventType, OrderType, Possible
<1>3. a \in AccountType /\ Funded(a)
  BY DEF IsNext, AccountInv
<1>4. o.reserved_quote <= a.cash /\ o.reserved_base <= a.base
  <2>1. /\ a.orders \in [Ids -> OrderType] /\ a.cash \in Int /\ a.base \in Int
        /\ a.cleanup \in Nat /\ a.cycle \in Nat
    BY <1>3, AmountsAssumption DEF AccountType
  <2>2. /\ reserved_quote(a) \in Nat /\ reserved_base(a) \in Nat
        /\ o.reserved_quote <= reserved_quote(a) /\ o.reserved_base <= reserved_base(a)
    BY <1>1, <2>1, OrderSums
  <2>3. /\ a.cash - reserved_quote(a) - a.cleanup - a.cycle >= 0
        /\ a.base - reserved_base(a) >= 0
    BY <1>3 DEF Funded, free_quote, free_base
  <2> QED
    BY <1>2, <2>1, <2>2, <2>3
<1>5. ~Shortage(a, e)
  <2>1. CASE Buys(e.id)
    <3> DEFINE size == o.size
               filled == o.filled
               n == e.size
               quote == e.quote
               reserved == o.reserved_quote
    <3>1. /\ size \in Nat /\ filled \in Nat /\ n \in Nat /\ quote \in Nat /\ reserved \in Nat
          /\ (size - filled) * UnitCost <= reserved /\ quote <= n * UnitCost
          /\ filled + n <= size
      BY <1>1, <1>2, <2>1 DEF Kept, Possible
    <3> HIDE DEF size, filled, n, quote, reserved
    <3>2. quote <= reserved
      BY <3>1, RestCosts
    <3> USE DEF size, filled, n, quote, reserved
    <3>3. e.quote <= a.cash
      <4>1. a.cash \in Int
        BY <1>3 DEF AccountType
      <4> QED
        BY <1>2, <1>4, <3>2, <4>1
    <3>4. a.cash \in Int
      BY <1>3 DEF AccountType
    <3>5. ~(e.quote > o.reserved_quote) /\ ~(e.quote > a.cash) /\ ~(o.filled + e.size > o.size)
      BY <1>2, <3>2, <3>3, <3>4
    <3> QED
      BY <2>1, <3>5 DEF Shortage
  <2>2. CASE ~Buys(e.id)
    <3>1. /\ e.base = e.size /\ o.reserved_base = o.size - o.filled
          /\ SumFunction(o.allocations) = o.reserved_base
      BY <1>1, <2>2 DEF Kept, Possible
    <3>2. a.base \in Int
      BY <1>3 DEF AccountType
    <3>3. e.base <= o.reserved_base
      BY <1>2, <3>1
    <3>4. ~(e.base > o.reserved_base) /\ ~(e.base > a.base) /\ ~(o.filled + e.size > o.size)
      BY <1>2, <1>4, <3>2, <3>3
    <3> QED
      BY <2>2, <3>1, <3>4 DEF Shortage
  <2> QED
    BY <2>1, <2>2
<1>6. Booked(a, Accounted(a, e), e)
  BY <1>5, AccountedBooks
<1>7. /\ Accounted(a, e) \in AccountType
      /\ free_quote(Accounted(a, e)) >= 0 /\ free_base(Accounted(a, e)) >= 0
  BY <1>6 DEF Booked, Funded
<1>8. free_quote(Accounted(a, e)) \in Int /\ free_base(Accounted(a, e)) \in Int
  <2> DEFINE b == Accounted(a, e)
  <2>1. b \in AccountType
    BY <1>7
  <2> HIDE DEF b
  <2>2. b.orders \in [Ids -> OrderType] /\ b.cash \in Int /\ b.base \in Int
        /\ b.cleanup \in Int /\ b.cycle \in Int
    BY <2>1, AmountsAssumption DEF AccountType
  <2>3. reserved_quote(b) \in Nat /\ reserved_base(b) \in Nat
    BY <2>2, OrderSums
  <2>4. free_quote(b) \in Int /\ free_base(b) \in Int
    BY <2>2, <2>3 DEF free_quote, free_base
  <2> QED
    BY <2>4 DEF b
<1>9. ~(free_quote(Accounted(a, e)) < 0) /\ ~(free_base(Accounted(a, e)) < 0)
  BY <1>7, <1>8
<1> QED
  BY <1>5, <1>9 DEF Violates

\* One event more counts once.
LEMMA CountNext ==
  ASSUME NEW v \in Seq(EventType), NEW s \in Nat, s + 1 <= Len(v)
  PROVE  /\ SumFunctionOnSet(QuoteOf(v), 1 .. s) \in Int
         /\ SumFunctionOnSet(QuoteOf(v), 1 .. s + 1)
            = SumFunctionOnSet(QuoteOf(v), 1 .. s) + QuoteOf(v)[s + 1]
         /\ SumFunctionOnSet(BaseOf(v), 1 .. s) \in Int
         /\ SumFunctionOnSet(BaseOf(v), 1 .. s + 1)
            = SumFunctionOnSet(BaseOf(v), 1 .. s) + BaseOf(v)[s + 1]
         /\ \A id \in Ids :
              /\ SumFunctionOnSet(SizeOf(v), Until(v, id, s)) \in Int
              /\ SumFunctionOnSet(SizeOf(v), Until(v, id, s + 1))
                 = SumFunctionOnSet(SizeOf(v), Until(v, id, s))
                   + IF v[s + 1].id = id THEN v[s + 1].size ELSE 0
<1> DEFINE S == 1 .. Len(v)
           T == 1 .. s
<1>1. /\ IsFiniteSet(S) /\ T \in SUBSET S /\ s + 1 \in S \ T /\ 1 .. s + 1 = T \cup {s + 1}
      /\ DOMAIN v = S /\ Len(v) \in Nat
  <2>1. Len(v) \in Nat /\ DOMAIN v = S
    OBVIOUS
  <2>2. IsFiniteSet(S)
    BY <2>1, FS_Interval
  <2> QED
    BY <2>1, <2>2
<1>2. ASSUME NEW n \in S
      PROVE  QuoteOf(v)[n] \in Int /\ BaseOf(v)[n] \in Int /\ SizeOf(v)[n] \in Int
  <2>1. v[n] \in EventType /\ n \in DOMAIN v
    BY <1>1
  <2>2. v[n].quote \in Nat /\ v[n].base \in Nat /\ v[n].size \in Nat
    BY <2>1 DEF EventType
  <2>3. (-v[n].quote) \in Int /\ (-v[n].base) \in Int
    BY <2>2
  <2> QED
    BY <2>1, <2>2, <2>3 DEF QuoteOf, BaseOf, SizeOf
<1> HIDE DEF S
<1>3. \A n \in S : QuoteOf(v)[n] \in Int
  BY <1>2
<1>4. \A n \in S : BaseOf(v)[n] \in Int
  BY <1>2
<1>5. \A n \in S : SizeOf(v)[n] \in Int
  BY <1>2
<1>6. /\ SumFunctionOnSet(QuoteOf(v), T \cup {s + 1})
         = SumFunctionOnSet(QuoteOf(v), T) + QuoteOf(v)[s + 1]
      /\ SumFunctionOnSet(QuoteOf(v), T) \in Int
  <2> HIDE DEF T
  <2> QED
    BY <1>1, <1>3, SumAdd
<1>7. /\ SumFunctionOnSet(BaseOf(v), T \cup {s + 1})
         = SumFunctionOnSet(BaseOf(v), T) + BaseOf(v)[s + 1]
      /\ SumFunctionOnSet(BaseOf(v), T) \in Int
  <2> HIDE DEF T
  <2> QED
    BY <1>1, <1>4, SumAdd
<1>8. ASSUME NEW id \in Ids
      PROVE  /\ SumFunctionOnSet(SizeOf(v), Until(v, id, s)) \in Int
             /\ SumFunctionOnSet(SizeOf(v), Until(v, id, s + 1))
                = SumFunctionOnSet(SizeOf(v), Until(v, id, s))
                  + IF v[s + 1].id = id THEN v[s + 1].size ELSE 0
  <2> DEFINE U == Until(v, id, s)
  <2>1. U \in SUBSET S /\ s + 1 \in S \ U
    BY <1>1 DEF Until
  <2>2. Until(v, id, s + 1) = IF v[s + 1].id = id THEN U \cup {s + 1} ELSE U
    BY <1>1 DEF Until
  <2>3. SizeOf(v)[s + 1] = v[s + 1].size
    BY <1>1 DEF SizeOf, S
  <2> HIDE DEF U
  <2>4. /\ SumFunctionOnSet(SizeOf(v), U \cup {s + 1})
           = SumFunctionOnSet(SizeOf(v), U) + SizeOf(v)[s + 1]
        /\ SumFunctionOnSet(SizeOf(v), U) \in Int
    BY <1>1, <1>5, <2>1, SumAdd
  <2>5. CASE v[s + 1].id = id
    BY <2>2, <2>3, <2>4, <2>5 DEF U
  <2>6. CASE v[s + 1].id # id
    <3>1. Until(v, id, s + 1) = U
      BY <2>2, <2>6
    <3>2. SumFunctionOnSet(SizeOf(v), U) = SumFunctionOnSet(SizeOf(v), U) + 0
      BY <2>4
    <3> QED
      BY <2>4, <2>6, <3>1, <3>2 DEF U
  <2> QED
    BY <2>5, <2>6
<1> QED
  BY <1>1, <1>6, <1>7, <1>8

LEMMA RecordedInv ==
  ASSUME NEW a, NEW v, NEW e, IsNext(a, v, e), e.size > 0 => ~Shortage(a, e)
  PROVE  AccountInv(Recorded(a, e), v)
<1> DEFINE b == Accounted(a, e)
           r == Recorded(a, e)
           id == e.id
           o == a.orders[id]
           unknown == UnknownAfter(o, e)
           status == StatusAfter(o, e)
<1>1. Booked(a, b, e)
  BY AccountedBooks
<1> HIDE DEF b
<1>2. /\ e \in EventType /\ e.seq = a.seq + 1 /\ id \in Ids /\ id \in Known(a)
      /\ o \in OrderType /\ Kept(id, o) /\ o.status \notin TERMINAL
  BY NextEvent DEF IsNext
<1>3. /\ a \in AccountType /\ Numbered(a, v) /\ Counted(a, v) /\ AllKept(a)
      /\ Ended(a, v) /\ Faulty(a, v) /\ OneLive(a, v)
      /\ e = v[a.seq + 1] /\ a.seq + 1 \in 1 .. Len(v)
  BY DEF IsNext, AccountInv
<1>4. /\ e.size \in Nat /\ e.seq \in Nat /\ a.seq \in Nat /\ e.quote \in Nat /\ e.base \in Nat
      /\ e.status \in {"accepted", "partial", "unknown"} \cup TERMINAL
  BY <1>2, <1>3 DEF EventType, AccountType
<1>5. /\ unknown \in {"none", "submit", "cancel"} /\ status # "none"
      /\ status \in {"cancel_pending", "accepted", "partial", "unknown"} \cup TERMINAL
      /\ status \in TERMINAL => e.status \in TERMINAL
  BY <1>2, <1>4 DEF UnknownAfter, StatusAfter, OrderType, TERMINAL
<1>6. /\ b \in AccountType /\ Funded(b) /\ b.orders[id] \in OrderType
      /\ b.orders \in [Ids -> OrderType] /\ b.orders[id].filled = o.filled
  BY <1>1, <1>2 DEF Booked, AccountType
<1> DEFINE p == [b.orders[id] EXCEPT !.filled = @ + e.size, !.unknown = unknown,
                                     !.status = status]
<1>7. /\ r.orders = [b.orders EXCEPT ![id] = p]
      /\ r.cash = b.cash /\ r.base = b.base /\ r.cleanup = b.cleanup /\ r.cycle = b.cycle
      /\ r.lots = b.lots /\ r.born = b.born /\ r.quarantine = b.quarantine
      /\ r.seq = e.seq /\ r.events = b.events \cup {e.seq}
  <2>1. r = [b EXCEPT !.orders[id].filled = @ + e.size, !.orders[id].unknown = unknown,
                      !.orders[id].status = status,
                      !.reconciliation = @ \/ e.status = "unknown",
                      !.seq = e.seq, !.events = @ \cup {e.seq}]
    BY DEF Recorded, b
  <2> HIDE DEF r, unknown, status
  <2>2. r.orders = [b.orders EXCEPT ![id].filled = @ + e.size, ![id].unknown = unknown,
                                    ![id].status = status]
    BY <1>6, <2>1 DEF AccountType
  <2>3. r.orders = [b.orders EXCEPT ![id] = p]
    BY <1>2, <1>6, <2>2 DEF OrderType
  <2> QED
    BY <1>6, <2>1, <2>3 DEF AccountType
<1>8. p \in OrderType
  <2> DEFINE q == b.orders[id]
  <2>1. q \in OrderType /\ q.filled + e.size \in Nat
    BY <1>4, <1>6 DEF OrderType
  <2>2. /\ unknown \in {"none", "submit", "cancel"}
        /\ status \in {"none", "pending", "cancel_pending", "accepted", "partial", "unknown"}
                     \cup TERMINAL
    BY <1>5
  <2>3. p = [q EXCEPT !.filled = @ + e.size, !.unknown = unknown, !.status = status]
    OBVIOUS
  <2> HIDE DEF p, q, unknown, status
  <2> QED
    BY <2>1, <2>2, <2>3 DEF OrderType
<1>9. r.orders \in [Ids -> OrderType] /\ r.orders[id] = p
  BY <1>2, <1>6, <1>7, <1>8
<1>10. r \in AccountType
  <2>1. r = [b EXCEPT !.orders[id].filled = @ + e.size, !.orders[id].unknown = unknown,
                      !.orders[id].status = status,
                      !.reconciliation = @ \/ e.status = "unknown",
                      !.seq = e.seq, !.events = @ \cup {e.seq}]
    BY DEF Recorded, b
  <2> HIDE DEF r, unknown, status, p
  <2> QED
    BY <1>4, <1>6, <1>9, <2>1 DEF AccountType
<1> HIDE DEF r
<1>11. /\ p.filled = o.filled + e.size /\ p.status = status /\ p.size = o.size
       /\ p.reserved_quote = b.orders[id].reserved_quote
       /\ p.reserved_base = b.orders[id].reserved_base
       /\ p.allocations = b.orders[id].allocations
       /\ p.terminal_reconciled = o.terminal_reconciled
  BY <1>1, <1>6 DEF Booked, OrderType
<1> HIDE DEF p
<1>12. \A i \in Ids \ {id} : r.orders[i] = a.orders[i]
  BY <1>1, <1>6, <1>7 DEF Booked
<1>13. Known(r) = Known(a)
  <2>1. DOMAIN r.orders = Ids /\ DOMAIN a.orders = Ids
    BY <1>3, <1>9 DEF AccountType
  <2>2. r.orders[id].status # "none" /\ a.orders[id].status # "none"
    BY <1>2, <1>5, <1>9, <1>11 DEF Known
  <2> QED
    BY <1>12, <2>1, <2>2 DEF Known
<1>14. Numbered(r, v)
  BY <1>3, <1>13 DEF Numbered
<1>15. Counted(r, v)
  <2>1. v \in Seq(EventType) /\ a.seq + 1 <= Len(v)
    BY <1>3 DEF Numbered
  <2>2. /\ SumFunctionOnSet(QuoteOf(v), 1 .. a.seq) \in Int
        /\ SumFunctionOnSet(QuoteOf(v), 1 .. a.seq + 1)
           = SumFunctionOnSet(QuoteOf(v), 1 .. a.seq) + QuoteOf(v)[a.seq + 1]
    BY <1>4, <2>1, CountNext
  <2>3. /\ SumFunctionOnSet(BaseOf(v), 1 .. a.seq) \in Int
        /\ SumFunctionOnSet(BaseOf(v), 1 .. a.seq + 1)
           = SumFunctionOnSet(BaseOf(v), 1 .. a.seq) + BaseOf(v)[a.seq + 1]
    BY <1>4, <2>1, CountNext
  <2>4. /\ QuoteOf(v)[a.seq + 1] = IF Buys(id) THEN -e.quote ELSE e.quote
        /\ BaseOf(v)[a.seq + 1] = IF Buys(id) THEN e.base ELSE -e.base
    <3>1. a.seq + 1 \in DOMAIN v
      BY <1>3, <2>1
    <3> QED
      BY <1>3, <3>1 DEF QuoteOf, BaseOf
  <2>5. /\ r.cash = a.cash + QuoteOf(v)[a.seq + 1] /\ r.base = a.base + BaseOf(v)[a.seq + 1]
        /\ r.seq = a.seq + 1
    BY <1>1, <1>2, <1>7, <2>4 DEF Booked
  <2>6. a.cash = Budget + SumFunctionOnSet(QuoteOf(v), 1 .. a.seq)
        /\ a.base = SumFunctionOnSet(BaseOf(v), 1 .. a.seq)
    BY <1>3 DEF Counted
  <2>7. QuoteOf(v)[a.seq + 1] \in Int /\ BaseOf(v)[a.seq + 1] \in Int /\ Budget \in Int
    BY <1>4, <2>4, AmountsAssumption
  <2>8. /\ r.cash = Budget + SumFunctionOnSet(QuoteOf(v), 1 .. r.seq)
        /\ r.base = SumFunctionOnSet(BaseOf(v), 1 .. r.seq)
    BY <2>2, <2>3, <2>5, <2>6, <2>7
  <2>9. r.seq <= Len(v) /\ r.events = 1 .. r.seq
    <3>1. r.events = (1 .. a.seq) \cup {a.seq + 1}
      BY <1>1, <1>2, <1>3, <1>7 DEF Booked, Counted
    <3>2. (1 .. a.seq) \cup {a.seq + 1} = 1 .. a.seq + 1
      BY <1>4
    <3> QED
      BY <2>1, <2>5, <3>1, <3>2
  <2>10. ASSUME NEW i \in Ids
         PROVE  r.orders[i].filled = SumFunctionOnSet(SizeOf(v), Until(v, i, r.seq))
    <3>1. /\ SumFunctionOnSet(SizeOf(v), Until(v, i, a.seq)) \in Int
          /\ SumFunctionOnSet(SizeOf(v), Until(v, i, a.seq + 1))
             = SumFunctionOnSet(SizeOf(v), Until(v, i, a.seq))
               + IF v[a.seq + 1].id = i THEN v[a.seq + 1].size ELSE 0
      BY <1>4, <2>1, CountNext
    <3>2. a.orders[i].filled = SumFunctionOnSet(SizeOf(v), Until(v, i, a.seq))
      BY <1>3 DEF Counted
    <3>3. r.orders[i].filled = a.orders[i].filled + IF id = i THEN e.size ELSE 0
      <4>1. a.orders[i].filled \in Nat
        BY <1>3 DEF AccountType, OrderType
      <4> QED
        BY <1>4, <1>9, <1>11, <1>12, <4>1
    <3> QED
      BY <1>3, <2>5, <3>1, <3>2, <3>3
  <2> QED
    BY <2>8, <2>9, <2>10 DEF Counted
<1>16. AllKept(r)
  <2>1. Kept(id, p)
    <3>1. p.status # "none" /\ ~p.terminal_reconciled
      BY <1>2, <1>5, <1>11 DEF Kept
    <3>2. p.filled <= p.size
      <4>1. o.filled \in Nat /\ o.size \in Nat /\ o.filled <= o.size
        BY <1>2 DEF Kept, OrderType
      <4>2. e.size > 0 => ~(o.filled + e.size > o.size)
        BY DEF Shortage
      <4> QED
        BY <1>4, <1>11, <4>1, <4>2
    <3>3. IF Buys(id)
            THEN /\ p.reserved_base = 0 /\ p.allocations = Nothing(AllLots)
                 /\ (p.size - p.filled) * UnitCost <= p.reserved_quote
            ELSE /\ p.reserved_quote = 0 /\ SumFunction(p.allocations) = p.reserved_base
                 /\ p.reserved_base = p.size - p.filled
      BY <1>1, <1>11 DEF Booked
    <3> QED
      BY <3>1, <3>2, <3>3 DEF Kept
  <2> QED
    BY <1>3, <1>9, <1>12, <2>1 DEF AllKept
<1>17. Funded(r)
  <2>1. Shifts(b, r, id)
    <3>1. \A i \in Ids \ {id} : r.orders[i] = b.orders[i]
      BY <1>6, <1>7
    <3> QED
      BY <1>2, <1>6, <1>9, <3>1, OneOrderChanges
  <2>2. /\ reserved_quote(b) \in Nat /\ reserved_base(b) \in Nat
        /\ \A lot \in AllLots : Allocated(b, lot) \in Nat
    BY <1>6, OrderSums
  <2>3. /\ b.orders[id].reserved_quote \in Nat /\ b.orders[id].reserved_base \in Nat
        /\ \A lot \in AllLots : b.orders[id].allocations[lot] \in Nat
    BY <1>6 DEF OrderType
  <2>4. /\ reserved_quote(r) = reserved_quote(b) /\ reserved_base(r) = reserved_base(b)
        /\ \A lot \in AllLots : Allocated(r, lot) = Allocated(b, lot)
    BY <1>9, <1>11, <2>1, <2>2, <2>3 DEF Shifts
  <2> QED
    BY <1>6, <1>7, <2>4 DEF Funded, free_quote, free_base
<1>18. Aged(r)
  BY <1>1, <1>7 DEF Aged, Booked
<1>19. Ended(r, v)
  <2>1. status \in TERMINAL => Done(v, id)
    BY <1>3, <1>5 DEF Done
  <2> QED
    BY <1>3, <1>9, <1>11, <1>12, <2>1 DEF Ended
<1>20. Faulty(r, v)
  <2>1. \A i \in Ids : r.orders[i].size = a.orders[i].size
    BY <1>9, <1>11, <1>12
  <2>2. Known(a) \subseteq Ids
    BY <1>3 DEF Known, AccountType
  <2>3. r.quarantine = a.quarantine
    BY <1>1, <1>7 DEF Booked
  <2> QED
    BY <1>3, <1>13, <2>1, <2>2, <2>3 DEF Faulty
<1>21. OneLive(r, v)
  BY <1>3, <1>13 DEF OneLive
<1>22. AccountInv(r, v)
  BY <1>10, <1>14, <1>15, <1>16, <1>17, <1>18, <1>19, <1>20, <1>21 DEF AccountInv
<1> QED
  BY <1>22 DEF r

\* Setting an event aside for later changes no book.
LEMMA BufferedInv ==
  ASSUME NEW a, NEW v, AccountInv(a, v), NEW e \in EventType, NEW reconciliation \in BOOLEAN
  PROVE  AccountInv([a EXCEPT !.buffered = @ \cup {e}, !.reconciliation = reconciliation], v)
<1> DEFINE b == [a EXCEPT !.buffered = @ \cup {e}, !.reconciliation = reconciliation]
<1>1. a \in AccountType
  BY DEF AccountInv
<1>2. b \in AccountType /\ SameBooks(a, b)
  BY <1>1 DEF AccountType, SameBooks
<1> HIDE DEF b
<1>3. AccountInv(b, v)
  BY <1>2, SameBooksInv
<1> QED
  BY <1>3 DEF b

\* An event that is set aside for good went beyond its order or its fee policy.
LEMMA QuarantinedInv ==
  ASSUME NEW a, NEW v, NEW e, IsNext(a, v, e), Violates(a, e)
  PROVE  AccountInv([a EXCEPT !.quarantine = @ \cup {e}, !.reconciliation = TRUE], v)
<1> DEFINE b == [a EXCEPT !.quarantine = @ \cup {e}, !.reconciliation = TRUE]
           o == a.orders[e.id]
<1>1. /\ e \in EventType /\ e.seq = a.seq + 1 /\ e.id \in Ids /\ e.id \in Known(a)
      /\ o \in OrderType
  BY NextEvent
<1>2. /\ a \in AccountType /\ Numbered(a, v) /\ Counted(a, v) /\ Faulty(a, v)
      /\ e = v[a.seq + 1] /\ a.seq + 1 \in 1 .. Len(v) /\ AccountInv(a, v)
  BY DEF IsNext, AccountInv
<1>3. b \in AccountType
  BY <1>1, <1>2 DEF AccountType
<1>4. /\ b.cash = a.cash /\ b.base = a.base /\ b.cleanup = a.cleanup /\ b.cycle = a.cycle
      /\ b.orders = a.orders /\ b.lots = a.lots /\ b.born = a.born
      /\ b.seq = a.seq /\ b.events = a.events /\ b.quarantine = a.quarantine \cup {e}
  BY <1>2 DEF AccountType
<1> HIDE DEF b
<1>5. Known(b) = Known(a)
  BY <1>4 DEF Known
<1>6. e.excess \/ SumFunctionOnSet(SizeOf(v), Until(v, e.id, e.seq)) > o.size
  <2> SUFFICES ASSUME ~e.excess
               PROVE  SumFunctionOnSet(SizeOf(v), Until(v, e.id, e.seq)) > o.size
    OBVIOUS
  <2>1. ~(o.filled + e.size <= o.size)
    BY ExecutionFits
  <2>2. o.filled \in Nat /\ o.size \in Nat /\ e.size \in Nat /\ a.seq \in Nat
    BY <1>1, <1>2 DEF OrderType, EventType, AccountType
  <2>3. SumFunctionOnSet(SizeOf(v), Until(v, e.id, e.seq)) = o.filled + e.size
    <3>1. v \in Seq(EventType) /\ a.seq + 1 <= Len(v)
      BY <1>2 DEF Numbered
    <3>2. SumFunctionOnSet(SizeOf(v), Until(v, e.id, a.seq + 1))
          = SumFunctionOnSet(SizeOf(v), Until(v, e.id, a.seq))
            + IF v[a.seq + 1].id = e.id THEN v[a.seq + 1].size ELSE 0
      BY <1>1, <2>2, <3>1, CountNext
    <3>3. o.filled = SumFunctionOnSet(SizeOf(v), Until(v, e.id, a.seq))
      BY <1>1, <1>2 DEF Counted
    <3> QED
      BY <1>1, <1>2, <3>2, <3>3
  <2> QED
    BY <2>1, <2>2, <2>3
<1>7. Faulty(b, v)
  <2>1. e.seq \in 1 .. Len(v)
    BY <1>1, <1>2
  <2> QED
    BY <1>1, <1>2, <1>4, <1>5, <1>6, <2>1 DEF Faulty
<1>8. Funded(b)
  BY <1>4 DEF IsNext, AccountInv, Funded, free_quote, free_base, reserved_quote, reserved_base,
              Allocated
<1>9. AccountInv(b, v)
  BY <1>3, <1>4, <1>5, <1>7, <1>8 DEF IsNext, AccountInv, Numbered, Counted, AllKept, Aged,
                                       Ended, OneLive
<1> QED
  BY <1>9 DEF b

LEMMA EventInv ==
  ASSUME NEW a, NEW v, AccountInv(a, v), NEW n \in 1 .. Len(v)
  PROVE  /\ AccountInv(ApplyEvent(a, v[n]), v)
         /\ AccountInv(ReplayOne(a, v[n]), v)
<1> DEFINE e == v[n]
<1>1. /\ v \in Seq(EventType) /\ e \in EventType /\ e.seq = n /\ a \in AccountType
  BY DEF AccountInv, Numbered
<1>2. AccountInv(ApplyEvent(a, e), v)
  <2>1. CASE Seen(a, e) \/ Refused(a, e)
    BY <2>1 DEF ApplyEvent, Refused
  <2>2. CASE ~Seen(a, e) /\ ~InTurn(a, e)
    <3>1. ApplyEvent(a, e) = [a EXCEPT !.buffered = @ \cup {e}, !.reconciliation = TRUE]
      BY <2>2 DEF ApplyEvent, Refused
    <3> HIDE DEF e
    <3>2. AccountInv([a EXCEPT !.buffered = @ \cup {e}, !.reconciliation = TRUE], v)
      BY <1>1, BufferedInv
    <3> QED
      BY <3>1, <3>2
  <2>3. CASE ~Seen(a, e) /\ InTurn(a, e) /\ ~Refused(a, e)
    <3>1. ApplyEvent(a, e) = IF Violates(a, e)
                               THEN [a EXCEPT !.quarantine = @ \cup {e}, !.reconciliation = TRUE]
                               ELSE Recorded(a, e)
      BY <2>3 DEF ApplyEvent
    <3>2. IsNext(a, v, e)
      <4>1. e.seq = a.seq + 1 /\ a.orders[e.id].status \notin TERMINAL
        BY <2>3 DEF InTurn, Refused
      <4> QED
        BY <1>1, <4>1 DEF IsNext
    <3>3. CASE Violates(a, e)
      BY <3>1, <3>2, <3>3, QuarantinedInv
    <3>4. CASE ~Violates(a, e)
      <4>1. e.size > 0 => ~Shortage(a, e)
        BY <3>4 DEF Violates
      <4> HIDE DEF e
      <4>2. AccountInv(Recorded(a, e), v)
        BY <3>2, <4>1, RecordedInv
      <4> QED
        BY <3>1, <3>4, <4>2
    <3> QED
      BY <3>3, <3>4
  <2> QED
    BY <2>1, <2>2, <2>3
<1>3. AccountInv(ReplayOne(a, e), v)
  <2>1. CASE Refused(a, e)
    <3>1. ReplayOne(a, e) = [a EXCEPT !.buffered = @ \cup {e}, !.reconciliation = a.reconciliation]
      BY <1>1, <2>1 DEF ReplayOne, AccountType
    <3>2. a.reconciliation \in BOOLEAN
      BY <1>1 DEF AccountType
    <3> HIDE DEF e
    <3>3. AccountInv([a EXCEPT !.buffered = @ \cup {e}, !.reconciliation = a.reconciliation], v)
      BY <1>1, <3>2, BufferedInv
    <3> QED
      BY <3>1, <3>3
  <2>2. CASE ~Refused(a, e)
    BY <1>2, <2>2 DEF ReplayOne
  <2> QED
    BY <2>1, <2>2
<1> QED
  BY <1>2, <1>3

-----------------------------------------------------------------------------
(***************************************************************************)
(* reconcile_spot_state.                                                   *)
(***************************************************************************)
\* The states of a replay, event by event; there is such a function on every
\* initial segment of the venue's events.
Replay(a, k, N, g) ==
  g = [n \in 0 .. N |->
         IF n = 0 THEN [a EXCEPT !.buffered = {}]
         ELSE IF InReport(a, k, venue[n]) THEN ReplayOne(g[n - 1], venue[n]) ELSE g[n - 1]]

LEMMA ReplayExists ==
  ASSUME NEW a, NEW k, NEW N \in Nat
  PROVE  \E g : Replay(a, k, N, g)
<1> DEFINE P == {M \in Nat : \E g : Replay(a, k, M, g)}
           step(s, n) == IF InReport(a, k, venue[n]) THEN ReplayOne(s, venue[n]) ELSE s
<1>1. 0 \in P
  <2> DEFINE g == [n \in 0 .. 0 |-> [a EXCEPT !.buffered = {}]]
  <2>1. Replay(a, k, 0, g)
    BY DEF Replay
  <2> QED
    BY <2>1
<1>2. ASSUME NEW M \in P PROVE M + 1 \in P
  <2>1. PICK g : Replay(a, k, M, g)
    OBVIOUS
  <2>2. \A n \in 0 .. M : g[n] = IF n = 0 THEN [a EXCEPT !.buffered = {}] ELSE step(g[n - 1], n)
    BY <2>1 DEF Replay
  <2> HIDE DEF step
  <2> DEFINE h == [n \in 0 .. M + 1 |-> IF n <= M THEN g[n] ELSE step(g[M], n)]
  <2>3. ASSUME NEW n \in 0 .. M + 1
        PROVE  h[n] = IF n = 0 THEN [a EXCEPT !.buffered = {}] ELSE step(h[n - 1], n)
    <3>1. CASE n = M + 1
      <4>1. n # 0 /\ n - 1 = M /\ ~(n <= M) /\ M \in 0 .. M + 1
        BY <3>1
      <4> QED
        BY <3>1, <4>1
    <3>2. CASE n # M + 1
      <4>1. n \in 0 .. M /\ n <= M
        BY <3>2
      <4>2. n # 0 => n - 1 \in 0 .. M + 1 /\ n - 1 <= M
        BY <4>1
      <4> QED
        BY <2>2, <4>1, <4>2
    <3> QED
      BY <3>1, <3>2
  <2>4. h = [n \in 0 .. M + 1 |-> IF n = 0 THEN [a EXCEPT !.buffered = {}] ELSE step(h[n - 1], n)]
    <3> DEFINE f(n) == IF n = 0 THEN [a EXCEPT !.buffered = {}] ELSE step(h[n - 1], n)
    <3>1. h = [n \in 0 .. M + 1 |-> h[n]]
      OBVIOUS
    <3>2. \A n \in 0 .. M + 1 : h[n] = f(n)
      BY <2>3
    <3> HIDE DEF h
    <3> QED
      BY <3>1, <3>2
  <2> HIDE DEF h
  <2>5. Replay(a, k, M + 1, h)
    BY <2>4 DEF Replay, step
  <2> QED
    BY <2>5
<1>3. P = Nat
  <2> HIDE DEF P
  <2>1. P \subseteq Nat
    BY DEF P
  <2> QED
    BY <1>1, <1>2, <2>1, InductionOnNat
<1> QED
  BY <1>3

LEMMA ReplayedInv ==
  ASSUME NEW a, NEW k, AccountInv(a, venue)
  PROVE  AccountInv(Replayed(a, k), venue)
<1> DEFINE N == Len(venue)
           g == CHOOSE f : Replay(a, k, N, f)
           P == {n \in Nat : n <= N => AccountInv(g[n], venue)}
<1>1. N \in Nat
  BY DEF AccountInv, Numbered
<1>2. Replay(a, k, N, g)
  BY <1>1, ReplayExists
<1>3. Replayed(a, k) = g[N]
  BY DEF Replayed, Replay
<1> HIDE DEF g
<1>4. 0 \in P
  <2> DEFINE b == [a EXCEPT !.buffered = {}]
  <2>1. a \in AccountType
    BY DEF AccountInv
  <2>2. b \in AccountType /\ SameBooks(a, b)
    BY <2>1 DEF AccountType, SameBooks
  <2> HIDE DEF b
  <2>3. AccountInv(b, venue)
    BY <2>2, SameBooksInv
  <2>4. g[0] = b
    BY <1>1, <1>2 DEF Replay, b
  <2> QED
    BY <2>3, <2>4
<1>5. ASSUME NEW n \in P PROVE n + 1 \in P
  <2> SUFFICES ASSUME n + 1 <= N PROVE AccountInv(g[n + 1], venue)
    OBVIOUS
  <2>1. AccountInv(g[n], venue) /\ n + 1 \in 1 .. N /\ n + 1 \in 0 .. N /\ (n + 1) - 1 = n
    BY <1>1
  <2>2. AccountInv(ReplayOne(g[n], venue[n + 1]), venue)
    BY <2>1, EventInv
  <2>3. g[n + 1] = IF InReport(a, k, venue[n + 1]) THEN ReplayOne(g[n], venue[n + 1]) ELSE g[n]
    <3>1. \A m \in 0 .. N :
            g[m] = IF m = 0 THEN [a EXCEPT !.buffered = {}]
                   ELSE IF InReport(a, k, venue[m]) THEN ReplayOne(g[m - 1], venue[m])
                        ELSE g[m - 1]
      BY <1>2 DEF Replay
    <3>2. n + 1 # 0
      OBVIOUS
    <3> HIDE DEF N
    <3> QED
      BY <2>1, <3>1, <3>2
  <2> QED
    BY <2>1, <2>2, <2>3
<1>6. N \in P
  <2> HIDE DEF P, N
  <2>1. P \subseteq Nat
    BY DEF P
  <2>2. P = Nat
    BY <1>4, <1>5, <2>1, InductionOnNat
  <2> QED
    BY <1>1, <2>2
<1>7. N <= N
  BY <1>1
<1> QED
  BY <1>3, <1>6, <1>7

\* Orders that hold less, hold less together.
LEMMA LessReserved ==
  ASSUME NEW a, NEW b, a.orders \in [Ids -> OrderType], b.orders \in [Ids -> OrderType],
         \A id \in Ids :
           /\ b.orders[id].reserved_quote <= a.orders[id].reserved_quote
           /\ b.orders[id].reserved_base <= a.orders[id].reserved_base
           /\ \A lot \in AllLots : b.orders[id].allocations[lot] <= a.orders[id].allocations[lot]
  PROVE  /\ reserved_quote(b) <= reserved_quote(a) /\ reserved_base(b) <= reserved_base(a)
         /\ \A lot \in AllLots : Allocated(b, lot) <= Allocated(a, lot)
<1>1. DOMAIN a.orders = Ids /\ DOMAIN b.orders = Ids /\ IsFiniteSet(Ids)
  BY FiniteData
<1>2. \A i \in Ids : a.orders[i] \in OrderType /\ b.orders[i] \in OrderType
  OBVIOUS
<1> DEFINE q(c) == [i \in Ids |-> c.orders[i].reserved_quote]
           s(c) == [i \in Ids |-> c.orders[i].reserved_base]
           h(c, lot) == [i \in Ids |-> c.orders[i].allocations[lot]]
<1>3. ASSUME NEW i \in Ids
      PROVE  /\ q(a)[i] \in Int /\ q(b)[i] \in Int /\ q(b)[i] <= q(a)[i]
             /\ s(a)[i] \in Int /\ s(b)[i] \in Int /\ s(b)[i] <= s(a)[i]
             /\ \A lot \in AllLots : /\ h(a, lot)[i] \in Int /\ h(b, lot)[i] \in Int
                                     /\ h(b, lot)[i] <= h(a, lot)[i]
  BY <1>2 DEF OrderType
<1> HIDE DEF q, s, h
<1>4. SumFunctionOnSet(q(b), Ids) <= SumFunctionOnSet(q(a), Ids)
  BY <1>1, <1>3, SumOrder
<1>5. SumFunctionOnSet(s(b), Ids) <= SumFunctionOnSet(s(a), Ids)
  BY <1>1, <1>3, SumOrder
<1>6. \A lot \in AllLots : SumFunctionOnSet(h(b, lot), Ids) <= SumFunctionOnSet(h(a, lot), Ids)
  <2> SUFFICES ASSUME NEW lot \in AllLots
               PROVE  SumFunctionOnSet(h(b, lot), Ids) <= SumFunctionOnSet(h(a, lot), Ids)
    OBVIOUS
  <2> DEFINE x == h(a, lot)
             y == h(b, lot)
  <2>1. \A i \in Ids : x[i] \in Int /\ y[i] \in Int /\ y[i] <= x[i]
    BY <1>3
  <2> HIDE DEF x, y
  <2>2. SumFunctionOnSet(y, Ids) <= SumFunctionOnSet(x, Ids)
    BY <1>1, <2>1, SumOrder
  <2> QED
    BY <2>2 DEF x, y
<1> QED
  BY <1>1, <1>4, <1>5, <1>6 DEF reserved_quote, reserved_base, Allocated, SumFunction, q, s, h

LEMMA ReleasedOrder ==
  ASSUME NEW id, NEW o \in OrderType, Kept(id, o)
  PROVE  /\ Released(o) \in OrderType /\ Kept(id, Released(o))
         /\ Released(o).status = o.status /\ Released(o).size = o.size
         /\ Released(o).filled = o.filled
         /\ Released(o).reserved_quote <= o.reserved_quote
         /\ Released(o).reserved_base <= o.reserved_base
         /\ \A lot \in AllLots : Released(o).allocations[lot] <= o.allocations[lot]
<1> DEFINE p == [o EXCEPT !.reserved_quote = 0, !.reserved_base = 0,
                          !.allocations = Nothing(AllLots), !.terminal_reconciled = TRUE]
<1>1. /\ o.reserved_quote \in Nat /\ o.reserved_base \in Nat
      /\ o.allocations \in [AllLots -> Nat] /\ DOMAIN o.allocations = AllLots
      /\ Nothing(AllLots) \in [AllLots -> Nat]
  BY DEF OrderType, Nothing
<1>2. SumFunction(Nothing(AllLots)) = 0
  <2>1. DOMAIN Nothing(AllLots) = AllLots /\ \A lot \in AllLots : Nothing(AllLots)[lot] = 0
    BY DEF Nothing
  <2>2. SumFunctionOnSet(Nothing(AllLots), AllLots) = 0
    BY <2>1, FiniteData, SumZero
  <2> QED
    BY <2>1, <2>2 DEF SumFunction
<1>3. CASE o.status \in TERMINAL
  <2>1. Released(o) = p
    BY <1>1, <1>3 DEF Released
  <2>2. p \in OrderType
    BY <1>1 DEF OrderType
  <2>3. /\ p.status = o.status /\ p.size = o.size /\ p.filled = o.filled
        /\ p.reserved_quote = 0 /\ p.reserved_base = 0 /\ p.allocations = Nothing(AllLots)
        /\ p.terminal_reconciled
    BY DEF OrderType
  <2> HIDE DEF p
  <2>4. Kept(id, p)
    BY <1>2, <1>3, <2>3 DEF Kept, TERMINAL
  <2>5. \A lot \in AllLots : p.allocations[lot] = 0 /\ 0 <= o.allocations[lot]
    BY <1>1, <2>3 DEF Nothing
  <2> QED
    BY <1>1, <2>1, <2>2, <2>3, <2>4, <2>5
<1>4. CASE o.status \notin TERMINAL
  <2>1. Released(o) = o
    BY <1>4 DEF Released
  <2> QED
    BY <1>1, <2>1
<1> QED
  BY <1>3, <1>4

LEMMA ReconciledInv ==
  ASSUME NEW a, NEW v, AccountInv(a, v), NEW valued
  PROVE  AccountInv(Reconciled(a, valued), v)
<1> DEFINE b == Reconciled(a, valued)
<1>1. a \in AccountType /\ AllKept(a) /\ Funded(a)
  BY DEF AccountInv
<1>2. a.orders \in [Ids -> OrderType] /\ DOMAIN a.orders = Ids
  BY <1>1 DEF AccountType
<1>3. /\ b.orders = [id \in Ids |-> Released(a.orders[id])]
      /\ b.cash = a.cash /\ b.base = a.base /\ b.cleanup = a.cleanup /\ b.cycle = a.cycle
      /\ b.lots = a.lots /\ b.born = a.born
      /\ b.seq = a.seq /\ b.events = a.events /\ b.quarantine = a.quarantine
      /\ b.buffered = a.buffered
      /\ b.reconciliation \in BOOLEAN /\ b.fees \in BOOLEAN /\ b.unvalued \in SUBSET Nat
  BY <1>1, <1>2 DEF Reconciled, AccountType
<1>4. ASSUME NEW id \in Ids
      PROVE  /\ b.orders[id] \in OrderType /\ Kept(id, b.orders[id])
             /\ b.orders[id].status = a.orders[id].status
             /\ b.orders[id].size = a.orders[id].size
             /\ b.orders[id].filled = a.orders[id].filled
             /\ b.orders[id].reserved_quote <= a.orders[id].reserved_quote
             /\ b.orders[id].reserved_base <= a.orders[id].reserved_base
             /\ \A lot \in AllLots :
                  b.orders[id].allocations[lot] <= a.orders[id].allocations[lot]
  <2> DEFINE o == a.orders[id]
  <2>1. o \in OrderType /\ Kept(id, o)
    BY <1>1, <1>2 DEF AllKept
  <2>2. b.orders[id] = Released(o)
    BY <1>3
  <2> HIDE DEF o
  <2>3. /\ Released(o) \in OrderType /\ Kept(id, Released(o))
        /\ Released(o).status = o.status /\ Released(o).size = o.size
        /\ Released(o).filled = o.filled
        /\ Released(o).reserved_quote <= o.reserved_quote
        /\ Released(o).reserved_base <= o.reserved_base
        /\ \A lot \in AllLots : Released(o).allocations[lot] <= o.allocations[lot]
    BY <2>1, ReleasedOrder
  <2> QED
    BY <2>2, <2>3 DEF o
<1>5. b.orders \in [Ids -> OrderType]
  BY <1>3, <1>4
<1>6. b \in AccountType
  <2>1. /\ b = [a EXCEPT !.orders = b.orders, !.unvalued = b.unvalued, !.fees = b.fees,
                        !.reconciliation = b.reconciliation]
    BY <1>1 DEF Reconciled, AccountType
  <2> DEFINE orders == b.orders
             unvalued == b.unvalued
             fees == b.fees
             reconciliation == b.reconciliation
  <2>2. b = [a EXCEPT !.orders = orders, !.unvalued = unvalued, !.fees = fees,
                      !.reconciliation = reconciliation]
    BY <2>1
  <2>3. /\ orders \in [Ids -> OrderType] /\ unvalued \in SUBSET Nat /\ fees \in BOOLEAN
        /\ reconciliation \in BOOLEAN
    BY <1>3, <1>5
  <2> HIDE DEF b, orders, unvalued, fees, reconciliation
  <2> QED
    BY <1>1, <2>2, <2>3 DEF AccountType
<1> HIDE DEF b
<1>7. Known(b) = Known(a)
  BY <1>2, <1>3, <1>4 DEF Known
<1>8. Funded(b)
  <2>1. /\ reserved_quote(b) <= reserved_quote(a) /\ reserved_base(b) <= reserved_base(a)
        /\ \A lot \in AllLots : Allocated(b, lot) <= Allocated(a, lot)
    BY <1>2, <1>4, <1>5, LessReserved
  <2>2. /\ reserved_quote(a) \in Nat /\ reserved_base(a) \in Nat
        /\ reserved_quote(b) \in Nat /\ reserved_base(b) \in Nat
        /\ \A lot \in AllLots : Allocated(a, lot) \in Nat /\ Allocated(b, lot) \in Nat
    BY <1>2, <1>5, OrderSums
  <2>3. /\ a.cash \in Int /\ a.base \in Int /\ a.cleanup \in Int /\ a.cycle \in Int
        /\ a.lots \in [AllLots -> Nat]
    BY <1>1, AmountsAssumption DEF AccountType
  <2>4. /\ a.cash - reserved_quote(a) - a.cleanup - a.cycle >= 0
        /\ a.base - reserved_base(a) >= 0
    BY <1>1 DEF Funded, free_quote, free_base
  <2>5. /\ b.cash - reserved_quote(b) - b.cleanup - b.cycle >= 0
        /\ b.base - reserved_base(b) >= 0
    BY <1>3, <2>1, <2>2, <2>3, <2>4
  <2>6. ASSUME NEW lot \in AllLots PROVE Allocated(b, lot) <= b.lots[lot]
    <3>1. /\ Allocated(a, lot) \in Nat /\ Allocated(b, lot) \in Nat /\ a.lots[lot] \in Nat
          /\ Allocated(b, lot) <= Allocated(a, lot) /\ Allocated(a, lot) <= a.lots[lot]
          /\ b.lots[lot] = a.lots[lot]
      BY <1>1, <1>3, <2>1, <2>2, <2>3 DEF Funded
    <3> QED
      BY <3>1
  <2> QED
    BY <1>1, <1>3, <2>5, <2>6 DEF Funded, free_quote, free_base
<1>9. AllKept(b)
  BY <1>4 DEF AllKept
<1>10. Counted(b, v)
  BY <1>3, <1>4 DEF AccountInv, Counted
<1>11. Ended(b, v)
  BY <1>4 DEF AccountInv, Ended
<1>12. Faulty(b, v)
  <2>1. Known(a) \subseteq Ids
    BY <1>2 DEF Known
  <2> QED
    BY <1>3, <1>4, <1>7, <2>1 DEF AccountInv, Faulty
<1>13. AccountInv(b, v)
  BY <1>3, <1>6, <1>7, <1>8, <1>9, <1>10, <1>11, <1>12 DEF AccountInv, Numbered, Aged, OneLive
<1> QED
  BY <1>13 DEF b

-----------------------------------------------------------------------------
(***************************************************************************)
(* submit_spot_order, cancel_spot_order, replace_spot_order.               *)
(***************************************************************************)
\* Only the order id of a changed, and in nothing that the balances tell apart.
Touched(a, b, id) ==
  LET o == a.orders[id]
      p == b.orders[id]
  IN  /\ b.cash = a.cash /\ b.base = a.base /\ b.cleanup = a.cleanup /\ b.cycle = a.cycle
      /\ b.lots = a.lots /\ b.born = a.born
      /\ b.seq = a.seq /\ b.events = a.events /\ b.quarantine = a.quarantine
      /\ b.reconciliation = a.reconciliation /\ b.fees = a.fees /\ b.unvalued = a.unvalued
      /\ \A i \in Ids \ {id} : b.orders[i] = a.orders[i]
      /\ p.size = o.size /\ p.filled = o.filled
      /\ p.reserved_quote = o.reserved_quote /\ p.reserved_base = o.reserved_base
      /\ p.allocations = o.allocations /\ p.terminal_reconciled = o.terminal_reconciled
      /\ p.status # "none" /\ (o.status \in TERMINAL <=> p.status \in TERMINAL)

LEMMA TouchedInv ==
  ASSUME NEW a, NEW b, NEW v, AccountInv(a, v), b \in AccountType, NEW id \in Known(a),
         Touched(a, b, id)
  PROVE  /\ AccountInv(b, v) /\ Known(b) = Known(a)
         /\ free_quote(b) = free_quote(a) /\ free_base(b) = free_base(a)
         /\ \A lot \in AllLots : Allocated(b, lot) = Allocated(a, lot)
<1>1. /\ a.orders \in [Ids -> OrderType] /\ b.orders \in [Ids -> OrderType] /\ id \in Ids
      /\ DOMAIN a.orders = Ids /\ DOMAIN b.orders = Ids /\ a.orders[id].status # "none"
  BY DEF AccountInv, AccountType, Known
<1>2. /\ reserved_quote(b) = reserved_quote(a) /\ reserved_base(b) = reserved_base(a)
      /\ \A lot \in AllLots : Allocated(b, lot) = Allocated(a, lot)
  <2>1. Shifts(a, b, id)
    BY <1>1, OneOrderChanges DEF Touched
  <2>2. /\ reserved_quote(a) \in Nat /\ reserved_base(a) \in Nat
        /\ \A lot \in AllLots : Allocated(a, lot) \in Nat
    BY <1>1, OrderSums
  <2>3. /\ a.orders[id].reserved_quote \in Nat /\ a.orders[id].reserved_base \in Nat
        /\ \A lot \in AllLots : a.orders[id].allocations[lot] \in Nat
    BY <1>1 DEF OrderType
  <2> QED
    BY <2>1, <2>2, <2>3 DEF Shifts, Touched
<1>3. Known(b) = Known(a)
  BY <1>1 DEF Known, Touched
<1>4. free_quote(b) = free_quote(a) /\ free_base(b) = free_base(a)
  BY <1>2 DEF free_quote, free_base, Touched
<1>5. Funded(b)
  BY <1>2, <1>4 DEF AccountInv, Funded, Touched
<1>6. AllKept(b)
  <2>1. Kept(id, a.orders[id])
    BY <1>1 DEF AccountInv, AllKept
  <2>2. Kept(id, b.orders[id])
    BY <2>1 DEF Kept, Touched
  <2> QED
    BY <2>2 DEF AccountInv, AllKept, Touched
<1>7. Counted(b, v)
  BY <1>1 DEF AccountInv, Counted, Touched
<1>8. Ended(b, v)
  BY <1>1 DEF AccountInv, Ended, Touched
<1>9. Faulty(b, v)
  BY <1>1, <1>3 DEF AccountInv, Faulty, Touched, Known
<1>10. Numbered(b, v) /\ OneLive(b, v) /\ Aged(b)
  BY <1>3 DEF AccountInv, Numbered, OneLive, Aged, Touched
<1> QED
  BY <1>2, <1>3, <1>4, <1>5, <1>6, <1>7, <1>8, <1>9, <1>10 DEF AccountInv

LEMMA CanceledInv ==
  ASSUME NEW a, NEW v, AccountInv(a, v), NEW id \in Ids, NEW command \in {"cancel", "replace"},
         id \in Known(a)
  PROVE  AccountInv(Canceled(a, id, command), v)
<1> DEFINE b == Canceled(a, id, command)
           o == a.orders[id]
           status == IF o.status \in TERMINAL THEN o.status ELSE "cancel_pending"
           p == [o EXCEPT !.cancel = command, !.status = status]
<1>1. CASE o.terminal_reconciled \/ o.cancel # "none"
  BY <1>1 DEF Canceled
<1>2. CASE ~(o.terminal_reconciled \/ o.cancel # "none")
  <2>1. a \in AccountType /\ a.orders \in [Ids -> OrderType] /\ o \in OrderType
    BY DEF AccountInv, AccountType
  <2>2. o.status # "none"
    BY DEF Known
  <2>3. /\ status # "none" /\ (o.status \in TERMINAL <=> status \in TERMINAL)
        /\ status \in {"pending", "cancel_pending", "accepted", "partial", "unknown"} \cup TERMINAL
    BY <2>1, <2>2 DEF OrderType, TERMINAL
  <2>4. b = [a EXCEPT !.orders[id].cancel = command, !.orders[id].status = status]
    BY <1>2, <2>1 DEF Canceled, AccountType, OrderType
  <2> HIDE DEF b, status
  <2>5. p \in OrderType
    BY <2>1, <2>3 DEF OrderType
  <2>6. b.orders = [a.orders EXCEPT ![id] = p]
    <3>1. b.orders = [a.orders EXCEPT ![id].cancel = command, ![id].status = status]
      BY <2>1, <2>4 DEF AccountType
    <3> QED
      BY <2>1, <3>1 DEF OrderType
  <2>7. b \in AccountType
    <3>1. b.orders \in [Ids -> OrderType]
      BY <2>1, <2>5, <2>6
    <3> HIDE DEF p
    <3> QED
      BY <2>1, <2>4, <3>1 DEF AccountType
  <2>8. /\ b.cash = a.cash /\ b.base = a.base /\ b.cleanup = a.cleanup /\ b.cycle = a.cycle
        /\ b.lots = a.lots /\ b.born = a.born
        /\ b.seq = a.seq /\ b.events = a.events /\ b.quarantine = a.quarantine
        /\ b.reconciliation = a.reconciliation /\ b.fees = a.fees /\ b.unvalued = a.unvalued
    BY <2>1, <2>4 DEF AccountType
  <2>9. /\ p.size = o.size /\ p.filled = o.filled
        /\ p.reserved_quote = o.reserved_quote /\ p.reserved_base = o.reserved_base
        /\ p.allocations = o.allocations /\ p.terminal_reconciled = o.terminal_reconciled
        /\ p.status = status
    BY <2>1 DEF OrderType
  <2>10. b.orders[id] = p /\ \A i \in Ids \ {id} : b.orders[i] = a.orders[i]
    BY <2>1, <2>6
  <2> HIDE DEF p
  <2>11. Touched(a, b, id)
    BY <2>3, <2>8, <2>9, <2>10 DEF Touched
  <2>12. AccountInv(b, v)
    BY <2>7, <2>11, TouchedInv
  <2> QED
    BY <2>12 DEF b
<1> QED
  BY <1>1, <1>2

\* What a submission needs, without the states it is refused in.
LEMMA SubmittedInv ==
  ASSUME NEW a, NEW v, AccountInv(a, v), NEW id \in Ids, NEW size \in Nat \ {0}, NEW lots,
         CanSubmit(a, id, size, lots)
  PROVE  AccountInv(Submitted(a, id, size, lots), v)
<1> DEFINE b == Submitted(a, id, size, lots)
           given == Oldest(a, Available(a, lots), size)
           p == [NoOrder(AllLots) EXCEPT !.status = "pending", !.size = size,
                   !.reserved_quote = IF Buys(id) THEN size * UnitCost ELSE 0,
                   !.reserved_base = IF Buys(id) THEN 0 ELSE size,
                   !.allocations = IF Buys(id) THEN @ ELSE given]
           transfer == Transfer(a, id, size)
           cost == size * UnitCost
<1>1. /\ a \in AccountType /\ Numbered(a, v) /\ Counted(a, v) /\ AllKept(a) /\ Funded(a)
      /\ Aged(a) /\ Ended(a, v) /\ Faulty(a, v) /\ OneLive(a, v)
  BY DEF AccountInv
<1>2. /\ a.orders \in [Ids -> OrderType] /\ a.lots \in [AllLots -> Nat] /\ Lots(a) = AllLots
      /\ a.cash \in Int /\ a.base \in Int /\ a.cleanup \in Nat /\ a.cycle \in Nat
      /\ DOMAIN a.orders = Ids
  BY <1>1, AmountsAssumption DEF AccountType, Lots
<1>3. a.orders[id] = NoOrder(AllLots)
  BY <1>1, <1>2 DEF CanSubmit, Known, AllKept, Kept
<1>4. /\ reserved_quote(a) \in Nat /\ reserved_base(a) \in Nat
      /\ \A lot \in AllLots : Allocated(a, lot) \in Nat
  BY <1>2, OrderSums
<1>5. cost \in Nat
  BY AmountsAssumption
<1>6. transfer \in Nat /\ transfer <= a.cycle
  <2>1. Min({a.cycle, cost}) = IF a.cycle <= cost THEN a.cycle ELSE cost
    <3> HIDE DEF cost
    <3> QED
      BY <1>2, <1>5, MinOfTwo
  <2>2. transfer = IF id.purpose \in {"base", "addition"} THEN Min({a.cycle, cost}) ELSE 0
    BY DEF Transfer
  <2> HIDE DEF transfer, cost
  <2> QED
    BY <1>2, <1>5, <2>1, <2>2
<1>7. ASSUME ~Buys(id)
      PROVE  /\ given \in [AllLots -> Nat] /\ SumFunction(given) = size
             /\ \A lot \in AllLots : given[lot] <= a.lots[lot] - Allocated(a, lot)
  <2> DEFINE free == Available(a, lots)
  <2>1. ASSUME NEW lot \in AllLots
        PROVE  /\ free[lot] \in Nat /\ free[lot] <= a.lots[lot] - Allocated(a, lot)
               /\ free[lot] <= a.lots[lot]
    <3> DEFINE rest == a.lots[lot] - Allocated(a, lot)
    <3>1. a.lots[lot] \in Nat /\ Allocated(a, lot) \in Nat /\ Allocated(a, lot) <= a.lots[lot]
      BY <1>1, <1>2, <1>4 DEF Funded
    <3>2. rest \in Nat /\ rest <= a.lots[lot] /\ a.lots[lot] \in Nat
      BY <3>1
    <3>3. free[lot] = IF lot \notin lots THEN 0 ELSE Max({0, rest})
      BY <1>2 DEF Available
    <3> HIDE DEF rest, free
    <3>4. Max({0, rest}) = rest
      <4>1. Max({0, rest}) = IF 0 <= rest THEN rest ELSE 0
        BY <3>2, MaxOfTwo
      <4> QED
        BY <3>2, <4>1
    <3>5. free[lot] \in Nat /\ free[lot] <= rest /\ free[lot] <= a.lots[lot]
      BY <3>2, <3>3, <3>4
    <3> QED
      BY <3>5 DEF rest
  <2>2. free = [lot \in AllLots |-> free[lot]]
    BY <1>2 DEF Available
  <2>3. size <= SumFunction(free)
    BY <1>7 DEF CanSubmit, Sellable
  <2> HIDE DEF free
  <2>4. free \in [AllLots -> Nat] /\ \A lot \in AllLots : free[lot] <= a.lots[lot]
    BY <2>1, <2>2
  <2>5. /\ Oldest(a, free, size) \in [AllLots -> Nat]
        /\ \A lot \in AllLots : Oldest(a, free, size)[lot] <= free[lot]
        /\ SumFunction(Oldest(a, free, size)) = size
    BY <1>1, <2>3, <2>4, OldestOfLots
  <2>6. given = Oldest(a, free, size)
    BY DEF free
  <2> HIDE DEF given
  <2>7. ASSUME NEW lot \in AllLots PROVE given[lot] <= a.lots[lot] - Allocated(a, lot)
    <3>1. /\ given[lot] \in Nat /\ free[lot] \in Nat /\ a.lots[lot] \in Nat
          /\ Allocated(a, lot) \in Nat
      BY <1>2, <1>4, <2>4, <2>5, <2>6
    <3>2. given[lot] <= free[lot] /\ free[lot] <= a.lots[lot] - Allocated(a, lot)
      BY <2>1, <2>5, <2>6
    <3> QED
      BY <3>1, <3>2
  <2> QED
    BY <2>5, <2>6, <2>7
<1> HIDE DEF given, transfer
<1>8. /\ b = [a EXCEPT !.cycle = CycleLeft(a, id, size), !.orders[id] = p]
  BY <1>2 DEF Submitted, given
<1> HIDE DEF b, cost
<1>9. /\ b.orders = [a.orders EXCEPT ![id] = p]
      /\ b.cycle = IF Buys(id) THEN a.cycle - transfer ELSE a.cycle
      /\ b.cash = a.cash /\ b.base = a.base /\ b.cleanup = a.cleanup
      /\ b.lots = a.lots /\ b.born = a.born
      /\ b.seq = a.seq /\ b.events = a.events /\ b.quarantine = a.quarantine
  <2> HIDE DEF p
  <2> QED
    BY <1>1, <1>8 DEF AccountType, CycleLeft, transfer
<1>10. /\ p.status = "pending" /\ p.size = size /\ p.filled = 0 /\ ~p.terminal_reconciled
       /\ p.reserved_quote = IF Buys(id) THEN cost ELSE 0
       /\ p.reserved_base = IF Buys(id) THEN 0 ELSE size
       /\ p.allocations = IF Buys(id) THEN Nothing(AllLots) ELSE given
       /\ p.cancel = "none" /\ p.unknown = "none" /\ p.replacement = 0
       /\ p \in OrderType
  <2> DEFINE quote == IF Buys(id) THEN cost ELSE 0
             base == IF Buys(id) THEN 0 ELSE size
             allocations == IF Buys(id) THEN Nothing(AllLots) ELSE given
  <2>1. p = [status |-> "pending", size |-> size, filled |-> 0, reserved_quote |-> quote,
             reserved_base |-> base, allocations |-> allocations,
             terminal_reconciled |-> FALSE, cancel |-> "none", unknown |-> "none",
             replacement |-> 0]
    <3> DEFINE n == NoOrder(AllLots)
               spent == size * UnitCost
    <3>1. n = [status |-> "none", size |-> 0, filled |-> 0, reserved_quote |-> 0,
               reserved_base |-> 0, allocations |-> Nothing(AllLots),
               terminal_reconciled |-> FALSE, cancel |-> "none", unknown |-> "none",
               replacement |-> 0]
      BY DEF NoOrder
    <3>2. p = [n EXCEPT !.status = "pending", !.size = size,
                 !.reserved_quote = IF Buys(id) THEN spent ELSE 0,
                 !.reserved_base = base,
                 !.allocations = IF Buys(id) THEN @ ELSE given]
      OBVIOUS
    <3>3. spent = cost
      BY DEF cost
    <3> HIDE DEF p, n, spent, given, base
    <3>4. CASE Buys(id)
      BY <3>1, <3>2, <3>3, <3>4
    <3>5. CASE ~Buys(id)
      BY <3>1, <3>2, <3>3, <3>5
    <3> QED
      BY <3>4, <3>5
  <2>2. Nothing(AllLots) \in [AllLots -> Nat]
    BY DEF Nothing
  <2>3. quote \in Nat /\ base \in Nat /\ allocations \in [AllLots -> Nat]
    BY <1>5, <1>7, <2>2
  <2> HIDE DEF p, quote, base, allocations
  <2>4. p \in OrderType
    BY <2>1, <2>3 DEF OrderType
  <2> QED
    BY <2>1, <2>4 DEF quote, base, allocations
<1> HIDE DEF p
<1>11. p \in OrderType
  BY <1>10
<1>12. b.orders \in [Ids -> OrderType] /\ b.orders[id] = p
       /\ \A i \in Ids \ {id} : b.orders[i] = a.orders[i]
  BY <1>2, <1>9, <1>11
<1>13. b.cycle \in Nat
  BY <1>2, <1>6, <1>9
<1>14. b \in AccountType
  BY <1>1, <1>8, <1>12, <1>13 DEF AccountType
<1>15. Known(b) = Known(a) \cup {id}
  BY <1>2, <1>10, <1>12 DEF Known
<1>16. /\ reserved_quote(b) = reserved_quote(a) + (IF Buys(id) THEN cost ELSE 0)
       /\ reserved_base(b) = reserved_base(a) + (IF Buys(id) THEN 0 ELSE size)
       /\ \A lot \in AllLots :
            Allocated(b, lot) = Allocated(a, lot) + (IF Buys(id) THEN 0 ELSE given[lot])
  <2>1. Shifts(a, b, id)
    BY <1>2, <1>12, OneOrderChanges
  <2>2. /\ a.orders[id].reserved_quote = 0 /\ a.orders[id].reserved_base = 0
        /\ \A lot \in AllLots : a.orders[id].allocations[lot] = 0
    BY <1>3 DEF NoOrder, Nothing
  <2>3. /\ reserved_quote(b) = reserved_quote(a) + (IF Buys(id) THEN cost ELSE 0)
        /\ reserved_base(b) = reserved_base(a) + (IF Buys(id) THEN 0 ELSE size)
    BY <1>4, <1>5, <1>10, <1>12, <2>1, <2>2 DEF Shifts
  <2>4. ASSUME NEW lot \in AllLots
        PROVE  Allocated(b, lot) = Allocated(a, lot) + (IF Buys(id) THEN 0 ELSE given[lot])
    <3>1. Allocated(b, lot) = Allocated(a, lot) - 0 + p.allocations[lot]
      BY <1>12, <2>1, <2>2 DEF Shifts
    <3>2. p.allocations[lot] = IF Buys(id) THEN 0 ELSE given[lot]
      BY <1>10 DEF Nothing
    <3>3. Allocated(a, lot) \in Nat /\ p.allocations[lot] \in Nat
      BY <1>4, <1>11 DEF OrderType
    <3> QED
      BY <3>1, <3>2, <3>3
  <2> QED
    BY <2>3, <2>4
<1>17. Funded(b)
  <2>1. /\ a.cash - reserved_quote(a) - a.cleanup - a.cycle >= 0
        /\ a.base - reserved_base(a) >= 0
    BY <1>1 DEF Funded, free_quote, free_base
  <2>2. b.cash - reserved_quote(b) - b.cleanup - b.cycle >= 0
    <3>1. CASE Buys(id)
      <4>1. cost <= a.cash - reserved_quote(a) - a.cleanup - a.cycle + transfer
        BY <3>1 DEF CanSubmit, free_quote, cost, transfer
      <4> QED
        BY <1>2, <1>4, <1>5, <1>6, <1>9, <1>16, <3>1, <4>1
    <3>2. CASE ~Buys(id)
      BY <1>2, <1>4, <1>9, <1>16, <2>1, <3>2
    <3> QED
      BY <3>1, <3>2
  <2>3. b.base - reserved_base(b) >= 0
    <3>1. CASE Buys(id)
      BY <1>2, <1>4, <1>9, <1>16, <2>1, <3>1
    <3>2. CASE ~Buys(id)
      <4>1. size <= a.base - reserved_base(a)
        BY <3>2 DEF CanSubmit, Sellable, free_base
      <4> QED
        BY <1>2, <1>4, <1>9, <1>16, <3>2, <4>1
    <3> QED
      BY <3>1, <3>2
  <2>4. ASSUME NEW lot \in AllLots PROVE Allocated(b, lot) <= b.lots[lot]
    <3>1. a.lots[lot] \in Nat /\ Allocated(a, lot) \in Nat /\ Allocated(a, lot) <= a.lots[lot]
      BY <1>1, <1>2, <1>4 DEF Funded
    <3>2. CASE Buys(id)
      BY <1>9, <1>16, <3>1, <3>2
    <3>3. CASE ~Buys(id)
      <4>1. given[lot] \in Nat /\ given[lot] <= a.lots[lot] - Allocated(a, lot)
        BY <1>7, <3>3
      <4> QED
        BY <1>9, <1>16, <3>1, <3>3, <4>1
    <3> QED
      BY <3>2, <3>3
  <2> QED
    BY <1>1, <1>9, <2>2, <2>3, <2>4 DEF Funded, free_quote, free_base
<1>18. AllKept(b)
  <2>1. Kept(id, p)
    <3>1. p.filled <= p.size /\ p.size - p.filled = size
      BY <1>10
    <3>2. CASE Buys(id)
      <4>1. (p.size - p.filled) * UnitCost <= p.reserved_quote
        BY <1>5, <1>10, <3>1, <3>2 DEF cost
      <4> QED
        BY <1>10, <3>1, <3>2, <4>1 DEF Kept
    <3>3. CASE ~Buys(id)
      <4>1. p.reserved_quote = 0 /\ p.reserved_base = size /\ SumFunction(p.allocations) = size
        BY <1>7, <1>10, <3>3
      <4> QED
        BY <1>10, <3>1, <3>3, <4>1 DEF Kept
    <3> QED
      BY <3>2, <3>3
  <2> QED
    BY <1>1, <1>12, <2>1 DEF AllKept
<1>19. Numbered(b, v)
  BY <1>1, <1>15 DEF Numbered
<1>20. Counted(b, v)
  <2>1. \A i \in Ids : b.orders[i].filled = a.orders[i].filled
    BY <1>3, <1>10, <1>12 DEF NoOrder
  <2> QED
    BY <1>1, <1>9, <2>1 DEF Counted
<1>21. Aged(b)
  BY <1>1, <1>9 DEF Aged
<1>22. Ended(b, v)
  BY <1>1, <1>10, <1>12 DEF Ended, TERMINAL
<1>23. Faulty(b, v)
  <2>1. \A i \in Known(a) : i \in Ids /\ b.orders[i].size = a.orders[i].size
    BY <1>2, <1>12 DEF Known, CanSubmit
  <2> QED
    BY <1>1, <1>9, <1>15, <2>1 DEF Faulty
<1>24. OneLive(b, v)
  <2>1. \A old \in Known(a) : SameSlot(id, old) => Done(v, old)
    BY <1>1, <1>2 DEF CanSubmit, Succeeds, AllKept, Kept, Ended, Known
  <2>2. \A old \in Known(a) : SameSlot(old, id) => Done(v, old)
    BY <2>1 DEF SameSlot
  <2> QED
    BY <1>1, <1>15, <2>1, <2>2 DEF OneLive
<1>25. AccountInv(b, v)
  BY <1>14, <1>17, <1>18, <1>19, <1>20, <1>21, <1>22, <1>23, <1>24 DEF AccountInv
<1> QED
  BY <1>25 DEF b

\* Asking for a replacement lets its submission be judged as before.
LEMMA ReplacedInv ==
  ASSUME NEW a, NEW v, AccountInv(a, v), NEW id \in Ids, NEW size \in Nat \ {0}, NEW lots,
         CanReplace(a, id, size, lots)
  PROVE  AccountInv(Replaced(a, id, size, lots), v)
<1> DEFINE b == [a EXCEPT !.orders[id].replacement = size]
           o == a.orders[id]
           p == [o EXCEPT !.replacement = size]
<1>1. /\ a \in AccountType /\ a.orders \in [Ids -> OrderType] /\ o \in OrderType
      /\ DOMAIN a.orders = Ids /\ Funded(a)
  BY DEF AccountInv, AccountType
<1>2. id \in Known(a) /\ o.status # "none" /\ Successor(id) \in Ids
  BY DEF CanReplace, Known
<1>3. p \in OrderType
  BY <1>1 DEF OrderType
<1>4. /\ p.size = o.size /\ p.filled = o.filled
      /\ p.reserved_quote = o.reserved_quote /\ p.reserved_base = o.reserved_base
      /\ p.allocations = o.allocations /\ p.terminal_reconciled = o.terminal_reconciled
      /\ p.status = o.status
  BY <1>1 DEF OrderType
<1>5. b.orders = [a.orders EXCEPT ![id] = p]
  BY <1>1 DEF AccountType
<1> HIDE DEF p
<1>6. /\ b.orders \in [Ids -> OrderType] /\ b.orders[id] = p /\ DOMAIN b.orders = Ids
      /\ \A i \in Ids \ {id} : b.orders[i] = a.orders[i]
  BY <1>1, <1>3, <1>5
<1>7. b \in AccountType
  BY <1>1, <1>6 DEF AccountType
<1>8. /\ b.cash = a.cash /\ b.base = a.base /\ b.cleanup = a.cleanup /\ b.cycle = a.cycle
      /\ b.lots = a.lots /\ b.born = a.born
      /\ b.seq = a.seq /\ b.events = a.events /\ b.quarantine = a.quarantine
      /\ b.reconciliation = a.reconciliation /\ b.fees = a.fees /\ b.unvalued = a.unvalued
  BY <1>1 DEF AccountType
<1>9. Replaced(a, id, size, lots) = IF a.orders[id].terminal_reconciled
                                      THEN Submitted(b, Successor(id), size, lots)
                                      ELSE Canceled(b, id, "replace")
  BY DEF Replaced
<1> HIDE DEF b
<1>10. Touched(a, b, id)
  BY <1>2, <1>4, <1>6, <1>8 DEF Touched
<1>11. /\ AccountInv(b, v) /\ Known(b) = Known(a)
       /\ free_quote(b) = free_quote(a) /\ free_base(b) = free_base(a)
       /\ \A lot \in AllLots : Allocated(b, lot) = Allocated(a, lot)
  BY <1>2, <1>7, <1>10, TouchedInv
<1>12. CASE o.terminal_reconciled
  <2>1. CanSubmit(a, Successor(id), size, lots)
    BY <1>12 DEF CanReplace
  <2>2. /\ \A i \in Ids : b.orders[i].terminal_reconciled = a.orders[i].terminal_reconciled
        /\ Known(a) \subseteq Ids
    BY <1>1, <1>4, <1>6 DEF Known
  <2>3. Unreconciled(b) = Unreconciled(a)
    BY <1>11, <2>2 DEF Unreconciled
  <2>4. Succeeds(b, Successor(id))
    BY <1>11, <2>1, <2>2 DEF CanSubmit, Succeeds
  <2>5. Lots(b) = AllLots /\ Lots(a) = AllLots
    BY <1>1, <1>8 DEF AccountType, Lots
  <2>6. Available(b, lots) = Available(a, lots)
    BY <1>8, <1>11, <2>5 DEF Available
  <2>7. Sellable(a, size, lots) => Sellable(b, size, lots)
    BY <1>11, <2>6 DEF Sellable
  <2>8. Transfer(b, Successor(id), size) = Transfer(a, Successor(id), size)
    BY <1>8 DEF Transfer
  <2>9. CanSubmit(b, Successor(id), size, lots)
    BY <1>8, <1>11, <2>1, <2>3, <2>4, <2>7, <2>8 DEF CanSubmit, Halted
  <2>10. AccountInv(Submitted(b, Successor(id), size, lots), v)
    BY <1>2, <1>11, <2>9, SubmittedInv
  <2> QED
    BY <1>9, <1>12, <2>10
<1>13. CASE ~o.terminal_reconciled
  <2>1. AccountInv(Canceled(b, id, "replace"), v)
    BY <1>2, <1>11, CanceledInv
  <2> QED
    BY <1>9, <1>13, <2>1
<1> QED
  BY <1>12, <1>13

-----------------------------------------------------------------------------
(***************************************************************************)
(* The venue.                                                              *)
(***************************************************************************)
LEMMA VenueGrows ==
  ASSUME NEW a, NEW v, AccountInv(a, v), NEW e \in EventType, e.seq = Len(v) + 1,
         e.id \in Known(a), Possible(e)
  PROVE  AccountInv(a, Append(v, e))
<1> DEFINE w == Append(v, e)
<1>1. v \in Seq(EventType) /\ Len(v) \in Nat /\ a \in AccountType /\ a.seq \in Nat
  BY DEF AccountInv, Numbered, AccountType
<1>2. /\ w \in Seq(EventType) /\ Len(w) = Len(v) + 1 /\ w[Len(v) + 1] = e
      /\ DOMAIN w = 1 .. Len(w) /\ DOMAIN v = 1 .. Len(v)
      /\ \A n \in 1 .. Len(v) : w[n] = v[n]
  BY <1>1
<1> HIDE DEF w
<1>3. 1 .. Len(w) = (1 .. Len(v)) \cup {Len(v) + 1}
  BY <1>1, <1>2
<1>4. Numbered(a, w)
  BY <1>1, <1>2, <1>3 DEF AccountInv, Numbered
<1>5. ASSUME NEW n \in 1 .. Len(v)
      PROVE  /\ v[n] \in EventType
             /\ QuoteOf(v)[n] \in Int /\ QuoteOf(w)[n] = QuoteOf(v)[n]
             /\ BaseOf(v)[n] \in Int /\ BaseOf(w)[n] = BaseOf(v)[n]
             /\ SizeOf(v)[n] \in Int /\ SizeOf(w)[n] = SizeOf(v)[n]
  <2>1. v[n] \in EventType /\ n \in DOMAIN v /\ n \in DOMAIN w /\ w[n] = v[n]
    BY <1>1, <1>2
  <2>2. v[n].quote \in Nat /\ v[n].base \in Nat /\ v[n].size \in Nat
    BY <2>1 DEF EventType
  <2>3. (-v[n].quote) \in Int /\ (-v[n].base) \in Int
    BY <2>2
  <2> QED
    BY <2>1, <2>2, <2>3 DEF QuoteOf, BaseOf, SizeOf
<1>6. a.seq <= Len(v) /\ 1 .. a.seq \subseteq 1 .. Len(v) /\ IsFiniteSet(1 .. a.seq)
  <2>1. a.seq <= Len(v)
    BY DEF AccountInv, Counted
  <2>2. IsFiniteSet(1 .. a.seq)
    BY <1>1, FS_Interval
  <2> QED
    BY <1>1, <2>1, <2>2
<1>7. /\ SumFunctionOnSet(QuoteOf(w), 1 .. a.seq) = SumFunctionOnSet(QuoteOf(v), 1 .. a.seq)
      /\ SumFunctionOnSet(BaseOf(w), 1 .. a.seq) = SumFunctionOnSet(BaseOf(v), 1 .. a.seq)
  <2> DEFINE S == 1 .. a.seq
  <2>1. \A n \in S : n \in 1 .. Len(v)
    BY <1>6
  <2>2. IsFiniteSet(S)
    BY <1>6
  <2> HIDE DEF S
  <2>3. SumFunctionOnSet(QuoteOf(v), S) = SumFunctionOnSet(QuoteOf(w), S)
    BY <1>5, <2>1, <2>2, SumEqual
  <2>4. SumFunctionOnSet(BaseOf(v), S) = SumFunctionOnSet(BaseOf(w), S)
    BY <1>5, <2>1, <2>2, SumEqual
  <2> QED
    BY <2>3, <2>4 DEF S
<1>8. ASSUME NEW id, NEW k \in Nat, k <= Len(v)
      PROVE  SumFunctionOnSet(SizeOf(w), Until(w, id, k))
             = SumFunctionOnSet(SizeOf(v), Until(v, id, k))
  <2> DEFINE S == Until(v, id, k)
  <2>1. \A n \in 1 .. k : n \in 1 .. Len(v)
    BY <1>1, <1>8
  <2>2. Until(w, id, k) = S /\ S \in SUBSET (1 .. k)
    BY <1>2, <2>1 DEF Until
  <2>3. IsFiniteSet(1 .. k)
    BY FS_Interval
  <2> HIDE DEF S
  <2>4. IsFiniteSet(S)
    BY <2>2, <2>3, FS_Subset
  <2>5. SumFunctionOnSet(SizeOf(v), S) = SumFunctionOnSet(SizeOf(w), S)
    <3>1. \A n \in S : SizeOf(v)[n] \in Int /\ SizeOf(v)[n] = SizeOf(w)[n]
      BY <1>5, <2>1, <2>2
    <3> QED
      BY <2>4, <3>1, SumEqual
  <2> QED
    BY <2>2, <2>5 DEF S
<1>9. Counted(a, w)
  <2>1. a.seq <= Len(w)
    BY <1>1, <1>2, <1>6
  <2> QED
    BY <1>1, <1>6, <1>7, <1>8, <2>1 DEF AccountInv, Counted
<1>10. \A id : Done(v, id) => Done(w, id)
  BY <1>2, <1>3 DEF Done
<1>11. Ended(a, w)
  BY <1>10 DEF AccountInv, Ended
<1>12. Faulty(a, w)
  <2> SUFFICES ASSUME NEW f \in a.quarantine
               PROVE  /\ f.seq \in 1 .. Len(w) /\ f.id \in Known(a)
                      /\ \/ f.excess
                         \/ SumFunctionOnSet(SizeOf(w), Until(w, f.id, f.seq))
                              > a.orders[f.id].size
    BY DEF Faulty
  <2>1. /\ f.seq \in 1 .. Len(v) /\ f.id \in Known(a)
        /\ \/ f.excess
           \/ SumFunctionOnSet(SizeOf(v), Until(v, f.id, f.seq)) > a.orders[f.id].size
    BY DEF AccountInv, Faulty
  <2>2. f.seq \in Nat /\ f.seq <= Len(v)
    BY <1>1, <2>1
  <2> QED
    BY <1>3, <1>8, <2>1, <2>2
<1>13. OneLive(a, w)
  BY <1>10 DEF AccountInv, OneLive
<1>14. AccountInv(a, w)
  BY <1>1, <1>4, <1>9, <1>11, <1>12, <1>13 DEF AccountInv
<1> QED
  BY <1>14 DEF w

LEMMA VenueInv ==
  ASSUME AccountInv(acct, venue), Venue
  PROVE  AccountInv(acct', venue')
<1>1. venue \in Seq(EventType) /\ Len(venue) \in Nat /\ acct \in AccountType
  BY DEF AccountInv, Numbered
<1>2. Known(acct) \subseteq Ids
  BY <1>1 DEF Known, AccountType
<1>3. ASSUME NEW id \in Known(acct),
             NEW status \in {"accepted", "rejected", "unknown", "canceled"},
             EmitStatus(id, status)
      PROVE  AccountInv(acct', venue')
  <2> DEFINE e == Event(id, status, 0, 0, 0, FALSE, FALSE)
  <2>1. e \in EventType
    BY <1>1, <1>2 DEF Event, EventType, TERMINAL
  <2>2. e.seq = Len(venue) + 1 /\ e.id \in Known(acct) /\ Possible(e)
    <3>1. 0 <= 0 * UnitCost
      BY AmountsAssumption
    <3> QED
      BY <3>1 DEF Event, Possible
  <2>3. acct' = acct /\ venue' = Append(venue, e)
    BY <1>3 DEF EmitStatus
  <2> HIDE DEF e
  <2>4. AccountInv(acct, Append(venue, e))
    BY <2>1, <2>2, VenueGrows
  <2> QED
    BY <2>3, <2>4
<1>4. ASSUME NEW id \in Known(acct), NEW size \in 1 .. MaxSize + 1, NEW improved \in BOOLEAN,
             NEW baseFee \in BOOLEAN, NEW third \in BOOLEAN, NEW excess \in BOOLEAN,
             EmitFill(id, size, improved, baseFee, third, excess)
      PROVE  AccountInv(acct', venue')
  <2> DEFINE status == IF size >= VenueLeft(id) THEN "filled" ELSE "partial"
             quote == IF improved THEN size ELSE size * UnitCost
             base == IF baseFee THEN size - 1 ELSE size
             e == Event(id, status, size, quote, base, third, excess)
  <2>1. /\ size \in Nat /\ size > 0 /\ quote \in Nat /\ quote <= size * UnitCost
        /\ base \in Nat /\ base <= size
    <3>1. size \in Nat /\ size > 0 /\ UnitCost \in Nat /\ UnitCost >= 1
      BY AmountsAssumption
    <3>2. size * UnitCost \in Nat /\ size <= size * UnitCost
      <4>1. size * UnitCost = size + size * (UnitCost - 1)
        BY <3>1
      <4>2. UnitCost - 1 \in Nat
        BY <3>1
      <4>3. size * (UnitCost - 1) \in Nat
        BY <3>1, <4>2
      <4> QED
        BY <3>1, <4>1, <4>3
    <3> QED
      BY <3>1, <3>2
  <2>2. ~Buys(id) => base = size
    BY <1>4 DEF EmitFill
  <2>3. acct' = acct /\ venue' = Append(venue, e)
    BY <1>4 DEF EmitFill
  <2>4. status \in {"accepted", "partial", "unknown"} \cup TERMINAL
    BY DEF TERMINAL
  <2> HIDE DEF status, quote, base
  <2>5. e \in EventType
    BY <1>1, <1>2, <2>1, <2>4 DEF Event, EventType
  <2>6. e.seq = Len(venue) + 1 /\ e.id \in Known(acct) /\ Possible(e)
    BY <2>1, <2>2 DEF Event, Possible
  <2> HIDE DEF e
  <2>7. AccountInv(acct, Append(venue, e))
    BY <2>5, <2>6, VenueGrows
  <2> QED
    BY <2>3, <2>7
<1>5. PICK id \in Known(acct) :
        \/ \E status \in (Behaviours \cap {"accepted", "rejected", "unknown"}) \cup {"canceled"} :
             EmitStatus(id, status)
        \/ \E size \in 1 .. MaxSize + 1, improved \in May("improved"), baseFee \in May("baseFee"),
              third \in May("thirdAsset"), excess \in May("excess") :
             EmitFill(id, size, improved, baseFee, third, excess)
  BY DEF Venue
<1>6. \A behaviour : May(behaviour) \subseteq BOOLEAN
  BY DEF May
<1>7. CASE \E status \in (Behaviours \cap {"accepted", "rejected", "unknown"}) \cup {"canceled"} :
             EmitStatus(id, status)
  <2>1. PICK status \in {"accepted", "rejected", "unknown", "canceled"} : EmitStatus(id, status)
    BY <1>7
  <2> QED
    BY <1>3, <2>1
<1>8. CASE \E size \in 1 .. MaxSize + 1, improved \in May("improved"),
              baseFee \in May("baseFee"), third \in May("thirdAsset"), excess \in May("excess") :
             EmitFill(id, size, improved, baseFee, third, excess)
  <2>1. PICK size \in 1 .. MaxSize + 1, improved \in BOOLEAN, baseFee \in BOOLEAN,
             third \in BOOLEAN, excess \in BOOLEAN :
          EmitFill(id, size, improved, baseFee, third, excess)
    BY <1>6, <1>8
  <2> QED
    BY <1>4, <2>1
<1> QED
  BY <1>5, <1>7, <1>8

-----------------------------------------------------------------------------
(***************************************************************************)
(* The first state, the steps and the theorems.                            *)
(***************************************************************************)
LEMMA NothingSums ==
  ASSUME NEW S, IsFiniteSet(S)
  PROVE  SumFunction([x \in S |-> 0]) = 0
<1>1. SumFunctionOnSet([x \in S |-> 0], S) = 0
  BY SumZero
<1> QED
  BY <1>1 DEF SumFunction

LEMMA OpenedInv ==
  AccountInv(Opened(Ids), <<>>)
<1> DEFINE a == Opened(Ids)
<1>1. /\ a.orders = [id \in Ids |-> NoOrder(AllLots)]
      /\ a.lots = Nothing(AllLots) /\ a.born = Nothing(AllLots)
      /\ a.cash = Budget /\ a.base = 0 /\ a.cleanup = Cleanup /\ a.cycle = 0
      /\ a.seq = 0 /\ a.events = {} /\ a.buffered = {} /\ a.quarantine = {}
      /\ a.reconciliation = FALSE /\ a.fees = FALSE /\ a.unvalued = {}
  BY DEF Opened, AllLots
<1>2. Nothing(AllLots) \in [AllLots -> Nat]
  BY DEF Nothing
<1>3. NoOrder(AllLots) \in OrderType
  BY <1>2 DEF NoOrder, OrderType
<1>4. Budget \in Nat /\ Cleanup \in Nat /\ Cleanup <= Budget
  BY AmountsAssumption
<1>5. a \in AccountType
  BY <1>2, <1>3, <1>4 DEF Opened, AccountType, AllLots
<1> HIDE DEF a
<1>6. Known(a) = {}
  BY <1>1 DEF Known, NoOrder
<1>7. <<>> \in Seq(EventType) /\ Len(<<>>) = 0
  OBVIOUS
<1>8. Numbered(a, <<>>)
  BY <1>7 DEF Numbered
<1>9. Counted(a, <<>>)
  <2>1. 1 .. a.seq = {}
    BY <1>1
  <2>2. \A id : Until(<<>>, id, a.seq) = {}
    BY <2>1 DEF Until
  <2>3. \A id \in Ids : a.orders[id].filled = 0
    BY <1>1 DEF NoOrder
  <2>4. /\ SumFunctionOnSet(QuoteOf(<<>>), {}) = 0 /\ SumFunctionOnSet(BaseOf(<<>>), {}) = 0
        /\ SumFunctionOnSet(SizeOf(<<>>), {}) = 0
    BY SumEmpty
  <2>5. a.cash = Budget + 0 /\ a.seq <= Len(<<>>)
    BY <1>1, <1>4, <1>7
  <2> QED
    BY <1>1, <2>1, <2>2, <2>3, <2>4, <2>5 DEF Counted
<1>10. SumFunction(Nothing(AllLots)) = 0
  BY FiniteData, NothingSums DEF Nothing
<1>11. AllKept(a)
  <2> SUFFICES ASSUME NEW id \in Ids PROVE Kept(id, NoOrder(AllLots))
    BY <1>1 DEF AllKept
  <2>1. (0 - 0) * UnitCost <= 0
    BY AmountsAssumption
  <2> QED
    BY <1>10, <2>1 DEF Kept, NoOrder, TERMINAL
<1>12. Funded(a)
  <2>1. reserved_quote(a) = 0 /\ reserved_base(a) = 0
    <3>1. [id \in DOMAIN a.orders |-> a.orders[id].reserved_quote] = [id \in Ids |-> 0]
      BY <1>1 DEF NoOrder
    <3>2. [id \in DOMAIN a.orders |-> a.orders[id].reserved_base] = [id \in Ids |-> 0]
      BY <1>1 DEF NoOrder
    <3> QED
      BY <3>1, <3>2, FiniteData, NothingSums DEF reserved_quote, reserved_base
  <2>2. ASSUME NEW lot \in AllLots PROVE Allocated(a, lot) = 0
    <3>1. [id \in DOMAIN a.orders |-> a.orders[id].allocations[lot]] = [id \in Ids |-> 0]
      BY <1>1 DEF NoOrder, Nothing
    <3> QED
      BY <3>1, FiniteData, NothingSums DEF Allocated
  <2>3. free_quote(a) >= 0 /\ free_base(a) >= 0
    BY <1>1, <1>4, <2>1 DEF free_quote, free_base
  <2> QED
    BY <1>1, <1>10, <2>2, <2>3 DEF Funded, Nothing
<1>13. Aged(a)
  BY <1>1 DEF Aged, Nothing
<1>14. Ended(a, <<>>) /\ Faulty(a, <<>>) /\ OneLive(a, <<>>)
  BY <1>1, <1>6 DEF Ended, Faulty, OneLive, NoOrder, TERMINAL
<1> QED
  BY <1>5, <1>8, <1>9, <1>11, <1>12, <1>13, <1>14 DEF AccountInv, a

LEMMA ValuedInv ==
  ASSUME NEW a, NEW v, AccountInv(a, v), NEW n
  PROVE  AccountInv([a EXCEPT !.unvalued = @ \ {n}], v)
<1> DEFINE b == [a EXCEPT !.unvalued = @ \ {n}]
<1>1. a \in AccountType
  BY DEF AccountInv
<1>2. b \in AccountType
  BY <1>1 DEF AccountType
<1>3. SameBooks(a, b)
  BY <1>1 DEF SameBooks, AccountType
<1> QED
  BY <1>2, <1>3, SameBooksInv

LEMMA HostInv ==
  ASSUME AccountInv(acct, venue), Host
  PROVE  AccountInv(acct', venue')
<1>1. MaxSize \in Nat
  BY AmountsAssumption
<1>2. ASSUME NEW id \in Ids, NEW size \in 1 .. MaxSize, NEW lots, Submit(id, size, lots)
      PROVE  AccountInv(acct', venue')
  <2>1. size \in Nat \ {0}
    BY <1>1
  <2>2. AccountInv(Submitted(acct, id, size, lots), venue)
    BY <1>2, <2>1, SubmittedInv DEF Submit
  <2> QED
    BY <1>2, <2>2 DEF Submit
<1>3. ASSUME NEW id \in Ids, NEW size \in 1 .. MaxSize, NEW lots, Replace(id, size, lots)
      PROVE  AccountInv(acct', venue')
  <2>1. size \in Nat \ {0}
    BY <1>1
  <2>2. AccountInv(Replaced(acct, id, size, lots), venue)
    BY <1>3, <2>1, ReplacedInv DEF Replace
  <2> QED
    BY <1>3, <2>2 DEF Replace
<1>4. ASSUME NEW id \in Ids, Cancel(id)
      PROVE  AccountInv(acct', venue')
  <2>1. id \in Known(acct)
    BY <1>4 DEF Cancel, CanCancel
  <2>2. AccountInv(Canceled(acct, id, "cancel"), venue)
    BY <2>1, CanceledInv
  <2> QED
    BY <1>4, <2>2 DEF Cancel
<1>5. ASSUME NEW n \in 1 .. Len(venue), Deliver(n)
      PROVE  AccountInv(acct', venue')
  BY <1>5, EventInv DEF Deliver
<1>6. ASSUME NEW n \in 1 .. Len(venue), Value(n)
      PROVE  AccountInv(acct', venue')
  BY <1>6, ValuedInv DEF Value
<1>7. ASSUME NEW k \in acct.seq .. Len(venue), Reconcile(k)
      PROVE  AccountInv(acct', venue')
  <2> DEFINE b == Replayed(acct, k)
  <2>1. PICK valued : acct' = Reconciled(b, valued)
    BY <1>7 DEF Reconcile
  <2>2. AccountInv(b, venue)
    BY ReplayedInv
  <2> HIDE DEF b
  <2>3. AccountInv(Reconciled(b, valued), venue)
    BY <2>2, ReconciledInv
  <2> QED
    BY <1>7, <2>1, <2>3 DEF Reconcile
<1> QED
  BY <1>2, <1>3, <1>4, <1>5, <1>6, <1>7 DEF Host

Inv == AccountInv(acct, venue)

LEMMA AccountInvariant == Spec => []Inv
<1>1. Init => Inv
  BY OpenedInv DEF Init, Inv
<1>2. Inv /\ [Next]_vars => Inv'
  <2> SUFFICES ASSUME Inv, [Next]_vars PROVE Inv'
    OBVIOUS
  <2>1. CASE Venue
    BY <2>1, VenueInv DEF Inv
  <2>2. CASE Host
    BY <2>2, HostInv DEF Inv
  <2>3. CASE UNCHANGED vars
    BY <2>3 DEF Inv, vars
  <2> QED
    BY <2>1, <2>2, <2>3 DEF Next
<1> QED
  BY <1>1, <1>2, PTL DEF Spec

\* Free balances are never negative, the lots are the inventory, and no lot is
\* promised twice: what submit_spot_order reserves, _account_fill and
\* _consume_lots take and reconcile_spot_state gives back.
THEOREM ReservationsCovered == Spec => []Covered
<1>1. Inv => Covered
  <2> SUFFICES ASSUME Inv PROVE Covered
    OBVIOUS
  <2>1. acct \in AccountType /\ Funded(acct)
    BY DEF Inv, AccountInv
  <2>2. Lots(acct) = AllLots
    BY <2>1 DEF Lots, AccountType
  <2> QED
    BY <2>1, <2>2 DEF Funded, Covered
<1> QED
  BY <1>1, AccountInvariant, PTL

\* Cash and inventory are the venue's events, each counted once and in order,
\* whatever apply_spot_event was given and reconcile_spot_state replayed.
THEOREM BalancesFollowVenue == Spec => []FollowsVenue
<1>1. Inv => FollowsVenue
  <2> SUFFICES ASSUME Inv PROVE FollowsVenue
    OBVIOUS
  <2>1. Counted(acct, venue)
    BY DEF Inv, AccountInv
  <2> QED
    BY <2>1 DEF Counted, FollowsVenue, QuoteOf, BaseOf
<1> QED
  BY <1>1, AccountInvariant, PTL

\* An execution within its order fits what submit_spot_order reserved for it:
\* apply_spot_event sets aside only what the venue did wrong.
THEOREM QuarantineIsVenuesFault == Spec => []OnlyFaultsQuarantined
<1>1. Inv => OnlyFaultsQuarantined
  <2> SUFFICES ASSUME Inv, NEW e \in acct.quarantine
               PROVE  e.excess \/ ExecutedBy(e.id, e.seq) > acct.orders[e.id].size
    BY DEF OnlyFaultsQuarantined
  <2>1. \/ e.excess
        \/ SumFunctionOnSet(SizeOf(venue), Until(venue, e.id, e.seq)) > acct.orders[e.id].size
    BY DEF Inv, AccountInv, Faulty
  <2> QED
    BY <2>1 DEF ExecutedBy, SizeOf, Until
<1> QED
  BY <1>1, AccountInvariant, PTL

\* submit_spot_order and replace_spot_order admit a successor only when its
\* predecessor has ended at the venue.
THEOREM GenerationsDoNotOverlap == Spec => []OneGenerationLive
<1>1. Inv => OneGenerationLive
  <2> SUFFICES ASSUME Inv PROVE OneGenerationLive
    OBVIOUS
  <2>1. OneLive(acct, venue)
    BY DEF Inv, AccountInv
  <2>2. \A id : VenueDone(id) <=> Done(venue, id)
    BY DEF VenueDone, Emitted, Done
  <2> QED
    BY <2>1, <2>2 DEF OneLive, OneGenerationLive
<1> QED
  BY <1>1, AccountInvariant, PTL
=============================================================================
