---------------------------- MODULE PaperProofs ----------------------------
(***************************************************************************)
(* Proofs about PaperSession: the engine's account follows the broker, the *)
(* trade records and the fill events explain the cash, and no rest of an   *)
(* entry fills after an exit, for any candles, setups, rates and profiles  *)
(* and any rounding of the quotients.                                      *)
(*                                                                         *)
(* A bar is a chain of operators on a record, so there is one lemma for    *)
(* each operator that changes it, and the transition relation is opened    *)
(* last.                                                                   *)
(***************************************************************************)
EXTENDS PaperSession, SumProofs, SequenceTheorems

-----------------------------------------------------------------------------
(***************************************************************************)
(* What the broker's records hold.                                         *)
(***************************************************************************)
CashKinds == {"trade_pnl", "commission", "funding", "liquidation_fee"}
Roles == {"entry", "stop", "target", "flatten"}
FillKinds == {"entry", "stop_loss", "take_profit", "manual_close", "liquidation"}

Cashflow == [kind : CashKinds, amount : Int]
Event == [role : Roles, fill : Fill, cash : SUBSET Nat]
Execution ==
  [kind : FillKinds \cup {"funding"}, side : Sides, qty : Nat, price : Int, fee : Int]

BrokerType ==
  [ledger : Seq(Cashflow), position : Position \cup {None}, pending : Order \cup {None},
   last_close : Int, entry_bar : Int, events : Seq(Event), deferred : Deferred \cup {None},
   journaled : Nat, exit_cumulative : Nat, rejection : BOOLEAN, executed : Seq(Execution)]

BarType ==
  [open : Nat, high : Nat, low : Nat, close : Nat, volume : Nat, mark : Nat, rate : Int]

-----------------------------------------------------------------------------
(***************************************************************************)
(* The configuration.                                                      *)
(***************************************************************************)
LEMMA ConfigFacts ==
  ASSUME config \in Configs
  PROVE  /\ Scale \in Nat \ {0} /\ Leverage \in Nat \ {0} /\ Starting \in Nat \ {0}
         /\ Adjustment \in 0 .. Scale - 1 /\ Maintenance \in Int /\ LiquidationFee \in Int
         /\ Fee["maker"] \in Int /\ Fee["taker"] \in Int
         /\ FillDelay \in Nat /\ ProtectionDelay \in Nat /\ MinNotional \in Nat
         /\ Proxied => Realistic
         /\ Realistic => Costed
<1>1. /\ {Starting, Leverage, Scale} \subseteq Nat \ {0}
      /\ {Adjustment, Maintenance, LiquidationFee, Fee["maker"], Fee["taker"]}
           \subseteq 0 .. Scale - 1
      /\ {FillDelay, ProtectionDelay, MinNotional} \subseteq Nat
  BY AmountsAssumption
     DEF Starting, Leverage, Scale, Adjustment, Maintenance, LiquidationFee, Fee, FillDelay,
         ProtectionDelay, MinNotional
<1>2. Proxied => Realistic
  BY ProfileAssumption DEF Proxied, Realistic, Remainder, Profile
<1>3. Realistic => Costed
  BY DEF Realistic, Costed
<1>4. \A n \in 0 .. Scale - 1 : n \in Int
  OBVIOUS
<1> QED
  BY <1>1, <1>2, <1>3, <1>4

LEMMA BarFacts ==
  ASSUME config \in Configs, NEW bar \in Bars
  PROVE  /\ {bar.open, bar.high, bar.low, bar.close, bar.volume, bar.mark} \subseteq Nat
         /\ bar.rate \in Int
         /\ bar.low > 0 /\ bar.low <= bar.open /\ bar.low <= bar.close
         /\ bar.open <= bar.high /\ bar.close <= bar.high
  BY BarsAssumption DEF Bars

LEMMA SetupFacts ==
  ASSUME config \in Configs, NEW setup \in Setups
  PROVE  setup \in TradeSetup /\ setup # None
  BY SetupsAssumption, NoPositionAssumption DEF Setups

-----------------------------------------------------------------------------
(***************************************************************************)
(* Arithmetic: quotients and the prices made of them.                      *)
(***************************************************************************)
LEMMA ProductSign ==
  ASSUME NEW d \in Nat \ {0}, NEW q \in Int
  PROVE  /\ d * q \in Int
         /\ d * q > 0 => q > 0
         /\ q > 0 => d * q > 0
         /\ q >= 0 => d * q >= 0
  BY SMTT(30)

LEMMA QuotientFacts ==
  ASSUME NEW n \in Int, NEW d \in Nat \ {0}
  PROVE  /\ Quotient(n, d) \in Int
         /\ d * (Quotient(n, d) - 1) < n /\ n < d * (Quotient(n, d) + 1)
         /\ n >= 0 => Quotient(n, d) \in Nat
<1> DEFINE q == n \div d
           near(k) == d * (k - 1) < n /\ n < d * (k + 1)
<1>1. q \in Int /\ n = d * q + (n % d) /\ n % d \in 0 .. d - 1
  OBVIOUS
<1>2. near(q)
  <2>1. d * (q - 1) = d * q - d /\ d * (q + 1) = d * q + d
    BY <1>1
  <2>2. d * q \in Int /\ n % d \in Int /\ 0 <= n % d /\ n % d < d
    BY <1>1
  <2> QED
    BY <1>1, <2>1, <2>2
<1>3. Quotient(n, d) \in Int /\ near(Quotient(n, d))
  <2>1. CASE n % d = 0
    BY <1>1, <1>2, <2>1 DEF Quotient
  <2>2. CASE n % d # 0
    <3>1. Quotient(n, d) = CHOOSE k \in Int : near(k)
      BY <2>2 DEF Quotient
    <3>2. \E k \in Int : near(k)
      BY <1>1, <1>2
    <3> HIDE DEF near
    <3> QED
      BY <3>1, <3>2
  <2> QED
    BY <2>1, <2>2
<1>4. ASSUME n >= 0 PROVE Quotient(n, d) \in Nat
  <2>1. Quotient(n, d) + 1 \in Int /\ d * (Quotient(n, d) + 1) > 0
    <3>1. d * (Quotient(n, d) + 1) \in Int
      BY <1>3, ProductSign
    <3> QED
      BY <1>3, <1>4, <3>1
  <2>2. Quotient(n, d) + 1 > 0
    BY <2>1, ProductSign
  <2> QED
    BY <1>3, <2>2
<1> QED
  BY <1>3, <1>4

LEMMA QuotientOfZero ==
  ASSUME NEW d \in Nat \ {0}
  PROVE  Quotient(0, d) = 0
<1>1. 0 % d = 0 /\ 0 \div d = 0
  OBVIOUS
<1> QED
  BY <1>1 DEF Quotient

\* A fraction of an amount is no more than it.
LEMMA QuotientOfFraction ==
  ASSUME NEW n \in Nat, NEW d \in Nat \ {0}, NEW k \in 0 .. d - 1
  PROVE  Quotient(n * k, d) <= n
<1> DEFINE q == Quotient(n * k, d)
<1>1. n * k \in Nat /\ n * k <= n * d
  <2>1. d - k \in Nat /\ n * (d - k) >= 0
    BY SMTT(30)
  <2>2. n * (d - k) = n * d - n * k
    OBVIOUS
  <2>3. n * k \in Nat /\ n * d \in Nat
    BY SMTT(30)
  <2> QED
    BY <2>1, <2>2, <2>3
<1>2. q \in Int /\ d * (q - 1) < n * k
  BY <1>1, QuotientFacts
<1> HIDE DEF q
<1>3. d * (q - 1) < d * n
  <2>1. d * (q - 1) \in Int /\ n * d \in Int /\ d * n = n * d
    BY <1>2, ProductSign
  <2> QED
    BY <1>1, <1>2, <2>1
<1>4. d * (n - q + 1) > 0
  <2>1. d * (n - q + 1) = d * n - d * (q - 1)
    BY <1>2
  <2>2. d * n \in Int /\ d * (q - 1) \in Int
    BY <1>2, ProductSign
  <2> QED
    BY <1>3, <2>1, <2>2
<1>5. n - q + 1 > 0
  BY <1>2, <1>4, ProductSign
<1> QED
  BY <1>2, <1>5 DEF q

LEMMA SignFacts ==
  ASSUME NEW side \in Sides
  PROVE  Sign(side) \in {-1, 1} /\ Opposite(side) \in Sides
  BY DEF Sign, Opposite, Sides

LEMMA AdjustedFacts ==
  ASSUME config \in Configs, NEW reference \in Int, NEW side \in Sides
  PROVE  /\ Adjusted(reference, side) \in Int
         /\ reference >= 0 => Adjusted(reference, side) \in Nat
<1> DEFINE c == Quotient(reference * Adjustment, Scale)
<1>1. c \in Int /\ (reference >= 0 => c \in Nat /\ c <= reference)
  <2>1. reference * Adjustment \in Int /\ Scale \in Nat \ {0} /\ Adjustment \in 0 .. Scale - 1
    BY ConfigFacts
  <2>2. c \in Int
    BY <2>1, QuotientFacts
  <2>3. ASSUME reference >= 0 PROVE c \in Nat /\ c <= reference
    <3>1. reference * Adjustment >= 0
      BY <2>1, <2>3, SMTT(30)
    <3>2. c \in Nat
      BY <2>1, <3>1, QuotientFacts
    <3>3. reference \in Nat
      BY <2>3
    <3>4. c <= reference
      BY <2>1, <3>3, QuotientOfFraction
    <3> QED
      BY <3>2, <3>4
  <2> QED
    BY <2>2, <2>3
<1> HIDE DEF c
<1>2. Adjusted(reference, side) = reference + Sign(side) * c
  BY DEF Adjusted, c
<1>3. Sign(side) \in {-1, 1}
  BY SignFacts
<1> QED
  BY <1>1, <1>2, <1>3

LEMMA CommissionType ==
  ASSUME config \in Configs, NEW qty \in Int, NEW price \in Int,
         NEW role \in {"maker", "taker"}
  PROVE  Commission(qty, price, role) \in Int
<1>1. Fee[role] \in Int /\ Scale \in Nat \ {0}
  BY ConfigFacts
<1>2. qty * price * Fee[role] \in Int
  BY <1>1
<1> QED
  BY <1>1, <1>2, QuotientFacts DEF Commission

LEMMA MarginFacts ==
  ASSUME config \in Configs, NEW qty \in Nat, NEW price \in Nat
  PROVE  RequiredMargin(qty, price) \in Nat
<1>1. qty * price \in Int /\ qty * price >= 0 /\ Leverage \in Nat \ {0}
  BY ConfigFacts, SMTT(30)
<1> QED
  BY <1>1, QuotientFacts DEF RequiredMargin

LEMMA RoleFacts == \A type : Role(type) \in {"maker", "taker"}
  BY DEF Role

LEMMA MinFacts ==
  ASSUME NEW m \in Int, NEW n \in Int
  PROVE  Min({m, n}) = IF m <= n THEN m ELSE n
<1> DEFINE k == IF m <= n THEN m ELSE n
<1>1. k \in {m, n} /\ \A y \in {m, n} : k <= y
  OBVIOUS
<1>2. \A x \in {m, n} : (\A y \in {m, n} : x <= y) => x = k
  OBVIOUS
<1> QED
  BY <1>1, <1>2 DEF Min

LEMMA MaxFacts ==
  ASSUME NEW m \in Int, NEW n \in Int
  PROVE  Max({m, n}) = IF m >= n THEN m ELSE n
<1> DEFINE k == IF m >= n THEN m ELSE n
<1>1. k \in {m, n} /\ \A y \in {m, n} : k >= y
  OBVIOUS
<1>2. \A x \in {m, n} : (\A y \in {m, n} : x >= y) => x = k
  OBVIOUS
<1> QED
  BY <1>1, <1>2 DEF Max

-----------------------------------------------------------------------------
(***************************************************************************)
(* Sequences and sums.                                                     *)
(***************************************************************************)
LEMMA AppendFacts ==
  ASSUME NEW S, NEW s \in Seq(S), NEW e \in S
  PROVE  /\ Append(s, e) \in Seq(S)
         /\ Len(s) \in Nat /\ Len(Append(s, e)) = Len(s) + 1
         /\ DOMAIN s = 1 .. Len(s) /\ DOMAIN Append(s, e) = 1 .. Len(s) + 1
         /\ \A i \in 1 .. Len(s) : Append(s, e)[i] = s[i]
         /\ Append(s, e)[Len(s) + 1] = e
  OBVIOUS

LEMMA ConcatAppend ==
  ASSUME NEW S, NEW s \in Seq(S), NEW t \in Seq(S), NEW e \in S
  PROVE  s \o Append(t, e) = Append(s \o t, e)
<1>1. /\ Append(t, e) \in Seq(S) /\ Len(Append(t, e)) = Len(t) + 1
      /\ \A i \in 1 .. Len(t) : Append(t, e)[i] = t[i]
      /\ Append(t, e)[Len(t) + 1] = e
  BY AppendFacts
<1>2. /\ s \o t \in Seq(S) /\ Len(s \o t) = Len(s) + Len(t)
      /\ \A i \in 1 .. Len(s) + Len(t) : (s \o t)[i] = IF i <= Len(s) THEN s[i] ELSE t[i - Len(s)]
  BY ConcatProperties
<1>3. /\ s \o Append(t, e) \in Seq(S) /\ Len(s \o Append(t, e)) = Len(s) + (Len(t) + 1)
      /\ \A i \in 1 .. Len(s) + (Len(t) + 1) :
           (s \o Append(t, e))[i] = IF i <= Len(s) THEN s[i] ELSE Append(t, e)[i - Len(s)]
  BY <1>1, ConcatProperties
<1>4. /\ Append(s \o t, e) \in Seq(S) /\ Len(Append(s \o t, e)) = Len(s \o t) + 1
      /\ \A i \in 1 .. Len(s \o t) : Append(s \o t, e)[i] = (s \o t)[i]
      /\ Append(s \o t, e)[Len(s \o t) + 1] = e
  BY <1>2, AppendFacts
<1>5. Len(s) \in Nat /\ Len(t) \in Nat
  OBVIOUS
<1>6. ASSUME NEW i \in 1 .. Len(s) + (Len(t) + 1)
      PROVE  (s \o Append(t, e))[i] = Append(s \o t, e)[i]
  <2>1. CASE i <= Len(s)
    BY <1>2, <1>3, <1>4, <1>5, <2>1
  <2>2. CASE i > Len(s) /\ i <= Len(s) + Len(t)
    <3>1. i - Len(s) \in 1 .. Len(t) /\ i \in 1 .. Len(s) + Len(t) /\ ~(i <= Len(s))
      BY <1>5, <2>2
    <3> QED
      BY <1>1, <1>2, <1>3, <1>4, <3>1
  <2>3. CASE i = Len(s) + Len(t) + 1
    <3>1. i - Len(s) = Len(t) + 1 /\ ~(i <= Len(s)) /\ i = Len(s \o t) + 1
      BY <1>2, <1>5, <2>3
    <3> QED
      BY <1>1, <1>3, <1>4, <3>1
  <2> QED
    BY <1>5, <2>1, <2>2, <2>3
<1>7. Len(s \o Append(t, e)) = Len(Append(s \o t, e))
  BY <1>2, <1>3, <1>4, <1>5
<1>8. \A i \in 1 .. Len(s \o Append(t, e)) : (s \o Append(t, e))[i] = Append(s \o t, e)[i]
  BY <1>3, <1>6
<1> QED
  BY <1>3, <1>4, <1>7, <1>8, SeqEqual

LEMMA PairOfTwo == \A x, y : <<x>> \o <<y>> = <<x, y>>
<1> SUFFICES ASSUME NEW x, NEW y PROVE <<x>> \o <<y>> = <<x, y>>
  OBVIOUS
<1> DEFINE S == {x, y}
<1>1. <<x>> \in Seq(S) /\ <<y>> \in Seq(S) /\ <<x, y>> \in Seq(S)
  OBVIOUS
<1>2. /\ Len(<<x>>) = 1 /\ Len(<<y>>) = 1 /\ Len(<<x, y>>) = 2
      /\ <<x>>[1] = x /\ <<y>>[1] = y /\ <<x, y>>[1] = x /\ <<x, y>>[2] = y
  OBVIOUS
<1> DEFINE u == <<x>>
           v == <<y>>
           w == <<x, y>>
<1> HIDE DEF S, u, v, w
<1>3. /\ u \in Seq(S) /\ v \in Seq(S) /\ w \in Seq(S)
      /\ Len(u) = 1 /\ Len(v) = 1 /\ Len(w) = 2
      /\ u[1] = x /\ v[1] = y /\ w[1] = x /\ w[2] = y
  BY <1>1, <1>2 DEF u, v, w
<1>4. /\ u \o v \in Seq(S) /\ Len(u \o v) = Len(u) + Len(v)
      /\ \A i \in 1 .. Len(u) + Len(v) : (u \o v)[i] = IF i <= Len(u) THEN u[i] ELSE v[i - Len(u)]
  BY <1>3, ConcatProperties
<1>5. Len(u \o v) = 2 /\ (u \o v)[1] = x /\ (u \o v)[2] = y
  BY <1>3, <1>4
<1>6. \A i \in 1 .. Len(u \o v) : (u \o v)[i] = w[i]
  <2>1. \A i \in 1 .. 2 : i = 1 \/ i = 2
    OBVIOUS
  <2> QED
    BY <1>3, <1>5, <2>1
<1>7. u \o v = w
  BY <1>3, <1>4, <1>5, <1>6, SeqEqual
<1> QED
  BY <1>7 DEF u, v, w

LEMMA UpToFinite == \A m, n \in Int : IsFiniteSet(m .. n)
  BY FS_Interval

LEMMA SumSplit ==
  ASSUME NEW f, NEW S, IsFiniteSet(S), \A x \in S : f[x] \in Int, NEW T \in SUBSET S
  PROVE  SumFunctionOnSet(f, S) = SumFunctionOnSet(f, T) + SumFunctionOnSet(f, S \ T)
<1> DEFINE g == [x \in S |-> IF x \in T THEN f[x] ELSE 0]
           h == [x \in S |-> IF x \in T THEN 0 ELSE f[x]]
<1>1. \A x \in S : g[x] \in Int /\ h[x] \in Int /\ f[x] = g[x] + h[x]
  OBVIOUS
<1>2. \A x \in T : g[x] = f[x]
  OBVIOUS
<1>3. \A x \in S \ T : h[x] = f[x] /\ g[x] = 0
  OBVIOUS
<1>4. \A x \in S \ (S \ T) : h[x] = 0
  OBVIOUS
<1>5. IsFiniteSet(T) /\ IsFiniteSet(S \ T) /\ S \ T \in SUBSET S
  BY FS_Subset
<1> HIDE DEF g, h
<1>6. SumFunctionOnSet(f, S) = SumFunctionOnSet(g, S) + SumFunctionOnSet(h, S)
  BY <1>1, SumPlus
<1>7. SumFunctionOnSet(g, S) = SumFunctionOnSet(g, T)
  BY <1>1, <1>3, SumZeroOutside
<1>8. SumFunctionOnSet(h, S) = SumFunctionOnSet(h, S \ T)
  BY <1>1, <1>4, <1>5, SumZeroOutside
<1>9. SumFunctionOnSet(f, T) = SumFunctionOnSet(g, T)
  BY <1>2, <1>5, SumEqual
<1>10. SumFunctionOnSet(f, S \ T) = SumFunctionOnSet(h, S \ T)
  BY <1>3, <1>5, SumEqual
<1> QED
  BY <1>6, <1>7, <1>8, <1>9, <1>10

LEMMA SumGrow ==
  ASSUME NEW f, NEW g, NEW T, IsFiniteSet(T), \A y \in T : f[y] \in Int /\ f[y] = g[y],
         NEW x, x \notin T, g[x] \in Int
  PROVE  SumFunctionOnSet(g, T \cup {x}) = SumFunctionOnSet(f, T) + g[x]
<1>1. IsFiniteSet(T \cup {x})
  BY FS_AddElement
<1>2. \A y \in T \cup {x} : g[y] \in Int
  OBVIOUS
<1>3. T \in SUBSET (T \cup {x}) /\ x \in (T \cup {x}) \ T
  OBVIOUS
<1>4. SumFunctionOnSet(g, T \cup {x}) = SumFunctionOnSet(g, T) + g[x]
  BY <1>1, <1>2, <1>3, SumAdd
<1>5. SumFunctionOnSet(f, T) = SumFunctionOnSet(g, T)
  BY SumEqual
<1> QED
  BY <1>4, <1>5

-----------------------------------------------------------------------------
(***************************************************************************)
(* The ledger.  Early entries are named by an event, late ones wait for    *)
(* theirs.                                                                 *)
(***************************************************************************)
Early(b) == {n \in Cashflows(b) : n <= b.journaled}
Late(b) == {n \in Cashflows(b) : n > b.journaled}
Waiting(b) == SumFunctionOnSet(Amounts(b), Late(b))
Traded(b) == SumFunctionOnSet(Amounts(b), Cashflows(b))
Funded(b) == SumFunctionOnSet(Amounts(b), Fundings(b))

LEMMA LedgerFacts ==
  ASSUME NEW b \in BrokerType, config \in Configs
  PROVE  /\ b.ledger \in Seq(Cashflow) /\ Len(b.ledger) \in Nat
         /\ DOMAIN b.ledger = 1 .. Len(b.ledger) /\ IsFiniteSet(DOMAIN b.ledger)
         /\ \A n \in DOMAIN b.ledger : Amounts(b)[n] \in Int
         /\ \A T \in SUBSET DOMAIN b.ledger : IsFiniteSet(T) /\ SumFunctionOnSet(Amounts(b), T) \in Int
         /\ Waiting(b) \in Int /\ Traded(b) \in Int /\ Funded(b) \in Int
         /\ Balance(b) = Starting + Traded(b) + Funded(b)
         /\ Balance(b) \in Int
<1>1. /\ b.ledger \in Seq(Cashflow) /\ Len(b.ledger) \in Nat
      /\ DOMAIN b.ledger = 1 .. Len(b.ledger)
  BY DEF BrokerType
<1>2. IsFiniteSet(DOMAIN b.ledger)
  BY <1>1, UpToFinite
<1>3. \A n \in DOMAIN b.ledger : Amounts(b)[n] \in Int
  <2>1. \A n \in DOMAIN b.ledger : b.ledger[n] \in Cashflow
    BY <1>1
  <2> QED
    BY <2>1 DEF Amounts, Cashflow
<1>4. ASSUME NEW T \in SUBSET DOMAIN b.ledger
      PROVE  IsFiniteSet(T) /\ SumFunctionOnSet(Amounts(b), T) \in Int
  <2>1. IsFiniteSet(T)
    BY <1>2, FS_Subset
  <2>2. \A n \in T : Amounts(b)[n] \in Int
    BY <1>3
  <2> QED
    BY <2>1, <2>2, SumType
<1>5. /\ Late(b) \in SUBSET DOMAIN b.ledger /\ Cashflows(b) \in SUBSET DOMAIN b.ledger
      /\ Fundings(b) \in SUBSET DOMAIN b.ledger
  BY DEF Late, Cashflows, Fundings
<1>6. Waiting(b) \in Int /\ Traded(b) \in Int /\ Funded(b) \in Int
  BY <1>4, <1>5 DEF Waiting, Traded, Funded
<1>7. DOMAIN Amounts(b) = DOMAIN b.ledger
  BY DEF Amounts
<1>8. SumFunctionOnSet(Amounts(b), DOMAIN b.ledger) = Funded(b) + Traded(b)
  BY <1>2, <1>3, <1>5, SumSplit DEF Funded, Traded, Cashflows
<1>9. Balance(b) = Starting + SumFunctionOnSet(Amounts(b), DOMAIN b.ledger)
  BY <1>7 DEF Balance, SumFunction
<1>10. Starting \in Int
  BY ConfigFacts
<1> QED
  BY <1>1, <1>2, <1>3, <1>4, <1>6, <1>8, <1>9, <1>10

\* What two brokers with the same ledger agree on.
LEMMA SameLedger ==
  ASSUME NEW b, NEW c, c.ledger = b.ledger
  PROVE  /\ Amounts(c) = Amounts(b) /\ Cashflows(c) = Cashflows(b) /\ Fundings(c) = Fundings(b)
         /\ Traded(c) = Traded(b) /\ Funded(c) = Funded(b) /\ Balance(c) = Balance(b)
         /\ \A events, N : Named(events, c, N) <=> Named(events, b, N)
         /\ c.journaled = b.journaled =>
              Early(c) = Early(b) /\ Late(c) = Late(b) /\ Waiting(c) = Waiting(b)
<1>1. Amounts(c) = Amounts(b) /\ Fundings(c) = Fundings(b)
  BY DEF Amounts, Fundings
<1>2. Cashflows(c) = Cashflows(b)
  BY <1>1 DEF Cashflows
<1>3. Traded(c) = Traded(b) /\ Funded(c) = Funded(b) /\ Balance(c) = Balance(b)
  BY <1>1, <1>2 DEF Traded, Funded, Balance
<1>4. \A events, N : Named(events, c, N) <=> Named(events, b, N)
  BY <1>1 DEF Named
<1>5. c.journaled = b.journaled => Early(c) = Early(b) /\ Late(c) = Late(b)
  BY <1>2 DEF Early, Late
<1>6. c.journaled = b.journaled => Waiting(c) = Waiting(b)
  BY <1>1, <1>5 DEF Waiting
<1> QED
  BY <1>1, <1>2, <1>3, <1>4, <1>5, <1>6

\* An entry more: a funding is named by no event, any other waits for one.
LEMMA RecordFacts ==
  ASSUME config \in Configs, NEW b \in BrokerType, NEW kind \in CashKinds, NEW amount \in Int,
         b.journaled <= Len(b.ledger), NEW events, Named(events, b, Early(b))
  PROVE  LET c == Record(b, kind, amount)
             paid == IF kind = "funding" THEN 0 ELSE amount
         IN /\ c \in BrokerType
            /\ c = [b EXCEPT !.ledger = c.ledger]
            /\ Len(c.ledger) = Len(b.ledger) + 1
            /\ Traded(c) = Traded(b) + paid
            /\ Funded(c) = Funded(b) + (amount - paid)
            /\ Waiting(c) = Waiting(b) + paid
            /\ kind = "funding" => Late(c) = Late(b)
            /\ Named(events, c, Early(c))
<1> DEFINE e == [kind |-> kind, amount |-> amount]
           c == Record(b, kind, amount)
           paid == IF kind = "funding" THEN 0 ELSE amount
           new == Len(b.ledger) + 1
           D == DOMAIN b.ledger
<1>1. c = [b EXCEPT !.ledger = Append(@, e)]
  BY DEF Record
<1>2. e \in Cashflow /\ b.ledger \in Seq(Cashflow)
  BY DEF Cashflow, BrokerType
<1>3. /\ Append(b.ledger, e) \in Seq(Cashflow) /\ Len(b.ledger) \in Nat
      /\ Len(Append(b.ledger, e)) = new /\ D = 1 .. Len(b.ledger)
      /\ DOMAIN Append(b.ledger, e) = 1 .. new
      /\ \A n \in 1 .. Len(b.ledger) : Append(b.ledger, e)[n] = b.ledger[n]
      /\ Append(b.ledger, e)[new] = e
  BY <1>2, AppendFacts
<1>4. /\ c \in BrokerType /\ c.ledger = Append(b.ledger, e) /\ c.journaled = b.journaled
      /\ c = [b EXCEPT !.ledger = Append(b.ledger, e)]
  BY <1>1, <1>3 DEF BrokerType
<1>5. b.journaled \in Nat
  BY DEF BrokerType
<1> HIDE DEF c
<1>6. DOMAIN c.ledger = D \cup {new} /\ new \notin D
  BY <1>3, <1>4
<1>7. /\ \A n \in D : c.ledger[n] = b.ledger[n]
      /\ c.ledger[new].kind = kind /\ c.ledger[new].amount = amount
  BY <1>3, <1>4
<1>8. /\ \A n \in D : Amounts(c)[n] = Amounts(b)[n] /\ Amounts(b)[n] \in Int
      /\ Amounts(c)[new] = amount
  <2>1. \A n \in D : Amounts(b)[n] \in Int
    BY LedgerFacts
  <2> QED
    BY <1>6, <1>7, <2>1 DEF Amounts
<1>9. /\ Fundings(c) = IF kind = "funding" THEN Fundings(b) \cup {new} ELSE Fundings(b)
      /\ Fundings(b) \in SUBSET D
  <2> HIDE DEF new, D
  <2>1. Fundings(b) = {n \in D : b.ledger[n].kind = "funding"}
    BY DEF Fundings, D
  <2>2. Fundings(c) = {n \in D \cup {new} : c.ledger[n].kind = "funding"}
    BY <1>6 DEF Fundings
  <2> QED
    BY <1>7, <2>1, <2>2
<1>10. /\ Cashflows(c) = IF kind = "funding" THEN Cashflows(b) ELSE Cashflows(b) \cup {new}
       /\ Cashflows(b) \in SUBSET D
  <2> HIDE DEF new
  <2> QED
    BY <1>6, <1>9 DEF Cashflows
<1>11. new \in Int /\ new > b.journaled
  BY <1>3, <1>5
<1>12. /\ Early(c) = Early(b)
       /\ Late(c) = IF kind = "funding" THEN Late(b) ELSE Late(b) \cup {new}
  <2> HIDE DEF new
  <2>1. \A n \in D : n \in Int
    BY <1>3
  <2>2. new > b.journaled /\ ~(new <= b.journaled) /\ c.journaled = b.journaled
    BY <1>4, <1>5, <1>11
  <2>3. CASE kind = "funding"
    BY <1>10, <2>2, <2>3 DEF Early, Late
  <2>4. CASE kind # "funding"
    BY <1>10, <2>2, <2>4 DEF Early, Late
  <2> QED
    BY <2>3, <2>4
<1>13. Late(b) \in SUBSET D /\ Early(b) \in SUBSET D
  BY <1>10 DEF Late, Early
<1>14. \A T \in SUBSET D : IsFiniteSet(T)
  BY LedgerFacts
<1> HIDE DEF new, D
<1>15. ASSUME NEW T \in SUBSET D
       PROVE  /\ SumFunctionOnSet(Amounts(c), T) = SumFunctionOnSet(Amounts(b), T)
              /\ SumFunctionOnSet(Amounts(c), T \cup {new})
                   = SumFunctionOnSet(Amounts(b), T) + amount
  <2>1. IsFiniteSet(T) /\ new \notin T
    BY <1>6, <1>14
  <2>2. \A n \in T : Amounts(b)[n] \in Int /\ Amounts(b)[n] = Amounts(c)[n]
    BY <1>8
  <2>3. SumFunctionOnSet(Amounts(b), T) = SumFunctionOnSet(Amounts(c), T)
    BY <2>1, <2>2, SumEqual
  <2>4. SumFunctionOnSet(Amounts(c), T \cup {new}) = SumFunctionOnSet(Amounts(b), T) + Amounts(c)[new]
    BY <1>8, <2>1, <2>2, SumGrow
  <2> QED
    BY <1>8, <2>3, <2>4
<1>16. Waiting(b) \in Int /\ Traded(b) \in Int /\ Funded(b) \in Int
  BY LedgerFacts
<1>17. Traded(c) = Traded(b) + paid
  <2>1. CASE kind = "funding"
    <3>1. Traded(c) = Traded(b)
      BY <1>10, <1>15, <2>1 DEF Traded
    <3> QED
      BY <1>16, <2>1, <3>1
  <2>2. CASE kind # "funding"
    BY <1>10, <1>15, <1>16, <2>2 DEF Traded
  <2> QED
    BY <2>1, <2>2
<1>18. Funded(c) = Funded(b) + (amount - paid)
  <2>1. CASE kind = "funding"
    BY <1>9, <1>15, <1>16, <2>1 DEF Funded
  <2>2. CASE kind # "funding"
    <3>1. Funded(c) = Funded(b)
      BY <1>9, <1>15, <2>2 DEF Funded
    <3> QED
      BY <1>16, <2>2, <3>1
  <2> QED
    BY <2>1, <2>2
<1>19. Waiting(c) = Waiting(b) + paid
  <2>1. CASE kind = "funding"
    <3>1. Waiting(c) = Waiting(b)
      BY <1>12, <1>13, <1>15, <2>1 DEF Waiting
    <3> QED
      BY <1>16, <2>1, <3>1
  <2>2. CASE kind # "funding"
    BY <1>12, <1>13, <1>15, <1>16, <2>2 DEF Waiting
  <2> QED
    BY <2>1, <2>2
<1>20. Named(events, c, Early(c))
  <2>1. \A i \in DOMAIN events : events[i].cash \in SUBSET D
    BY <1>13 DEF Named
  <2>2. \A i \in DOMAIN events : SumFunctionOnSet(Amounts(c), events[i].cash)
                                   = SumFunctionOnSet(Amounts(b), events[i].cash)
    BY <1>15, <2>1
  <2> QED
    BY <1>12, <2>2 DEF Named
<1>21. Len(c.ledger) = Len(b.ledger) + 1
  BY <1>3, <1>4 DEF new
<1>22. c = [b EXCEPT !.ledger = c.ledger]
  BY <1>4
<1>23. kind = "funding" => Late(c) = Late(b)
  BY <1>12
<1> HIDE DEF e
<1> QED
  BY <1>4, <1>17, <1>18, <1>19, <1>20, <1>21, <1>22, <1>23 DEF c

\* An event names what waited: every entry is named then.
LEMMA RecordFillFacts ==
  ASSUME config \in Configs, NEW b \in BrokerType, NEW fill \in Fill, NEW role \in Roles,
         b.journaled <= Len(b.ledger), NEW events \in Seq(Event),
         Named(events \o b.events, b, Early(b)), Waiting(b) = fill.pnl
  PROVE  LET c == RecordFill(b, fill, role)
         IN /\ c \in BrokerType
            /\ c = [b EXCEPT !.events = c.events, !.journaled = Len(b.ledger)]
            /\ Late(c) = {}
            /\ Named(events \o c.events, c, Early(c))
<1> DEFINE e == [role |-> role, fill |-> fill,
                 cash |-> {i \in b.journaled + 1 .. Len(b.ledger) :
                             b.ledger[i].kind # "funding"}]
           c == RecordFill(b, fill, role)
           E == events \o b.events
<1>1. b.events \in Seq(Event) /\ b.journaled \in Nat /\ Len(b.ledger) \in Nat
      /\ DOMAIN b.ledger = 1 .. Len(b.ledger)
  BY DEF BrokerType
<1>2. e \in Event /\ e.fill = fill
  BY <1>1 DEF Event
<1>3. e.cash = Late(b)
  <2>1. e.cash = {i \in b.journaled + 1 .. Len(b.ledger) : b.ledger[i].kind # "funding"}
    OBVIOUS
  <2>2. Late(b) = {n \in 1 .. Len(b.ledger) : b.ledger[n].kind # "funding" /\ n > b.journaled}
    BY <1>1 DEF Late, Cashflows, Fundings
  <2>3. \A n : n \in b.journaled + 1 .. Len(b.ledger)
                 <=> n \in 1 .. Len(b.ledger) /\ n > b.journaled
    BY <1>1
  <2> QED
    BY <2>1, <2>2, <2>3
<1>4. c = [b EXCEPT !.events = Append(b.events, e), !.journaled = Len(b.ledger)]
  BY DEF RecordFill
<1> HIDE DEF e
<1>5. Append(b.events, e) \in Seq(Event)
  BY <1>1, <1>2
<1>6. /\ c \in BrokerType /\ c.events = Append(b.events, e) /\ c.journaled = Len(b.ledger)
      /\ c.ledger = b.ledger
  BY <1>1, <1>4, <1>5 DEF BrokerType
<1> HIDE DEF c
<1>7. Amounts(c) = Amounts(b) /\ Cashflows(c) = Cashflows(b)
  BY <1>6, SameLedger
<1>8. \A n \in Cashflows(b) : n \in Int /\ n <= Len(b.ledger)
  BY <1>1 DEF Cashflows
<1>9. Late(c) = {} /\ Early(c) = Early(b) \cup Late(b) /\ Early(b) \cap Late(b) = {}
  BY <1>1, <1>6, <1>7, <1>8 DEF Early, Late
<1>10. events \o c.events = Append(E, e) /\ E \in Seq(Event)
  <2>1. E \in Seq(Event)
    BY <1>1, ConcatProperties
  <2>2. events \o Append(b.events, e) = Append(events \o b.events, e)
    BY <1>1, <1>2, ConcatAppend
  <2> QED
    BY <1>6, <2>1, <2>2
<1> HIDE DEF E
<1>11. /\ Len(E) \in Nat /\ DOMAIN E = 1 .. Len(E)
       /\ DOMAIN Append(E, e) = 1 .. Len(E) + 1
       /\ \A i \in 1 .. Len(E) : Append(E, e)[i] = E[i]
       /\ Append(E, e)[Len(E) + 1] = e
  BY <1>2, <1>10, AppendFacts
<1> DEFINE A == Append(E, e)
           new == Len(E) + 1
<1>12. DOMAIN A = DOMAIN E \cup {new} /\ new \notin DOMAIN E
  BY <1>11
<1>13. (\A i \in DOMAIN E : A[i] = E[i]) /\ A[new] = e
  BY <1>11
<1> HIDE DEF A, new
<1>14. Named(E, b, Early(b))
  BY DEF E
<1>15. Named(A, c, Early(c))
  <2>1. \A i \in DOMAIN A : A[i].fill.pnl = SumFunctionOnSet(Amounts(c), A[i].cash)
    BY <1>2, <1>3, <1>7, <1>12, <1>13, <1>14 DEF Named, Waiting
  <2>2. \A i \in DOMAIN E : E[i].cash \subseteq Early(b)
    BY <1>14 DEF Named
  <2>3. \A i, j \in DOMAIN A : i # j => A[i].cash \cap A[j].cash = {}
    <3>1. \A i \in DOMAIN E : E[i].cash \cap e.cash = {}
      BY <1>3, <1>9, <2>2
    <3>2. \A i, j \in DOMAIN E : i # j => E[i].cash \cap E[j].cash = {}
      BY <1>14 DEF Named
    <3> QED
      BY <1>12, <1>13, <3>1, <3>2
  <2>4. UNION {A[i].cash : i \in DOMAIN A}
              = (UNION {E[i].cash : i \in DOMAIN E}) \cup e.cash
    BY <1>12, <1>13
  <2>5. UNION {E[i].cash : i \in DOMAIN E} = Early(b)
    BY <1>14 DEF Named
  <2>6. UNION {A[i].cash : i \in DOMAIN A} = Early(c)
    BY <1>3, <1>9, <2>4, <2>5
  <2> QED
    BY <2>1, <2>3, <2>6 DEF Named
<1>16. Named(events \o c.events, c, Early(c))
  BY <1>10, <1>15 DEF A
<1>17. c = [b EXCEPT !.events = c.events, !.journaled = Len(b.ledger)]
  BY <1>4, <1>6
<1> QED
  BY <1>6, <1>9, <1>16, <1>17 DEF c

-----------------------------------------------------------------------------
(***************************************************************************)
(* The executions: what they leave of the position, and when an entry may  *)
(* add to it.                                                              *)
(***************************************************************************)
MayAdd(ex) == \A i \in Exits(ex) : \E k \in i .. Len(ex) : Held(ex, k) = 0

NoReentry(ex) ==
  \A i \in Exits(ex), j \in DOMAIN ex :
    i < j /\ ex[j].kind = "entry" => \E k \in i .. j - 1 : Held(ex, k) = 0

HeldAtEnd(ex) == Held(ex, Len(ex))

LEMMA HeldFacts ==
  ASSUME NEW ex \in Seq(Execution), NEW x \in Execution
  PROVE  /\ Append(ex, x) \in Seq(Execution)
         /\ \A k \in 0 .. Len(ex) : Held(Append(ex, x), k) = Held(ex, k) /\ Held(ex, k) \in Int
         /\ HeldAtEnd(ex) \in Int
         /\ HeldAtEnd(Append(ex, x))
              = HeldAtEnd(ex) + (IF x.kind = "entry" THEN x.qty
                                 ELSE IF x.kind = "funding" THEN 0 ELSE -x.qty)
         /\ Exits(Append(ex, x)) = IF x.kind \in {"entry", "funding"} THEN Exits(ex)
                                   ELSE Exits(ex) \cup {Len(ex) + 1}
<1> DEFINE y == Append(ex, x)
           new == Len(ex) + 1
           signed == IF x.kind = "entry" THEN x.qty ELSE IF x.kind = "funding" THEN 0 ELSE -x.qty
<1>1. /\ y \in Seq(Execution) /\ Len(ex) \in Nat /\ Len(y) = new
      /\ DOMAIN ex = 1 .. Len(ex) /\ DOMAIN y = 1 .. new
      /\ \A n \in 1 .. Len(ex) : y[n] = ex[n]
      /\ y[new] = x
  BY AppendFacts
<1> HIDE DEF y
<1>2. /\ \A n \in 1 .. Len(ex) : Bought(y)[n] = Bought(ex)[n] /\ Bought(ex)[n] \in Int
      /\ Bought(y)[new] = signed /\ signed \in Int
  <2>1. \A n \in 1 .. Len(ex) : ex[n] \in Execution
    BY <1>1
  <2>2. \A n \in 1 .. Len(ex) : n \in 1 .. new
    BY <1>1
  <2>3. new \in 1 .. new
    BY <1>1
  <2>4. \A n \in 1 .. Len(ex) : Bought(y)[n] = Bought(ex)[n]
    BY <1>1, <2>2 DEF Bought
  <2>5. \A n \in 1 .. Len(ex) : Bought(ex)[n] \in Int
    <3> SUFFICES ASSUME NEW n \in 1 .. Len(ex) PROVE Bought(ex)[n] \in Int
      OBVIOUS
    <3>1. ex[n].qty \in Nat
      BY <2>1 DEF Execution
    <3>2. Bought(ex)[n] = IF ex[n].kind = "entry" THEN ex[n].qty
                          ELSE IF ex[n].kind = "funding" THEN 0 ELSE -ex[n].qty
      BY <1>1 DEF Bought
    <3> QED
      BY <3>1, <3>2
  <2>6. Bought(y)[new] = signed
    BY <1>1, <2>3 DEF Bought
  <2>7. signed \in Int
    BY DEF Execution
  <2> QED
    BY <2>4, <2>5, <2>6, <2>7
<1>3. ASSUME NEW k \in 0 .. Len(ex) PROVE Held(y, k) = Held(ex, k) /\ Held(ex, k) \in Int
  <2>1. IsFiniteSet(1 .. k) /\ \A n \in 1 .. k : n \in 1 .. Len(ex)
    BY <1>1, UpToFinite
  <2>2. \A n \in 1 .. k : Bought(ex)[n] \in Int /\ Bought(ex)[n] = Bought(y)[n]
    BY <1>2, <2>1
  <2>3. SumFunctionOnSet(Bought(ex), 1 .. k) = SumFunctionOnSet(Bought(y), 1 .. k)
    BY <2>1, <2>2, SumEqual
  <2>4. SumFunctionOnSet(Bought(ex), 1 .. k) \in Int
    BY <2>1, <2>2, SumType
  <2> QED
    BY <2>3, <2>4 DEF Held
<1>4. HeldAtEnd(y) = HeldAtEnd(ex) + signed /\ HeldAtEnd(ex) \in Int
  <2>1. IsFiniteSet(1 .. Len(ex)) /\ new \notin 1 .. Len(ex)
    BY <1>1, UpToFinite
  <2>2. 1 .. new = (1 .. Len(ex)) \cup {new}
    BY <1>1
  <2>3. SumFunctionOnSet(Bought(y), (1 .. Len(ex)) \cup {new})
          = SumFunctionOnSet(Bought(ex), 1 .. Len(ex)) + Bought(y)[new]
    <3>1. \A n \in 1 .. Len(ex) : Bought(ex)[n] \in Int /\ Bought(ex)[n] = Bought(y)[n]
      BY <1>2
    <3>2. Bought(y)[new] \in Int
      BY <1>2
    <3> DEFINE T == 1 .. Len(ex)
               f == Bought(ex)
               g == Bought(y)
    <3>3. IsFiniteSet(T) /\ new \notin T
      BY <2>1
    <3>4. (\A n \in T : f[n] \in Int /\ f[n] = g[n]) /\ g[new] \in Int
      BY <3>1, <3>2
    <3> HIDE DEF new, signed, T, f, g
    <3>5. SumFunctionOnSet(g, T \cup {new}) = SumFunctionOnSet(f, T) + g[new]
      BY <3>3, <3>4, SumGrow
    <3> QED
      BY <3>5 DEF T, f, g
  <2>4. Held(ex, Len(ex)) \in Int
    BY <1>1, <1>3
  <2> QED
    BY <1>1, <1>2, <2>2, <2>3, <2>4 DEF HeldAtEnd, Held
<1>5. Exits(y) = IF x.kind \in {"entry", "funding"} THEN Exits(ex) ELSE Exits(ex) \cup {new}
  <2>1. DOMAIN y = DOMAIN ex \cup {new} /\ new \notin DOMAIN ex
    BY <1>1
  <2>2. (\A n \in DOMAIN ex : y[n].kind = ex[n].kind) /\ y[new].kind = x.kind
    BY <1>1
  <2> HIDE DEF new
  <2>3. Exits(ex) = {n \in DOMAIN ex : ex[n].kind \notin {"entry", "funding"}}
    BY DEF Exits
  <2>4. Exits(y) = {n \in DOMAIN ex \cup {new} : y[n].kind \notin {"entry", "funding"}}
    BY <2>1 DEF Exits
  <2> QED
    BY <2>1, <2>2, <2>3, <2>4
<1> QED
  BY <1>1, <1>3, <1>4, <1>5 DEF y

LEMMA ExecutionFacts ==
  ASSUME NEW ex \in Seq(Execution), NEW x \in Execution, NoReentry(ex),
         x.kind = "entry" => MayAdd(ex)
  PROVE  /\ NoReentry(Append(ex, x))
         /\ x.kind \in {"entry", "funding"} /\ MayAdd(ex) => MayAdd(Append(ex, x))
<1> DEFINE y == Append(ex, x)
           new == Len(ex) + 1
<1>1. /\ Len(ex) \in Nat /\ Len(y) = new /\ DOMAIN ex = 1 .. Len(ex) /\ DOMAIN y = 1 .. new
      /\ \A n \in 1 .. Len(ex) : y[n] = ex[n]
      /\ y[new] = x
  BY AppendFacts
<1>2. /\ \A k \in 0 .. Len(ex) : Held(y, k) = Held(ex, k)
      /\ Exits(y) = IF x.kind \in {"entry", "funding"} THEN Exits(ex) ELSE Exits(ex) \cup {new}
      /\ Exits(ex) \subseteq 1 .. Len(ex)
  BY <1>1, HeldFacts DEF Exits
<1> HIDE DEF y
<1>3. ASSUME NEW i \in Exits(y), NEW j \in DOMAIN y, i < j, y[j].kind = "entry"
      PROVE  \E k \in i .. j - 1 : Held(y, k) = 0
  <2>1. i \in Exits(ex) /\ i \in 1 .. Len(ex) /\ j \in 1 .. new
    BY <1>1, <1>2, <1>3
  <2>2. CASE j = new
    <3>1. \E k \in i .. Len(ex) : Held(ex, k) = 0
      BY <1>1, <1>3, <2>1, <2>2 DEF MayAdd
    <3>2. PICK k \in i .. Len(ex) : Held(ex, k) = 0
      BY <3>1
    <3>3. k \in 0 .. Len(ex) /\ k \in i .. j - 1
      BY <1>1, <2>1, <2>2
    <3> QED
      BY <1>2, <3>2, <3>3
  <2>3. CASE j # new
    <3>1. j \in 1 .. Len(ex) /\ ex[j].kind = "entry"
      BY <1>1, <1>3, <2>1, <2>3
    <3>2. PICK k \in i .. j - 1 : Held(ex, k) = 0
      BY <1>1, <1>3, <2>1, <3>1 DEF NoReentry
    <3>3. k \in 0 .. Len(ex)
      BY <1>1, <2>1, <3>1
    <3> QED
      BY <1>2, <3>2, <3>3
  <2> QED
    BY <2>2, <2>3
<1>4. ASSUME x.kind \in {"entry", "funding"}, MayAdd(ex), NEW i \in Exits(y)
      PROVE  \E k \in i .. Len(y) : Held(y, k) = 0
  <2>1. i \in Exits(ex) /\ i \in 1 .. Len(ex)
    BY <1>2, <1>4
  <2>2. PICK k \in i .. Len(ex) : Held(ex, k) = 0
    BY <1>4, <2>1 DEF MayAdd
  <2>3. k \in 0 .. Len(ex) /\ k \in i .. Len(y)
    BY <1>1, <2>1
  <2> QED
    BY <1>2, <2>2, <2>3
<1>5. NoReentry(y)
  BY <1>3 DEF NoReentry
<1>6. x.kind \in {"entry", "funding"} /\ MayAdd(ex) => MayAdd(y)
  BY <1>4 DEF MayAdd
<1> QED
  BY <1>5, <1>6 DEF y

\* With nothing held, an entry may always come.
LEMMA FlatMayAdd ==
  ASSUME NEW ex \in Seq(Execution), HeldAtEnd(ex) = 0
  PROVE  MayAdd(ex)
<1> SUFFICES ASSUME NEW i \in Exits(ex) PROVE \E k \in i .. Len(ex) : Held(ex, k) = 0
  BY DEF MayAdd
<1>1. i \in 1 .. Len(ex) /\ Len(ex) \in Nat
  BY DEF Exits
<1> QED
  BY <1>1 DEF HeldAtEnd

-----------------------------------------------------------------------------
(***************************************************************************)
(* The broker's books: every cash flow but those of a delayed exit is      *)
(* named by an event, delivered or not, and the executions have left the   *)
(* position.                                                               *)
(***************************************************************************)
Quantity(b) == IF b.position = None THEN 0 ELSE b.position.qty

Books(delivered, b) ==
  /\ b \in BrokerType /\ b.journaled <= Len(b.ledger)
  /\ Named(delivered \o b.events, b, Early(b))
  /\ IF b.deferred = None THEN Late(b) = {} ELSE Waiting(b) = b.deferred.fill.pnl
  /\ HeldAtEnd(b.executed) = Quantity(b)
  /\ NoReentry(b.executed)

\* While an entry works, it may add to what is held.
Adds(b) == b.pending # None => MayAdd(b.executed)

\* What fill left of position p.
Left(p, fill, after) ==
  \/ /\ fill.status = "partial" /\ fill.qty < p.qty
     /\ after = [p EXCEPT !.qty = p.qty - fill.qty,
                          !.margin = Quotient(p.margin * (p.qty - fill.qty), p.qty)]
  \/ fill.status = "filled" /\ after = None

LEMMA NotNone ==
  /\ \A p \in Position : p # None
  /\ \A o \in Order : o # None
  /\ \A d \in Deferred : d # None
  BY NoneAssumption

LEMMA NoneWaits ==
  ASSUME config \in Configs, NEW b \in BrokerType, Late(b) = {}
  PROVE  Waiting(b) = 0
  BY SumEmpty DEF Waiting

\* The report of a fill that left position p: an event, or a delayed one while
\* the protective orders have no names.
LEMMA ReportedFacts ==
  ASSUME config \in Configs, NEW delivered \in Seq(Event), NEW b \in BrokerType,
         NEW fill \in Fill, NEW p \in Position,
         fill.kind # "entry", fill.side = p.side, fill.qty \in Nat,
         b.journaled <= Len(b.ledger), Named(delivered \o b.events, b, Early(b)),
         Waiting(b) = fill.pnl, b.deferred = None, NoReentry(b.executed),
         HeldAtEnd(b.executed) - fill.qty = Quantity(b)
  PROVE  LET r == Reported(b, fill, p)
             c == r.broker
             named == fill.kind \in {"manual_close", "liquidation"} \/ p.protected
         IN /\ r = [broker |-> c, fills |-> <<fill>>, raised |-> FALSE]
            /\ Books(delivered, c)
            /\ c.ledger = b.ledger /\ c.position = b.position /\ c.pending = b.pending
            /\ c.rejection = b.rejection
            /\ named => c.deferred = None
            /\ ~named => c.deferred # None /\ c.deferred.position = p
            /\ \E x \in Execution : x.kind = fill.kind /\ c.executed = Append(b.executed, x)
<1> DEFINE x == [kind |-> fill.kind, side |-> fill.side, qty |-> fill.qty, price |-> fill.price,
                 fee |-> fill.fee]
           d == Executed(b, fill)
           role == [stop_loss |-> "stop", take_profit |-> "target", manual_close |-> "flatten",
                    liquidation |-> "flatten"][fill.kind]
           c == RecordClose(d, fill, p)
           named == fill.kind \in {"manual_close", "liquidation"} \/ p.protected
           later == [fill |-> fill, position |-> p, role |-> role]
<1>1. /\ fill.kind \in {"stop_loss", "take_profit", "manual_close", "liquidation"}
      /\ fill.side \in Sides /\ fill.price \in Int /\ fill.fee \in Int /\ fill.pnl \in Int
  BY DEF Fill
<1>2. x \in Execution
  BY <1>1 DEF Execution, FillKinds
<1>3. d = [b EXCEPT !.executed = Append(b.executed, x)]
  BY DEF Executed
<1>4. b.executed \in Seq(Execution)
  BY DEF BrokerType
<1>5. /\ Append(b.executed, x) \in Seq(Execution)
      /\ HeldAtEnd(Append(b.executed, x)) = HeldAtEnd(b.executed) - fill.qty
  <2>1. x.kind = fill.kind /\ x.qty = fill.qty /\ x.kind # "entry" /\ x.kind # "funding"
    BY <1>1
  <2> HIDE DEF x
  <2>2. /\ Append(b.executed, x) \in Seq(Execution) /\ HeldAtEnd(b.executed) \in Int
        /\ HeldAtEnd(Append(b.executed, x)) = HeldAtEnd(b.executed) + (-x.qty)
    BY <1>2, <1>4, <2>1, HeldFacts
  <2> QED
    BY <2>1, <2>2
<1>6. NoReentry(Append(b.executed, x))
  <2>1. x.kind # "entry"
    BY <1>1
  <2> HIDE DEF x
  <2> QED
    BY <1>2, <1>4, <2>1, ExecutionFacts
<1>7. x.kind = fill.kind
  OBVIOUS
<1>8. role \in {"stop", "target", "flatten"}
      /\ (role = "flatten" <=> fill.kind \in {"manual_close", "liquidation"})
  BY <1>1
<1> HIDE DEF x, d
<1>9. /\ d \in BrokerType /\ d.ledger = b.ledger /\ d.journaled = b.journaled
      /\ d.events = b.events /\ d.deferred = None /\ d.position = b.position
      /\ d.pending = b.pending /\ d.rejection = b.rejection
      /\ d.executed = Append(b.executed, x)
  BY <1>3, <1>5 DEF BrokerType
<1>10. /\ Named(delivered \o d.events, d, Early(d)) /\ Waiting(d) = fill.pnl
       /\ d.journaled <= Len(d.ledger)
  BY <1>9, SameLedger
<1>11. /\ c \in BrokerType /\ c.journaled <= Len(c.ledger) /\ c.ledger = d.ledger
       /\ Named(delivered \o c.events, c, Early(c))
       /\ IF c.deferred = None THEN Late(c) = {} ELSE Waiting(c) = c.deferred.fill.pnl
       /\ c.executed = d.executed /\ c.position = d.position /\ c.pending = d.pending
       /\ c.rejection = d.rejection
       /\ named => c.deferred = None
       /\ ~named => c.deferred # None /\ c.deferred.position = p
  <2>1. CASE named
    <3>1. c = RecordFill(d, fill, role)
      BY <1>8, <2>1 DEF RecordClose
    <3>2. role \in Roles
      BY <1>8 DEF Roles
    <3> HIDE DEF c, role
    <3>3. /\ RecordFill(d, fill, role) \in BrokerType /\ Late(RecordFill(d, fill, role)) = {}
          /\ Named(delivered \o RecordFill(d, fill, role).events, RecordFill(d, fill, role),
                   Early(RecordFill(d, fill, role)))
          /\ RecordFill(d, fill, role) = [d EXCEPT !.events = RecordFill(d, fill, role).events,
                                                  !.journaled = Len(d.ledger)]
      BY <1>9, <1>10, <3>2, RecordFillFacts
    <3>4. /\ c \in BrokerType /\ Late(c) = {} /\ Named(delivered \o c.events, c, Early(c))
          /\ c = [d EXCEPT !.events = c.events, !.journaled = Len(d.ledger)]
      BY <3>1, <3>3
    <3>5. /\ c.ledger = d.ledger /\ c.journaled = Len(d.ledger) /\ c.deferred = d.deferred
          /\ c.executed = d.executed /\ c.position = d.position /\ c.pending = d.pending
          /\ c.rejection = d.rejection
      BY <1>9, <3>4 DEF BrokerType
    <3>6. Len(d.ledger) \in Nat
      BY <1>9 DEF BrokerType
    <3> HIDE DEF named
    <3> QED
      BY <1>9, <2>1, <3>4, <3>5, <3>6
  <2>2. CASE ~named
    <3>1. c = [d EXCEPT !.deferred = later]
      BY <1>8, <2>2 DEF RecordClose
    <3>2. later \in Deferred /\ later.fill = fill /\ later.position = p
      BY <1>8, <2>2 DEF Deferred
    <3>3. later # None
      BY <3>2, NotNone
    <3> HIDE DEF c, later, named
    <3>4. /\ c \in BrokerType /\ c.deferred = later /\ c.ledger = d.ledger
          /\ c.journaled = d.journaled /\ c.events = d.events /\ c.executed = d.executed
          /\ c.position = d.position /\ c.pending = d.pending /\ c.rejection = d.rejection
      BY <1>9, <3>1, <3>2 DEF BrokerType
    <3>5. Named(delivered \o c.events, c, Early(c)) /\ Waiting(c) = fill.pnl
      BY <1>10, <3>4, SameLedger
    <3> QED
      BY <1>10, <2>2, <3>2, <3>3, <3>4, <3>5
  <2> QED
    BY <2>1, <2>2
<1>12. Reported(b, fill, p) = [broker |-> c, fills |-> <<fill>>, raised |-> FALSE]
  BY DEF Reported, Result, d
<1> HIDE DEF c, named
<1>13. HeldAtEnd(c.executed) = Quantity(c) /\ NoReentry(c.executed)
  BY <1>5, <1>6, <1>9, <1>11 DEF Quantity
<1>14. Books(delivered, c)
  BY <1>11, <1>13 DEF Books
<1>15. Reported(b, fill, p).broker = c
  BY <1>12
<1> QED
  BY <1>2, <1>7, <1>9, <1>11, <1>12, <1>14, <1>15 DEF named

-----------------------------------------------------------------------------
(***************************************************************************)
(* Closing.                                                                *)
(***************************************************************************)
\* r closed some of the position of b, or all of it.
Exited(delivered, b, r) ==
  LET p == b.position
      c == r.broker
      f == r.fills[1]
  IN /\ r = [broker |-> c, fills |-> <<f>>, raised |-> FALSE]
     /\ p # None /\ f \in Fill /\ f.kind # "entry"
     /\ Books(delivered, c)
     /\ c.pending \in {b.pending, None} /\ c.rejection = b.rejection
     /\ Left(p, f, c.position)
     /\ Traded(c) = Traded(b) + f.pnl
     /\ p.protected => c.deferred = None
     /\ f.kind \in {"stop_loss", "take_profit"} /\ ~p.protected =>
          c.deferred # None /\ c.deferred.position = p

\* Two payments of a fill; the second one may be left out when it is nothing.
LEMMA PaidFacts ==
  ASSUME config \in Configs, NEW b \in BrokerType, b.journaled <= Len(b.ledger),
         NEW events, Named(events, b, Early(b)), Late(b) = {},
         NEW k1 \in CashKinds \ {"funding"}, NEW k2 \in CashKinds \ {"funding"},
         NEW gross \in Int, NEW fee \in Int
  PROVE  LET first == Record(b, k1, gross)
             c == Record(first, k2, -fee)
         IN /\ first \in BrokerType /\ first = [b EXCEPT !.ledger = first.ledger]
            /\ first.journaled <= Len(first.ledger) /\ Named(events, first, Early(first))
            /\ Waiting(first) = gross
            /\ Traded(first) = Traded(b) + gross /\ Funded(first) = Funded(b)
            /\ c \in BrokerType /\ c = [b EXCEPT !.ledger = c.ledger]
            /\ c.journaled <= Len(c.ledger) /\ Named(events, c, Early(c))
            /\ Waiting(c) = gross - fee
            /\ Traded(c) = Traded(b) + (gross - fee) /\ Funded(c) = Funded(b)
<1> DEFINE first == Record(b, k1, gross)
           c == Record(first, k2, -fee)
<1>1. Waiting(b) = 0 /\ Traded(b) \in Int /\ Funded(b) \in Int /\ Len(b.ledger) \in Nat
      /\ b.journaled \in Nat
  BY NoneWaits, LedgerFacts DEF BrokerType
<1>2. /\ first \in BrokerType /\ first = [b EXCEPT !.ledger = first.ledger]
      /\ Len(first.ledger) = Len(b.ledger) + 1
      /\ Traded(first) = Traded(b) + gross /\ Funded(first) = Funded(b) + (gross - gross)
      /\ Waiting(first) = Waiting(b) + gross /\ Named(events, first, Early(first))
  <2>1. k1 \in CashKinds /\ k1 # "funding"
    OBVIOUS
  <2> QED
    BY <2>1, RecordFacts
<1> HIDE DEF first
<1>3. first.journaled = b.journaled /\ first.journaled <= Len(first.ledger)
  <2>1. first.journaled = b.journaled
    BY <1>2 DEF BrokerType
  <2> QED
    BY <1>1, <1>2, <2>1
<1>4. Waiting(first) = gross /\ Funded(first) = Funded(b)
  BY <1>1, <1>2
<1>5. /\ c \in BrokerType /\ c = [first EXCEPT !.ledger = c.ledger]
      /\ Len(c.ledger) = Len(first.ledger) + 1
      /\ Traded(c) = Traded(first) + (-fee) /\ Funded(c) = Funded(first) + (-fee - (-fee))
      /\ Waiting(c) = Waiting(first) + (-fee) /\ Named(events, c, Early(c))
  <2>1. k2 \in CashKinds /\ k2 # "funding" /\ -fee \in Int
    OBVIOUS
  <2> QED
    BY <1>2, <1>3, <2>1, RecordFacts
<1> HIDE DEF c
<1>6. c.journaled = first.journaled /\ c = [b EXCEPT !.ledger = c.ledger]
  <2>1. c.journaled = first.journaled
    BY <1>2, <1>5 DEF BrokerType
  <2>2. [first EXCEPT !.ledger = c.ledger] = [b EXCEPT !.ledger = c.ledger]
    <3>1. first = [b EXCEPT !.ledger = first.ledger]
      BY <1>2
    <3> QED
      BY <3>1 DEF BrokerType
  <2> QED
    BY <1>5, <2>1, <2>2
<1>7. c.journaled <= Len(c.ledger)
  BY <1>1, <1>2, <1>3, <1>5, <1>6
<1>8. Waiting(c) = gross - fee /\ Traded(c) = Traded(b) + (gross - fee) /\ Funded(c) = Funded(b)
  BY <1>1, <1>2, <1>4, <1>5
<1> QED
  BY <1>2, <1>3, <1>4, <1>5, <1>6, <1>7, <1>8 DEF first, c

LEMMA CloseAtFacts ==
  ASSUME config \in Configs, NEW delivered \in Seq(Event), NEW b, Books(delivered, b),
         b.deferred = None, b.position # None,
         NEW kind \in {"stop_loss", "take_profit", "manual_close"},
         NEW q \in 1 .. b.position.qty, NEW price \in Int
  PROVE  /\ Exited(delivered, b, CloseAt(b, kind, q, price))
         /\ CloseAt(b, kind, q, price).fills[1].kind = kind
         /\ CloseAt(b, kind, q, price).broker.pending = b.pending
<1> DEFINE p == b.position
           left == p.qty - q
           fee == IF Costed THEN Commission(q, price, "taker") ELSE 0
           gross == (price - p.entry) * q * Sign(p.side)
           fill == [kind |-> kind, side |-> p.side, price |-> price, qty |-> q,
                    pnl |-> gross - fee, fee |-> fee, margin |-> 0,
                    status |-> IF left > 0 THEN "partial" ELSE "filled",
                    cumulative |-> b.exit_cumulative + q]
           traded == Record(b, "trade_pnl", gross)
           paid == IF fee = 0 THEN traded ELSE Record(traded, "commission", -fee)
           kept == Quotient(p.margin * left, p.qty)
           base == IF left > 0
                   THEN [paid EXCEPT !.position.qty = left,
                                     !.position.margin = Quotient(@ * left, p.qty),
                                     !.exit_cumulative = @ + q]
                   ELSE [paid EXCEPT !.position = None, !.exit_cumulative = 0, !.entry_bar = 0,
                                     !.last_close = price]
           reduced == [p EXCEPT !.qty = left, !.margin = kept]
           r == CloseAt(b, kind, q, price)
<1>1. /\ b \in BrokerType /\ p \in Position /\ Late(b) = {} /\ b.journaled <= Len(b.ledger)
      /\ Named(delivered \o b.events, b, Early(b))
      /\ HeldAtEnd(b.executed) = p.qty /\ NoReentry(b.executed)
  BY DEF Books, BrokerType, Quantity
<1>2. /\ p.qty \in Nat \ {0} /\ p.side \in Sides /\ p.entry \in Int /\ p.margin \in Nat
      /\ p.protected \in BOOLEAN /\ b.exit_cumulative \in Nat
  BY <1>1 DEF Position, BrokerType
<1>3. q \in Nat \ {0} /\ left \in Nat /\ q <= p.qty
  BY <1>2
<1>4. fee \in Int /\ gross \in Int
  <2>1. Sign(p.side) \in Int
    BY <1>2, SignFacts
  <2>2. gross \in Int
    BY <1>2, <1>3, <2>1
  <2>3. Commission(q, price, "taker") \in Int
    BY <1>3, CommissionType
  <2> QED
    BY <2>2, <2>3
<1>5. kept \in Nat
  <2>1. p.margin * left \in Int /\ p.margin * left >= 0
    BY <1>2, <1>3, SMTT(30)
  <2> QED
    BY <1>2, <2>1, QuotientFacts
<1>6. r = Reported(base, fill, p)
  BY DEF CloseAt
<1> HIDE DEF fee, gross, left, kept, r
<1>7. /\ fill \in Fill /\ fill.kind = kind /\ fill.side = p.side /\ fill.qty = q
      /\ fill.pnl = gross - fee /\ fill.status = IF left > 0 THEN "partial" ELSE "filled"
  BY <1>2, <1>3, <1>4 DEF Fill
<1> HIDE DEF fill
<1>8. /\ paid \in BrokerType /\ paid = [b EXCEPT !.ledger = paid.ledger]
      /\ paid.journaled <= Len(paid.ledger)
      /\ Named(delivered \o b.events, paid, Early(paid))
      /\ Waiting(paid) = gross - fee
      /\ Traded(paid) = Traded(b) + (gross - fee) /\ Funded(paid) = Funded(b)
  <2>1. "trade_pnl" \in CashKinds \ {"funding"} /\ "commission" \in CashKinds \ {"funding"}
    BY DEF CashKinds
  <2> DEFINE charged == Record(traded, "commission", -fee)
             events == delivered \o b.events
             k1 == "trade_pnl"
             k2 == "commission"
  <2>5. Named(events, b, Early(b)) /\ k1 \in CashKinds \ {"funding"} /\ k2 \in CashKinds \ {"funding"}
    BY <1>1, <2>1
  <2>6. traded = Record(b, k1, gross) /\ charged = Record(Record(b, k1, gross), k2, -fee)
    OBVIOUS
  <2> HIDE DEF events, k1, k2, traded, charged
  <2>2. /\ traded \in BrokerType /\ traded = [b EXCEPT !.ledger = traded.ledger]
        /\ traded.journaled <= Len(traded.ledger)
        /\ Named(events, traded, Early(traded))
        /\ Waiting(traded) = gross
        /\ Traded(traded) = Traded(b) + gross /\ Funded(traded) = Funded(b)
        /\ charged \in BrokerType /\ charged = [b EXCEPT !.ledger = charged.ledger]
        /\ charged.journaled <= Len(charged.ledger)
        /\ Named(events, charged, Early(charged))
        /\ Waiting(charged) = gross - fee
        /\ Traded(charged) = Traded(b) + (gross - fee) /\ Funded(charged) = Funded(b)
    <3> HIDE DEF p
    <3>1. b \in BrokerType /\ b.journaled <= Len(b.ledger) /\ Late(b) = {}
      BY <1>1
    <3> QED
      BY <1>4, <2>5, <2>6, <3>1, PaidFacts
  <2>3. paid = IF fee = 0 THEN traded ELSE charged
    BY DEF charged, traded, k2
  <2>4. fee = 0 => gross - fee = gross
    BY <1>4
  <2> QED
    BY <2>2, <2>3, <2>4 DEF events
<1>9. /\ paid.position = p /\ paid.pending = b.pending /\ paid.rejection = b.rejection
      /\ paid.deferred = None /\ paid.events = b.events /\ paid.executed = b.executed
      /\ paid.exit_cumulative = b.exit_cumulative /\ paid.journaled = b.journaled
  BY <1>1, <1>8 DEF BrokerType
<1> HIDE DEF paid
<1>10. left > 0 => reduced \in Position /\ reduced.qty = left
  <2> SUFFICES ASSUME left > 0 PROVE reduced \in Position /\ reduced.qty = left
    OBVIOUS
  <2>1. left \in Nat \ {0}
    BY <1>3
  <2> QED
    BY <1>1, <1>5, <2>1 DEF Position
<1>11. /\ base \in BrokerType
       /\ base.position = IF left > 0 THEN reduced ELSE None
       /\ base.ledger = paid.ledger /\ base.journaled = paid.journaled
       /\ base.events = paid.events /\ base.executed = paid.executed
       /\ base.deferred = paid.deferred /\ base.pending = paid.pending
       /\ base.rejection = paid.rejection
  <2>1. CASE left > 0
    <3>1. base = [paid EXCEPT !.position = reduced, !.exit_cumulative = b.exit_cumulative + q]
      <4>1. base = [paid EXCEPT !.position.qty = left,
                                !.position.margin = Quotient(@ * left, p.qty),
                                !.exit_cumulative = @ + q]
        BY <2>1
      <4> HIDE DEF base
      <4> QED
        BY <1>1, <1>8, <1>9, <4>1 DEF BrokerType, Position, kept
    <3> HIDE DEF base, reduced
    <3>2. b.exit_cumulative + q \in Nat
      BY <1>2, <1>3
    <3> QED
      BY <1>8, <1>10, <2>1, <3>1, <3>2 DEF BrokerType
  <2>2. CASE ~(left > 0)
    <3> DEFINE zero == 0
    <3>1. base = [paid EXCEPT !.position = None, !.exit_cumulative = zero, !.entry_bar = zero,
                              !.last_close = price]
      BY <2>2
    <3>2. zero \in Nat /\ zero \in Int
      OBVIOUS
    <3> HIDE DEF base, zero
    <3> QED
      BY <1>8, <2>2, <3>1, <3>2 DEF BrokerType
  <2> QED
    BY <2>1, <2>2
<1> HIDE DEF base
<1>12. Quantity(base) = p.qty - q
  <2>1. CASE left > 0
    BY <1>10, <1>11, <2>1, NotNone DEF Quantity, left
  <2>2. CASE ~(left > 0)
    <3>1. left = 0
      BY <1>3, <2>2
    <3> QED
      BY <1>11, <2>2, <3>1 DEF Quantity, left
  <2> QED
    BY <2>1, <2>2
<1>13. /\ base.journaled <= Len(base.ledger)
       /\ Named(delivered \o base.events, base, Early(base))
       /\ Waiting(base) = fill.pnl /\ base.deferred = None /\ NoReentry(base.executed)
       /\ HeldAtEnd(base.executed) - fill.qty = Quantity(base)
       /\ Traded(base) = Traded(paid) /\ Funded(base) = Funded(paid)
  BY <1>1, <1>7, <1>8, <1>9, <1>11, <1>12, SameLedger
<1>14. fill.kind # "entry" /\ fill.qty \in Nat
  BY <1>3, <1>7
<1>15. LET c == r.broker
           named == fill.kind \in {"manual_close", "liquidation"} \/ p.protected
       IN /\ r = [broker |-> c, fills |-> <<fill>>, raised |-> FALSE]
          /\ Books(delivered, c)
          /\ c.ledger = base.ledger /\ c.position = base.position /\ c.pending = base.pending
          /\ c.rejection = base.rejection
          /\ named => c.deferred = None
          /\ ~named => c.deferred # None /\ c.deferred.position = p
  <2>1. base \in BrokerType
    BY <1>11
  <2> HIDE DEF p
  <2> QED
    BY <1>1, <1>6, <1>7, <1>13, <1>14, <2>1, ReportedFacts
<1>16. r.fills = <<fill>>
  BY <1>15
<1>17. r.fills[1] = fill
  BY <1>16
<1>18. Traded(r.broker) = Traded(b) + fill.pnl /\ Funded(r.broker) = Funded(b)
  BY <1>7, <1>8, <1>13, <1>15, SameLedger
<1>19. Left(p, fill, r.broker.position)
  <2>1. CASE left > 0
    <3>1. fill.status = "partial" /\ fill.qty = q /\ r.broker.position = reduced
      BY <1>7, <1>11, <1>15, <2>1
    <3>2. fill.qty < p.qty /\ p.qty - fill.qty = left
      BY <1>2, <1>3, <2>1, <3>1 DEF left
    <3> QED
      BY <3>1, <3>2 DEF Left, kept
  <2>2. CASE ~(left > 0)
    BY <1>7, <1>11, <1>15, <2>2 DEF Left
  <2> QED
    BY <2>1, <2>2
<1>20. r.broker.pending = b.pending /\ r.broker.rejection = b.rejection
  BY <1>9, <1>11, <1>15
<1>21. /\ p.protected => r.broker.deferred = None
       /\ fill.kind \in {"stop_loss", "take_profit"} /\ ~p.protected =>
            r.broker.deferred # None /\ r.broker.deferred.position = p
  BY <1>7, <1>15
<1>22. r = [broker |-> r.broker, fills |-> <<fill>>, raised |-> FALSE]
       /\ Books(delivered, r.broker)
  BY <1>15
<1>23. Exited(delivered, b, r)
  BY <1>7, <1>14, <1>17, <1>18, <1>19, <1>20, <1>21, <1>22 DEF Exited
<1> QED
  BY <1>7, <1>17, <1>20, <1>23 DEF r

\* r did nothing.
Idle(b, r) == r = [broker |-> b, fills |-> <<>>, raised |-> FALSE]

LEMMA CloseFacts ==
  ASSUME config \in Configs, NEW delivered \in Seq(Event), NEW b, Books(delivered, b),
         b.deferred = None, b.position # None,
         NEW kind \in {"stop_loss", "take_profit", "manual_close"},
         NEW reference \in Int, NEW cap \in Nat
  PROVE  LET r == Close(b, reference, kind, cap)
         IN \/ Idle(b, r)
            \/ /\ Exited(delivered, b, r) /\ r.fills[1].kind = kind
               /\ r.broker.pending = b.pending
<1> DEFINE p == b.position
           q == Min({p.qty, cap})
           price == IF Costed THEN Adjusted(reference, Opposite(p.side)) ELSE reference
<1>1. p.qty \in Nat \ {0} /\ p.side \in Sides
  BY DEF Books, BrokerType, Position
<1>2. q \in 0 .. p.qty
  BY <1>1, MinFacts
<1>3. price \in Int
  BY <1>1, SignFacts, AdjustedFacts
<1>4. Close(b, reference, kind, cap)
        = IF q = 0 THEN Result(b, <<>>) ELSE CloseAt(b, kind, q, price)
  BY DEF Close
<1> HIDE DEF q, price
<1>5. CASE q = 0
  BY <1>4, <1>5 DEF Idle, Result
<1>6. CASE q # 0
  <2>1. q \in 1 .. p.qty
    BY <1>1, <1>2, <1>6
  <2> QED
    BY <1>3, <1>4, <1>6, <2>1, CloseAtFacts
<1> QED
  BY <1>5, <1>6

LEMMA ExitCrossFacts ==
  ASSUME config \in Configs, NEW delivered \in Seq(Event), NEW b, Books(delivered, b),
         b.deferred = None, NEW bar \in Bars, NEW time, NEW gap \in BOOLEAN, NEW cap \in Nat
  PROVE  LET r == ExitCross(b, bar, time, gap, cap)
         IN \/ Idle(b, r)
            \/ /\ b.position # None
               /\ Exited(delivered, b, r) /\ r.fills[1].kind \in {"stop_loss", "take_profit"}
               /\ r.broker.pending = b.pending
<1> DEFINE p == b.position
           touched == IF gap /\ Adverse(p.side, bar.open, p.stop) THEN <<"stop_loss", bar.open>>
                      ELSE IF gap /\ Favourable(p.side, bar.open, p.target)
                           THEN <<"take_profit", bar.open>>
                      ELSE IF Adverse(p.side, Worst(p.side, bar), p.stop)
                           THEN <<"stop_loss", p.stop>>
                      ELSE IF Favourable(p.side, Best(p.side, bar), p.target)
                           THEN <<"take_profit", p.target>>
                      ELSE <<>>
           r == ExitCross(b, bar, time, gap, cap)
<1>1. r = IF p = None THEN Result(b, <<>>)
          ELSE IF time < p.active \/ touched = <<>> THEN Result(b, <<>>)
          ELSE Close(b, touched[2], touched[1], cap)
  BY DEF ExitCross
<1>2. CASE p = None \/ (time < p.active \/ touched = <<>>)
  <2> HIDE DEF touched
  <2> QED
    BY <1>1, <1>2 DEF Idle, Result
<1>3. CASE ~(p = None \/ (time < p.active \/ touched = <<>>))
  <2>1. p \in Position
    BY <1>3 DEF Books, BrokerType
  <2>2. p.stop \in Int /\ p.target \in Int /\ bar.open \in Int
    BY <2>1, BarFacts DEF Position
  <2>3. touched # <<>>
    BY <1>3
  <2>4. touched[1] \in {"stop_loss", "take_profit"} /\ touched[2] \in Int
    <3> DEFINE t1 == gap /\ Adverse(p.side, bar.open, p.stop)
               t2 == gap /\ Favourable(p.side, bar.open, p.target)
               t3 == Adverse(p.side, Worst(p.side, bar), p.stop)
               t4 == Favourable(p.side, Best(p.side, bar), p.target)
    <3>1. touched = IF t1 THEN <<"stop_loss", bar.open>>
                    ELSE IF t2 THEN <<"take_profit", bar.open>>
                    ELSE IF t3 THEN <<"stop_loss", p.stop>>
                    ELSE IF t4 THEN <<"take_profit", p.target>> ELSE <<>>
      OBVIOUS
    <3> HIDE DEF touched, t1, t2, t3, t4, p
    <3> QED
      BY <2>2, <2>3, <3>1
  <2> HIDE DEF touched
  <2>5. r = Close(b, touched[2], touched[1], cap)
    BY <1>1, <1>3
  <2>6. touched[1] \in {"stop_loss", "take_profit", "manual_close"}
    BY <2>4
  <2>7. b.position # None
    BY <1>3
  <2> HIDE DEF r
  <2>8. \/ Idle(b, r)
        \/ /\ Exited(delivered, b, r) /\ r.fills[1].kind = touched[1]
           /\ r.broker.pending = b.pending
    BY <2>4, <2>5, <2>6, <2>7, CloseFacts
  <2> QED
    BY <2>4, <2>7, <2>8 DEF r
<1> QED
  BY <1>2, <1>3

\* Liquidation closes all of it and drops the working entry.
LEMMA LiquidateFacts ==
  ASSUME config \in Configs, NEW delivered \in Seq(Event), NEW b, Books(delivered, b),
         b.deferred = None, b.position # None, NEW bar \in Bars
  PROVE  LET r == Liquidate(b, bar)
         IN /\ Exited(delivered, b, r) /\ r.broker.pending = None /\ r.broker.deferred = None
<1> DEFINE p == b.position
           fee == Quotient(p.qty * bar.mark * LiquidationFee, Scale)
           gross == Unrealized(b, bar.mark)
           fill == [kind |-> "liquidation", side |-> p.side, price |-> bar.mark, qty |-> p.qty,
                    pnl |-> gross - fee, fee |-> fee, margin |-> 0, status |-> "filled",
                    cumulative |-> None]
           paid == Record(Record(b, "trade_pnl", gross), "liquidation_fee", -fee)
           base == [paid EXCEPT !.position = None, !.pending = None, !.entry_bar = 0,
                                !.last_close = bar.mark]
           r == Liquidate(b, bar)
<1>1. /\ b \in BrokerType /\ p \in Position /\ Late(b) = {} /\ b.journaled <= Len(b.ledger)
      /\ Named(delivered \o b.events, b, Early(b))
      /\ HeldAtEnd(b.executed) = p.qty /\ NoReentry(b.executed)
  BY DEF Books, BrokerType, Quantity
<1>2. /\ p.qty \in Nat \ {0} /\ p.side \in Sides /\ p.entry \in Int /\ bar.mark \in Nat
  BY <1>1, BarFacts DEF Position
<1>3. fee \in Int /\ gross \in Int
  <2>1. Sign(p.side) \in Int
    BY <1>2, SignFacts
  <2>2. gross = (bar.mark - p.entry) * p.qty * Sign(p.side)
    BY DEF Unrealized
  <2>3. p.qty * bar.mark * LiquidationFee \in Int /\ Scale \in Nat \ {0}
    BY <1>2, ConfigFacts
  <2>4. fee \in Int
    BY <2>3, QuotientFacts
  <2> HIDE DEF gross, fee
  <2> QED
    BY <1>2, <2>1, <2>2, <2>4
<1>4. r = Reported(base, fill, p)
  BY DEF Liquidate
<1> HIDE DEF fee, gross, r
<1>5. /\ fill \in Fill /\ fill.kind = "liquidation" /\ fill.side = p.side /\ fill.qty = p.qty
      /\ fill.pnl = gross - fee /\ fill.status = "filled"
  BY <1>2, <1>3 DEF Fill
<1> HIDE DEF fill
<1>6. /\ paid \in BrokerType /\ paid = [b EXCEPT !.ledger = paid.ledger]
      /\ paid.journaled <= Len(paid.ledger)
      /\ Named(delivered \o b.events, paid, Early(paid))
      /\ Waiting(paid) = gross - fee
      /\ Traded(paid) = Traded(b) + (gross - fee) /\ Funded(paid) = Funded(b)
  <2> DEFINE events == delivered \o b.events
             k1 == "trade_pnl"
             k2 == "liquidation_fee"
  <2>1. k1 \in CashKinds \ {"funding"} /\ k2 \in CashKinds \ {"funding"}
    BY DEF CashKinds
  <2>2. paid = Record(Record(b, k1, gross), k2, -fee)
    OBVIOUS
  <2>3. b \in BrokerType /\ b.journaled <= Len(b.ledger) /\ Late(b) = {}
        /\ Named(events, b, Early(b))
    BY <1>1
  <2> HIDE DEF events, k1, k2, paid, p
  <2>4. /\ paid \in BrokerType /\ paid = [b EXCEPT !.ledger = paid.ledger]
        /\ paid.journaled <= Len(paid.ledger)
        /\ Named(events, paid, Early(paid))
        /\ Waiting(paid) = gross - fee
        /\ Traded(paid) = Traded(b) + (gross - fee) /\ Funded(paid) = Funded(b)
    BY <1>3, <2>1, <2>2, <2>3, PaidFacts
  <2> QED
    BY <2>4 DEF events
<1>7. /\ paid.rejection = b.rejection /\ paid.deferred = None /\ paid.events = b.events
      /\ paid.executed = b.executed /\ paid.journaled = b.journaled
  BY <1>1, <1>6 DEF BrokerType
<1> HIDE DEF paid
<1>8. /\ base \in BrokerType /\ base.position = None /\ base.pending = None
      /\ base.ledger = paid.ledger /\ base.journaled = paid.journaled
      /\ base.events = paid.events /\ base.executed = paid.executed
      /\ base.deferred = paid.deferred /\ base.rejection = paid.rejection
  <2> DEFINE zero == 0
  <2>1. base = [paid EXCEPT !.position = None, !.pending = None, !.entry_bar = zero,
                            !.last_close = bar.mark]
    OBVIOUS
  <2>2. zero \in Int /\ bar.mark \in Int
    BY <1>2
  <2> HIDE DEF base, zero
  <2> QED
    BY <1>6, <2>1, <2>2 DEF BrokerType
<1> HIDE DEF base
<1>9. Quantity(base) = 0
  BY <1>8 DEF Quantity
<1>10. /\ base.journaled <= Len(base.ledger)
       /\ Named(delivered \o base.events, base, Early(base))
       /\ Waiting(base) = fill.pnl /\ base.deferred = None /\ NoReentry(base.executed)
       /\ HeldAtEnd(base.executed) - fill.qty = Quantity(base)
       /\ Traded(base) = Traded(paid) /\ Funded(base) = Funded(paid)
  BY <1>1, <1>2, <1>5, <1>6, <1>7, <1>8, <1>9, SameLedger
<1>11. fill.kind # "entry" /\ fill.qty \in Nat
  BY <1>2, <1>5
<1>12. LET c == r.broker
       IN /\ r = [broker |-> c, fills |-> <<fill>>, raised |-> FALSE]
          /\ Books(delivered, c)
          /\ c.ledger = base.ledger /\ c.position = base.position /\ c.pending = base.pending
          /\ c.rejection = base.rejection /\ c.deferred = None
  <2>1. base \in BrokerType
    BY <1>8
  <2>2. fill.kind \in {"manual_close", "liquidation"}
    BY <1>5
  <2> HIDE DEF p
  <2> QED
    BY <1>1, <1>4, <1>5, <1>10, <1>11, <2>1, <2>2, ReportedFacts
<1>13. r.fills[1] = fill
  BY <1>12
<1>14. Traded(r.broker) = Traded(b) + fill.pnl /\ Funded(r.broker) = Funded(b)
  BY <1>5, <1>6, <1>10, <1>12, SameLedger
<1>15. Left(p, fill, r.broker.position)
  BY <1>5, <1>8, <1>12 DEF Left
<1>16. fill.kind \notin {"stop_loss", "take_profit"}
  BY <1>5
<1>17. Exited(delivered, b, r)
  BY <1>5, <1>7, <1>8, <1>11, <1>12, <1>13, <1>14, <1>15, <1>16 DEF Exited
<1> QED
  BY <1>8, <1>12, <1>17 DEF r

-----------------------------------------------------------------------------
(***************************************************************************)
(* Entering.                                                               *)
(***************************************************************************)
\* What fill made of position p.
Grown(p, fill, after) ==
  /\ after \in Position /\ fill.margin \in Nat
  /\ IF p = None
     THEN /\ after.side = fill.side /\ after.entry = fill.price /\ after.qty = fill.qty
          /\ after.margin = fill.margin /\ ~after.protected
     ELSE /\ after.side = p.side /\ after.stop = p.stop /\ after.protected = p.protected
          /\ after.entry = AveragePrice(p.entry, p.qty, fill.price, fill.qty)
          /\ after.qty = p.qty + fill.qty /\ after.margin = p.margin + fill.margin

\* r opened the position of b, or added to it.
Opened(delivered, b, r) ==
  LET c == r.broker
      f == r.fills[1]
  IN /\ r = [broker |-> c, fills |-> <<f>>, raised |-> FALSE]
     /\ f \in Fill /\ f.kind = "entry"
     /\ Books(delivered, c) /\ Adds(c)
     /\ c.deferred = None /\ c.rejection = b.rejection
     /\ Grown(b.position, f, c.position)
     /\ Traded(c) = Traded(b) + f.pnl /\ f.pnl = -f.fee
     /\ b.pending # None

LEMMA AverageType ==
  ASSUME NEW price \in Int, NEW qty \in Nat \ {0}, NEW newPrice \in Int, NEW newQty \in Nat \ {0}
  PROVE  AveragePrice(price, qty, newPrice, newQty) \in Int
<1>1. price * qty + newPrice * newQty \in Int /\ qty + newQty \in Nat \ {0}
  OBVIOUS
<1> QED
  BY <1>1, QuotientFacts DEF AveragePrice

LEMMA OpenFacts ==
  ASSUME config \in Configs, NEW delivered \in Seq(Event), NEW b, Books(delivered, b), Adds(b),
         b.deferred = None, b.pending # None,
         NEW size \in Nat, NEW q \in 1 .. size, NEW price \in Nat, NEW time \in Int
  PROVE  /\ Opened(delivered, b, Open(b, b.pending, size, q, price, time))
         /\ Open(b, b.pending, size, q, price, time).fills[1].qty = q
         /\ size = q => Open(b, b.pending, size, q, price, time).broker.pending = None
<1> DEFINE o == b.pending
           p == b.position
           fee == IF Costed THEN Commission(q, price, Role(o.type)) ELSE 0
           margin == IF Costed THEN RequiredMargin(q, price) ELSE 0
           left == size - q
           fill == [kind |-> "entry", side |-> o.side, price |-> price, qty |-> q, pnl |-> -fee,
                    fee |-> fee, margin |-> margin,
                    status |-> IF left > 0 THEN "partial" ELSE "filled",
                    cumulative |-> o.filled + q]
           paid == IF Costed THEN Record(b, "commission", -fee) ELSE b
           fresh == [side |-> o.side, entry |-> price, qty |-> q, stop |-> o.stop,
                     target |-> o.target, protected |-> FALSE, fee |-> fee, margin |-> margin,
                     active |-> IF Proxied THEN time + ProtectionDelay ELSE 0]
           grown == [p EXCEPT !.entry = AveragePrice(@, p.qty, price, q), !.qty = @ + q,
                              !.fee = @ + fee, !.margin = @ + margin]
           held == IF p = None THEN fresh ELSE grown
           rest == Rest(o, size, q)
           base == [paid EXCEPT !.position = held, !.pending = rest,
                                !.entry_bar = time, !.last_close = price]
           x == [kind |-> fill.kind, side |-> fill.side, qty |-> fill.qty, price |-> fill.price,
                 fee |-> fill.fee]
           d == Executed(base, fill)
           c == RecordFill(d, fill, "entry")
           r == Open(b, o, size, q, price, time)
<1>1. /\ b \in BrokerType /\ o \in Order /\ (p # None => p \in Position) /\ Late(b) = {}
      /\ b.journaled <= Len(b.ledger) /\ Named(delivered \o b.events, b, Early(b))
      /\ HeldAtEnd(b.executed) = Quantity(b) /\ NoReentry(b.executed) /\ MayAdd(b.executed)
  BY DEF Books, BrokerType, Adds
<1>2. /\ o.side \in Sides /\ o.stop \in Int /\ o.target \in Int /\ o.filled \in Nat
      /\ q \in Nat \ {0} /\ left \in Nat /\ q <= size
  BY <1>1 DEF Order
<1>3. fee \in Int /\ margin \in Nat
  <2>1. Commission(q, price, Role(o.type)) \in Int
    <3>1. q \in Int /\ price \in Int /\ Role(o.type) \in {"maker", "taker"}
      BY <1>2, RoleFacts
    <3> QED
      BY <3>1, CommissionType
  <2>2. RequiredMargin(q, price) \in Nat
    BY <1>2, MarginFacts
  <2> QED
    BY <2>1, <2>2
<1>4. r = [broker |-> c, fills |-> <<fill>>, raised |-> FALSE]
  BY DEF Open, Result
<1>5. ~Costed => fee = 0
  OBVIOUS
<1> HIDE DEF fee, margin, left, r
<1>6. /\ fill \in Fill /\ fill.kind = "entry" /\ fill.side = o.side /\ fill.qty = q
      /\ fill.pnl = -fee /\ fill.price = price /\ fill.margin = margin /\ fill.fee = fee
  BY <1>2, <1>3 DEF Fill
<1>7. x \in Execution /\ x.kind = "entry" /\ x.qty = q
  BY <1>2, <1>3 DEF Execution, FillKinds
<1>8. base = [paid EXCEPT !.position = held, !.pending = rest,
                          !.entry_bar = time, !.last_close = price]
      /\ d = [base EXCEPT !.executed = Append(base.executed, x)]
  BY DEF Executed
<1>9. fresh \in Position
  <2>1. (IF Proxied THEN time + ProtectionDelay ELSE 0) \in Int
    BY ConfigFacts
  <2> QED
    BY <1>2, <1>3, <2>1 DEF Position
<1>10. ASSUME p # None
       PROVE  /\ grown \in Position
              /\ grown.side = p.side /\ grown.stop = p.stop /\ grown.protected = p.protected
              /\ grown.entry = AveragePrice(p.entry, p.qty, price, q)
              /\ grown.qty = p.qty + q /\ grown.margin = p.margin + margin
  <2>1. p \in Position /\ p.entry \in Int /\ p.qty \in Nat \ {0} /\ p.fee \in Int
        /\ p.margin \in Nat
    BY <1>1, <1>10 DEF Position
  <2>2. AveragePrice(p.entry, p.qty, price, q) \in Int
    <3>1. price \in Int /\ q \in Nat \ {0}
      BY <1>2
    <3> HIDE DEF p
    <3> QED
      BY <2>1, <3>1, AverageType
  <2>3. p.qty + q \in Nat \ {0} /\ p.fee + fee \in Int /\ p.margin + margin \in Nat
    BY <1>2, <1>3, <2>1
  <2> HIDE DEF p
  <2> QED
    BY <2>1, <2>2, <2>3 DEF Position
<1>11. fresh.side = o.side /\ fresh.entry = price /\ fresh.qty = q /\ fresh.margin = margin
       /\ ~fresh.protected
  OBVIOUS
<1> HIDE DEF fill, x, fresh, grown
<1>12. Grown(p, fill, held) /\ held \in Position
  BY <1>3, <1>6, <1>9, <1>10, <1>11 DEF Grown
<1>13. held.qty = Quantity(b) + q
  <2>1. CASE p = None
    BY <1>2, <1>11, <2>1 DEF Quantity
  <2>2. CASE p # None
    BY <1>10, <2>2 DEF Quantity
  <2> QED
    BY <2>1, <2>2
<1>14. rest \in Order \cup {None} /\ (size = q => rest = None)
  <2>1. CASE size > q /\ Remainder = "carry"
    <3> DEFINE unfilled == size - q
               filled == o.filled + q
    <3>1. rest = [o EXCEPT !.qty = unfilled, !.filled = filled]
      BY <2>1 DEF Rest
    <3>2. unfilled \in Nat \ {0} /\ filled \in Nat /\ size # q
      BY <1>2, <2>1
    <3> HIDE DEF rest, o, unfilled, filled
    <3>3. [o EXCEPT !.qty = unfilled, !.filled = filled] \in Order
      BY <1>1, <3>2 DEF Order
    <3> QED
      BY <3>1, <3>2, <3>3
  <2>2. CASE ~(size > q /\ Remainder = "carry")
    BY <2>2 DEF Rest
  <2> QED
    BY <2>1, <2>2
<1> HIDE DEF held, rest
<1>15. /\ paid \in BrokerType /\ paid = [b EXCEPT !.ledger = paid.ledger]
       /\ paid.journaled <= Len(paid.ledger)
       /\ Named(delivered \o b.events, paid, Early(paid))
       /\ Waiting(paid) = -fee /\ Traded(paid) = Traded(b) + (-fee)
  <2>1. Waiting(b) = 0 /\ Traded(b) \in Int
    BY <1>1, NoneWaits, LedgerFacts
  <2>2. CASE Costed
    <3> DEFINE events == delivered \o b.events
               kind == "commission"
               amount == -fee
    <3>1. kind \in CashKinds /\ kind # "funding" /\ amount \in Int /\ Named(events, b, Early(b))
      BY <1>1, <1>3 DEF CashKinds
    <3>2. paid = Record(b, kind, amount)
      BY <2>2
    <3>3. b \in BrokerType /\ b.journaled <= Len(b.ledger) /\ b.journaled \in Nat
          /\ Len(b.ledger) \in Nat
      BY <1>1 DEF BrokerType
    <3> HIDE DEF events, kind, amount, paid
    <3>4. /\ paid \in BrokerType /\ paid = [b EXCEPT !.ledger = paid.ledger]
          /\ Len(paid.ledger) = Len(b.ledger) + 1
          /\ Traded(paid) = Traded(b) + amount /\ Waiting(paid) = Waiting(b) + amount
          /\ Named(events, paid, Early(paid))
      BY <3>1, <3>2, <3>3, RecordFacts
    <3>5. paid.journaled = b.journaled
      BY <3>3, <3>4 DEF BrokerType
    <3>6. paid.journaled <= Len(paid.ledger)
      BY <3>3, <3>4, <3>5
    <3>7. Waiting(paid) = amount
      BY <2>1, <3>1, <3>4
    <3> QED
      BY <3>4, <3>6, <3>7 DEF events, amount
  <2>3. CASE ~Costed
    <3>1. paid = b /\ -fee = 0 /\ Traded(b) = Traded(b) + (-fee)
      <4>1. fee = 0 /\ paid = b
        BY <1>5, <2>3
      <4>2. -fee = 0
        <5> DEFINE negative == -fee
        <5>1. negative \in Int /\ negative + fee = 0
          BY <1>3
        <5> HIDE DEF negative
        <5>2. negative = 0
          BY <4>1, <5>1
        <5> QED
          BY <5>2 DEF negative
      <4>3. Traded(b) = Traded(b) + (-fee)
        BY <2>1, <4>2
      <4> QED
        BY <4>1, <4>2, <4>3
    <3> HIDE DEF paid
    <3>2. b = [b EXCEPT !.ledger = b.ledger]
      BY <1>1 DEF BrokerType
    <3> QED
      BY <1>1, <2>1, <3>1, <3>2
  <2> QED
    BY <2>2, <2>3
<1>16. /\ paid.rejection = b.rejection /\ paid.deferred = None /\ paid.events = b.events
       /\ paid.executed = b.executed /\ paid.journaled = b.journaled
  BY <1>1, <1>15 DEF BrokerType
<1> HIDE DEF paid, base, d
<1>17. /\ base \in BrokerType /\ base.position = held /\ base.pending = rest
       /\ base.ledger = paid.ledger /\ base.journaled = paid.journaled
       /\ base.events = paid.events /\ base.executed = paid.executed
       /\ base.deferred = paid.deferred /\ base.rejection = paid.rejection
  <2>1. price \in Int
    OBVIOUS
  <2> QED
    BY <1>8, <1>12, <1>14, <1>15, <2>1 DEF BrokerType
<1>18. /\ Append(b.executed, x) \in Seq(Execution)
       /\ HeldAtEnd(Append(b.executed, x)) = HeldAtEnd(b.executed) + q
       /\ NoReentry(Append(b.executed, x)) /\ MayAdd(Append(b.executed, x))
  <2>1. b.executed \in Seq(Execution)
    BY <1>1 DEF BrokerType
  <2>2. x.kind \in {"entry", "funding"}
    BY <1>7
  <2>3. /\ Append(b.executed, x) \in Seq(Execution)
        /\ HeldAtEnd(Append(b.executed, x)) = HeldAtEnd(b.executed) + x.qty
    BY <1>7, <2>1, HeldFacts
  <2> QED
    BY <1>1, <1>7, <2>1, <2>2, <2>3, ExecutionFacts
<1>19. /\ d \in BrokerType /\ d.position = held /\ d.pending = rest
       /\ d.ledger = paid.ledger /\ d.journaled = paid.journaled
       /\ d.events = paid.events /\ d.executed = Append(b.executed, x)
       /\ d.deferred = None /\ d.rejection = b.rejection
  BY <1>8, <1>16, <1>17, <1>18 DEF BrokerType
<1>20. /\ d.journaled <= Len(d.ledger) /\ Named(delivered \o d.events, d, Early(d))
       /\ Waiting(d) = fill.pnl /\ Traded(d) = Traded(b) + fill.pnl
  BY <1>6, <1>15, <1>16, <1>19, SameLedger
<1> DEFINE role == "entry"
<1>21. role \in Roles /\ c = RecordFill(d, fill, role)
  BY DEF Roles
<1> HIDE DEF role, c
<1>22. /\ c \in BrokerType /\ Late(c) = {} /\ Named(delivered \o c.events, c, Early(c))
       /\ c = [d EXCEPT !.events = c.events, !.journaled = Len(d.ledger)]
  BY <1>6, <1>19, <1>20, <1>21, RecordFillFacts
<1>23. /\ c.ledger = d.ledger /\ c.journaled = Len(d.ledger) /\ c.deferred = None
       /\ c.executed = d.executed /\ c.position = held /\ c.pending = rest
       /\ c.rejection = b.rejection /\ Len(d.ledger) \in Nat
  BY <1>19, <1>22 DEF BrokerType
<1>24. Traded(c) = Traded(b) + fill.pnl
  BY <1>20, <1>23, SameLedger
<1>25. HeldAtEnd(c.executed) = Quantity(c)
  BY <1>1, <1>12, <1>13, <1>18, <1>19, <1>23, NotNone DEF Quantity
<1>26. Books(delivered, c) /\ Adds(c)
  BY <1>18, <1>19, <1>22, <1>23, <1>25 DEF Books, Adds
<1>27. r.broker = c /\ r.fills[1] = fill
  BY <1>4
<1>28. Grown(b.position, fill, c.position)
  BY <1>12, <1>23
<1>29. Opened(delivered, b, r)
  <2>1. fill.pnl = -fill.fee
    BY <1>6
  <2> QED
    BY <1>4, <1>6, <1>23, <1>24, <1>26, <1>27, <1>28, <2>1 DEF Opened
<1> QED
  BY <1>6, <1>14, <1>23, <1>27, <1>29 DEF r

\* What SameLedger leaves to show when the position and the executions stay too.
LEMMA BooksKept ==
  ASSUME NEW delivered, NEW b, Books(delivered, b), NEW c \in BrokerType,
         c.ledger = b.ledger, c.journaled = b.journaled, c.events = b.events,
         c.deferred = b.deferred, c.position = b.position, c.executed = b.executed
  PROVE  Books(delivered, c) /\ Traded(c) = Traded(b) /\ (c.pending = b.pending => Adds(c) = Adds(b))
<1>1. /\ Early(c) = Early(b) /\ Late(c) = Late(b) /\ Waiting(c) = Waiting(b)
      /\ Traded(c) = Traded(b)
      /\ \A events, N : Named(events, c, N) <=> Named(events, b, N)
  BY SameLedger
<1>2. Books(delivered, c)
  BY <1>1 DEF Books, Quantity
<1>3. c.pending = b.pending => Adds(c) = Adds(b)
  BY DEF Adds
<1> QED
  BY <1>1, <1>2, <1>3

LEMMA EntryCrossFacts ==
  ASSUME config \in Configs, NEW o \in Order, NEW bar \in Bars, EntryCross(o, bar) # None
  PROVE  /\ EntryCross(o, bar) \in Nat
         /\ o.type = "limit" /\ o.side = "buy" => o.entry \in Nat
<1> DEFINE m == EntryCross(o, bar)
<1>1. /\ bar.open \in Nat /\ bar.high \in Nat /\ bar.low \in Nat /\ bar.low > 0
      /\ bar.low <= bar.open /\ bar.open <= bar.high
  BY BarFacts
<1>2. o.entry \in Int /\ o.side \in {"buy", "sell"} /\ o.type \in {"market", "limit", "stop"}
  BY DEF Order, Sides, Types
<1>3. CASE o.type = "market"
  BY <1>1, <1>3 DEF EntryCross
<1>4. CASE o.type = "limit"
  <2>1. CASE Adverse(o.side, bar.open, o.entry)
    <3>1. m = bar.open
      BY <1>4, <2>1 DEF EntryCross
    <3>2. o.side = "buy" => bar.open <= o.entry
      BY <1>1, <1>2, <2>1 DEF Adverse, Sign
    <3> QED
      BY <1>1, <1>2, <3>1, <3>2
  <2>2. CASE ~Adverse(o.side, bar.open, o.entry)
    <3>1. o.entry \in bar.low .. bar.high /\ m = o.entry
      BY <1>4, <2>2 DEF EntryCross
    <3> QED
      BY <1>1, <1>2, <3>1
  <2> QED
    BY <2>1, <2>2
<1>5. CASE o.type = "stop"
  <2>1. CASE Favourable(o.side, bar.open, o.entry)
    BY <1>1, <1>5, <2>1 DEF EntryCross
  <2>2. CASE ~Favourable(o.side, bar.open, o.entry)
    <3>1. Favourable(o.side, Best(o.side, bar), o.entry) /\ m = o.entry
      BY <1>5, <2>2 DEF EntryCross
    <3>2. o.entry >= 0
      BY <1>1, <1>2, <2>2, <3>1 DEF Favourable, Best, Sign
    <3> QED
      BY <1>2, <1>5, <3>1, <3>2
  <2> QED
    BY <2>1, <2>2
<1> QED
  BY <1>2, <1>3, <1>4, <1>5

\* An entry never fills at a negative price.
LEMMA EntryPriceFacts ==
  ASSUME config \in Configs, NEW o \in Order, NEW bar \in Bars, EntryCross(o, bar) # None
  PROVE  EntryPrice(o, EntryCross(o, bar)) \in Nat
<1> DEFINE m == EntryCross(o, bar)
           adjusted == Adjusted(m, o.side)
<1>1. m \in Nat /\ (o.type = "limit" /\ o.side = "buy" => o.entry \in Nat)
  BY EntryCrossFacts
<1>2. o.entry \in Int /\ o.side \in {"buy", "sell"}
  BY DEF Order, Sides
<1>3. adjusted \in Nat
  <2>1. o.side \in Sides /\ m \in Int /\ m >= 0
    BY <1>1, <1>2 DEF Sides
  <2> HIDE DEF m
  <2> QED
    BY <2>1, AdjustedFacts
<1>4. EntryPrice(o, m) = IF ~Costed THEN m
                         ELSE IF o.type = "limit" /\ Favourable(o.side, adjusted, o.entry)
                              THEN o.entry ELSE adjusted
  BY DEF EntryPrice
<1> HIDE DEF m, adjusted
<1>5. o.type = "limit" /\ Favourable(o.side, adjusted, o.entry) => o.entry \in Nat
  <2>1. CASE o.side = "buy"
    BY <1>1, <2>1
  <2>2. CASE o.side = "sell"
    BY <1>2, <1>3, <2>2 DEF Favourable, Sign
  <2> QED
    BY <1>2, <2>1, <2>2
<1>6. EntryPrice(o, m) \in Nat
  BY <1>1, <1>3, <1>4, <1>5
<1> QED
  BY <1>6 DEF m

LEMMA AbsType == \A n \in Int : Abs(n) \in Int
  BY DEF Abs

LEMMA RiskSizeType ==
  ASSUME config \in Configs, NEW b \in BrokerType, NEW o \in Order, NEW price \in Nat
  PROVE  RiskSize(b, o, price) \in Nat
<1> DEFINE p == b.position
<1>1. p # None => /\ p \in Position /\ p.stop \in Int /\ p.entry \in Int /\ p.qty \in Int
                  /\ p.fee \in Int /\ p.side \in Sides
  BY DEF BrokerType, Position
<1>2. o.budget \in Int /\ o.stop \in Int /\ o.side \in Sides
  BY DEF Order
<1>3. RiskLeft(b, o) \in Int
  <2>1. CASE p = None
    BY <1>2, <2>1 DEF RiskLeft
  <2>2. CASE p # None
    <3> DEFINE stopFill == Adjusted(p.stop, Opposite(p.side))
               paid == Commission(p.qty, stopFill, "taker")
               lost == Abs(p.entry - stopFill)
    <3>1. stopFill \in Int
      BY <1>1, <2>2, SignFacts, AdjustedFacts
    <3>2. paid \in Int /\ lost \in Int
      <4>1. p.entry - stopFill \in Int
        BY <1>1, <2>2, <3>1
      <4> HIDE DEF stopFill
      <4> QED
        BY <1>1, <2>2, <3>1, <4>1, CommissionType, AbsType
    <3>3. RiskLeft(b, o) = o.budget - lost * p.qty - p.fee - paid
      BY <2>2 DEF RiskLeft
    <3> HIDE DEF paid, lost
    <3> QED
      BY <1>1, <1>2, <2>2, <3>2, <3>3
  <2> QED
    BY <2>1, <2>2
<1>4. UnitRisk(b, o, price) \in Int
  <2> DEFINE stop == IF b.position = None THEN o.stop ELSE b.position.stop
             stopFill == Adjusted(stop, Opposite(o.side))
             opening == Commission(1, price, Role(o.type))
             closing == Commission(1, stopFill, "taker")
             lost == Abs(price - stopFill)
  <2>1. stop \in Int
    BY <1>1, <1>2
  <2>2. stopFill \in Int
    <3> HIDE DEF stop
    <3> QED
      BY <1>2, <2>1, SignFacts, AdjustedFacts
  <2>3. price \in Int /\ price - stopFill \in Int /\ Role(o.type) \in {"maker", "taker"} /\ 1 \in Int
    BY <2>2, RoleFacts
  <2>4. lost \in Int /\ opening \in Int /\ closing \in Int
    <3> HIDE DEF stopFill
    <3>1. lost \in Int
      BY <2>3, AbsType
    <3>2. opening \in Int
      BY <2>3, CommissionType
    <3>3. closing \in Int
      BY <2>2, <2>3, CommissionType
    <3> QED
      BY <3>1, <3>2, <3>3
  <2>5. UnitRisk(b, o, price) = lost + opening + closing
    BY DEF UnitRisk
  <2> HIDE DEF lost, opening, closing
  <2> QED
    BY <2>4, <2>5
<1>5. CASE Exhausted(b, o, price)
  BY <1>5 DEF RiskSize
<1>6. CASE ~Exhausted(b, o, price)
  <2>1. UnitRisk(b, o, price) > 0 /\ RiskLeft(b, o) > 0
    BY <1>3, <1>4, <1>6 DEF Exhausted
  <2>2. RiskSize(b, o, price) = RiskLeft(b, o) \div UnitRisk(b, o, price)
    BY <1>6 DEF RiskSize
  <2>3. \A m \in Int, d \in Int : m > 0 /\ d > 0 => m \div d \in Nat
    <3> SUFFICES ASSUME NEW m \in Int, NEW d \in Int, m > 0, d > 0 PROVE m \div d \in Nat
      OBVIOUS
    <3>1. m \div d \in Int /\ m = d * (m \div d) + (m % d) /\ m % d \in 0 .. d - 1
      OBVIOUS
    <3> DEFINE k == m \div d
    <3>2. k >= 0
      <4> SUFFICES ASSUME k < 0 PROVE FALSE
        BY <3>1
      <4>1. d * (k + 1) <= 0
        <5>1. d \in Nat \ {0} /\ -(k + 1) \in Int /\ -(k + 1) >= 0
          BY <3>1
        <5> HIDE DEF k
        <5>2. d * (-(k + 1)) >= 0
          BY <5>1, ProductSign
        <5>3. d * (-(k + 1)) = -(d * (k + 1)) /\ d * (k + 1) \in Int
          BY <3>1, <5>1 DEF k
        <5> QED
          BY <5>2, <5>3
      <4>2. d * (k + 1) = d * k + d /\ d * k \in Int
        BY <3>1
      <4>3. m < d * k + d
        BY <3>1
      <4> QED
        BY <4>1, <4>2, <4>3
    <3> QED
      BY <3>1, <3>2
  <2> QED
    BY <1>3, <1>4, <2>1, <2>2, <2>3
<1> QED
  BY <1>5, <1>6

-----------------------------------------------------------------------------
(***************************************************************************)
(* A bar.  Either nothing fills, or an exit, or an entry, or an entry and  *)
(* its exit.                                                               *)
(***************************************************************************)
Unfilled(delivered, b, r) ==
  LET c == r.broker
  IN /\ r = [broker |-> c, fills |-> <<>>, raised |-> r.raised]
     /\ Books(delivered, c) /\ Traded(c) = Traded(b)
     /\ c.position = b.position /\ c.deferred = None
     /\ \/ r.raised = TRUE
        \/ r.raised = FALSE /\ c.pending = b.pending /\ c.rejection = b.rejection /\ Adds(c)
        \/ r.raised = FALSE /\ c.pending = None /\ (c.rejection = TRUE \/ b.position # None)

OpenedAndExited(delivered, b, r) ==
  LET f == r.fills[1]
      g == r.fills[2]
  IN /\ r = [broker |-> r.broker, fills |-> <<f, g>>, raised |-> FALSE]
     /\ r.broker.pending = None
     /\ g.kind \in {"stop_loss", "take_profit"}
     /\ \E c : /\ Opened(delivered, b, [broker |-> c, fills |-> <<f>>, raised |-> FALSE])
               /\ Exited(delivered, c, [broker |-> r.broker, fills |-> <<g>>, raised |-> FALSE])

Matched(delivered, b, r) ==
  \/ Unfilled(delivered, b, r)
  \/ Exited(delivered, b, r) /\ r.broker.pending = None
  \/ Opened(delivered, b, r)
  \/ OpenedAndExited(delivered, b, r)

LEMMA CancelFacts ==
  ASSUME NEW delivered, NEW b, NEW r, Exited(delivered, b, r)
  PROVE  /\ Exited(delivered, b, CancelRemainder(r))
         /\ CancelRemainder(r).broker.pending = None
         /\ CancelRemainder(r).fills = r.fills
         /\ CancelRemainder(r)
              = [broker |-> CancelRemainder(r).broker, fills |-> r.fills, raised |-> FALSE]
<1> DEFINE c == r.broker
           d == [c EXCEPT !.pending = None]
           f == r.fills[1]
           s == CancelRemainder(r)
<1>1. /\ r = [broker |-> c, fills |-> <<f>>, raised |-> FALSE] /\ c \in BrokerType
      /\ b.position # None /\ f \in Fill /\ f.kind # "entry"
      /\ Books(delivered, c)
      /\ c.pending \in {b.pending, None} /\ c.rejection = b.rejection
      /\ Left(b.position, f, c.position)
      /\ Traded(c) = Traded(b) + f.pnl
      /\ b.position.protected => c.deferred = None
      /\ f.kind \in {"stop_loss", "take_profit"} /\ ~b.position.protected =>
           c.deferred # None /\ c.deferred.position = b.position
  BY DEF Exited, Books
<1>2. s = [r EXCEPT !.broker = d]
  BY DEF CancelRemainder
<1> HIDE DEF c, f, s, d
<1>3. s = [broker |-> d, fills |-> <<f>>, raised |-> FALSE] /\ r.fills = <<f>>
  BY <1>1, <1>2
<1>4. /\ d \in BrokerType /\ d.pending = None /\ d.ledger = c.ledger
      /\ d.journaled = c.journaled /\ d.events = c.events /\ d.deferred = c.deferred
      /\ d.position = c.position /\ d.executed = c.executed /\ d.rejection = c.rejection
  BY <1>1 DEF BrokerType, d
<1>5. Books(delivered, d) /\ Traded(d) = Traded(c)
  BY <1>1, <1>4, BooksKept
<1>6. s.broker = d /\ s.fills = <<f>> /\ s.fills[1] = f
  BY <1>3
<1>7. Exited(delivered, b, s)
  BY <1>1, <1>3, <1>4, <1>5, <1>6 DEF Exited
<1> QED
  BY <1>3, <1>4, <1>6, <1>7 DEF s

LEMMA ProtectedFacts ==
  ASSUME config \in Configs, NEW delivered \in Seq(Event), NEW b, NEW opened,
         Opened(delivered, b, opened),
         NEW o, NEW bar \in Bars, NEW time, NEW matched \in Int, NEW cap \in Nat
  PROVE  LET r == Protected(opened, o, bar, time, matched, cap)
         IN Opened(delivered, b, r) \/ OpenedAndExited(delivered, b, r)
<1> DEFINE c == opened.broker
           f == opened.fills[1]
           d == [c EXCEPT !.last_close = bar.close]
           exit == EntryBarExit(d, o, f, bar, time, matched, cap)
           r == Protected(opened, o, bar, time, matched, cap)
           alone == [broker |-> d, fills |-> <<f>>, raised |-> FALSE]
<1>1. /\ opened = [broker |-> c, fills |-> <<f>>, raised |-> FALSE] /\ c \in BrokerType
      /\ f \in Fill /\ f.kind = "entry"
      /\ Books(delivered, c) /\ Adds(c)
      /\ c.deferred = None /\ c.rejection = b.rejection
      /\ Grown(b.position, f, c.position)
      /\ Traded(c) = Traded(b) + f.pnl /\ f.pnl = -f.fee /\ b.pending # None
  BY DEF Opened, Books
<1>2. opened.fills = <<f>> /\ Head(opened.fills) = f
  BY <1>1
<1>3. r = WithExit(<<f>>, exit)
  BY <1>2 DEF Protected
<1> HIDE DEF r, f, c
<1>4. /\ d \in BrokerType /\ d.pending = c.pending /\ d.ledger = c.ledger
      /\ d.journaled = c.journaled /\ d.events = c.events /\ d.deferred = c.deferred
      /\ d.position = c.position /\ d.executed = c.executed /\ d.rejection = c.rejection
  <2>1. bar.close \in Int
    BY BarFacts
  <2> QED
    BY <1>1, <2>1 DEF BrokerType
<1> HIDE DEF d
<1>5. Books(delivered, d) /\ Adds(d) /\ Traded(d) = Traded(c)
  BY <1>1, <1>4, BooksKept
<1>6. alone.broker = d /\ alone.fills = <<f>> /\ alone.fills[1] = f
  BY DEF alone
<1>7. Opened(delivered, b, alone)
  BY <1>1, <1>4, <1>5, <1>6 DEF Opened
<1>8. d.position # None /\ d.deferred = None
  BY <1>1, <1>4, NotNone DEF Grown
<1>9. \/ Idle(d, exit)
      \/ Exited(delivered, d, exit) /\ exit.fills[1].kind \in {"stop_loss", "take_profit"}
  <2>1. CASE Profile = "fixed"
    BY <2>1 DEF EntryBarExit, Idle, Result
  <2>2. CASE Profile # "fixed" /\ Breach(o, f.price) # None /\ cap > 0
    <3>1. Breach(o, f.price) \in {"stop_loss", "take_profit"}
      BY <2>2 DEF Breach
    <3>2. exit = Close(d, matched, Breach(o, f.price), cap)
      BY <2>2 DEF EntryBarExit
    <3> HIDE DEF exit
    <3>3. Breach(o, f.price) \in {"stop_loss", "take_profit", "manual_close"}
      BY <3>1
    <3>4. Idle(d, exit) \/ (Exited(delivered, d, exit) /\ exit.fills[1].kind = Breach(o, f.price))
      BY <1>5, <1>8, <3>2, <3>3, CloseFacts
    <3> QED
      BY <3>1, <3>4
  <2>3. CASE Profile # "fixed" /\ ~(Breach(o, f.price) # None /\ cap > 0)
    <3>1. exit = ExitCross(d, bar, time, FALSE, cap)
      BY <2>3 DEF EntryBarExit
    <3> HIDE DEF exit
    <3> QED
      BY <1>5, <1>8, <3>1, ExitCrossFacts
  <2> QED
    BY <2>1, <2>2, <2>3
<1> HIDE DEF exit, alone
<1>10. CASE Idle(d, exit)
  <2>1. exit.fills = <<>> /\ exit.broker = d
    BY <1>10 DEF Idle
  <2>2. r = alone
    BY <1>3, <2>1 DEF WithExit, Result, alone
  <2> QED
    BY <1>7, <2>2 DEF r
<1>11. CASE Exited(delivered, d, exit) /\ exit.fills[1].kind \in {"stop_loss", "take_profit"}
  <2> DEFINE g == exit.fills[1]
             e == CancelRemainder(exit).broker
             last == [broker |-> e, fills |-> <<g>>, raised |-> FALSE]
  <2>1. exit.fills = <<g>>
    <3>1. exit = [broker |-> exit.broker, fills |-> <<exit.fills[1]>>, raised |-> FALSE]
      BY <1>11 DEF Exited
    <3> QED
      BY <3>1
  <2>2. exit.fills # <<>> /\ <<f>> \o exit.fills = <<f, g>>
    <3>1. \A x, y : <<x>> \o <<y>> = <<x, y>>
      BY PairOfTwo
    <3> DEFINE last1 == exit.fills
    <3>2. last1 = <<g>>
      BY <2>1
    <3> HIDE DEF g, last1
    <3>3. last1 # <<>> /\ <<f>> \o last1 = <<f, g>>
      BY <3>1, <3>2
    <3> QED
      BY <3>3 DEF last1
  <2>3. r = [broker |-> e, fills |-> <<f, g>>, raised |-> FALSE]
    BY <1>3, <2>2 DEF WithExit, Result
  <2>4. Exited(delivered, d, last) /\ e.pending = None
    <3>1. /\ Exited(delivered, d, CancelRemainder(exit))
          /\ CancelRemainder(exit)
               = [broker |-> CancelRemainder(exit).broker, fills |-> exit.fills, raised |-> FALSE]
          /\ CancelRemainder(exit).broker.pending = None
      BY <1>11, CancelFacts
    <3>2. CancelRemainder(exit) = last
      <4> HIDE DEF g
      <4> QED
        BY <2>1, <3>1
    <3> HIDE DEF last
    <3> QED
      BY <3>1, <3>2
  <2>5. g.kind \in {"stop_loss", "take_profit"}
    BY <1>11
  <2> HIDE DEF g, e
  <2>6. r.broker = e /\ r.fills[1] = f /\ r.fills[2] = g
    BY <2>3
  <2>7. OpenedAndExited(delivered, b, r)
    BY <1>7, <2>3, <2>4, <2>5, <2>6 DEF OpenedAndExited, alone
  <2> QED
    BY <2>7 DEF r
<1> QED
  BY <1>9, <1>10, <1>11

\* Two brokers that agree on what a fill is measured against.
LEMMA MatchedAgree ==
  ASSUME NEW delivered, NEW b, NEW d, NEW r, Matched(delivered, d, r),
         d.position = b.position, d.pending = b.pending, d.rejection = b.rejection,
         Traded(d) = Traded(b)
  PROVE  Matched(delivered, b, r)
<1>1. Unfilled(delivered, d, r) => Unfilled(delivered, b, r)
  BY DEF Unfilled
<1>2. \A s : Exited(delivered, d, s) => Exited(delivered, b, s)
  BY DEF Exited
<1>3. \A s : Opened(delivered, d, s) => Opened(delivered, b, s)
  BY DEF Opened
<1>4. OpenedAndExited(delivered, d, r) => OpenedAndExited(delivered, b, r)
  BY <1>3 DEF OpenedAndExited
<1> QED
  BY <1>1, <1>2, <1>3, <1>4 DEF Matched

LEMMA IdleFacts ==
  ASSUME NEW delivered, NEW b, Books(delivered, b), Adds(b), b.deferred = None
  PROVE  Unfilled(delivered, b, Result(b, <<>>))
<1> DEFINE r == Result(b, <<>>)
<1>1. r = [broker |-> b, fills |-> <<>>, raised |-> FALSE]
  BY DEF Result
<1>2. r.broker = b /\ r.raised = FALSE
  BY <1>1
<1> HIDE DEF r
<1>3. Unfilled(delivered, b, r)
  BY <1>1, <1>2 DEF Unfilled
<1> QED
  BY <1>3 DEF r

\* A working entry given up, with or without a rejection to report.
LEMMA GivenUpFacts ==
  ASSUME NEW delivered, NEW b, Books(delivered, b), b.deferred = None,
         NEW rejection \in BOOLEAN, rejection = TRUE \/ b.position # None
  PROVE  Unfilled(delivered, b, Result([b EXCEPT !.pending = None, !.rejection = rejection], <<>>))
<1> DEFINE c == [b EXCEPT !.pending = None, !.rejection = rejection]
           r == Result(c, <<>>)
<1>1. /\ c \in BrokerType /\ c.ledger = b.ledger /\ c.journaled = b.journaled
      /\ c.events = b.events /\ c.deferred = b.deferred /\ c.position = b.position
      /\ c.executed = b.executed /\ c.pending = None /\ c.rejection = rejection
  BY DEF Books, BrokerType
<1>2. r = [broker |-> c, fills |-> <<>>, raised |-> FALSE]
  BY DEF Result
<1> HIDE DEF c, r
<1>3. r.broker = c /\ r.raised = FALSE
  BY <1>2
<1>4. Books(delivered, c) /\ Traded(c) = Traded(b)
  BY <1>1, BooksKept
<1>5. Unfilled(delivered, b, r)
  BY <1>1, <1>2, <1>3, <1>4 DEF Unfilled
<1> QED
  BY <1>5 DEF r, c

LEMMA CapacityFacts ==
  ASSUME config \in Configs, NEW bar \in Bars
  PROVE  Capacity(bar) \in Nat /\ (~Proxied => Capacity(bar) > 0)
<1>1. bar.volume \in Nat
  BY BarFacts
<1>2. Unlimited \in Nat /\ Unlimited > 0
  BY DEF Unlimited
<1> QED
  BY <1>1, <1>2 DEF Capacity

LEMMA FillSizedFacts ==
  ASSUME config \in Configs, NEW delivered \in Seq(Event), NEW b, Books(delivered, b), Adds(b),
         b.deferred = None, b.pending # None, NEW bar \in Bars, NEW time \in Int,
         NEW price \in Nat, NEW matched \in Int, NEW size \in Nat, NEW q \in Nat,
         q <= size, q <= Capacity(bar), Realistic \/ q >= 1
  PROVE  Matched(delivered, b, FillSized(b, b.pending, size, q, price, bar, time, matched))
<1> DEFINE o == b.pending
           r == FillSized(b, o, size, q, price, bar, time, matched)
           refused == (Realistic /\ ~Normal(q, price))
                      \/ ~Affordable(b, q, price, Role(o.type), matched)
           opened == Open(b, o, size, q, price, time)
           cap == Capacity(bar) - q
<1>1. r = IF refused THEN Rejected(b) ELSE Protected(opened, o, bar, time, matched, cap)
  BY DEF FillSized
<1>2. CASE refused
  <2> HIDE DEF refused
  <2>1. r = Result([b EXCEPT !.pending = None, !.rejection = TRUE], <<>>)
    BY <1>1, <1>2 DEF Rejected
  <2> DEFINE yes == TRUE
  <2>2. yes \in BOOLEAN /\ (yes = TRUE \/ b.position # None)
    OBVIOUS
  <2>3. r = Result([b EXCEPT !.pending = None, !.rejection = yes], <<>>)
    BY <2>1
  <2> HIDE DEF yes, r
  <2>4. Unfilled(delivered, b, r)
    BY <2>2, <2>3, GivenUpFacts
  <2> QED
    BY <2>4 DEF Matched, r
<1>3. CASE ~refused
  <2>1. q >= 1
    BY <1>3 DEF Normal
  <2>2. q \in 1 .. size
    BY <2>1
  <2> HIDE DEF refused, opened
  <2>3. Opened(delivered, b, opened)
    BY <2>2, OpenFacts DEF opened
  <2>4. cap \in Nat
    BY CapacityFacts
  <2>5. r = Protected(opened, o, bar, time, matched, cap)
    BY <1>1, <1>3
  <2> HIDE DEF r, o, cap
  <2>6. Opened(delivered, b, r) \/ OpenedAndExited(delivered, b, r)
    BY <2>3, <2>4, <2>5, ProtectedFacts
  <2> QED
    BY <2>6 DEF Matched, r, o
<1> QED
  BY <1>2, <1>3

LEMMA FillAtFacts ==
  ASSUME config \in Configs, NEW delivered \in Seq(Event), NEW b, Books(delivered, b), Adds(b),
         b.deferred = None, b.pending # None, NEW bar \in Bars, NEW time \in Int,
         NEW price \in Nat, NEW matched \in Int
  PROVE  Matched(delivered, b, FillAt(b, b.pending, price, bar, time, matched))
<1> DEFINE o == b.pending
           size == IF Realistic THEN Min({o.qty, RiskSize(b, o, price)}) ELSE o.qty
           q == Min({size, Capacity(bar)})
           r == FillAt(b, o, price, bar, time, matched)
<1>1. b \in BrokerType /\ o \in Order /\ o.qty \in Nat \ {0}
  BY DEF Books, BrokerType, Order
<1>2. Capacity(bar) \in Nat /\ (~Realistic => Capacity(bar) > 0)
  BY CapacityFacts, ConfigFacts
<1>3. size \in Nat /\ (~Realistic => size >= 1)
  <2>1. RiskSize(b, o, price) \in Nat
    <3> HIDE DEF o
    <3> QED
      BY <1>1, RiskSizeType
  <2>2. Min({o.qty, RiskSize(b, o, price)}) \in Nat
    BY <1>1, <2>1, MinFacts
  <2> QED
    BY <1>1, <2>2
<1> HIDE DEF size
<1>4. q \in Nat /\ q <= size /\ q <= Capacity(bar) /\ (Realistic \/ q >= 1)
  BY <1>2, <1>3, MinFacts
<1>5. r = IF Realistic /\ ~Normal(o.qty, price) THEN [Result(b, <<>>) EXCEPT !.raised = TRUE]
          ELSE IF Realistic /\ Exhausted(b, o, price)
               THEN Result([b EXCEPT !.pending = None, !.rejection = (b.position = None)], <<>>)
          ELSE FillSized(b, o, size, q, price, bar, time, matched)
  BY DEF FillAt, size
<1> HIDE DEF q
<1>6. CASE Realistic /\ ~Normal(o.qty, price)
  <2>1. r = [broker |-> b, fills |-> <<>>, raised |-> TRUE]
    BY <1>5, <1>6 DEF Result
  <2> HIDE DEF r, o
  <2>2. r.broker = b /\ r.raised = TRUE
    BY <2>1
  <2>3. Unfilled(delivered, b, r)
    BY <2>1, <2>2 DEF Unfilled
  <2> QED
    BY <2>3 DEF Matched, r, o
<1>7. CASE ~(Realistic /\ ~Normal(o.qty, price)) /\ Realistic /\ Exhausted(b, o, price)
  <2> DEFINE rejection == (b.position = None)
  <2>1. rejection \in BOOLEAN /\ (rejection = TRUE \/ b.position # None)
    OBVIOUS
  <2>2. r = Result([b EXCEPT !.pending = None, !.rejection = rejection], <<>>)
    BY <1>5, <1>7
  <2> HIDE DEF rejection, r, o
  <2>3. Unfilled(delivered, b, r)
    BY <2>1, <2>2, GivenUpFacts
  <2> QED
    BY <2>3 DEF Matched, r, o
<1>8. CASE ~(Realistic /\ ~Normal(o.qty, price)) /\ ~(Realistic /\ Exhausted(b, o, price))
  <2>1. r = FillSized(b, o, size, q, price, bar, time, matched)
    BY <1>5, <1>8
  <2> QED
    BY <1>3, <1>4, <2>1, FillSizedFacts
<1> QED
  BY <1>6, <1>7, <1>8

LEMMA FillEntryFacts ==
  ASSUME config \in Configs, NEW delivered \in Seq(Event), NEW b, Books(delivered, b), Adds(b),
         b.deferred = None, b.pending # None, NEW bar \in Bars, NEW time \in Int
  PROVE  Matched(delivered, b, FillEntry(b, bar, time))
<1> DEFINE o == b.pending
           matched == EntryCross(o, bar)
           waits == Proxied /\ time < o.eligible
           fits == Realistic => \A level \in {o.entry, o.stop, o.target} : Normal(o.qty, level)
           r == FillEntry(b, bar, time)
<1>1. r = IF waits THEN Result(b, <<>>)
          ELSE IF ~fits THEN Rejected(b)
          ELSE IF matched = None \/ Capacity(bar) = 0 THEN Result(b, <<>>)
          ELSE FillAt(b, o, EntryPrice(o, matched), bar, time, matched)
  BY DEF FillEntry
<1> HIDE DEF waits, fits, r
<1>2. CASE r = Result(b, <<>>)
  BY <1>2, IdleFacts DEF Matched, r
<1>3. CASE r = Rejected(b)
  <2> DEFINE yes == TRUE
  <2>1. r = Result([b EXCEPT !.pending = None, !.rejection = yes], <<>>)
    BY <1>3 DEF Rejected
  <2>2. yes \in BOOLEAN /\ (yes = TRUE \/ b.position # None)
    OBVIOUS
  <2> HIDE DEF yes
  <2>3. Unfilled(delivered, b, r)
    BY <2>1, <2>2, GivenUpFacts
  <2> QED
    BY <2>3 DEF Matched, r
<1>4. CASE matched # None /\ r = FillAt(b, o, EntryPrice(o, matched), bar, time, matched)
  <2>1. o \in Order
    BY DEF Books, BrokerType
  <2>2. EntryPrice(o, matched) \in Nat /\ matched \in Int
    <3> HIDE DEF o
    <3> QED
      BY <1>4, <2>1, EntryPriceFacts, EntryCrossFacts
  <2> DEFINE price == EntryPrice(o, matched)
  <2> HIDE DEF matched, price
  <2>3. Matched(delivered, b, FillAt(b, b.pending, price, bar, time, matched))
    BY <2>2, FillAtFacts DEF price
  <2> QED
    BY <1>4, <2>3 DEF r, price
<1> QED
  BY <1>1, <1>2, <1>3, <1>4

LEMMA SettledFacts ==
  ASSUME config \in Configs, NEW delivered \in Seq(Event), NEW b, Books(delivered, b), Adds(b),
         b.deferred = None, NEW bar \in Bars
  PROVE  LET c == SettleFunding(b, bar)
         IN /\ Books(delivered, c) /\ Adds(c) /\ c.deferred = None
            /\ c.position = b.position /\ c.pending = b.pending /\ c.rejection = b.rejection
            /\ Traded(c) = Traded(b)
<1> DEFINE p == b.position
           amount == -Sign(p.side) * Quotient(p.qty * bar.rate * bar.mark, Scale)
           zero == 0
           kind == "funding"
           x == [kind |-> kind, side |-> p.side, qty |-> zero, price |-> zero, fee |-> -amount]
           paid == Record(b, kind, amount)
           c == SettleFunding(b, bar)
<1>1. CASE p = None \/ bar.rate = 0
  BY <1>1 DEF SettleFunding
<1>2. CASE ~(p = None \/ bar.rate = 0)
  <2>1. /\ b \in BrokerType /\ p \in Position /\ Late(b) = {} /\ b.journaled <= Len(b.ledger)
        /\ Named(delivered \o b.events, b, Early(b))
        /\ HeldAtEnd(b.executed) = Quantity(b) /\ NoReentry(b.executed)
        /\ b.executed \in Seq(Execution) /\ b.journaled \in Nat /\ Len(b.ledger) \in Nat
    BY <1>2 DEF Books, BrokerType
  <2>2. p.side \in Sides /\ p.qty \in Nat
    BY <2>1 DEF Position
  <2>3. amount \in Int
    <3>1. Sign(p.side) \in Int
      BY <2>2, SignFacts
    <3>2. p.qty * bar.rate * bar.mark \in Int /\ Scale \in Nat \ {0}
      BY <2>2, BarFacts, ConfigFacts
    <3> DEFINE whole == Quotient(p.qty * bar.rate * bar.mark, Scale)
    <3>3. whole \in Int
      BY <3>2, QuotientFacts
    <3> HIDE DEF whole
    <3> QED
      BY <3>1, <3>3 DEF whole
  <2>4. c = Executed(paid, x)
    BY <1>2 DEF SettleFunding
  <2> HIDE DEF amount
  <2>5. x \in Execution /\ x.kind = "funding"
    <3>1. zero \in Nat /\ zero \in Int /\ -amount \in Int
      BY <2>3
    <3> HIDE DEF zero
    <3> QED
      BY <2>2, <3>1 DEF Execution
  <2>6. kind \in CashKinds
    BY DEF CashKinds
  <2>7. c = [paid EXCEPT !.executed = Append(paid.executed, x)]
    <3>1. c = [paid EXCEPT !.executed = Append(@, [kind |-> x.kind, side |-> x.side,
                 qty |-> x.qty, price |-> x.price, fee |-> x.fee])]
      BY <2>4 DEF Executed
    <3>2. [kind |-> x.kind, side |-> x.side, qty |-> x.qty, price |-> x.price, fee |-> x.fee] = x
      OBVIOUS
    <3> HIDE DEF x, c, paid
    <3> QED
      BY <3>1, <3>2
  <2> DEFINE events == delivered \o b.events
  <2>8. Named(events, b, Early(b))
    BY <2>1
  <2> HIDE DEF x, paid, events, c
  <2>9. /\ paid \in BrokerType /\ paid = [b EXCEPT !.ledger = paid.ledger]
        /\ Len(paid.ledger) = Len(b.ledger) + 1
        /\ Traded(paid) = Traded(b) + 0
        /\ Late(paid) = Late(b) /\ Named(events, paid, Early(paid))
    BY <2>1, <2>3, <2>6, <2>8, RecordFacts DEF paid
  <2>10. /\ paid.rejection = b.rejection /\ paid.deferred = None /\ paid.events = b.events
         /\ paid.executed = b.executed /\ paid.journaled = b.journaled
         /\ paid.position = b.position /\ paid.pending = b.pending
    BY <2>1, <2>9 DEF BrokerType
  <2>11. /\ Append(b.executed, x) \in Seq(Execution)
         /\ HeldAtEnd(Append(b.executed, x)) = HeldAtEnd(b.executed)
         /\ NoReentry(Append(b.executed, x))
         /\ MayAdd(b.executed) => MayAdd(Append(b.executed, x))
    <3>1. /\ Append(b.executed, x) \in Seq(Execution) /\ HeldAtEnd(b.executed) \in Int
          /\ HeldAtEnd(Append(b.executed, x)) = HeldAtEnd(b.executed) + 0
      BY <2>1, <2>5, HeldFacts
    <3>2. x.kind # "entry" /\ x.kind \in {"entry", "funding"}
      BY <2>5
    <3>3. /\ NoReentry(Append(b.executed, x))
          /\ MayAdd(b.executed) => MayAdd(Append(b.executed, x))
      BY <2>1, <2>5, <3>2, ExecutionFacts
    <3> QED
      BY <3>1, <3>3
  <2>12. /\ c \in BrokerType /\ c.position = b.position /\ c.pending = b.pending
         /\ c.ledger = paid.ledger /\ c.journaled = b.journaled /\ c.events = b.events
         /\ c.executed = Append(b.executed, x) /\ c.deferred = None /\ c.rejection = b.rejection
    BY <2>7, <2>9, <2>10, <2>11 DEF BrokerType
  <2>13. /\ Named(delivered \o c.events, c, Early(c)) /\ Late(c) = {}
         /\ Traded(c) = Traded(paid)
    BY <2>1, <2>9, <2>10, <2>12, SameLedger DEF events
  <2>14. c.journaled <= Len(c.ledger)
    BY <2>1, <2>9, <2>12
  <2>15. Traded(c) = Traded(b)
    <3>1. Traded(b) \in Int
      BY <2>1, LedgerFacts
    <3> QED
      BY <2>9, <2>13, <3>1
  <2>16. Books(delivered, c)
    BY <2>1, <2>11, <2>12, <2>13, <2>14 DEF Books, Quantity
  <2>17. Adds(c)
    BY <2>11, <2>12 DEF Adds
  <2> QED
    BY <2>12, <2>15, <2>16, <2>17 DEF c
<1> QED
  BY <1>1, <1>2

LEMMA MatchOrLiquidateFacts ==
  ASSUME config \in Configs, NEW delivered \in Seq(Event), NEW b, Books(delivered, b), Adds(b),
         b.deferred = None, NEW bar \in Bars, NEW time \in Int
  PROVE  Matched(delivered, b, MatchOrLiquidate(b, bar, time))
<1> DEFINE d == [b EXCEPT !.last_close = bar.close]
           exit == WorkingExit(d, bar, time)
           r == MatchOrLiquidate(b, bar, time)
<1>1. r = IF Liquidates(b, bar) THEN Liquidate(b, bar) ELSE EntryUnlessExit(exit, bar, time)
  BY DEF MatchOrLiquidate
<1>2. CASE Liquidates(b, bar)
  <2>1. b.position # None
    BY <1>2 DEF Liquidates
  <2> HIDE DEF r
  <2>2. Exited(delivered, b, r) /\ r.broker.pending = None
    BY <1>1, <1>2, <2>1, LiquidateFacts
  <2> QED
    BY <2>2 DEF Matched, r
<1>3. CASE ~Liquidates(b, bar)
  <2>1. b \in BrokerType /\ bar.close \in Int
    BY BarFacts DEF Books
  <2>2. /\ d \in BrokerType /\ d.pending = b.pending /\ d.ledger = b.ledger
        /\ d.journaled = b.journaled /\ d.events = b.events /\ d.deferred = b.deferred
        /\ d.position = b.position /\ d.executed = b.executed /\ d.rejection = b.rejection
    BY <2>1 DEF BrokerType
  <2>3. r = EntryUnlessExit(exit, bar, time)
    BY <1>1, <1>3
  <2> HIDE DEF r, d
  <2>4. Books(delivered, d) /\ Adds(d) /\ Traded(d) = Traded(b)
    BY <2>2, BooksKept
  <2>5. \/ Idle(d, exit)
        \/ Exited(delivered, d, exit)
    <3>1. CASE exit = Result(d, <<>>)
      BY <3>1 DEF Idle, Result
    <3>2. CASE exit = ExitCross(d, bar, time, TRUE, Capacity(bar))
      <4>1. Capacity(bar) \in Nat /\ TRUE \in BOOLEAN
        BY CapacityFacts
      <4> HIDE DEF exit
      <4> QED
        BY <2>2, <2>4, <3>2, <4>1, ExitCrossFacts
    <3> QED
      BY <3>1, <3>2 DEF WorkingExit
  <2> HIDE DEF exit
  <2>6. Matched(delivered, d, r)
    <3>1. CASE Idle(d, exit)
      <4>1. exit = Result(d, <<>>) /\ exit.fills = <<>> /\ exit.broker = d
        BY <3>1 DEF Idle, Result
      <4>2. CASE d.pending = None
        <5>1. r = Result(d, <<>>)
          BY <2>3, <4>1, <4>2 DEF EntryUnlessExit
        <5> QED
          BY <2>2, <2>4, <5>1, IdleFacts DEF Matched
      <4>3. CASE d.pending # None
        <5>1. r = FillEntry(d, bar, time)
          BY <2>3, <4>1, <4>3 DEF EntryUnlessExit
        <5> QED
          BY <2>2, <2>4, <4>3, <5>1, FillEntryFacts
      <4> QED
        BY <4>2, <4>3
    <3>2. CASE Exited(delivered, d, exit)
      <4>1. exit.fills # <<>>
        <5>1. exit = [broker |-> exit.broker, fills |-> <<exit.fills[1]>>, raised |-> FALSE]
          BY <3>2 DEF Exited
        <5>2. exit.fills = <<exit.fills[1]>>
          BY <5>1
        <5> DEFINE f == exit.fills[1]
        <5> HIDE DEF f
        <5>3. exit.fills = <<f>>
          BY <5>2 DEF f
        <5> QED
          BY <5>3
      <4>2. r = CancelRemainder(exit)
        BY <2>3, <4>1 DEF EntryUnlessExit
      <4> QED
        BY <3>2, <4>2, CancelFacts DEF Matched
    <3> QED
      BY <2>5, <3>1, <3>2
  <2>7. Matched(delivered, b, r)
    BY <2>2, <2>4, <2>6, MatchedAgree
  <2> QED
    BY <2>7 DEF r
<1> QED
  BY <1>2, <1>3

LEMMA ProcessBarFacts ==
  ASSUME config \in Configs, NEW delivered \in Seq(Event), NEW b, Books(delivered, b), Adds(b),
         b.deferred = None, NEW bar \in Bars, NEW time \in Int
  PROVE  Matched(delivered, b, ProcessBar(b, bar, time))
<1> DEFINE c == SettleFunding(b, bar)
<1>1. ProcessBar(b, bar, time) = MatchOrLiquidate(c, bar, time)
  BY DEF ProcessBar
<1>2. /\ Books(delivered, c) /\ Adds(c) /\ c.deferred = None
      /\ c.position = b.position /\ c.pending = b.pending /\ c.rejection = b.rejection
      /\ Traded(c) = Traded(b)
  BY SettledFacts
<1> HIDE DEF c
<1>3. Matched(delivered, c, MatchOrLiquidate(c, bar, time))
  BY <1>2, MatchOrLiquidateFacts
<1> QED
  BY <1>1, <1>2, <1>3, MatchedAgree

\* The legacy market entry, at the close of its bar.
LEMMA FillMarketFacts ==
  ASSUME config \in Configs, NEW delivered \in Seq(Event), NEW b, Books(delivered, b), Adds(b),
         b.deferred = None, NEW price \in Nat, NEW time \in Int
  PROVE  LET r == FillMarketIfPending(b, price, time)
         IN Idle(b, r) \/ (b.pending # None /\ Opened(delivered, b, r) /\ r.broker.pending = None)
<1> DEFINE o == b.pending
           r == FillMarketIfPending(b, price, time)
<1>1. CASE r = Result(b, <<>>)
  BY <1>1 DEF Idle, Result
<1>2. CASE o # None /\ r = Open(b, o, o.qty, o.qty, price, time)
  <2> DEFINE q == o.qty
  <2>1. q \in Nat \ {0}
    BY <1>2 DEF Books, BrokerType, Order
  <2>2. q \in Nat /\ q \in 1 .. q
    BY <2>1
  <2>3. r = Open(b, b.pending, q, q, price, time)
    BY <1>2
  <2>4. b.pending # None
    BY <1>2
  <2> HIDE DEF q, r, o
  <2>5. Opened(delivered, b, r) /\ r.broker.pending = None
    BY <2>2, <2>3, <2>4, OpenFacts
  <2> QED
    BY <2>4, <2>5 DEF r
<1> QED
  BY <1>1, <1>2 DEF FillMarketIfPending

-----------------------------------------------------------------------------
(***************************************************************************)
(* The session.                                                            *)
(***************************************************************************)
PlatformAccount ==
  [position : AccountPosition \cup {None}, margin : Int, equity : Int, marked : Int, peak : Int,
   day : Int \cup {None}, day_start : Int]
Trade == [pnl : Int, qty : Nat]
Engine ==
  [pending : BOOLEAN, setup : TradeSetup \cup {None}, open : TradeSetup \cup {None},
   entry : TradeEntry \cup {None}, exits : Trade, trade_id : Nat, trades : Seq(Trade),
   delivered : Seq(Event), halted : BOOLEAN, close : Nat]
SessionType ==
  [broker : BrokerType, account : PlatformAccount, engine : Engine,
   failure : {None, "raised", "contained"}, rejected : BOOLEAN]

\* What the account holds of position p.
Mirror(p) ==
  IF p = None THEN None
  ELSE [side |-> p.side, entry |-> p.entry, qty |-> p.qty, stop |-> p.stop, margin |-> p.margin]

\* Account and trade are those of position p.
Follows(s, p) ==
  /\ s.account.position = Mirror(p)
  /\ s.account.margin = IF p = None THEN 0 ELSE p.margin
  /\ s.engine.entry = None <=> p = None
  /\ p = None => s.engine.exits.pnl = 0

EntryFee(e) == IF e.entry = None THEN 0 ELSE e.entry.fee

\* What the finished trades made, and so far the running one.
Booked(e) == Earned(e.trades) + e.exits.pnl - EntryFee(e)

Steady(s) ==
  /\ s \in SessionType
  /\ Books(s.engine.delivered, s.broker) /\ Adds(s.broker) /\ s.broker.deferred = None
  /\ s.broker.position # None => s.broker.position.protected = TRUE
  /\ Follows(s, s.broker.position)
  /\ Traded(s.broker) = Booked(s.engine)

\* The engine waits for an entry exactly as long as the broker works one.
Waits(s) ==
  /\ s.engine.pending = (s.broker.pending # None /\ s.broker.position = None)
  /\ s.engine.pending = (s.engine.setup # None)

Ready(s) == Steady(s) /\ Waits(s) /\ s.broker.events = <<>> /\ s.broker.rejection = FALSE

PaperInvariant ==
  /\ config \in Configs /\ now \in Nat
  /\ NoReentry(broker.executed)
  /\ Running => Ready(Session)

LEMMA EarnedFacts ==
  ASSUME NEW trades \in Seq(Trade), NEW t \in Trade
  PROVE  /\ Append(trades, t) \in Seq(Trade)
         /\ Earned(trades) \in Int
         /\ Earned(Append(trades, t)) = Earned(trades) + t.pnl
<1> DEFINE y == Append(trades, t)
           new == Len(trades) + 1
           f == [i \in DOMAIN trades |-> trades[i].pnl]
           g == [i \in DOMAIN y |-> y[i].pnl]
           T == DOMAIN trades
<1>1. /\ y \in Seq(Trade) /\ Len(trades) \in Nat
      /\ DOMAIN trades = 1 .. Len(trades) /\ DOMAIN y = 1 .. new
      /\ \A n \in 1 .. Len(trades) : y[n] = trades[n]
      /\ y[new] = t
  BY AppendFacts
<1>2. Earned(trades) = SumFunctionOnSet(f, T)
  BY DEF Earned, SumFunction
<1>3. Earned(y) = SumFunctionOnSet(g, DOMAIN y)
  BY DEF Earned, SumFunction
<1>4. DOMAIN y = T \cup {new} /\ new \notin T /\ IsFiniteSet(T)
  BY <1>1, UpToFinite
<1>5. \A n \in T : f[n] \in Int /\ f[n] = trades[n].pnl
  <2>1. \A n \in T : trades[n] \in Trade
    BY <1>1
  <2> QED
    BY <2>1 DEF Trade
<1>6. \A n \in T : g[n] = f[n]
  <2> HIDE DEF y, new
  <2> QED
    BY <1>1, <1>4, <1>5
<1>7. g[new] = t.pnl /\ t.pnl \in Int
  <2> HIDE DEF y, new
  <2> QED
    BY <1>1, <1>4 DEF Trade
<1> HIDE DEF y, new, f, g, T
<1>8. SumFunctionOnSet(g, T \cup {new}) = SumFunctionOnSet(f, T) + g[new]
  BY <1>4, <1>5, <1>6, <1>7, SumGrow
<1>9. SumFunctionOnSet(f, T) \in Int
  BY <1>4, <1>5, SumType
<1>10. Earned(y) = Earned(trades) + t.pnl
  BY <1>2, <1>3, <1>4, <1>7, <1>8
<1> QED
  BY <1>1, <1>2, <1>9, <1>10 DEF y

\* Other levels, or a working order more or less, leave the books.
LEMMA BooksAgree ==
  ASSUME NEW delivered, NEW b, Books(delivered, b), NEW c \in BrokerType,
         c.ledger = b.ledger, c.journaled = b.journaled, c.events = b.events,
         c.deferred = b.deferred, Quantity(c) = Quantity(b), c.executed = b.executed
  PROVE  Books(delivered, c) /\ Traded(c) = Traded(b)
<1>1. /\ Early(c) = Early(b) /\ Late(c) = Late(b) /\ Waiting(c) = Waiting(b)
      /\ Traded(c) = Traded(b)
      /\ \A events, N : Named(events, c, N) <=> Named(events, b, N)
  BY SameLedger
<1> QED
  BY <1>1 DEF Books

\* The names of the protective orders release the delayed exit.
LEMMA DeferredFacts ==
  ASSUME config \in Configs, NEW delivered \in Seq(Event), NEW b, Books(delivered, b)
  PROVE  LET c == RecordDeferred(b)
         IN /\ Books(delivered, c) /\ c.deferred = None
            /\ c.ledger = b.ledger /\ c.position = b.position /\ c.pending = b.pending
            /\ c.rejection = b.rejection /\ c.executed = b.executed
<1>1. CASE b.deferred = None
  BY <1>1 DEF RecordDeferred
<1>2. CASE b.deferred # None
  <2> DEFINE fill == b.deferred.fill
             role == b.deferred.role
             d == RecordFill(b, fill, role)
             c == RecordDeferred(b)
  <2>1. /\ b \in BrokerType /\ b.journaled <= Len(b.ledger) /\ Waiting(b) = fill.pnl
        /\ Named(delivered \o b.events, b, Early(b))
        /\ HeldAtEnd(b.executed) = Quantity(b) /\ NoReentry(b.executed)
    BY <1>2 DEF Books
  <2>2. fill \in Fill /\ role \in Roles
    BY <1>2, <2>1 DEF BrokerType, Deferred, Roles
  <2>3. c = [d EXCEPT !.deferred = None]
    BY <1>2 DEF RecordDeferred
  <2> HIDE DEF fill, role, c
  <2>4. /\ d \in BrokerType /\ Late(d) = {} /\ Named(delivered \o d.events, d, Early(d))
        /\ d = [b EXCEPT !.events = d.events, !.journaled = Len(b.ledger)]
    BY <2>1, <2>2, RecordFillFacts
  <2> HIDE DEF d
  <2>5. /\ d.ledger = b.ledger /\ d.journaled = Len(b.ledger) /\ d.executed = b.executed
        /\ d.position = b.position /\ d.pending = b.pending /\ d.rejection = b.rejection
        /\ Len(b.ledger) \in Nat
    BY <2>1, <2>4 DEF BrokerType
  <2>6. /\ c \in BrokerType /\ c.ledger = d.ledger /\ c.journaled = d.journaled
        /\ c.events = d.events /\ c.deferred = None /\ c.executed = d.executed
        /\ c.position = d.position /\ c.pending = d.pending /\ c.rejection = d.rejection
    BY <2>3, <2>4 DEF BrokerType
  <2>7. Late(c) = {} /\ Named(delivered \o c.events, c, Early(c)) /\ c.journaled <= Len(c.ledger)
    BY <2>4, <2>5, <2>6, SameLedger
  <2>8. Books(delivered, c)
    BY <2>1, <2>5, <2>6, <2>7 DEF Books, Quantity
  <2> QED
    BY <2>5, <2>6, <2>8 DEF c
<1> QED
  BY <1>1, <1>2

Shielded(p) == IF p = None THEN None ELSE [p EXCEPT !.protected = TRUE]

LEMMA NameFacts ==
  ASSUME config \in Configs, NEW s \in SessionType, Books(s.engine.delivered, s.broker),
         NEW fill, NEW qty, NEW stop, NEW target,
         s.broker.position # None =>
           stop = s.broker.position.stop /\ target = s.broker.position.target
  PROVE  LET t == NameProtection(s, fill, qty, stop, target)
             c == t.broker
         IN \/ t = [s EXCEPT !.failure = "contained"]
            \/ /\ t = [s EXCEPT !.broker = c]
               /\ Books(s.engine.delivered, c) /\ c.deferred = None
               /\ c.position = Shielded(s.broker.position)
               /\ c.pending = s.broker.pending /\ c.rejection = s.broker.rejection
               /\ c.executed = s.broker.executed /\ Traded(c) = Traded(s.broker)
<1> DEFINE t == NameProtection(s, fill, qty, stop, target)
           b == s.broker
           p == b.position
           d == IF p = None THEN b
                ELSE [b EXCEPT !.position.stop = stop, !.position.target = target,
                               !.position.protected = TRUE]
           c == RecordDeferred(d)
           delivered == s.engine.delivered
<1>1. CASE ~AcceptsProtection(b, fill.side, qty, stop, target)
  BY <1>1 DEF NameProtection, ContainAndRaise
<1>2. CASE AcceptsProtection(b, fill.side, qty, stop, target)
  <2>1. t = [s EXCEPT !.broker = c]
    BY <1>2 DEF NameProtection, PlaceProtection
  <2>2. b \in BrokerType /\ delivered \in Seq(Event) /\ Books(delivered, b)
    BY DEF SessionType, Engine
  <2>3. /\ d \in BrokerType /\ d.position = Shielded(p)
        /\ d.ledger = b.ledger /\ d.journaled = b.journaled /\ d.events = b.events
        /\ d.deferred = b.deferred /\ d.executed = b.executed /\ d.pending = b.pending
        /\ d.rejection = b.rejection
    <3>1. CASE p = None
      BY <2>2, <3>1 DEF Shielded
    <3>2. CASE p # None
      <4> DEFINE shielded == [p EXCEPT !.protected = TRUE]
      <4>1. p \in Position
        BY <2>2, <3>2 DEF BrokerType
      <4>2. shielded \in Position /\ shielded = [p EXCEPT !.stop = stop, !.target = target,
                                                          !.protected = TRUE]
        <5>1. stop = p.stop /\ target = p.target
          BY <3>2
        <5> HIDE DEF p
        <5> QED
          BY <4>1, <5>1 DEF Position
      <4>3. d = [b EXCEPT !.position = shielded]
        <5>1. d = [b EXCEPT !.position.stop = stop, !.position.target = target,
                            !.position.protected = TRUE]
          BY <3>2
        <5> HIDE DEF d, shielded
        <5> QED
          BY <2>2, <4>2, <5>1 DEF BrokerType
      <4>4. Shielded(p) = shielded
        BY <3>2 DEF Shielded
      <4> HIDE DEF d, shielded
      <4> QED
        BY <2>2, <4>2, <4>3, <4>4 DEF BrokerType
    <3> QED
      BY <3>1, <3>2
  <2> HIDE DEF d, b, p, delivered
  <2>4. Quantity(d) = Quantity(b)
    <3>1. CASE p = None
      BY <2>3, <3>1 DEF Quantity, Shielded, p
    <3>2. CASE p # None
      <4>1. p \in Position
        BY <2>2, <3>2 DEF BrokerType, p
      <4>2. Shielded(p) \in Position /\ Shielded(p).qty = p.qty
        BY <3>2, <4>1 DEF Shielded, Position
      <4> QED
        BY <2>3, <3>2, <4>2, NotNone DEF Quantity, p
    <3> QED
      BY <3>1, <3>2
  <2>5. Books(delivered, d) /\ Traded(d) = Traded(b)
    BY <2>2, <2>3, <2>4, BooksAgree
  <2>6. /\ Books(delivered, c) /\ c.deferred = None
        /\ c.ledger = d.ledger /\ c.position = d.position /\ c.pending = d.pending
        /\ c.rejection = d.rejection /\ c.executed = d.executed
    BY <2>2, <2>5, DeferredFacts
  <2> HIDE DEF c
  <2>7. Traded(c) = Traded(b)
    BY <2>5, <2>6, SameLedger
  <2>8. t.broker = c
    <3>1. DOMAIN s = DOMAIN [broker |-> 0, account |-> 0, engine |-> 0, failure |-> 0, rejected |-> 0]
      BY DEF SessionType
    <3> HIDE DEF t
    <3> QED
      BY <2>1, <3>1
  <2> HIDE DEF t
  <2> QED
    BY <2>1, <2>3, <2>6, <2>7, <2>8 DEF t, b, p, delivered
<1> QED
  BY <1>1, <1>2

LEMMA MirrorFacts ==
  ASSUME NEW p \in Position
  PROVE  /\ p # None /\ Mirror(p) \in AccountPosition /\ Mirror(p) # None
         /\ Mirror(p) = [side |-> p.side, entry |-> p.entry, qty |-> p.qty, stop |-> p.stop,
                         margin |-> p.margin]
         /\ p.margin \in Nat /\ p.qty \in Nat \ {0} /\ p.entry \in Int
<1>1. p # None
  BY NotNone
<1>2. Mirror(p) = [side |-> p.side, entry |-> p.entry, qty |-> p.qty, stop |-> p.stop,
                   margin |-> p.margin]
  BY <1>1 DEF Mirror
<1>3. Mirror(p) \in AccountPosition
  BY <1>2 DEF Position, AccountPosition
<1> QED
  BY <1>1, <1>2, <1>3, NoPositionAssumption DEF Position

\* What the engine keeps when it applies the exit of position p.
Closed(s, t, fill, after) ==
  /\ t \in SessionType /\ t.failure = None /\ t.broker = s.broker /\ t.rejected = s.rejected
  /\ t.engine.delivered = s.engine.delivered /\ t.engine.close = s.engine.close
  /\ t.engine.pending = s.engine.pending /\ t.engine.setup = s.engine.setup
  /\ Follows(t, after)
  /\ Booked(t.engine) = Booked(s.engine) + fill.pnl

LEMMA PartialCloseFacts ==
  ASSUME NEW s \in SessionType, s.failure = None, NEW p \in Position, Follows(s, p),
         NEW fill \in Fill, fill.qty < p.qty,
         NEW after, after = [p EXCEPT !.qty = p.qty - fill.qty,
                                      !.margin = Quotient(p.margin * (p.qty - fill.qty), p.qty)]
  PROVE  Closed(s, OnPartialClose(s, fill), fill, after)
<1> DEFINE a == s.account
           e == s.engine
           m == Mirror(p)
           left == p.qty - fill.qty
           kept == Quotient(p.margin * left, p.qty)
           held == [m EXCEPT !.qty = left, !.margin = kept]
           exits == [pnl |-> e.exits.pnl + fill.pnl, qty |-> e.exits.qty + fill.qty]
           margin == Max({0, a.margin - (p.margin - kept)})
           t == OnPartialClose(s, fill)
<1>1. a \in PlatformAccount /\ e \in Engine
  BY DEF SessionType
<1>2. /\ a.position = m /\ a.margin = p.margin /\ e.entry # None
  BY MirrorFacts DEF Follows
<1>3. /\ m \in AccountPosition /\ m # None /\ m.qty = p.qty /\ m.margin = p.margin
      /\ m.side = p.side /\ m.entry = p.entry /\ m.stop = p.stop
      /\ p.margin \in Nat /\ p.qty \in Nat \ {0}
      /\ m = [side |-> p.side, entry |-> p.entry, qty |-> p.qty, stop |-> p.stop,
              margin |-> p.margin]
  BY MirrorFacts
<1>4. fill.qty \in Nat \ {0} /\ fill.pnl \in Int
  BY DEF Fill
<1>5. left \in Nat \ {0} /\ kept \in Nat
  <2>1. left \in Nat \ {0}
    BY <1>3, <1>4
  <2>2. p.margin * left \in Int /\ p.margin * left >= 0
    BY <1>3, <2>1, SMTT(30)
  <2> QED
    BY <1>3, <2>1, <2>2, QuotientFacts
<1>6. margin = kept
  <2>1. a.margin - (p.margin - kept) = kept
    BY <1>2, <1>3, <1>5
  <2> HIDE DEF kept
  <2>2. Max({0, kept}) = kept
    BY <1>5, MaxFacts
  <2> QED
    BY <2>1, <2>2
<1>7. t = [s EXCEPT !.account = AccountPartialClose(@, fill.qty),
                    !.engine.exits = [pnl |-> @.pnl + fill.pnl, qty |-> @.qty + fill.qty]]
  <2>1. ~(a.position = None \/ fill.qty >= a.position.qty)
    BY <1>2, <1>3, <1>4
  <2> QED
    BY <2>1 DEF OnPartialClose
<1>8. AccountPartialClose(a, fill.qty) = [a EXCEPT !.margin = margin, !.position = held]
  <2> HIDE DEF m
  <2>1. a.position.qty - fill.qty = left
    BY <1>2, <1>3
  <2>2. Quotient(a.position.margin * left, a.position.qty) = kept
    BY <1>2, <1>3
  <2>3. a.margin - (a.position.margin - kept) = a.margin - (p.margin - kept)
    BY <1>2, <1>3
  <2> HIDE DEF left, kept, a
  <2> QED
    BY <1>1, <1>2, <2>1, <2>2, <2>3 DEF AccountPartialClose, PlatformAccount
<1>9. /\ held \in AccountPosition /\ exits \in Trade
      /\ held = [side |-> p.side, entry |-> p.entry, qty |-> left, stop |-> p.stop,
                 margin |-> kept]
  <2> HIDE DEF m, left, kept
  <2>1. held \in AccountPosition
    BY <1>3, <1>5 DEF AccountPosition
  <2>2. held = [side |-> p.side, entry |-> p.entry, qty |-> left, stop |-> p.stop,
                margin |-> kept]
    <3>1. /\ held.side = m.side /\ held.entry = m.entry /\ held.stop = m.stop
          /\ held.qty = left /\ held.margin = kept
      BY <1>3 DEF AccountPosition
    <3> HIDE DEF held
    <3>2. held = [side |-> held.side, entry |-> held.entry, qty |-> held.qty,
                  stop |-> held.stop, margin |-> held.margin]
      BY <2>1 DEF AccountPosition
    <3> QED
      BY <1>3, <3>1, <3>2
  <2>3. exits \in Trade
    BY <1>1, <1>4 DEF Engine, Trade
  <2> QED
    BY <2>1, <2>2, <2>3
<1>10. after \in Position /\ after # None /\ Mirror(after) = held /\ after.margin = kept
  <2> HIDE DEF left, kept
  <2>1. after = [p EXCEPT !.qty = left, !.margin = kept]
    BY DEF left, kept
  <2>2. /\ after \in Position /\ after.side = p.side /\ after.entry = p.entry
        /\ after.qty = left /\ after.stop = p.stop /\ after.margin = kept
    BY <1>5, <2>1 DEF Position
  <2> HIDE DEF held
  <2>3. after # None /\ Mirror(after) = held
    BY <1>9, <2>2, MirrorFacts
  <2> QED
    BY <2>2, <2>3
<1> HIDE DEF a, m, left, kept, held, margin
<1> DEFINE A == [a EXCEPT !.margin = kept, !.position = held]
           E == [e EXCEPT !.exits = exits]
<1>11. t = [s EXCEPT !.account = A, !.engine = E]
  BY <1>6, <1>7, <1>8 DEF SessionType, a
<1>12. /\ A \in PlatformAccount /\ A.position = held /\ A.margin = kept
  <2>1. kept \in Int /\ held \in AccountPosition \cup {None}
    BY <1>5, <1>9
  <2> QED
    BY <1>1, <2>1 DEF PlatformAccount
<1>13. /\ E \in Engine /\ E.entry = e.entry /\ E.trades = e.trades /\ E.delivered = e.delivered
       /\ E.pending = e.pending /\ E.setup = e.setup /\ E.close = e.close
       /\ E.exits = exits
  BY <1>1, <1>9 DEF Engine
<1>14. exits.pnl = e.exits.pnl + fill.pnl
  OBVIOUS
<1> HIDE DEF t, A, E, exits
<1>15. /\ t \in SessionType /\ t.failure = None /\ t.broker = s.broker
       /\ t.rejected = s.rejected /\ t.account = A /\ t.engine = E
  BY <1>11, <1>12, <1>13 DEF SessionType
<1>16. Follows(t, after)
  BY <1>2, <1>10, <1>12, <1>13, <1>15 DEF Follows
<1>17. Booked(E) = Booked(e) + fill.pnl
  <2>1. e.exits.pnl \in Int /\ Earned(e.trades) \in Int /\ e.entry.fee \in Int
    <3>1. e.trades \in Seq(Trade) /\ e.exits \in Trade /\ e.entry \in TradeEntry
      BY <1>1, <1>2 DEF Engine
    <3>2. Earned(e.trades) \in Int
      <4> DEFINE zero == [pnl |-> 0, qty |-> 0]
      <4>1. zero \in Trade
        BY DEF Trade
      <4> HIDE DEF zero, e
      <4> QED
        BY <3>1, <4>1, EarnedFacts
    <3> QED
      BY <3>1, <3>2 DEF Trade, TradeEntry
  <2>2. Booked(e) = Earned(e.trades) + e.exits.pnl - e.entry.fee
    BY <1>2 DEF Booked, EntryFee
  <2>3. Booked(E) = Earned(e.trades) + (e.exits.pnl + fill.pnl) - e.entry.fee
    BY <1>2, <1>13, <1>14 DEF Booked, EntryFee
  <2> HIDE DEF e
  <2> QED
    BY <1>4, <2>1, <2>2, <2>3
<1> QED
  BY <1>13, <1>15, <1>16, <1>17 DEF Closed, t, e

LEMMA TradeCloseFacts ==
  ASSUME config \in Configs, NEW s \in SessionType, s.failure = None, NEW p \in Position,
         Follows(s, p), NEW fill \in Fill
  PROVE  Closed(s, OnClose(s, fill), fill, None)
<1> DEFINE a == s.account
           e == s.engine
           zero == 0
           balance == Balance(s.broker)
           peak == Max({a.peak, balance})
           record == TradeRecord(e, fill)
           A == [a EXCEPT !.margin = zero, !.position = None, !.equity = balance, !.peak = peak]
           E == [e EXCEPT !.trades = Append(@, record), !.open = None, !.entry = None,
                          !.exits = NoExits]
           t == OnClose(s, fill)
<1>1. a \in PlatformAccount /\ e \in Engine /\ s.broker \in BrokerType
  BY DEF SessionType
<1>2. /\ a.position = Mirror(p) /\ Mirror(p) # None /\ a.margin = p.margin
      /\ Mirror(p).margin = p.margin /\ p.margin \in Nat /\ e.entry # None
  BY MirrorFacts DEF Follows
<1>3. /\ e.trades \in Seq(Trade) /\ e.exits \in Trade /\ e.exits.pnl \in Int
      /\ e.exits.qty \in Nat /\ e.entry.fee \in Int
      /\ fill.qty \in Nat /\ fill.pnl \in Int
  BY <1>1, <1>2 DEF Engine, Trade, TradeEntry, Fill
<1>4. balance \in Int /\ peak \in Int
  <2>1. balance \in Int
    BY <1>1, LedgerFacts
  <2>2. a.peak \in Int
    BY <1>1 DEF PlatformAccount
  <2> HIDE DEF balance, a
  <2> QED
    BY <2>1, <2>2, MaxFacts
<1>5. record \in Trade /\ record.pnl = e.exits.pnl + fill.pnl - e.entry.fee
  <2>1. record = [pnl |-> e.exits.pnl + fill.pnl - e.entry.fee, qty |-> e.exits.qty + fill.qty]
    BY <1>2 DEF TradeRecord
  <2> HIDE DEF record, e
  <2> QED
    BY <1>3, <2>1 DEF Trade
<1>6. /\ Append(e.trades, record) \in Seq(Trade)
      /\ Earned(e.trades) \in Int
      /\ Earned(Append(e.trades, record)) = Earned(e.trades) + record.pnl
  <2> HIDE DEF record, e
  <2> QED
    BY <1>3, <1>5, EarnedFacts
<1>7. AccountClose(a, balance) = A
  <2>1. Max({0, a.margin - a.position.margin}) = zero
    <3>1. a.margin - a.position.margin = 0
      BY <1>2
    <3>2. Max({0, 0}) = 0
      BY MaxFacts
    <3> QED
      BY <3>1, <3>2
  <2>2. AccountClose(a, balance)
          = [a EXCEPT !.margin = IF a.position = None THEN @
                                 ELSE Max({0, @ - a.position.margin}),
                      !.position = None, !.equity = balance, !.peak = Max({@, balance})]
    BY DEF AccountClose
  <2> HIDE DEF zero, balance
  <2>3. a.position # None
    BY <1>2
  <2> HIDE DEF a
  <2> QED
    BY <1>1, <2>1, <2>2, <2>3 DEF PlatformAccount
<1>8. t = [s EXCEPT !.account = A, !.engine = E]
  <2>1. t = [s EXCEPT !.account = AccountClose(@, balance),
                      !.engine.trades = Append(@, record),
                      !.engine.open = None, !.engine.entry = None, !.engine.exits = NoExits]
    BY DEF OnClose
  <2> HIDE DEF t, A, balance, record
  <2>2. t = [s EXCEPT !.account = A, !.engine.trades = Append(@, record),
                      !.engine.open = None, !.engine.entry = None, !.engine.exits = NoExits]
    BY <1>7, <2>1 DEF SessionType
  <2> QED
    BY <2>2 DEF SessionType
<1>9. zero \in Int
  OBVIOUS
<1> HIDE DEF zero, balance, peak, record, a
<1>10. A \in PlatformAccount /\ A.position = None /\ A.margin = zero
  BY <1>1, <1>4, <1>9 DEF PlatformAccount
<1> HIDE DEF e
<1>11. NoExits \in Trade /\ NoExits.pnl = 0
  BY DEF NoExits, Trade
<1>12. /\ E \in Engine /\ E.entry = None /\ E.trades = Append(e.trades, record)
       /\ E.delivered = e.delivered /\ E.pending = e.pending /\ E.setup = e.setup
       /\ E.close = e.close /\ E.exits = NoExits
  BY <1>1, <1>6, <1>11 DEF Engine
<1> HIDE DEF t, A, E
<1>13. /\ t \in SessionType /\ t.failure = None /\ t.broker = s.broker
       /\ t.rejected = s.rejected /\ t.account = A /\ t.engine = E
  BY <1>8, <1>10, <1>12 DEF SessionType
<1>14. Mirror(None) = None
  BY DEF Mirror
<1>15. Follows(t, None)
  BY <1>10, <1>11, <1>12, <1>13, <1>14 DEF Follows, zero
<1>16. Booked(E) = Booked(e) + fill.pnl
  <2>1. Booked(e) = Earned(e.trades) + e.exits.pnl - e.entry.fee
    BY <1>2 DEF Booked, EntryFee, e
  <2>2. Booked(E) = Earned(Append(e.trades, record)) + 0 - 0
    BY <1>11, <1>12 DEF Booked, EntryFee
  <2> QED
    BY <1>3, <1>5, <1>6, <2>1, <2>2
<1> QED
  BY <1>12, <1>13, <1>15, <1>16 DEF Closed, t, e

LEMMA ExitAppliedFacts ==
  ASSUME config \in Configs, NEW s \in SessionType, s.failure = None, NEW p \in Position,
         Follows(s, p), NEW fill \in Fill, fill.kind # "entry",
         NEW after, Left(p, fill, after)
  PROVE  Closed(s, ApplyPaperFill(s, fill), fill, after)
<1>1. CASE fill.status = "partial"
  <2>1. ApplyPaperFill(s, fill) = OnPartialClose(s, fill)
    BY <1>1 DEF ApplyPaperFill
  <2>2. fill.qty < p.qty
        /\ after = [p EXCEPT !.qty = p.qty - fill.qty,
                             !.margin = Quotient(p.margin * (p.qty - fill.qty), p.qty)]
    BY <1>1 DEF Left
  <2> QED
    BY <2>1, <2>2, PartialCloseFacts
<1>2. CASE fill.status # "partial"
  <2>1. ApplyPaperFill(s, fill) = OnClose(s, fill)
    BY <1>2 DEF ApplyPaperFill
  <2>2. after = None
    BY <1>2 DEF Left
  <2> QED
    BY <2>1, <2>2, TradeCloseFacts
<1> QED
  BY <1>1, <1>2

\* What the engine keeps when it applies the entry that made position after of position p:
\* it fails and leaves the broker to be flattened, or names the protective orders.
Applied(s, t, fill, p, after) ==
  LET c == t.broker
  IN /\ t \in SessionType /\ t.rejected = s.rejected
     /\ t.engine.delivered = s.engine.delivered /\ t.engine.close = s.engine.close
     /\ \/ t.failure # None /\ c = s.broker
        \/ /\ t.failure = None
           /\ Books(s.engine.delivered, c) /\ c.deferred = None
           /\ c.position = Shielded(s.broker.position)
           /\ c.pending = s.broker.pending /\ c.rejection = s.broker.rejection
           /\ c.executed = s.broker.executed /\ Traded(c) = Traded(s.broker)
           /\ IF p = None THEN t.engine.pending = FALSE /\ t.engine.setup = None
              ELSE t.engine.pending = s.engine.pending /\ t.engine.setup = s.engine.setup
           /\ Follows(t, after)
           /\ Booked(t.engine) = Booked(s.engine) - fill.fee

\* Naming the orders leaves account and engine.
LEMMA NamedFacts ==
  ASSUME config \in Configs, NEW s \in SessionType, NEW begun \in SessionType, s.failure = None,
         Books(s.engine.delivered, s.broker),
         begun.broker = s.broker, begun.failure = None, begun.rejected = s.rejected,
         begun.engine.delivered = s.engine.delivered, begun.engine.close = s.engine.close,
         NEW fill, NEW qty, NEW stop, NEW target,
         s.broker.position # None =>
           stop = s.broker.position.stop /\ target = s.broker.position.target,
         NEW p, NEW after, Follows(begun, after),
         Booked(begun.engine) = Booked(s.engine) - fill.fee,
         IF p = None THEN begun.engine.pending = FALSE /\ begun.engine.setup = None
         ELSE begun.engine.pending = s.engine.pending /\ begun.engine.setup = s.engine.setup
  PROVE  Applied(s, NameProtection(begun, fill, qty, stop, target), fill, p, after)
<1> DEFINE t == NameProtection(begun, fill, qty, stop, target)
           c == t.broker
<1>1. \/ t = [begun EXCEPT !.failure = "contained"]
      \/ /\ t = [begun EXCEPT !.broker = c]
         /\ Books(begun.engine.delivered, c) /\ c.deferred = None
         /\ c.position = Shielded(begun.broker.position)
         /\ c.pending = begun.broker.pending /\ c.rejection = begun.broker.rejection
         /\ c.executed = begun.broker.executed /\ Traded(c) = Traded(begun.broker)
  BY NameFacts
<1> HIDE DEF t
<1>2. CASE t = [begun EXCEPT !.failure = "contained"]
  <2>1. /\ t \in SessionType /\ t.failure = "contained" /\ t.broker = begun.broker
        /\ t.engine = begun.engine /\ t.rejected = begun.rejected
    BY <1>2 DEF SessionType
  <2>2. t.failure # None
    BY <2>1, NoPositionAssumption
  <2> QED
    BY <2>1, <2>2 DEF Applied, t
<1>3. CASE /\ t = [begun EXCEPT !.broker = c]
           /\ Books(begun.engine.delivered, c) /\ c.deferred = None
           /\ c.position = Shielded(begun.broker.position)
           /\ c.pending = begun.broker.pending /\ c.rejection = begun.broker.rejection
           /\ c.executed = begun.broker.executed /\ Traded(c) = Traded(begun.broker)
  <2>1. c \in BrokerType
    BY <1>3 DEF Books
  <2> HIDE DEF c
  <2>2. /\ t \in SessionType /\ t.failure = None /\ t.broker = c /\ t.account = begun.account
        /\ t.engine = begun.engine /\ t.rejected = begun.rejected
    BY <1>3, <2>1 DEF SessionType
  <2>3. Follows(t, after)
    BY <2>2 DEF Follows
  <2>4. /\ t.rejected = s.rejected
        /\ t.engine.delivered = s.engine.delivered /\ t.engine.close = s.engine.close
        /\ Books(s.engine.delivered, t.broker) /\ t.broker.deferred = None
        /\ t.broker.position = Shielded(s.broker.position)
        /\ t.broker.pending = s.broker.pending /\ t.broker.rejection = s.broker.rejection
        /\ t.broker.executed = s.broker.executed /\ Traded(t.broker) = Traded(s.broker)
        /\ Booked(t.engine) = Booked(s.engine) - fill.fee
    BY <1>3, <2>2
  <2>5. IF p = None THEN t.engine.pending = FALSE /\ t.engine.setup = None
        ELSE t.engine.pending = s.engine.pending /\ t.engine.setup = s.engine.setup
    BY <2>2
  <2>6. Applied(s, t, fill, p, after)
    BY <2>2, <2>3, <2>4, <2>5 DEF Applied
  <2> QED
    BY <2>6 DEF t
<1> QED
  BY <1>1, <1>2, <1>3

LEMMA BookedType ==
  ASSUME NEW e \in Engine
  PROVE  Earned(e.trades) \in Int /\ e.exits.pnl \in Int /\ EntryFee(e) \in Int /\ Booked(e) \in Int
<1>1. e.trades \in Seq(Trade) /\ e.exits \in Trade /\ e.entry \in TradeEntry \cup {None}
  BY DEF Engine
<1>2. Earned(e.trades) \in Int
  <2> DEFINE zero == [pnl |-> 0, qty |-> 0]
  <2>1. zero \in Trade
    BY DEF Trade
  <2> HIDE DEF zero
  <2> QED
    BY <1>1, <2>1, EarnedFacts
<1>3. e.exits.pnl \in Int
  BY <1>1 DEF Trade
<1>4. EntryFee(e) \in Int
  BY <1>1 DEF EntryFee, TradeEntry
<1> QED
  BY <1>2, <1>3, <1>4 DEF Booked

LEMMA OnOpenFacts ==
  ASSUME config \in Configs, NEW s \in SessionType, s.failure = None,
         Books(s.engine.delivered, s.broker), Follows(s, None), s.engine.setup # None,
         NEW fill \in Fill, NEW after \in Position, Grown(None, fill, after),
         ProtectionReference(s.broker) = after,
         s.broker.position # None =>
           after.stop = s.broker.position.stop /\ after.target = s.broker.position.target,
         fill.margin = 0 => MarginUsed(s.broker) = 0
  PROVE  Applied(s, OnOpen(s, fill), fill, None, after)
<1> DEFINE a == s.account
           e == s.engine
           entry == [price |-> fill.price, qty |-> fill.qty, fee |-> fill.fee]
           margin == IF fill.margin # 0 THEN fill.margin ELSE MarginUsed(s.broker)
           held == [side |-> fill.side, entry |-> fill.price, qty |-> fill.qty,
                    stop |-> after.stop, margin |-> margin]
           A == [a EXCEPT !.position = held, !.margin = margin]
           E == [e EXCEPT !.pending = FALSE, !.trade_id = @ + 1, !.open = e.setup,
                          !.setup = None, !.entry = entry]
           begun == [s EXCEPT !.account = A, !.engine = E]
           t == OnOpen(s, fill)
<1>1. a \in PlatformAccount /\ e \in Engine /\ s.broker \in BrokerType
  BY DEF SessionType
<1>2. a.position = None /\ a.margin = 0 /\ e.entry = None /\ e.exits.pnl = 0
  BY DEF Follows, Mirror
<1>3. /\ fill.side = after.side /\ fill.price = after.entry /\ fill.qty = after.qty
      /\ fill.margin = after.margin /\ fill.margin \in Nat
      /\ fill.price \in Int /\ fill.qty \in Nat \ {0} /\ fill.fee \in Int
  BY DEF Grown, Fill
<1>4. margin = after.margin
  BY <1>3
<1> HIDE DEF margin
<1>5. after # None /\ Mirror(after) = held /\ held \in AccountPosition
  BY <1>3, <1>4, MirrorFacts
<1>6. entry \in TradeEntry /\ entry # None /\ entry.fee = fill.fee
  <2>1. entry \in TradeEntry /\ entry.fee = fill.fee
    BY <1>3 DEF TradeEntry
  <2> QED
    BY <2>1, NoPositionAssumption
<1>7. t = NameProtection(begun, fill, fill.qty, after.stop, after.target)
  <2>1. t = NameProtection([[s EXCEPT !.engine.pending = FALSE, !.engine.trade_id = @ + 1,
                                      !.engine.open = e.setup, !.engine.setup = None,
                                      !.engine.entry = entry]
                              EXCEPT !.account = AccountOpen(@, fill, after.stop, margin)],
                           fill, fill.qty, after.stop, after.target)
    BY <1>5 DEF OnOpen, margin
  <2>2. AccountOpen(a, fill, after.stop, margin) = A
    <3>1. AccountOpen(a, fill, after.stop, margin)
            = [a EXCEPT !.position = held, !.margin = @ + margin]
      BY DEF AccountOpen
    <3>2. a.margin + margin = margin
      BY <1>2, <1>3, <1>4
    <3> HIDE DEF held, a
    <3> QED
      BY <1>1, <3>1, <3>2 DEF PlatformAccount
  <2>3. [[s EXCEPT !.engine.pending = FALSE, !.engine.trade_id = @ + 1,
                   !.engine.open = e.setup, !.engine.setup = None, !.engine.entry = entry]
           EXCEPT !.account = AccountOpen(@, fill, after.stop, margin)] = begun
    <3> HIDE DEF A, entry
    <3> QED
      BY <1>1, <2>2 DEF SessionType, Engine
  <2> HIDE DEF begun
  <2> QED
    BY <2>1, <2>3
<1>8. A \in PlatformAccount /\ A.position = held /\ A.margin = after.margin
  <2>1. margin \in Int /\ held \in AccountPosition \cup {None}
    BY <1>3, <1>4, <1>5
  <2> HIDE DEF held
  <2> QED
    BY <1>1, <1>4, <2>1 DEF PlatformAccount
<1> HIDE DEF held, A, entry, a, t
<1>9. /\ E \in Engine /\ E.entry = entry /\ E.trades = e.trades /\ E.exits = e.exits
      /\ E.delivered = e.delivered /\ E.close = e.close /\ E.pending = FALSE /\ E.setup = None
  <2>1. e.trade_id + 1 \in Nat /\ e.setup \in TradeSetup \cup {None}
    BY <1>1 DEF Engine
  <2> HIDE DEF e
  <2> QED
    BY <1>1, <1>6, <2>1 DEF Engine
<1> HIDE DEF E, e
<1>10. /\ begun \in SessionType /\ begun.broker = s.broker /\ begun.failure = None
       /\ begun.rejected = s.rejected /\ begun.account = A /\ begun.engine = E
  BY <1>8, <1>9 DEF SessionType
<1> HIDE DEF begun
<1>11. Follows(begun, after)
  BY <1>5, <1>6, <1>8, <1>9, <1>10 DEF Follows
<1>12. Booked(E) = Booked(e) - fill.fee
  <2>1. Earned(e.trades) \in Int /\ e.exits.pnl \in Int
    BY <1>1, BookedType
  <2>2. Booked(e) = Earned(e.trades) + e.exits.pnl - 0
    BY <1>2 DEF Booked, EntryFee, e
  <2>3. Booked(E) = Earned(e.trades) + e.exits.pnl - fill.fee
    BY <1>6, <1>9 DEF Booked, EntryFee
  <2> QED
    BY <1>3, <2>1, <2>2, <2>3
<1>13. /\ begun.engine.delivered = s.engine.delivered /\ begun.engine.close = s.engine.close
       /\ begun.engine.pending = FALSE /\ begun.engine.setup = None
       /\ Booked(begun.engine) = Booked(s.engine) - fill.fee
  BY <1>9, <1>10, <1>12 DEF e
<1> DEFINE p == None
<1>14. IF p = None THEN begun.engine.pending = FALSE /\ begun.engine.setup = None
       ELSE begun.engine.pending = s.engine.pending /\ begun.engine.setup = s.engine.setup
  BY <1>13
<1> HIDE DEF p
<1>15. Applied(s, NameProtection(begun, fill, fill.qty, after.stop, after.target), fill, p, after)
  BY <1>10, <1>11, <1>13, <1>14, NamedFacts
<1> QED
  BY <1>7, <1>15 DEF t, p

LEMMA OnEntryFacts ==
  ASSUME config \in Configs, NEW s \in SessionType, s.failure = None,
         Books(s.engine.delivered, s.broker), NEW p \in Position, Follows(s, p),
         NEW fill \in Fill, NEW after \in Position, Grown(p, fill, after)
  PROVE  Applied(s, OnEntryFillDelta(s, fill), fill, p, after)
<1> DEFINE a == s.account
           e == s.engine
           m == Mirror(p)
           q == s.broker.position
           total == e.entry.qty + fill.qty
           levels == IF q = None THEN e.open ELSE q
           price == AveragePrice(e.entry.price, e.entry.qty, fill.price, fill.qty)
           entry == [price |-> price, qty |-> total, fee |-> e.entry.fee + fill.fee]
           held == [m EXCEPT !.entry = after.entry, !.qty = after.qty, !.margin = after.margin]
           A == [a EXCEPT !.position = held, !.margin = after.margin]
           E == [e EXCEPT !.entry = entry]
           begun == [s EXCEPT !.account = A, !.engine = E]
           t == OnEntryFillDelta(s, fill)
<1>1. a \in PlatformAccount /\ e \in Engine /\ s.broker \in BrokerType
  BY DEF SessionType
<1>2. /\ p # None /\ a.position = m /\ a.margin = p.margin /\ e.entry # None
      /\ m \in AccountPosition /\ m.entry = p.entry /\ m.qty = p.qty /\ m.margin = p.margin
      /\ m.side = p.side /\ m.stop = p.stop
      /\ p.margin \in Nat
  BY MirrorFacts DEF Follows
<1>3. /\ after.side = p.side /\ after.stop = p.stop
      /\ after.entry = AveragePrice(p.entry, p.qty, fill.price, fill.qty)
      /\ after.qty = p.qty + fill.qty /\ after.margin = p.margin + fill.margin
      /\ after.entry \in Int /\ after.qty \in Nat \ {0} /\ after.margin \in Nat
      /\ fill.price \in Int /\ fill.qty \in Nat \ {0} /\ fill.fee \in Int
      /\ after # None
  BY <1>2, NotNone DEF Grown, Fill, Position
<1>4. e.entry \in TradeEntry /\ e.entry.price \in Int /\ e.entry.qty \in Nat \ {0}
      /\ e.entry.fee \in Int
  BY <1>1, <1>2 DEF Engine, TradeEntry
<1>5. price \in Int /\ total \in Nat \ {0} /\ e.entry.fee + fill.fee \in Int
  <2>1. total \in Nat \ {0} /\ e.entry.fee + fill.fee \in Int
    BY <1>3, <1>4
  <2>2. price \in Int
    <3> HIDE DEF e
    <3> QED
      BY <1>3, <1>4, AverageType
  <2> QED
    BY <2>1, <2>2
<1>6. entry \in TradeEntry /\ entry # None /\ entry.fee = e.entry.fee + fill.fee
  <2> HIDE DEF price, total, e
  <2>1. entry \in TradeEntry /\ entry.fee = e.entry.fee + fill.fee
    BY <1>5 DEF TradeEntry
  <2> QED
    BY <2>1, NoPositionAssumption
<1>7. held \in AccountPosition /\ Mirror(after) = held
  <2>1. /\ held \in AccountPosition /\ held.side = after.side /\ held.entry = after.entry
        /\ held.qty = after.qty /\ held.stop = after.stop /\ held.margin = after.margin
    <3> HIDE DEF m
    <3> QED
      BY <1>2, <1>3 DEF AccountPosition
  <2> HIDE DEF held
  <2>2. held = [side |-> held.side, entry |-> held.entry, qty |-> held.qty,
                stop |-> held.stop, margin |-> held.margin]
    BY <2>1 DEF AccountPosition
  <2>3. Mirror(after) = [side |-> after.side, entry |-> after.entry, qty |-> after.qty,
                         stop |-> after.stop, margin |-> after.margin]
    BY MirrorFacts
  <2> QED
    BY <2>1, <2>2, <2>3
<1>8. AccountEntryFill(a, fill) = A
  <2> HIDE DEF m
  <2>2. [m EXCEPT !.entry = AveragePrice(@, p.qty, fill.price, fill.qty),
                  !.qty = @ + fill.qty, !.margin = @ + fill.margin] = held
    BY <1>2, <1>3 DEF AccountPosition
  <2>3. a.position.qty = p.qty /\ a.margin + fill.margin = after.margin /\ a.position = m
    BY <1>2, <1>3
  <2> DEFINE x == [a.position EXCEPT !.entry = AveragePrice(@, a.position.qty, fill.price, fill.qty),
                                     !.qty = @ + fill.qty, !.margin = @ + fill.margin]
  <2>4. x = held
    BY <2>2, <2>3
  <2>5. AccountEntryFill(a, fill) = [a EXCEPT !.position = x, !.margin = a.margin + fill.margin]
    <3>1. AccountEntryFill(a, fill) = [a EXCEPT !.position = x, !.margin = @ + fill.margin]
      BY DEF AccountEntryFill
    <3> HIDE DEF a, x
    <3> QED
      BY <1>1, <3>1 DEF PlatformAccount
  <2> HIDE DEF held, a, x
  <2> QED
    BY <2>3, <2>4, <2>5
<1>9. A \in PlatformAccount /\ A.position = held /\ A.margin = after.margin
  <2>1. after.margin \in Int /\ held \in AccountPosition \cup {None}
    BY <1>3, <1>7
  <2> HIDE DEF held
  <2> QED
    BY <1>1, <2>1 DEF PlatformAccount
<1> HIDE DEF entry
<1>10. /\ E \in Engine /\ E.entry = entry /\ E.trades = e.trades /\ E.exits = e.exits
       /\ E.delivered = e.delivered /\ E.close = e.close /\ E.pending = e.pending
       /\ E.setup = e.setup
  <2> HIDE DEF e
  <2> QED
    BY <1>1, <1>6 DEF Engine
<1> HIDE DEF held, A, E, m
<1>11. /\ begun \in SessionType /\ begun.broker = s.broker /\ begun.failure = None
       /\ begun.rejected = s.rejected /\ begun.account = A /\ begun.engine = E
  BY <1>9, <1>10 DEF SessionType
<1>12. t = IF e.open = None \/ e.entry = None THEN Raise(s)
           ELSE NameProtection([s EXCEPT !.engine.entry = entry,
                                         !.account = AccountEntryFill(@, fill)],
                               fill, total, levels.stop, levels.target)
  BY DEF OnEntryFillDelta, entry
<1>13. [s EXCEPT !.engine.entry = entry, !.account = AccountEntryFill(@, fill)] = begun
  <2> HIDE DEF A
  <2> QED
    BY <1>1, <1>8 DEF SessionType, Engine, E
<1> HIDE DEF begun, t
<1>14. CASE e.open = None \/ e.entry = None
  <2>1. t = [s EXCEPT !.failure = "raised"]
    BY <1>12, <1>14 DEF Raise
  <2>2. /\ t \in SessionType /\ t.failure = "raised" /\ t.broker = s.broker
        /\ t.engine = s.engine /\ t.rejected = s.rejected
    BY <2>1 DEF SessionType
  <2>3. t.failure # None
    BY <2>2, NoPositionAssumption
  <2>4. Applied(s, t, fill, p, after)
    BY <2>2, <2>3 DEF Applied
  <2> QED
    BY <2>4 DEF t
<1>15. CASE ~(e.open = None \/ e.entry = None)
  <2>1. t = NameProtection(begun, fill, total, levels.stop, levels.target)
    BY <1>12, <1>13, <1>15
  <2>2. Follows(begun, after)
    BY <1>3, <1>6, <1>7, <1>9, <1>10, <1>11 DEF Follows
  <2>3. Booked(E) = Booked(e) - fill.fee
    <3>1. Earned(e.trades) \in Int /\ e.exits.pnl \in Int
      BY <1>1, BookedType
    <3>2. Booked(e) = Earned(e.trades) + e.exits.pnl - e.entry.fee
      BY <1>2 DEF Booked, EntryFee
    <3>3. Booked(E) = Earned(e.trades) + e.exits.pnl - (e.entry.fee + fill.fee)
      BY <1>6, <1>10 DEF Booked, EntryFee
    <3> HIDE DEF e
    <3> QED
      BY <1>3, <1>4, <3>1, <3>2, <3>3
  <2>4. /\ begun.engine.delivered = s.engine.delivered /\ begun.engine.close = s.engine.close
        /\ Booked(begun.engine) = Booked(s.engine) - fill.fee
    BY <1>10, <1>11, <2>3
  <2>5. IF p = None THEN begun.engine.pending = FALSE /\ begun.engine.setup = None
        ELSE begun.engine.pending = s.engine.pending /\ begun.engine.setup = s.engine.setup
    BY <1>2, <1>10, <1>11
  <2>6. s.broker.position # None =>
          levels.stop = s.broker.position.stop /\ levels.target = s.broker.position.target
    OBVIOUS
  <2> DEFINE stop == levels.stop
             target == levels.target
  <2> HIDE DEF stop, target, total
  <2>7. s.broker.position # None =>
          stop = s.broker.position.stop /\ target = s.broker.position.target
    BY <2>6 DEF stop, target
  <2>8. Applied(s, NameProtection(begun, fill, total, stop, target), fill, p, after)
    BY <1>11, <2>2, <2>4, <2>5, <2>7, NamedFacts
  <2> QED
    BY <2>1, <2>8 DEF t, stop, target
<1> QED
  BY <1>14, <1>15

LEMMA EntryAppliedFacts ==
  ASSUME config \in Configs, NEW s \in SessionType, s.failure = None,
         Books(s.engine.delivered, s.broker), NEW p \in Position \cup {None}, Follows(s, p),
         NEW fill \in Fill, fill.kind = "entry", NEW after \in Position, Grown(p, fill, after),
         p = None =>
           /\ s.engine.setup # None
           /\ ProtectionReference(s.broker) = after
           /\ s.broker.position # None =>
                after.stop = s.broker.position.stop /\ after.target = s.broker.position.target
           /\ fill.margin = 0 => MarginUsed(s.broker) = 0
  PROVE  Applied(s, ApplyPaperFill(s, fill), fill, p, after)
<1>1. CASE p = None
  <2>1. s.account.position = None
    BY <1>1 DEF Follows, Mirror
  <2>2. ApplyPaperFill(s, fill) = OnOpen(s, fill)
    BY <2>1 DEF ApplyPaperFill
  <2>3. Applied(s, OnOpen(s, fill), fill, None, after)
    BY <1>1, OnOpenFacts
  <2> QED
    BY <1>1, <2>2, <2>3
<1>2. CASE p # None
  <2>1. p \in Position
    BY <1>2
  <2>2. s.account.position # None
    BY <2>1, MirrorFacts DEF Follows
  <2>3. ApplyPaperFill(s, fill) = OnEntryFillDelta(s, fill)
    BY <2>2 DEF ApplyPaperFill
  <2> QED
    BY <2>1, <2>3, OnEntryFacts
<1> QED
  BY <1>1, <1>2

-----------------------------------------------------------------------------
(***************************************************************************)
(* The fills of a bar, none, one or two of them.                           *)
(***************************************************************************)
MatchedWith(s, r) == [s EXCEPT !.broker = r.broker,
                               !.failure = IF r.raised THEN "raised" ELSE None]

LEMMA FillsUnrolled ==
  ASSUME NEW s, NEW r
  PROVE  LET t == MatchedWith(s, r)
         IN /\ Len(r.fills) = 0 => ApplyPaperFills(s, r) = t
            /\ Len(r.fills) = 1 => ApplyPaperFills(s, r) = ApplyPaperFill(t, r.fills[1])
            /\ Len(r.fills) = 2 =>
                 ApplyPaperFills(s, r) = ApplyPaperFill(ApplyPaperFill(t, r.fills[1]), r.fills[2])
<1> DEFINE t == MatchedWith(s, r)
           N == Len(r.fills)
           next(h) == [n \in 0 .. N |-> IF n = 0 THEN t ELSE ApplyPaperFill(h[n - 1], r.fills[n])]
           after == CHOOSE h : h = next(h)
           one == ApplyPaperFill(t, r.fills[1])
           two == ApplyPaperFill(one, r.fills[2])
           w == [n \in 0 .. N |-> IF n = 0 THEN t ELSE IF n = 1 THEN one ELSE two]
<1>1. ApplyPaperFills(s, r) = after[N]
  BY DEF ApplyPaperFills, MatchedWith
<1> HIDE DEF t
<1>2. ASSUME N \in {0, 1, 2} PROVE after = next(after)
  <2>1. w = next(w)
    <3>1. ASSUME NEW n \in 0 .. N
          PROVE  w[n] = IF n = 0 THEN t ELSE ApplyPaperFill(w[n - 1], r.fills[n])
      <4>1. n \in {0, 1, 2} /\ (n # 0 => n - 1 \in 0 .. N)
        <5>1. \A k \in {0, 1, 2} : \A i \in 0 .. k :
                i \in {0, 1, 2} /\ (i # 0 => i - 1 \in 0 .. k)
          OBVIOUS
        <5> HIDE DEF N
        <5> QED
          BY <1>2, <5>1
      <4>2. CASE n = 0
        BY <4>2
      <4>3. CASE n = 1
        BY <4>1, <4>3
      <4>4. CASE n = 2
        BY <4>1, <4>4
      <4> QED
        BY <4>1, <4>2, <4>3, <4>4
    <3>2. w = [n \in 0 .. N |-> w[n]]
      OBVIOUS
    <3> HIDE DEF w
    <3> QED
      BY <3>1, <3>2
  <2> HIDE DEF w, next
  <2> QED
    BY <2>1
<1>3. ASSUME N \in {0, 1, 2}
      PROVE  /\ after[0] = t
             /\ N >= 1 => after[1] = ApplyPaperFill(after[0], r.fills[1])
             /\ N >= 2 => after[2] = ApplyPaperFill(after[1], r.fills[2])
  <2>1. after = next(after)
    BY <1>2, <1>3
  <2> HIDE DEF after
  <2>2. \A n \in 0 .. N : after[n] = IF n = 0 THEN t ELSE ApplyPaperFill(after[n - 1], r.fills[n])
    BY <2>1
  <2>3. 0 \in 0 .. N /\ (N >= 1 => 1 \in 0 .. N /\ 1 - 1 = 0) /\ (N >= 2 => 2 \in 0 .. N /\ 2 - 1 = 1)
    BY <1>3
  <2>4. after[0] = t
    BY <2>2, <2>3
  <2>5. N >= 1 => after[1] = ApplyPaperFill(after[0], r.fills[1])
    BY <2>2, <2>3
  <2>6. N >= 2 => after[2] = ApplyPaperFill(after[1], r.fills[2])
    BY <2>2, <2>3
  <2> QED
    BY <2>4, <2>5, <2>6
<1> HIDE DEF after
<1>4. N = 0 => ApplyPaperFills(s, r) = t
  BY <1>1, <1>3
<1>5. N = 1 => ApplyPaperFills(s, r) = one
  BY <1>1, <1>3
<1>6. N = 2 => ApplyPaperFills(s, r) = two
  BY <1>1, <1>3
<1> QED
  BY <1>4, <1>5, <1>6 DEF t

LEMMA ShieldedFacts ==
  ASSUME NEW p \in Position \cup {None}, NEW s, Follows(s, p)
  PROVE  Follows(s, Shielded(p)) /\ (Shielded(p) # None => Shielded(p).protected = TRUE)
<1>1. CASE p = None
  BY <1>1 DEF Shielded
<1>2. CASE p # None
  <2> DEFINE d == Shielded(p)
  <2>1. /\ d \in Position /\ d.side = p.side /\ d.entry = p.entry /\ d.qty = p.qty
        /\ d.stop = p.stop /\ d.margin = p.margin /\ d.protected = TRUE
    BY <1>2 DEF Shielded, Position
  <2> HIDE DEF d
  <2>2. d # None
    BY <2>1, NotNone
  <2>3. Mirror(d) = Mirror(p)
    BY <1>2, <2>1, <2>2 DEF Mirror
  <2>4. Follows(s, d)
    BY <1>2, <2>1, <2>2, <2>3 DEF Follows
  <2> QED
    BY <2>1, <2>4 DEF d
<1> QED
  BY <1>1, <1>2

\* What the fills of a bar leave: a failure, or all of it in order but for a rejection
\* that the engine has not consumed yet.
Filled(s, t) ==
  /\ t \in SessionType /\ t.rejected = s.rejected
  /\ NoReentry(t.broker.executed)
  /\ t.failure = None =>
       /\ Steady(t)
       /\ IF t.broker.rejection THEN t.broker.pending = None ELSE Waits(t)

LEMMA MatchedWithFacts ==
  ASSUME NEW s \in SessionType, NEW r, r.broker \in BrokerType
  PROVE  LET t == MatchedWith(s, r)
         IN /\ t \in SessionType /\ t.broker = r.broker /\ t.account = s.account
            /\ t.engine = s.engine /\ t.rejected = s.rejected
            /\ r.raised = FALSE => t.failure = None
            /\ r.raised = TRUE => t.failure # None
            /\ \A p : Follows(t, p) <=> Follows(s, p)
<1> DEFINE failure == IF r.raised THEN "raised" ELSE None
           c == r.broker
           t == MatchedWith(s, r)
<1>1. t = [s EXCEPT !.broker = c, !.failure = failure]
  BY DEF MatchedWith
<1>2. /\ failure \in {None, "raised", "contained"}
      /\ r.raised = FALSE => failure = None
      /\ r.raised = TRUE => failure # None
  BY NoPositionAssumption
<1> HIDE DEF failure, c, t
<1>3. c \in BrokerType
  BY DEF c
<1>4. /\ t \in SessionType /\ t.broker = c /\ t.account = s.account
      /\ t.engine = s.engine /\ t.rejected = s.rejected /\ t.failure = failure
  BY <1>1, <1>2, <1>3 DEF SessionType
<1>5. \A p : Follows(t, p) <=> Follows(s, p)
  BY <1>4 DEF Follows
<1> QED
  BY <1>2, <1>4, <1>5 DEF t, c

LEMMA UnfilledApplied ==
  ASSUME NEW s, Steady(s), Waits(s), s.failure = None, s.broker.rejection = FALSE,
         NEW r, Unfilled(s.engine.delivered, s.broker, r)
  PROVE  /\ Filled(s, ApplyPaperFills(s, r))
         /\ ApplyPaperFills(s, r).broker.rejection = r.broker.rejection
<1> DEFINE b == s.broker
           c == r.broker
           t == ApplyPaperFills(s, r)
<1>1. /\ r.fills = <<>> /\ Books(s.engine.delivered, c) /\ Traded(c) = Traded(b)
      /\ c.position = b.position /\ c.deferred = None
      /\ \/ r.raised = TRUE
         \/ r.raised = FALSE /\ c.pending = b.pending /\ c.rejection = b.rejection /\ Adds(c)
         \/ r.raised = FALSE /\ c.pending = None /\ (c.rejection = TRUE \/ b.position # None)
  <2>1. r = [broker |-> c, fills |-> <<>>, raised |-> r.raised]
    BY DEF Unfilled
  <2>2. r.fills = <<>>
    <3> HIDE DEF c
    <3> QED
      BY <2>1
  <2> QED
    BY <2>2 DEF Unfilled
<1>2. s \in SessionType /\ c \in BrokerType /\ NoReentry(c.executed)
  BY <1>1 DEF Steady, Books
<1>3. t = MatchedWith(s, r)
  <2>1. Len(r.fills) = 0
    BY <1>1
  <2> QED
    BY <2>1, FillsUnrolled
<1>4. /\ t \in SessionType /\ t.broker = c /\ t.engine = s.engine /\ t.rejected = s.rejected
      /\ r.raised = FALSE => t.failure = None
      /\ r.raised = TRUE => t.failure # None
      /\ \A p : Follows(t, p) <=> Follows(s, p)
  <2> DEFINE m == MatchedWith(s, r)
  <2>1. /\ m \in SessionType /\ m.broker = c /\ m.engine = s.engine /\ m.rejected = s.rejected
        /\ r.raised = FALSE => m.failure = None
        /\ r.raised = TRUE => m.failure # None
        /\ \A p : Follows(m, p) <=> Follows(s, p)
    BY <1>2, MatchedWithFacts
  <2> HIDE DEF m, t, c
  <2> QED
    BY <1>3, <2>1 DEF m
<1> HIDE DEF t, c
<1>5. CASE r.raised = TRUE
  <2>1. Filled(s, t)
    BY <1>2, <1>4, <1>5 DEF Filled
  <2> QED
    BY <1>4, <2>1 DEF t, c
<1>6. CASE r.raised = FALSE
  <2>1. Adds(c)
    BY <1>1, <1>6 DEF Adds
  <2>2. Steady(t)
    BY <1>1, <1>4, <2>1 DEF Steady
  <2>3. IF t.broker.rejection THEN t.broker.pending = None ELSE Waits(t)
    <3>1. CASE c.pending = b.pending /\ c.rejection = b.rejection
      BY <1>1, <1>4, <3>1 DEF Waits
    <3>2. CASE c.pending = None /\ (c.rejection = TRUE \/ b.position # None)
      BY <1>1, <1>4, <3>2 DEF Waits
    <3> QED
      BY <1>1, <1>6, <3>1, <3>2
  <2>4. Filled(s, t)
    BY <1>2, <1>4, <2>2, <2>3 DEF Filled
  <2> QED
    BY <1>4, <2>4 DEF t, c
<1> QED
  BY <1>1, <1>5, <1>6

LEMMA LeftFacts ==
  ASSUME NEW p \in Position, NEW fill, NEW after, Left(p, fill, after)
  PROVE  after # None => /\ after.protected = p.protected /\ after.stop = p.stop
                         /\ after.target = p.target
                         /\ after.margin = Quotient(p.margin * (p.qty - fill.qty), p.qty)
<1> SUFFICES ASSUME after # None
             PROVE  /\ after.protected = p.protected /\ after.stop = p.stop
                    /\ after.target = p.target
                    /\ after.margin = Quotient(p.margin * (p.qty - fill.qty), p.qty)
  OBVIOUS
<1> DEFINE left == p.qty - fill.qty
           kept == Quotient(p.margin * left, p.qty)
<1>1. after = [p EXCEPT !.qty = left, !.margin = kept]
  BY DEF Left
<1> HIDE DEF left, kept
<1>2. /\ after.protected = p.protected /\ after.stop = p.stop /\ after.target = p.target
      /\ after.margin = kept
  BY <1>1 DEF Position
<1> QED
  BY <1>2 DEF left, kept

LEMMA ExitedApplied ==
  ASSUME config \in Configs, NEW s, Steady(s), Waits(s), s.failure = None,
         s.broker.rejection = FALSE,
         NEW r, Exited(s.engine.delivered, s.broker, r), r.broker.pending = None
  PROVE  Filled(s, ApplyPaperFills(s, r))
<1> DEFINE b == s.broker
           p == b.position
           c == r.broker
           f == r.fills[1]
           m == MatchedWith(s, r)
           t == ApplyPaperFills(s, r)
<1>1. /\ s \in SessionType /\ b \in BrokerType /\ p \in Position \cup {None}
      /\ p # None => p.protected = TRUE
      /\ Follows(s, p) /\ Traded(b) = Booked(s.engine)
  <2>1. s \in SessionType /\ b \in BrokerType
    BY DEF Steady, Books
  <2>2. p \in Position \cup {None}
    BY <2>1 DEF BrokerType
  <2> QED
    BY <2>1, <2>2 DEF Steady
<1>2. /\ r = [broker |-> c, fills |-> <<f>>, raised |-> FALSE]
      /\ p # None /\ f \in Fill /\ f.kind # "entry" /\ Books(s.engine.delivered, c)
      /\ c.rejection = b.rejection /\ Left(p, f, c.position) /\ Traded(c) = Traded(b) + f.pnl
      /\ p.protected => c.deferred = None
  BY DEF Exited
<1>3. p \in Position /\ c \in BrokerType /\ NoReentry(c.executed) /\ c.deferred = None
  BY <1>1, <1>2 DEF Books
<1>4. r.raised = FALSE /\ Len(r.fills) = 1
  <2> HIDE DEF c, f
  <2>1. r.raised = FALSE /\ r.fills = <<f>>
    BY <1>2
  <2> QED
    BY <2>1
<1>5. t = ApplyPaperFill(m, f)
  BY <1>4, FillsUnrolled
<1>6. /\ m \in SessionType /\ m.broker = c /\ m.engine = s.engine /\ m.rejected = s.rejected
      /\ m.failure = None /\ Follows(m, p)
  BY <1>1, <1>3, <1>4, MatchedWithFacts
<1> HIDE DEF m, t, f
<1>7. Closed(m, t, f, c.position)
  <2> HIDE DEF p, c
  <2> QED
    BY <1>2, <1>3, <1>5, <1>6, ExitAppliedFacts
<1>8. /\ t \in SessionType /\ t.failure = None /\ t.broker = c /\ t.rejected = s.rejected
      /\ t.engine.delivered = s.engine.delivered
      /\ t.engine.pending = s.engine.pending /\ t.engine.setup = s.engine.setup
      /\ Follows(t, c.position) /\ Booked(t.engine) = Booked(s.engine) + f.pnl
  BY <1>6, <1>7 DEF Closed
<1>9. c.position # None => c.position.protected = TRUE
  <2> HIDE DEF c, p
  <2> QED
    BY <1>1, <1>2, <1>3, LeftFacts
<1>10. Adds(c)
  BY DEF Adds
<1>11. Steady(t)
  BY <1>1, <1>2, <1>3, <1>8, <1>9, <1>10 DEF Steady
<1>12. Waits(t) /\ t.broker.rejection = FALSE
  BY <1>2, <1>8 DEF Waits
<1>13. Filled(s, t)
  BY <1>3, <1>8, <1>11, <1>12 DEF Filled
<1> QED
  BY <1>13 DEF t

\* What Grown says of the position that the engine reads for its levels.
LEMMA OpenedParts ==
  ASSUME NEW delivered, NEW b, NEW c, NEW f,
         Opened(delivered, b, [broker |-> c, fills |-> <<f>>, raised |-> FALSE])
  PROVE  /\ f \in Fill /\ f.kind = "entry" /\ Books(delivered, c) /\ Adds(c)
         /\ c.deferred = None /\ c.rejection = b.rejection /\ Grown(b.position, f, c.position)
         /\ Traded(c) = Traded(b) + f.pnl /\ f.pnl = -f.fee /\ b.pending # None
         /\ c.position \in Position
  BY DEF Opened, Grown

LEMMA ExitedParts ==
  ASSUME NEW delivered, NEW b, NEW c, NEW f,
         Exited(delivered, b, [broker |-> c, fills |-> <<f>>, raised |-> FALSE])
  PROVE  /\ b.position # None /\ f \in Fill /\ f.kind # "entry" /\ Books(delivered, c)
         /\ c.rejection = b.rejection /\ Left(b.position, f, c.position)
         /\ Traded(c) = Traded(b) + f.pnl
         /\ b.position.protected => c.deferred = None
         /\ f.kind \in {"stop_loss", "take_profit"} /\ ~b.position.protected =>
              c.deferred # None /\ c.deferred.position = b.position
  BY DEF Exited

\* The first fill of a bar, an entry; d is the broker after all of its fills.
LEMMA FirstApplied ==
  ASSUME config \in Configs, NEW s, Steady(s), Waits(s), s.failure = None,
         NEW d, NEW f, NEW m \in SessionType, NEW after \in Position,
         m.broker = d, m.engine = s.engine, m.failure = None, m.rejected = s.rejected,
         Follows(m, s.broker.position),
         Books(s.engine.delivered, d), f \in Fill, f.kind = "entry", s.broker.pending # None,
         Grown(s.broker.position, f, after),
         s.broker.position = None =>
           /\ ProtectionReference(d) = after
           /\ d.position # None => after.stop = d.position.stop /\ after.target = d.position.target
           /\ f.margin = 0 => MarginUsed(d) = 0
  PROVE  Applied(m, ApplyPaperFill(m, f), f, s.broker.position, after)
<1> DEFINE p == s.broker.position
<1>1. p \in Position \cup {None}
  BY DEF Steady, Books, BrokerType
<1>2. p = None => s.engine.setup # None
  BY DEF Waits
<1> HIDE DEF p
<1>3. /\ Follows(m, p) /\ Grown(p, f, after)
      /\ p = None =>
           /\ m.engine.setup # None
           /\ ProtectionReference(m.broker) = after
           /\ m.broker.position # None =>
                after.stop = m.broker.position.stop /\ after.target = m.broker.position.target
           /\ f.margin = 0 => MarginUsed(m.broker) = 0
  BY <1>2 DEF p
<1>4. Books(m.engine.delivered, m.broker)
  OBVIOUS
<1>5. Applied(m, ApplyPaperFill(m, f), f, p, after)
  BY <1>1, <1>3, <1>4, EntryAppliedFacts
<1> QED
  BY <1>5 DEF p

LEMMA OpenedApplied ==
  ASSUME config \in Configs, NEW s, Steady(s), Waits(s), s.failure = None,
         s.broker.rejection = FALSE,
         NEW r, Opened(s.engine.delivered, s.broker, r)
  PROVE  /\ Filled(s, ApplyPaperFills(s, r))
         /\ ApplyPaperFills(s, r).broker.rejection = FALSE
<1> DEFINE b == s.broker
           p == b.position
           c == r.broker
           q == c.position
           f == r.fills[1]
           m == MatchedWith(s, r)
           t == ApplyPaperFills(s, r)
<1>1. /\ r = [broker |-> c, fills |-> <<f>>, raised |-> FALSE]
      /\ f \in Fill /\ f.kind = "entry" /\ Books(s.engine.delivered, c) /\ Adds(c)
      /\ c.deferred = None /\ c.rejection = b.rejection /\ Grown(p, f, q)
      /\ Traded(c) = Traded(b) + f.pnl /\ f.pnl = -f.fee /\ b.pending # None
      /\ q \in Position
  BY DEF Opened, Grown
<1>2. /\ s \in SessionType /\ Follows(s, p) /\ Traded(b) = Booked(s.engine)
      /\ c \in BrokerType /\ NoReentry(c.executed) /\ f.fee \in Int
  BY <1>1 DEF Steady, Books, Fill
<1>3. r.raised = FALSE /\ Len(r.fills) = 1
  <2> HIDE DEF c, f
  <2>1. r.raised = FALSE /\ r.fills = <<f>>
    BY <1>1
  <2> QED
    BY <2>1
<1>4. t = ApplyPaperFill(m, f)
  BY <1>3, FillsUnrolled
<1>5. /\ m \in SessionType /\ m.broker = c /\ m.engine = s.engine /\ m.rejected = s.rejected
      /\ m.failure = None /\ Follows(m, p)
  BY <1>2, <1>3, MatchedWithFacts
<1> HIDE DEF m, t, f
<1>6. p = None =>
        /\ ProtectionReference(c) = q
        /\ q.stop = c.position.stop /\ q.target = c.position.target
        /\ f.margin = 0 => MarginUsed(c) = 0
  <2> SUFFICES ASSUME p = None
               PROVE  ProtectionReference(c) = q /\ (f.margin = 0 => MarginUsed(c) = 0)
    OBVIOUS
  <2>1. ProtectionReference(c) = q
    BY <1>1 DEF ProtectionReference
  <2>2. q.margin = f.margin /\ q # None
    BY <1>1, NotNone DEF Grown
  <2> QED
    BY <2>1, <2>2 DEF MarginUsed
<1> HIDE DEF c, q
<1>7. Applied(m, t, f, p, q)
  <2>1. /\ Books(s.engine.delivered, c) /\ b.pending # None /\ Grown(p, f, q)
        /\ q.stop = c.position.stop /\ q.target = c.position.target
    BY <1>1 DEF q
  <2> QED
    BY <1>1, <1>4, <1>5, <1>6, <2>1, FirstApplied
<1>8. CASE t.failure # None
  <2>1. t \in SessionType /\ t.broker = c /\ t.rejected = s.rejected
    BY <1>5, <1>7, <1>8 DEF Applied
  <2>2. Filled(s, t)
    BY <1>2, <1>8, <2>1 DEF Filled
  <2> QED
    BY <1>1, <2>1, <2>2 DEF t
<1>9. CASE t.failure = None
  <2>1. /\ t \in SessionType /\ t.rejected = s.rejected
        /\ t.engine.delivered = s.engine.delivered
        /\ Books(s.engine.delivered, t.broker) /\ t.broker.deferred = None
        /\ t.broker.position = Shielded(q)
        /\ t.broker.pending = c.pending /\ t.broker.rejection = c.rejection
        /\ t.broker.executed = c.executed /\ Traded(t.broker) = Traded(c)
        /\ IF p = None THEN t.engine.pending = FALSE /\ t.engine.setup = None
           ELSE t.engine.pending = s.engine.pending /\ t.engine.setup = s.engine.setup
        /\ Follows(t, q)
        /\ Booked(t.engine) = Booked(s.engine) - f.fee
    BY <1>5, <1>7, <1>9 DEF Applied, q
  <2>2. /\ Follows(t, t.broker.position)
        /\ t.broker.position # None => t.broker.position.protected = TRUE
    BY <1>1, <2>1, ShieldedFacts
  <2>3. t.broker.position # None
    <3>1. Shielded(q) \in Position
      BY <1>1, NotNone DEF Shielded, Position
    <3> QED
      BY <2>1, <3>1, NotNone
  <2>4. Adds(t.broker)
    BY <1>1, <2>1 DEF Adds
  <2>5. Traded(t.broker) = Booked(t.engine)
    <3>1. Booked(s.engine) \in Int
      BY <1>2, BookedType DEF SessionType
    <3>2. Booked(s.engine) + (-f.fee) = Booked(s.engine) - f.fee
      BY <1>2, <3>1
    <3> QED
      BY <1>1, <1>2, <2>1, <3>2
  <2>6. Steady(t)
    BY <2>1, <2>2, <2>4, <2>5 DEF Steady
  <2>7. Waits(t)
    <3>1. p # None => s.engine.pending = FALSE
      BY DEF Waits
    <3> QED
      BY <2>1, <2>3, <3>1 DEF Waits
  <2>8. t.broker.rejection = FALSE
    BY <1>1, <2>1
  <2>9. Filled(s, t)
    BY <1>2, <2>1, <2>6, <2>7, <2>8 DEF Filled
  <2> QED
    BY <2>8, <2>9 DEF t
<1> QED
  BY <1>8, <1>9

LEMMA BothApplied ==
  ASSUME config \in Configs, NEW s, Steady(s), Waits(s), s.failure = None,
         s.broker.rejection = FALSE,
         NEW r, OpenedAndExited(s.engine.delivered, s.broker, r)
  PROVE  Filled(s, ApplyPaperFills(s, r))
<1> DEFINE b == s.broker
           p == b.position
           d == r.broker
           f == r.fills[1]
           g == r.fills[2]
           m == MatchedWith(s, r)
           u == ApplyPaperFill(m, f)
           t == ApplyPaperFills(s, r)
<1>1. /\ r = [broker |-> d, fills |-> <<f, g>>, raised |-> FALSE] /\ d.pending = None
      /\ g.kind \in {"stop_loss", "take_profit"}
  BY DEF OpenedAndExited
<1>2. PICK c : /\ Opened(s.engine.delivered, b, [broker |-> c, fills |-> <<f>>, raised |-> FALSE])
               /\ Exited(s.engine.delivered, c, [broker |-> d, fills |-> <<g>>, raised |-> FALSE])
  BY DEF OpenedAndExited
<1> DEFINE q == c.position
<1>3. /\ f \in Fill /\ f.kind = "entry" /\ c.rejection = b.rejection /\ Grown(p, f, q)
      /\ Traded(c) = Traded(b) + f.pnl /\ f.pnl = -f.fee /\ b.pending # None
      /\ q \in Position
  <2> HIDE DEF b, d, f, g
  <2>1. /\ f \in Fill /\ f.kind = "entry" /\ c.rejection = b.rejection
        /\ Grown(b.position, f, c.position)
        /\ Traded(c) = Traded(b) + f.pnl /\ f.pnl = -f.fee /\ b.pending # None
        /\ c.position \in Position
    BY <1>2, OpenedParts
  <2> QED
    BY <2>1
<1>4. /\ g \in Fill /\ g.kind # "entry" /\ Books(s.engine.delivered, d)
      /\ d.rejection = c.rejection /\ Left(q, g, d.position)
      /\ Traded(d) = Traded(c) + g.pnl
      /\ q.protected => d.deferred = None
      /\ ~q.protected => d.deferred # None /\ d.deferred.position = q
  <2> HIDE DEF b, d, f, g
  <2>1. /\ g \in Fill /\ g.kind # "entry" /\ Books(s.engine.delivered, d)
        /\ d.rejection = c.rejection /\ Left(c.position, g, d.position)
        /\ Traded(d) = Traded(c) + g.pnl
        /\ c.position.protected => d.deferred = None
        /\ g.kind \in {"stop_loss", "take_profit"} /\ ~c.position.protected =>
             d.deferred # None /\ d.deferred.position = c.position
    BY <1>2, ExitedParts
  <2> QED
    BY <1>1, <2>1
<1>5. /\ s \in SessionType /\ Follows(s, p) /\ Traded(b) = Booked(s.engine)
      /\ d \in BrokerType /\ NoReentry(d.executed) /\ f.fee \in Int /\ g.pnl \in Int
  BY <1>3, <1>4 DEF Steady, Books, Fill
<1>6. r.raised = FALSE /\ Len(r.fills) = 2
  <2> HIDE DEF d, f, g
  <2>1. r.raised = FALSE /\ r.fills = <<f, g>>
    BY <1>1
  <2> QED
    BY <2>1
<1>7. t = ApplyPaperFill(u, g)
  BY <1>6, FillsUnrolled
<1>8. /\ m \in SessionType /\ m.broker = d /\ m.engine = s.engine /\ m.rejected = s.rejected
      /\ m.failure = None /\ Follows(m, p)
  BY <1>5, <1>6, MatchedWithFacts
<1> HIDE DEF m, t, f, g, q
<1>9. p = None =>
        /\ ProtectionReference(d) = q
        /\ d.position # None => q.stop = d.position.stop /\ q.target = d.position.target
        /\ f.margin = 0 => MarginUsed(d) = 0
  <2> SUFFICES ASSUME p = None
               PROVE  /\ ProtectionReference(d) = q
                      /\ d.position # None => q.stop = d.position.stop /\ q.target = d.position.target
                      /\ f.margin = 0 => MarginUsed(d) = 0
    OBVIOUS
  <2>1. ~q.protected /\ q.margin = f.margin
    BY <1>3 DEF Grown
  <2>2. ProtectionReference(d) = q
    BY <1>4, <2>1 DEF ProtectionReference
  <2>3. d.position # None =>
          /\ d.position.stop = q.stop /\ d.position.target = q.target
          /\ d.position.margin = Quotient(q.margin * (q.qty - g.qty), q.qty)
    BY <1>3, <1>4, LeftFacts
  <2>4. ASSUME f.margin = 0 PROVE MarginUsed(d) = 0
    <3>1. CASE d.position = None
      BY <3>1 DEF MarginUsed
    <3>2. CASE d.position # None
      <4>1. q.qty \in Nat \ {0} /\ g.qty \in Nat
        BY <1>3, <1>4 DEF Position, Fill
      <4>2. q.margin * (q.qty - g.qty) = 0
        BY <2>1, <2>4, <4>1
      <4>3. d.position.margin = 0
        BY <2>3, <3>2, <4>1, <4>2, QuotientOfZero
      <4> QED
        BY <3>2, <4>3 DEF MarginUsed
    <3> QED
      BY <3>1, <3>2
  <2> QED
    BY <2>2, <2>3, <2>4
<1> HIDE DEF d
<1>10. Applied(m, u, f, p, q)
  BY <1>3, <1>4, <1>8, <1>9, FirstApplied
<1> HIDE DEF u
<1>11. CASE u.failure # None
  <2>1. u \in SessionType /\ u.broker = d /\ u.rejected = s.rejected
    BY <1>8, <1>10, <1>11 DEF Applied
  <2>2. t = u
    BY <1>7, <1>11 DEF ApplyPaperFill
  <2>3. Filled(s, t)
    BY <1>5, <1>11, <2>1, <2>2 DEF Filled
  <2> QED
    BY <2>3 DEF t
<1>12. CASE u.failure = None
  <2>1. /\ u \in SessionType /\ u.rejected = s.rejected
        /\ u.engine.delivered = s.engine.delivered
        /\ Books(s.engine.delivered, u.broker) /\ u.broker.deferred = None
        /\ u.broker.position = Shielded(d.position)
        /\ u.broker.pending = d.pending /\ u.broker.rejection = d.rejection
        /\ u.broker.executed = d.executed /\ Traded(u.broker) = Traded(d)
        /\ IF p = None THEN u.engine.pending = FALSE /\ u.engine.setup = None
           ELSE u.engine.pending = s.engine.pending /\ u.engine.setup = s.engine.setup
        /\ Follows(u, q)
        /\ Booked(u.engine) = Booked(s.engine) - f.fee
    BY <1>8, <1>10, <1>12 DEF Applied
  <2>2. Closed(u, t, g, d.position)
    BY <1>3, <1>4, <1>7, <1>12, <2>1, ExitAppliedFacts
  <2>3. /\ t \in SessionType /\ t.failure = None /\ t.broker = u.broker /\ t.rejected = s.rejected
        /\ t.engine.delivered = s.engine.delivered
        /\ t.engine.pending = u.engine.pending /\ t.engine.setup = u.engine.setup
        /\ Follows(t, d.position)
        /\ Booked(t.engine) = Booked(u.engine) + g.pnl
    BY <2>1, <2>2 DEF Closed
  <2>4. /\ Follows(t, t.broker.position)
        /\ t.broker.position # None => t.broker.position.protected = TRUE
    <3>1. d.position \in Position \cup {None}
      BY <1>5 DEF BrokerType
    <3>2. t.broker.position = Shielded(d.position)
      BY <2>1, <2>3
    <3> QED
      BY <2>3, <3>1, <3>2, ShieldedFacts
  <2>5. t.broker.pending = None /\ Adds(t.broker)
    BY <1>1, <2>1, <2>3 DEF Adds
  <2>6. Traded(t.broker) = Booked(t.engine)
    <3>1. Booked(s.engine) \in Int
      BY <1>5, BookedType DEF SessionType
    <3>2. Traded(t.broker) = Booked(s.engine) + (-f.fee) + g.pnl
      BY <1>3, <1>4, <1>5, <2>1, <2>3
    <3>3. Booked(t.engine) = Booked(s.engine) - f.fee + g.pnl
      BY <2>1, <2>3
    <3> QED
      BY <1>5, <3>1, <3>2, <3>3
  <2>7. Steady(t)
    BY <2>1, <2>3, <2>4, <2>5, <2>6 DEF Steady
  <2>8. Waits(t)
    <3>1. p # None => s.engine.pending = FALSE
      BY DEF Waits
    <3>2. s.engine.pending = (s.engine.setup # None)
      BY DEF Waits
    <3> QED
      BY <2>1, <2>3, <2>5, <3>1, <3>2 DEF Waits
  <2>9. t.broker.rejection = FALSE /\ NoReentry(t.broker.executed)
    BY <1>3, <1>4, <1>5, <2>1, <2>3
  <2>10. Filled(s, t)
    BY <2>3, <2>7, <2>8, <2>9 DEF Filled
  <2> QED
    BY <2>10 DEF t
<1> QED
  BY <1>11, <1>12

LEMMA FillsApplied ==
  ASSUME config \in Configs, NEW s, Steady(s), Waits(s), s.failure = None,
         s.broker.rejection = FALSE,
         NEW r, Matched(s.engine.delivered, s.broker, r)
  PROVE  Filled(s, ApplyPaperFills(s, r))
  BY UnfilledApplied, ExitedApplied, OpenedApplied, BothApplied DEF Matched

-----------------------------------------------------------------------------
(***************************************************************************)
(* The way out.  Flattening, draining and finalizing append exits only.    *)
(***************************************************************************)
SessionFields == {"broker", "account", "engine", "failure", "rejected"}
EngineFields ==
  {"pending", "setup", "open", "entry", "exits", "trade_id", "trades", "delivered", "halted",
   "close"}

Alive(s) ==
  /\ DOMAIN s = SessionFields /\ DOMAIN s.engine = EngineFields /\ s.engine.close \in Nat
  /\ s.broker \in BrokerType /\ NoReentry(s.broker.executed)

LEMMA RecordType ==
  ASSUME NEW b \in BrokerType, NEW kind \in CashKinds, NEW amount \in Int
  PROVE  Record(b, kind, amount) \in BrokerType /\ Record(b, kind, amount).executed = b.executed
         /\ Record(b, kind, amount).position = b.position
<1> DEFINE e == [kind |-> kind, amount |-> amount]
           ledger == Append(b.ledger, e)
           c == Record(b, kind, amount)
<1>1. e \in Cashflow /\ b.ledger \in Seq(Cashflow)
  BY DEF Cashflow, BrokerType
<1>2. c = [b EXCEPT !.ledger = ledger]
  BY DEF Record
<1> HIDE DEF e, c
<1>3. ledger \in Seq(Cashflow)
  BY <1>1
<1> HIDE DEF ledger
<1>4. c \in BrokerType /\ c.executed = b.executed /\ c.position = b.position
  BY <1>2, <1>3 DEF BrokerType
<1> QED
  BY <1>4 DEF c

LEMMA RecordFillType ==
  ASSUME NEW b \in BrokerType, NEW fill \in Fill, NEW role \in Roles
  PROVE  RecordFill(b, fill, role) \in BrokerType /\ RecordFill(b, fill, role).executed = b.executed
<1> DEFINE named == {i \in b.journaled + 1 .. Len(b.ledger) : b.ledger[i].kind # "funding"}
           e == [role |-> role, fill |-> fill, cash |-> named]
           events == Append(b.events, e)
           length == Len(b.ledger)
           c == RecordFill(b, fill, role)
<1>1. b.journaled \in Nat /\ length \in Nat /\ b.events \in Seq(Event)
  BY DEF BrokerType
<1>2. named \in SUBSET Nat
  BY <1>1
<1>3. c = [b EXCEPT !.events = events, !.journaled = length]
  BY DEF RecordFill
<1> HIDE DEF named, c
<1>4. e \in Event
  BY <1>2 DEF Event
<1> HIDE DEF e, length
<1>5. events \in Seq(Event)
  BY <1>1, <1>4
<1> HIDE DEF events
<1>6. c \in BrokerType /\ c.executed = b.executed
  BY <1>1, <1>3, <1>5 DEF BrokerType
<1> QED
  BY <1>6 DEF c

LEMMA FlattenFacts ==
  ASSUME config \in Configs, NEW b \in BrokerType, NoReentry(b.executed), NEW reference \in Int
  PROVE  /\ Flatten(b, reference).broker \in BrokerType
         /\ NoReentry(Flatten(b, reference).broker.executed)
<1> DEFINE idle == [b EXCEPT !.pending = None]
           p == idle.position
           q == Min({p.qty, Unlimited})
           kind == "manual_close"
           price == IF Costed THEN Adjusted(reference, Opposite(p.side)) ELSE reference
           left == p.qty - q
           fee == IF Costed THEN Commission(q, price, "taker") ELSE 0
           gross == (price - p.entry) * q * Sign(p.side)
           fill == [kind |-> kind, side |-> p.side, price |-> price, qty |-> q,
                    pnl |-> gross - fee, fee |-> fee, margin |-> 0,
                    status |-> IF left > 0 THEN "partial" ELSE "filled",
                    cumulative |-> idle.exit_cumulative + q]
           traded == Record(idle, "trade_pnl", gross)
           paid == IF fee = 0 THEN traded ELSE Record(traded, "commission", -fee)
           kept == Quotient(p.margin * left, p.qty)
           reduced == [p EXCEPT !.qty = left, !.margin = kept]
           base == IF left > 0
                   THEN [paid EXCEPT !.position.qty = left,
                                     !.position.margin = Quotient(@ * left, p.qty),
                                     !.exit_cumulative = @ + q]
                   ELSE [paid EXCEPT !.position = None, !.exit_cumulative = 0, !.entry_bar = 0,
                                     !.last_close = price]
           x == [kind |-> fill.kind, side |-> fill.side, qty |-> fill.qty, price |-> fill.price,
                 fee |-> fill.fee]
           d == Executed(base, fill)
           r == Flatten(b, reference)
<1>1. idle \in BrokerType /\ idle.executed = b.executed /\ idle.position = b.position
  BY DEF BrokerType
<1>2. CASE r = Result(idle, <<>>)
  <2> HIDE DEF idle
  <2>1. r.broker = idle
    BY <1>2 DEF Result
  <2> QED
    BY <1>1, <2>1
<1>3. CASE r # Result(idle, <<>>)
  <2>1. p # None /\ q # 0 /\ r = CloseAt(idle, kind, q, price)
    BY <1>1, <1>3 DEF Flatten, Close
  <2> HIDE DEF idle, r
  <2>2. /\ p \in Position /\ p.qty \in Nat \ {0} /\ p.side \in Sides /\ p.entry \in Int
        /\ p.margin \in Nat /\ idle.exit_cumulative \in Nat
    BY <1>1, <2>1 DEF BrokerType, Position
  <2> HIDE DEF p
  <2>3. q \in Nat \ {0} /\ q <= p.qty
    <3>1. Unlimited \in Int /\ Unlimited > 0
      BY DEF Unlimited
    <3> QED
      BY <2>1, <2>2, <3>1, MinFacts
  <2> HIDE DEF q
  <2>4. price \in Int
    BY <2>2, SignFacts, AdjustedFacts
  <2> HIDE DEF price
  <2>5. left \in Nat /\ fee \in Int /\ gross \in Int
    <3>1. Sign(p.side) \in Int
      BY <2>2, SignFacts
    <3>2. Commission(q, price, "taker") \in Int
      BY <2>3, <2>4, CommissionType
    <3> QED
      BY <2>2, <2>3, <2>4, <3>1, <3>2
  <2>6. kept \in Nat
    <3>1. p.margin * left \in Int /\ p.margin * left >= 0
      BY <2>2, <2>5, SMTT(30)
    <3> QED
      BY <2>2, <3>1, QuotientFacts
  <2>7. r = Result(RecordClose(d, fill, p), <<fill>>)
    BY <2>1 DEF CloseAt, Reported, p
  <2> HIDE DEF fee, gross, left, kept
  <2>8. fill \in Fill /\ fill.kind = kind /\ x = [kind |-> kind, side |-> p.side, qty |-> q,
                                                  price |-> price, fee |-> fee]
    BY <2>2, <2>3, <2>4, <2>5 DEF Fill
  <2>9. x \in Execution /\ x.kind # "entry"
    <3> HIDE DEF fill
    <3> QED
      BY <2>2, <2>3, <2>4, <2>5, <2>8 DEF Execution, FillKinds
  <2> HIDE DEF fill
  <2>10. paid \in BrokerType /\ paid.executed = b.executed /\ paid.position = p
    <3>1. "trade_pnl" \in CashKinds /\ "commission" \in CashKinds /\ -fee \in Int
      BY <2>5 DEF CashKinds
    <3>2. traded \in BrokerType /\ traded.executed = b.executed /\ traded.position = p
      BY <1>1, <2>5, <3>1, RecordType DEF p
    <3> HIDE DEF traded
    <3> QED
      BY <3>1, <3>2, RecordType
  <2> HIDE DEF paid
  <2>11. base \in BrokerType /\ base.executed = b.executed
    <3>1. CASE left > 0
      <4>1. left \in Nat \ {0}
        BY <2>5, <3>1
      <4>2. reduced \in Position
        BY <2>2, <2>6, <4>1 DEF Position
      <4>3. base = [paid EXCEPT !.position = reduced, !.exit_cumulative = @ + q]
        <5>1. base = [paid EXCEPT !.position.qty = left,
                                  !.position.margin = Quotient(@ * left, p.qty),
                                  !.exit_cumulative = @ + q]
          BY <3>1
        <5> HIDE DEF base
        <5> QED
          BY <2>2, <2>10, <5>1 DEF BrokerType, Position, kept
      <4>4. paid.exit_cumulative + q \in Nat
        BY <2>3, <2>10 DEF BrokerType
      <4> HIDE DEF base, reduced
      <4> QED
        BY <2>10, <4>2, <4>3, <4>4 DEF BrokerType
    <3>2. CASE ~(left > 0)
      <4> DEFINE zero == 0
      <4>1. base = [paid EXCEPT !.position = None, !.exit_cumulative = zero, !.entry_bar = zero,
                                !.last_close = price]
        BY <3>2
      <4>2. zero \in Nat /\ zero \in Int
        OBVIOUS
      <4> HIDE DEF base, zero
      <4> QED
        BY <2>4, <2>10, <4>1, <4>2 DEF BrokerType
    <3> QED
      BY <3>1, <3>2
  <2> HIDE DEF base
  <2>12. d \in BrokerType /\ d.executed = Append(b.executed, x)
    <3>1. d = [base EXCEPT !.executed = Append(base.executed, x)]
      BY DEF Executed
    <3> HIDE DEF d, x
    <3>2. Append(base.executed, x) \in Seq(Execution)
      BY <2>9, <2>11 DEF BrokerType
    <3> QED
      BY <2>11, <3>1, <3>2 DEF BrokerType
  <2> HIDE DEF d, x
  <2>13. RecordClose(d, fill, p) = RecordFill(d, fill, "flatten")
    BY <2>8 DEF RecordClose
  <2>14. "flatten" \in Roles
    BY DEF Roles
  <2>15. RecordClose(d, fill, p) \in BrokerType
         /\ RecordClose(d, fill, p).executed = Append(b.executed, x)
    BY <2>8, <2>12, <2>13, <2>14, RecordFillType
  <2>16. r.broker = RecordClose(d, fill, p)
    BY <2>7 DEF Result
  <2>17. NoReentry(Append(b.executed, x))
    <3>1. b.executed \in Seq(Execution)
      BY DEF BrokerType
    <3> QED
      BY <2>9, <3>1, ExecutionFacts
  <2> QED
    BY <2>15, <2>16, <2>17 DEF r
<1> QED
  BY <1>2, <1>3

LEMMA TypedAlive ==
  ASSUME NEW s \in SessionType, NoReentry(s.broker.executed)
  PROVE  Alive(s)
  BY DEF Alive, SessionType, Engine, SessionFields, EngineFields

\* Another broker, other fields of account and engine.
LEMMA AliveKept ==
  ASSUME NEW s, Alive(s), NEW b \in BrokerType, NoReentry(b.executed), NEW a, NEW e,
         DOMAIN e = EngineFields, e.close \in Nat
  PROVE  Alive([s EXCEPT !.broker = b, !.account = a, !.engine = e])
<1> DEFINE t == [s EXCEPT !.broker = b, !.account = a, !.engine = e]
<1>1. DOMAIN t = SessionFields /\ t.broker = b /\ t.engine = e
  BY DEF Alive, SessionFields
<1> HIDE DEF t
<1>2. Alive(t)
  BY <1>1 DEF Alive
<1> QED
  BY <1>2 DEF t

LEMMA OnCloseAlive ==
  ASSUME NEW s, Alive(s), NEW fill
  PROVE  Alive(OnClose(s, fill))
<1> DEFINE a == AccountClose(s.account, Balance(s.broker))
           trades == Append(s.engine.trades, TradeRecord(s.engine, fill))
           zero == NoExits
           e == [s.engine EXCEPT !.trades = trades, !.open = None, !.entry = None, !.exits = zero]
           t == OnClose(s, fill)
<1>1. t = [s EXCEPT !.account = a, !.engine.trades = trades, !.engine.open = None,
                    !.engine.entry = None, !.engine.exits = zero]
  BY DEF OnClose
<1>2. DOMAIN s = SessionFields /\ DOMAIN s.engine = EngineFields /\ s.engine.close \in Nat
      /\ s.broker \in BrokerType /\ NoReentry(s.broker.executed)
  BY DEF Alive
<1> HIDE DEF a, trades, zero, t
<1>3. DOMAIN t = SessionFields /\ t.broker = s.broker /\ DOMAIN t.engine = EngineFields
      /\ t.engine.close = s.engine.close
  BY <1>1, <1>2 DEF SessionFields, EngineFields
<1>4. Alive(t)
  BY <1>2, <1>3 DEF Alive
<1> QED
  BY <1>4 DEF t

LEMMA PollAlive ==
  ASSUME NEW s, Alive(s)
  PROVE  Alive(PollBrokerFills(s))
<1> DEFINE delivered == s.engine.delivered \o s.broker.events
           none == <<>>
           b == [s.broker EXCEPT !.events = none]
           t == PollBrokerFills(s)
<1>1. t = [s EXCEPT !.engine.delivered = delivered, !.broker.events = none]
  BY DEF PollBrokerFills
<1>2. DOMAIN s = SessionFields /\ DOMAIN s.engine = EngineFields /\ s.engine.close \in Nat
      /\ s.broker \in BrokerType /\ NoReentry(s.broker.executed)
  BY DEF Alive
<1>3. none \in Seq(Event)
  OBVIOUS
<1> HIDE DEF delivered, none, t
<1>4. b \in BrokerType /\ b.executed = s.broker.executed
  BY <1>2, <1>3 DEF BrokerType
<1>5. DOMAIN t = SessionFields /\ t.broker = b /\ DOMAIN t.engine = EngineFields
      /\ t.engine.close = s.engine.close
  BY <1>1, <1>2 DEF SessionFields, EngineFields
<1> HIDE DEF b
<1>6. Alive(t)
  BY <1>2, <1>4, <1>5 DEF Alive
<1> QED
  BY <1>6 DEF t

LEMMA DrainAlive ==
  ASSUME NEW s, Alive(s)
  PROVE  Alive(Drain(s))
  BY PollAlive, OnCloseAlive DEF Drain

LEMMA ContainAlive ==
  ASSUME config \in Configs, NEW s, Alive(s)
  PROVE  Alive(ContainExposure(s))
<1> DEFINE b == Flatten(s.broker, s.broker.last_close).broker
           yes == TRUE
           no == FALSE
           t == [s EXCEPT !.broker = Flatten(@, s.broker.last_close).broker,
                          !.engine.halted = TRUE, !.engine.pending = FALSE]
<1>1. DOMAIN s = SessionFields /\ DOMAIN s.engine = EngineFields /\ s.engine.close \in Nat
      /\ s.broker \in BrokerType /\ NoReentry(s.broker.executed)
  BY DEF Alive
<1>2. b \in BrokerType /\ NoReentry(b.executed)
  <2>1. s.broker.last_close \in Int
    BY <1>1 DEF BrokerType
  <2> QED
    BY <1>1, <2>1, FlattenFacts
<1>3. t = [s EXCEPT !.broker = b, !.engine.halted = TRUE, !.engine.pending = FALSE]
  BY <1>1 DEF SessionFields
<1> HIDE DEF b, t
<1>4. DOMAIN t = SessionFields /\ t.broker = b /\ DOMAIN t.engine = EngineFields
      /\ t.engine.close = s.engine.close
  BY <1>1, <1>3 DEF SessionFields, EngineFields
<1>5. Alive(t)
  BY <1>1, <1>2, <1>4 DEF Alive
<1>6. ContainExposure(s) = Drain(t)
  BY DEF ContainExposure, t
<1> QED
  BY <1>5, <1>6, DrainAlive

LEMMA CloseOutAlive ==
  ASSUME config \in Configs, NEW s, Alive(s), NEW flat,
         flat.broker \in BrokerType, NoReentry(flat.broker.executed)
  PROVE  Alive(CloseOut(s, flat))
<1> DEFINE b == flat.broker
           t == [s EXCEPT !.broker = b]
<1>1. DOMAIN s = SessionFields /\ DOMAIN s.engine = EngineFields /\ s.engine.close \in Nat
  BY DEF Alive
<1> HIDE DEF b
<1>2. DOMAIN t = SessionFields /\ t.broker = b /\ t.engine = s.engine
  BY <1>1 DEF SessionFields
<1> HIDE DEF t
<1>3. Alive(t)
  BY <1>1, <1>2 DEF Alive, b
<1>4. CloseOut(s, flat) \in {t, OnClose(t, Head(flat.fills))}
  BY DEF CloseOut, t, b
<1> QED
  BY <1>3, <1>4, OnCloseAlive

LEMMA FinalizeAlive ==
  ASSUME config \in Configs, NEW s, Alive(s), NEW retain
  PROVE  Alive(Finalize(s, retain))
<1> DEFINE held == s.broker.position # None \/ s.account.position # None
           working == s.broker.pending # None \/ s.engine.pending
           idle == [s EXCEPT !.broker.pending = None,
                             !.engine.pending = IF working THEN FALSE ELSE @,
                             !.engine.setup = IF working THEN None ELSE @]
           pending == IF working THEN FALSE ELSE s.engine.pending
           setup == IF working THEN None ELSE s.engine.setup
           b == [s.broker EXCEPT !.pending = None]
           flat == Flatten(idle.broker, s.engine.close)
<1>1. DOMAIN s = SessionFields /\ DOMAIN s.engine = EngineFields /\ s.engine.close \in Nat
      /\ s.broker \in BrokerType /\ NoReentry(s.broker.executed)
  BY DEF Alive
<1>2. idle = [s EXCEPT !.broker.pending = None, !.engine.pending = pending,
                       !.engine.setup = setup]
  BY <1>1 DEF SessionFields, EngineFields
<1>3. b \in BrokerType /\ b.executed = s.broker.executed
  BY <1>1 DEF BrokerType
<1>4. Finalize(s, retain) = PollBrokerFills(IF held /\ ~retain THEN CloseOut(idle, flat) ELSE idle)
  BY DEF Finalize
<1> HIDE DEF pending, setup, idle, held
<1>5. DOMAIN idle = SessionFields /\ idle.broker = b /\ DOMAIN idle.engine = EngineFields
      /\ idle.engine.close = s.engine.close
  BY <1>1, <1>2 DEF SessionFields, EngineFields
<1> HIDE DEF b
<1>6. Alive(idle)
  BY <1>1, <1>3, <1>5 DEF Alive
<1>7. flat.broker \in BrokerType /\ NoReentry(flat.broker.executed)
  BY <1>1, <1>3, <1>5, FlattenFacts
<1> HIDE DEF flat
<1>8. Alive(CloseOut(idle, flat))
  BY <1>6, <1>7, CloseOutAlive
<1> QED
  BY <1>4, <1>6, <1>8, PollAlive

LEMMA OutcomeAlive ==
  ASSUME config \in Configs, NEW s, Alive(s)
  PROVE  Alive(Outcome(s))
  BY ContainAlive, FinalizeAlive DEF Outcome

-----------------------------------------------------------------------------
(***************************************************************************)
(* After the fills: the events are drained, a rejection is consumed, the   *)
(* account is marked.                                                      *)
(***************************************************************************)
\* What a candle may leave.
Handled(s) ==
  /\ s \in SessionType /\ NoReentry(s.broker.executed)
  /\ s.failure = None => Ready(s)

LEMMA PolledFacts ==
  ASSUME NEW s \in SessionType
  PROVE  LET t == PollBrokerFills(s)
         IN /\ t \in SessionType /\ t.failure = s.failure /\ t.rejected = s.rejected
            /\ t.broker.executed = s.broker.executed /\ t.broker.events = <<>>
            /\ t.broker.rejection = s.broker.rejection
            /\ Steady(s) => Steady(t)
            /\ Waits(s) => Waits(t)
<1> DEFINE b == s.broker
           none == <<>>
           delivered == s.engine.delivered \o b.events
           c == [b EXCEPT !.events = none]
           e == [s.engine EXCEPT !.delivered = delivered]
           t == PollBrokerFills(s)
<1>1. /\ b \in BrokerType /\ s.engine \in Engine
      /\ s.engine.delivered \in Seq(Event) /\ b.events \in Seq(Event) /\ none \in Seq(Event)
  BY DEF SessionType, BrokerType, Engine
<1>2. delivered \in Seq(Event) /\ delivered \o none = delivered
  BY <1>1
<1>3. t = [s EXCEPT !.engine.delivered = delivered, !.broker.events = none]
  BY DEF PollBrokerFills
<1> HIDE DEF delivered, none, t
<1>4. t = [s EXCEPT !.engine = e, !.broker = c]
  BY <1>3 DEF SessionType
<1>5. /\ c \in BrokerType /\ c.events = none /\ c.ledger = b.ledger /\ c.journaled = b.journaled
      /\ c.position = b.position /\ c.pending = b.pending /\ c.deferred = b.deferred
      /\ c.executed = b.executed /\ c.rejection = b.rejection
  BY <1>1 DEF BrokerType
<1>6. /\ e \in Engine /\ e.delivered = delivered /\ e.pending = s.engine.pending
      /\ e.setup = s.engine.setup /\ e.trades = s.engine.trades /\ e.exits = s.engine.exits
      /\ e.entry = s.engine.entry
  BY <1>1, <1>2 DEF Engine
<1> HIDE DEF c, e
<1>7. /\ t \in SessionType /\ t.broker = c /\ t.engine = e /\ t.account = s.account
      /\ t.failure = s.failure /\ t.rejected = s.rejected
  BY <1>4, <1>5, <1>6 DEF SessionType
<1>8. ASSUME Steady(s) PROVE Steady(t)
  <2>1. /\ Books(s.engine.delivered, b) /\ Adds(b) /\ b.deferred = None
        /\ b.position # None => b.position.protected = TRUE
        /\ Follows(s, b.position) /\ Traded(b) = Booked(s.engine)
    BY <1>8 DEF Steady
  <2>2. /\ Early(c) = Early(b) /\ Late(c) = Late(b) /\ Traded(c) = Traded(b)
        /\ \A events, N : Named(events, c, N) <=> Named(events, b, N)
    BY <1>5, SameLedger
  <2>3. Named(delivered, b, Early(b))
    BY <2>1 DEF Books, delivered
  <2>4. Named(delivered \o c.events, c, Early(c))
    BY <1>2, <1>5, <2>2, <2>3
  <2>5. Books(delivered, c)
    BY <1>5, <2>1, <2>2, <2>4 DEF Books, Quantity
  <2>6. Adds(c)
    BY <1>5, <2>1 DEF Adds
  <2>7. Follows(t, c.position)
    BY <1>5, <1>6, <1>7, <2>1 DEF Follows
  <2>8. Booked(e) = Booked(s.engine)
    BY <1>6 DEF Booked, EntryFee
  <2> QED
    BY <1>5, <1>6, <1>7, <2>1, <2>2, <2>5, <2>6, <2>7, <2>8 DEF Steady
<1>9. ASSUME Waits(s) PROVE Waits(t)
  BY <1>5, <1>6, <1>7, <1>9 DEF Waits
<1>10. /\ t.broker.executed = s.broker.executed /\ t.broker.events = none
       /\ t.broker.rejection = s.broker.rejection
  BY <1>5, <1>7
<1> QED
  BY <1>7, <1>8, <1>9, <1>10 DEF t, none

LEMMA RejectionFacts ==
  ASSUME NEW s, Steady(s), IF s.broker.rejection THEN s.broker.pending = None ELSE Waits(s)
  PROVE  LET t == ConsumeRejection(s)
         IN /\ Steady(t) /\ Waits(t) /\ t.broker.rejection = FALSE /\ t.failure = s.failure
            /\ t.broker.executed = s.broker.executed
<1> DEFINE b == s.broker
           no == FALSE
           yes == TRUE
           c == [b EXCEPT !.rejection = no]
           e == [s.engine EXCEPT !.pending = no, !.setup = None]
           t == ConsumeRejection(s)
<1>1. /\ s \in SessionType /\ Books(s.engine.delivered, b) /\ Adds(b) /\ b.deferred = None
      /\ b.position # None => b.position.protected = TRUE
      /\ Follows(s, b.position) /\ Traded(b) = Booked(s.engine)
  BY DEF Steady
<1>2. b \in BrokerType /\ s.engine \in Engine /\ b.rejection \in BOOLEAN
  BY <1>1 DEF SessionType, BrokerType
<1>3. CASE ~b.rejection
  BY <1>2, <1>3 DEF ConsumeRejection
<1>4. CASE b.rejection
  <2>1. t = [s EXCEPT !.broker.rejection = no, !.engine.pending = no, !.engine.setup = None,
                      !.rejected = yes]
    BY <1>4 DEF ConsumeRejection
  <2>2. no \in BOOLEAN /\ yes \in BOOLEAN /\ no = FALSE
    OBVIOUS
  <2> HIDE DEF t, no, yes
  <2>3. t = [s EXCEPT !.broker = c, !.engine = e, !.rejected = yes]
    BY <1>1, <2>1 DEF SessionType
  <2>4. /\ c \in BrokerType /\ c.events = b.events /\ c.ledger = b.ledger
        /\ c.journaled = b.journaled /\ c.position = b.position /\ c.pending = b.pending
        /\ c.deferred = b.deferred /\ c.executed = b.executed /\ c.rejection = no
    BY <1>2, <2>2 DEF BrokerType
  <2>5. /\ e \in Engine /\ e.delivered = s.engine.delivered /\ e.pending = no
        /\ e.setup = None /\ e.trades = s.engine.trades /\ e.exits = s.engine.exits
        /\ e.entry = s.engine.entry
    BY <1>2, <2>2 DEF Engine
  <2> HIDE DEF c, e
  <2>6. /\ t \in SessionType /\ t.broker = c /\ t.engine = e /\ t.account = s.account
        /\ t.failure = s.failure
    BY <1>1, <2>2, <2>3, <2>4, <2>5 DEF SessionType
  <2>7. Books(s.engine.delivered, c) /\ Traded(c) = Traded(b) /\ Adds(c)
    BY <1>1, <2>4, BooksKept DEF Adds
  <2>8. Follows(t, c.position) /\ Booked(e) = Booked(s.engine)
    BY <1>1, <2>4, <2>5, <2>6 DEF Follows, Booked, EntryFee
  <2>9. Steady(t)
    BY <1>1, <2>4, <2>5, <2>6, <2>7, <2>8 DEF Steady
  <2>10. Waits(t)
    BY <1>4, <2>2, <2>4, <2>5, <2>6 DEF Waits
  <2>11. t.broker.rejection = FALSE /\ t.broker.executed = b.executed
    BY <2>2, <2>4, <2>6
  <2> QED
    BY <2>6, <2>9, <2>10, <2>11 DEF t
<1> QED
  BY <1>3, <1>4

LEMMA MarkFacts ==
  ASSUME config \in Configs, now \in Nat, NEW s, Ready(s)
  PROVE  Ready(MarkAccount(s)) /\ MarkAccount(s).failure = s.failure
         /\ MarkAccount(s).broker = s.broker
<1> DEFINE b == s.broker
           equity == Equity(b)
           day == (now + 1) \div BarsPerDay
           start == IF s.account.day # None /\ day > s.account.day THEN s.account.marked
                    ELSE s.account.day_start
           peak == Max({s.account.peak, equity})
           a == [s.account EXCEPT !.day = day, !.day_start = start, !.equity = equity,
                                  !.marked = equity, !.peak = peak]
           t == MarkAccount(s)
<1>1. s \in SessionType /\ b \in BrokerType /\ s.account \in PlatformAccount
  BY DEF Ready, Steady, SessionType
<1>2. equity \in Int
  <2>1. Balance(b) \in Int
    BY <1>1, LedgerFacts
  <2>2. Unrealized(b, b.last_close) \in Int
    <3>1. CASE b.position = None
      BY <3>1 DEF Unrealized
    <3>2. CASE b.position # None
      <4>1. b.position \in Position /\ b.last_close \in Int
        BY <1>1, <3>2 DEF BrokerType
      <4>2. /\ b.position.side \in Sides /\ b.position.entry \in Int /\ b.position.qty \in Int
        BY <4>1 DEF Position
      <4>3. Sign(b.position.side) \in Int
        BY <4>2, SignFacts
      <4> QED
        BY <3>2, <4>1, <4>2, <4>3 DEF Unrealized
    <3> QED
      BY <3>1, <3>2
  <2> QED
    BY <2>1, <2>2 DEF Equity
<1>3. day \in Int
  <2>1. BarsPerDay \in Nat \ {0}
    BY BarsAssumption DEF BarsPerDay
  <2> QED
    BY <2>1
<1>4. t = [s EXCEPT !.account = a]
  BY <1>1 DEF MarkAccount, AccountBar, PlatformAccount, SessionType
<1> HIDE DEF equity, day, t
<1>5. s.account.peak \in Int /\ start \in Int
  BY <1>1 DEF PlatformAccount
<1>6. peak \in Int
  BY <1>2, <1>5, MaxFacts
<1> HIDE DEF start, peak
<1>7. a \in PlatformAccount /\ a.position = s.account.position /\ a.margin = s.account.margin
  BY <1>1, <1>2, <1>3, <1>5, <1>6 DEF PlatformAccount
<1> HIDE DEF a
<1>8. /\ t \in SessionType /\ t.broker = b /\ t.engine = s.engine /\ t.account = a
      /\ t.failure = s.failure
  BY <1>1, <1>4, <1>7 DEF SessionType
<1>9. Ready(t)
  BY <1>7, <1>8 DEF Ready, Steady, Follows, Waits
<1> QED
  BY <1>8, <1>9 DEF t

LEMMA AfterFillsFacts ==
  ASSUME config \in Configs, now \in Nat, NEW s, NEW t, Filled(s, t)
  PROVE  Handled(AfterFills(t))
<1>1. t \in SessionType /\ NoReentry(t.broker.executed)
  BY DEF Filled
<1>2. CASE t.failure # None
  BY <1>1, <1>2 DEF AfterFills, Handled
<1>3. CASE t.failure = None
  <2> DEFINE u == ConsumeRejection(t)
             v == PollBrokerFills(u)
             w == MarkAccount(v)
  <2>1. Steady(t) /\ IF t.broker.rejection THEN t.broker.pending = None ELSE Waits(t)
    BY <1>3 DEF Filled
  <2>2. /\ Steady(u) /\ Waits(u) /\ u.broker.rejection = FALSE /\ u.failure = t.failure
        /\ u.broker.executed = t.broker.executed
    BY <2>1, RejectionFacts
  <2>3. AfterFills(t) = w
    BY <1>3 DEF AfterFills
  <2> HIDE DEF u
  <2>4. u \in SessionType
    BY <2>2 DEF Steady
  <2>5. /\ v \in SessionType /\ v.failure = None
        /\ v.broker.executed = t.broker.executed /\ v.broker.events = <<>>
        /\ v.broker.rejection = FALSE /\ Steady(v) /\ Waits(v)
    BY <1>3, <2>2, <2>4, PolledFacts
  <2> HIDE DEF v
  <2>6. Ready(v)
    BY <2>5 DEF Ready
  <2>7. Ready(w) /\ w.broker = v.broker
    BY <2>6, MarkFacts
  <2> HIDE DEF w
  <2>8. w \in SessionType
    BY <2>7 DEF Ready, Steady
  <2> QED
    BY <1>1, <2>3, <2>5, <2>7, <2>8 DEF Handled
<1> QED
  BY <1>2, <1>3

LEMMA SessionFacts ==
  /\ Session.broker = broker /\ Session.account = account /\ Session.engine = engine
  /\ Session.failure = None /\ Session.rejected = FALSE
  BY DEF Session

\* Another broker, account and engine that agree with each other as the old ones did.
LEMMA Rewired ==
  ASSUME NEW s, Steady(s), NEW t \in SessionType, NEW c, t.broker = c,
         c.ledger = s.broker.ledger, c.journaled = s.broker.journaled,
         c.events = s.broker.events, c.deferred = s.broker.deferred,
         c.executed = s.broker.executed, Quantity(c) = Quantity(s.broker), Adds(c),
         c.position = None <=> s.broker.position = None,
         c.position # None => c.position.protected = TRUE,
         t.account.position = Mirror(c.position),
         t.account.margin = IF c.position = None THEN 0 ELSE c.position.margin,
         t.engine.delivered = s.engine.delivered, t.engine.trades = s.engine.trades,
         t.engine.exits = s.engine.exits, t.engine.entry = s.engine.entry
  PROVE  Steady(t)
<1>1. /\ Books(s.engine.delivered, s.broker) /\ s.broker.deferred = None
      /\ Follows(s, s.broker.position) /\ Traded(s.broker) = Booked(s.engine)
  BY DEF Steady
<1>2. c \in BrokerType
  BY DEF SessionType
<1>3. Books(s.engine.delivered, c) /\ Traded(c) = Traded(s.broker)
  BY <1>1, <1>2, BooksAgree
<1>4. Follows(t, c.position)
  BY <1>1 DEF Follows
<1>5. Booked(t.engine) = Booked(s.engine)
  BY DEF Booked, EntryFee
<1> QED
  BY <1>1, <1>3, <1>4, <1>5 DEF Steady

\* The candle's close is what a stop signal flattens at.
LEMMA PricedFacts ==
  ASSUME NEW s, Ready(s), NEW price \in Nat
  PROVE  LET t == [s EXCEPT !.engine.close = price]
         IN Ready(t) /\ t.failure = s.failure /\ t.broker = s.broker
<1> DEFINE e == [s.engine EXCEPT !.close = price]
           t == [s EXCEPT !.engine.close = price]
<1>1. /\ s \in SessionType /\ s.engine \in Engine /\ Steady(s) /\ Waits(s)
      /\ s.broker.events = <<>> /\ s.broker.rejection = FALSE
      /\ Books(s.engine.delivered, s.broker) /\ Adds(s.broker) /\ s.broker.deferred = None
      /\ s.broker.position # None => s.broker.position.protected = TRUE
      /\ Follows(s, s.broker.position) /\ Traded(s.broker) = Booked(s.engine)
  BY DEF Ready, Steady, SessionType
<1>2. t = [s EXCEPT !.engine = e]
  BY <1>1 DEF SessionType
<1>3. /\ e \in Engine /\ e.delivered = s.engine.delivered /\ e.pending = s.engine.pending
      /\ e.setup = s.engine.setup /\ e.trades = s.engine.trades /\ e.exits = s.engine.exits
      /\ e.entry = s.engine.entry
  BY <1>1 DEF Engine
<1> HIDE DEF e, t
<1>4. /\ t \in SessionType /\ t.broker = s.broker /\ t.account = s.account /\ t.engine = e
      /\ t.failure = s.failure
  BY <1>1, <1>2, <1>3 DEF SessionType
<1>5. Follows(t, s.broker.position) /\ Booked(e) = Booked(s.engine)
  BY <1>1, <1>3, <1>4 DEF Follows, Booked, EntryFee
<1>6. Steady(t)
  BY <1>1, <1>3, <1>4, <1>5 DEF Steady
<1>7. Waits(t)
  BY <1>1, <1>3, <1>4 DEF Waits
<1>8. Ready(t)
  BY <1>1, <1>4, <1>6, <1>7 DEF Ready
<1> QED
  BY <1>4, <1>8 DEF t

LEMMA MatchBarFacts ==
  ASSUME config \in Configs, now \in Nat, Ready(Session), NEW bar \in Bars
  PROVE  Handled(MatchBar(bar))
<1> DEFINE s == [Session EXCEPT !.engine.close = bar.close]
           r == ProcessBar(broker, bar, now + 1)
           t == ApplyPaperFills(s, r)
<1>1. Ready(s) /\ s.failure = None /\ s.broker = broker
  <2>1. bar.close \in Nat
    BY BarFacts
  <2> QED
    BY <2>1, PricedFacts, SessionFacts
<1> HIDE DEF s
<1>2. Steady(s) /\ Waits(s) /\ s.broker.rejection = FALSE
  BY <1>1 DEF Ready
<1>3. /\ Books(s.engine.delivered, broker) /\ Adds(broker) /\ broker.deferred = None
      /\ s.engine.delivered \in Seq(Event)
  BY <1>1, <1>2 DEF Steady, SessionType, Engine
<1>4. Matched(s.engine.delivered, s.broker, r)
  <2>1. now + 1 \in Int
    OBVIOUS
  <2> QED
    BY <1>1, <1>3, <2>1, ProcessBarFacts
<1> HIDE DEF r
<1>5. Filled(s, t)
  BY <1>1, <1>2, <1>4, FillsApplied
<1>6. MatchBar(bar) = AfterFills(t)
  BY DEF MatchBar, t, s, r
<1> HIDE DEF t
<1> QED
  BY <1>5, <1>6, AfterFillsFacts

-----------------------------------------------------------------------------
(***************************************************************************)
(* What the strategy decides.                                              *)
(***************************************************************************)
LEMMA FailedFacts ==
  ASSUME NEW s \in SessionType, NoReentry(s.broker.executed)
  PROVE  Handled(Raise(s)) /\ Handled(ContainAndRaise(s))
<1>1. ASSUME NEW failure \in {"raised", "contained"}
      PROVE  Handled([s EXCEPT !.failure = failure])
  <2> DEFINE t == [s EXCEPT !.failure = failure]
  <2>1. t \in SessionType /\ t.failure = failure /\ t.broker = s.broker
    BY DEF SessionType
  <2>2. failure # None
    BY NoPositionAssumption
  <2> HIDE DEF t
  <2>3. Handled(t)
    BY <2>1, <2>2 DEF Handled
  <2> QED
    BY <2>3 DEF t
<1> QED
  BY <1>1 DEF Raise, ContainAndRaise

LEMMA BecomeFacts ==
  ASSUME config \in Configs, now \in Nat, status = "running", NEW s, Handled(s), Become(s)
  PROVE  PaperInvariant'
<1> DEFINE end == Outcome(s)
<1>1. /\ broker' = end.broker /\ account' = end.account /\ engine' = end.engine
      /\ status' = IF s.failure = None THEN status ELSE "failed"
      /\ now' = now + 1 /\ config' = config
  BY DEF Become
<1>2. s \in SessionType /\ NoReentry(s.broker.executed)
  BY DEF Handled
<1>3. NoReentry(broker'.executed)
  <2>1. Alive(end)
    BY <1>2, TypedAlive, OutcomeAlive
  <2> HIDE DEF end
  <2> QED
    BY <1>1, <2>1 DEF Alive
<1>4. config' \in Configs /\ now' \in Nat
  BY <1>1
<1>5. ASSUME status' = "running" PROVE Ready(Session')
  <2>1. s.failure = None
    BY <1>1, <1>5
  <2>2. Ready(s) /\ end = s
    BY <2>1 DEF Handled, Outcome
  <2> DEFINE t == Session'
  <2>3. t = [broker |-> broker', account |-> account', engine |-> engine', failure |-> None,
             rejected |-> FALSE]
    BY DEF Session
  <2>4. /\ t.broker = s.broker /\ t.account = s.account /\ t.engine = s.engine
        /\ s.broker \in BrokerType /\ s.account \in PlatformAccount /\ s.engine \in Engine
    BY <1>1, <1>2, <2>2, <2>3 DEF SessionType
  <2>5. t \in SessionType
    <3> HIDE DEF t
    <3> QED
      BY <2>3, <2>4 DEF SessionType
  <2> HIDE DEF t
  <2>6. Ready(t)
    BY <2>2, <2>4, <2>5 DEF Ready, Steady, Follows, Waits
  <2> QED
    BY <2>6 DEF t
<1> QED
  BY <1>3, <1>4, <1>5 DEF PaperInvariant, Running

LEMMA CancelEntryFacts ==
  ASSUME config \in Configs, now \in Nat, status = "running", NEW s, Handled(s), CancelEntry(s)
  PROVE  PaperInvariant'
<1> DEFINE b == s.broker
           no == FALSE
           c == [b EXCEPT !.pending = None]
           e == [s.engine EXCEPT !.pending = no, !.setup = None]
           a == s.account
           t == [s EXCEPT !.broker.pending = None, !.engine.pending = no, !.engine.setup = None]
           u == [s EXCEPT !.broker = c, !.account = a, !.engine = e]
<1>1. /\ s \in SessionType /\ NoReentry(b.executed) /\ s.failure = None
      /\ Ready(s) /\ Steady(s) /\ b.position = None
      /\ Become(IF b.pending # None THEN t ELSE ContainAndRaise(s))
  BY DEF CancelEntry, Flat, Handled, Ready
<1>2. /\ b \in BrokerType /\ s.engine \in Engine /\ a \in PlatformAccount
      /\ Follows(s, b.position) /\ b.events = <<>> /\ b.rejection = FALSE
  BY <1>1 DEF SessionType, Steady, Ready
<1>3. no \in BOOLEAN /\ no = FALSE
  OBVIOUS
<1> HIDE DEF no, t
<1>4. t = u
  BY <1>1 DEF t, SessionType
<1>5. /\ c \in BrokerType /\ c.events = b.events /\ c.ledger = b.ledger
      /\ c.journaled = b.journaled /\ c.position = b.position /\ c.pending = None
      /\ c.deferred = b.deferred /\ c.executed = b.executed /\ c.rejection = b.rejection
  BY <1>2 DEF BrokerType
<1>6. /\ e \in Engine /\ e.delivered = s.engine.delivered /\ e.pending = no
      /\ e.setup = None /\ e.trades = s.engine.trades /\ e.exits = s.engine.exits
      /\ e.entry = s.engine.entry
  BY <1>2, <1>3 DEF Engine
<1> HIDE DEF c, e
<1>7. /\ Quantity(c) = Quantity(b) /\ Adds(c)
      /\ a.position = Mirror(c.position)
      /\ a.margin = IF c.position = None THEN 0 ELSE c.position.margin
  BY <1>1, <1>2, <1>5 DEF Quantity, Adds, Follows
<1> HIDE DEF a
<1>8. Steady(u) /\ u.broker = c /\ u.engine = e /\ u.failure = None
  <2>1. /\ u \in SessionType /\ u.broker = c /\ u.account = a /\ u.engine = e
        /\ u.failure = None
    BY <1>1, <1>2, <1>5, <1>6 DEF SessionType
  <2> HIDE DEF u
  <2>2. /\ u.account.position = Mirror(c.position)
        /\ u.account.margin = IF c.position = None THEN 0 ELSE c.position.margin
        /\ u.engine.delivered = s.engine.delivered /\ u.engine.trades = s.engine.trades
        /\ u.engine.exits = s.engine.exits /\ u.engine.entry = s.engine.entry
    BY <1>1, <1>2, <1>5, <1>6, <1>7, <2>1
  <2>3. Steady(u)
    BY <1>1, <1>2, <1>5, <1>6, <1>7, <2>1, <2>2, Rewired
  <2> QED
    BY <2>1, <2>3
<1> HIDE DEF u
<1>9. Ready(u)
  BY <1>2, <1>3, <1>5, <1>6, <1>8 DEF Ready, Waits
<1>10. Handled(t)
  BY <1>1, <1>4, <1>5, <1>8, <1>9 DEF Handled, Ready, Steady
<1>11. Handled(ContainAndRaise(s))
  BY <1>1, FailedFacts
<1> QED
  BY <1>1, <1>10, <1>11, BecomeFacts

\* A submitted entry waits, and may add to the position: there is none.
LEMMA SubmittedFacts ==
  ASSUME config \in Configs, now \in Nat, NEW s, Ready(s), Flat(s), NEW setup \in Setups
  PROVE  Ready(Submitted(s, setup)) /\ Submitted(s, setup).failure = s.failure
<1> DEFINE b == s.broker
           a == s.account
           yes == TRUE
           time == now + 1
           budget == Abs(setup.entry - setup.stop) * setup.qty
           eligible == time + 1 + FillDelay
           zero == 0
           o == [side |-> setup.side, type |-> setup.type, entry |-> setup.entry,
                 stop |-> setup.stop, target |-> setup.target, qty |-> setup.qty,
                 filled |-> zero, budget |-> budget, eligible |-> eligible]
           c == [b EXCEPT !.pending = o]
           e == [s.engine EXCEPT !.pending = yes, !.setup = setup]
           t == Submitted(s, setup)
           u == [s EXCEPT !.broker = c, !.account = a, !.engine = e]
<1>1. /\ s \in SessionType /\ Steady(s) /\ b.position = None
      /\ b \in BrokerType /\ s.engine \in Engine /\ a \in PlatformAccount
      /\ Books(s.engine.delivered, b)
      /\ Follows(s, b.position) /\ b.events = <<>> /\ b.rejection = FALSE
  BY DEF SessionType, Steady, Ready, Flat
<1>2. setup \in TradeSetup /\ setup # None
  BY SetupFacts
<1>3. /\ setup.side \in Sides /\ setup.type \in Types /\ setup.entry \in Int
      /\ setup.stop \in Int /\ setup.target \in Int /\ setup.qty \in Nat \ {0}
  BY <1>2 DEF TradeSetup
<1>4. budget \in Int /\ eligible \in Int /\ zero \in Nat /\ yes \in BOOLEAN /\ yes = TRUE
  <2>1. Abs(setup.entry - setup.stop) \in Int
    BY <1>3, AbsType
  <2>2. FillDelay \in Nat
    BY ConfigFacts
  <2> QED
    BY <1>3, <2>1, <2>2
<1>5. t = [s EXCEPT !.engine.pending = yes, !.engine.setup = setup,
                    !.broker = SubmitBracket(@, setup, time)]
  BY DEF Submitted
<1>6. SubmitBracket(b, setup, time) = c
  BY DEF SubmitBracket
<1> HIDE DEF budget, eligible, zero, yes, time
<1>7. o \in Order /\ o # None
  <2>1. o \in Order
    BY <1>3, <1>4 DEF Order
  <2> QED
    BY <2>1, NotNone
<1> HIDE DEF o, t
<1>8. t = u
  <2> HIDE DEF c
  <2>1. t = [s EXCEPT !.engine.pending = yes, !.engine.setup = setup, !.broker = c]
    BY <1>1, <1>5, <1>6 DEF SessionType
  <2> QED
    BY <1>1, <2>1 DEF SessionType
<1>9. /\ c \in BrokerType /\ c.events = b.events /\ c.ledger = b.ledger
      /\ c.journaled = b.journaled /\ c.position = b.position /\ c.pending = o
      /\ c.deferred = b.deferred /\ c.executed = b.executed /\ c.rejection = b.rejection
  BY <1>1, <1>7 DEF BrokerType
<1>10. /\ e \in Engine /\ e.delivered = s.engine.delivered /\ e.pending = yes
       /\ e.setup = setup /\ e.trades = s.engine.trades /\ e.exits = s.engine.exits
       /\ e.entry = s.engine.entry
  BY <1>1, <1>2, <1>4 DEF Engine
<1> HIDE DEF c, e
<1>11. Adds(c)
  <2>1. HeldAtEnd(b.executed) = 0 /\ b.executed \in Seq(Execution)
    BY <1>1 DEF Books, Quantity, BrokerType
  <2> QED
    BY <1>9, <2>1, FlatMayAdd DEF Adds
<1>12. /\ Quantity(c) = Quantity(b)
       /\ a.position = Mirror(c.position)
       /\ a.margin = IF c.position = None THEN 0 ELSE c.position.margin
  BY <1>1, <1>9 DEF Quantity, Follows
<1> HIDE DEF a
<1>13. Steady(u) /\ u.broker = c /\ u.engine = e /\ u.failure = s.failure
  <2>1. /\ u \in SessionType /\ u.broker = c /\ u.account = a /\ u.engine = e
        /\ u.failure = s.failure
    BY <1>1, <1>9, <1>10 DEF SessionType
  <2> HIDE DEF u
  <2>2. /\ u.account.position = Mirror(c.position)
        /\ u.account.margin = IF c.position = None THEN 0 ELSE c.position.margin
        /\ u.engine.delivered = s.engine.delivered /\ u.engine.trades = s.engine.trades
        /\ u.engine.exits = s.engine.exits /\ u.engine.entry = s.engine.entry
    BY <1>1, <1>9, <1>10, <1>11, <1>12, <2>1
  <2>3. Steady(u)
    BY <1>1, <1>9, <1>10, <1>11, <1>12, <2>1, <2>2, Rewired
  <2> QED
    BY <2>1, <2>3
<1> HIDE DEF u
<1>14. Ready(u)
  BY <1>1, <1>2, <1>4, <1>7, <1>9, <1>10, <1>13 DEF Ready, Waits
<1> QED
  BY <1>8, <1>13, <1>14 DEF t

\* The legacy market entry fills at the close, or stays.
LEMMA FillAtCloseFacts ==
  ASSUME config \in Configs, now \in Nat, NEW s, Ready(s), s.failure = None
  PROVE  Handled(PollBrokerFills(FillAtClose(s)))
<1> DEFINE b == s.broker
           r == FillMarketIfPending(b, s.engine.close, now + 1)
           t == FillAtClose(s)
<1>1. /\ s \in SessionType /\ Steady(s) /\ Waits(s) /\ b.rejection = FALSE
      /\ Books(s.engine.delivered, b) /\ Adds(b) /\ b.deferred = None
      /\ s.engine.delivered \in Seq(Event) /\ s.engine.close \in Nat
  BY DEF Ready, Steady, SessionType, Engine
<1>2. t = ApplyPaperFills(s, r)
  BY DEF FillAtClose
<1>3. \/ Idle(b, r)
      \/ Opened(s.engine.delivered, b, r)
  <2>1. now + 1 \in Int
    OBVIOUS
  <2> QED
    BY <1>1, <2>1, FillMarketFacts
<1> HIDE DEF r, t
<1>4. Filled(s, t) /\ t.broker.rejection = FALSE
  <2>1. CASE Idle(b, r)
    <3>1. r = Result(b, <<>>) /\ r.broker = b
      BY <2>1 DEF Idle, Result
    <3>2. Unfilled(s.engine.delivered, b, r)
      BY <1>1, <3>1, IdleFacts
    <3> QED
      BY <1>1, <1>2, <3>1, <3>2, UnfilledApplied
  <2>2. CASE Opened(s.engine.delivered, b, r)
    BY <1>1, <1>2, <2>2, OpenedApplied
  <2> QED
    BY <1>3, <2>1, <2>2
<1>5. /\ t \in SessionType /\ NoReentry(t.broker.executed)
      /\ t.failure = None => Steady(t) /\ Waits(t)
  BY <1>4 DEF Filled
<1> DEFINE u == PollBrokerFills(t)
<1>6. /\ u \in SessionType /\ u.failure = t.failure
      /\ u.broker.executed = t.broker.executed /\ u.broker.events = <<>>
      /\ u.broker.rejection = FALSE
      /\ t.failure = None => Steady(u) /\ Waits(u)
  BY <1>4, <1>5, PolledFacts
<1> HIDE DEF u
<1>7. Handled(u)
  BY <1>5, <1>6 DEF Handled, Ready
<1> QED
  BY <1>7 DEF u, t

LEMMA TryEnterFacts ==
  ASSUME config \in Configs, now \in Nat, status = "running", NEW s, Handled(s),
         NEW setup \in Setups, TryEnter(s, setup)
  PROVE  PaperInvariant'
<1> DEFINE t == Submitted(s, setup)
           u == PollBrokerFills(FillAtClose(t))
<1>1. /\ s.failure = None /\ Flat(s)
      /\ Become(IF ~Accepts(s.broker, setup) THEN s ELSE IF Costed THEN t ELSE u)
  BY DEF TryEnter
<1>2. Ready(s)
  BY <1>1 DEF Handled
<1>3. Ready(t) /\ t.failure = None
  BY <1>1, <1>2, SubmittedFacts
<1> HIDE DEF t
<1>4. Handled(t)
  BY <1>3 DEF Handled, Ready, Steady, Books
<1>5. Handled(u)
  BY <1>3, FillAtCloseFacts
<1> HIDE DEF u
<1> QED
  BY <1>1, <1>4, <1>5, BecomeFacts

\* Other levels of position p, and the mirror of another stop.
Levelled(p, stop, target) == [p EXCEPT !.stop = stop, !.target = target]
Restopped(m, stop) == [m EXCEPT !.stop = stop]

LEMMA LevelsFacts ==
  ASSUME NEW p \in Position, NEW stop \in Int, NEW target \in Int
  PROVE  LET q == Levelled(p, stop, target)
         IN /\ q \in Position /\ q # None /\ q.qty = p.qty /\ q.margin = p.margin
            /\ q.protected = p.protected /\ Mirror(q) = Restopped(Mirror(p), stop)
<1> DEFINE q == Levelled(p, stop, target)
<1>1. /\ q \in Position /\ q.side = p.side /\ q.entry = p.entry /\ q.qty = p.qty
      /\ q.margin = p.margin /\ q.stop = stop /\ q.protected = p.protected
  BY DEF Position, Levelled
<1> HIDE DEF q
<1>2. q # None /\ p # None
  BY <1>1, NotNone
<1>3. Mirror(q) = [side |-> p.side, entry |-> p.entry, qty |-> p.qty, stop |-> stop,
                   margin |-> p.margin]
  BY <1>1, <1>2 DEF Mirror
<1>4. Mirror(p) = [side |-> p.side, entry |-> p.entry, qty |-> p.qty, stop |-> p.stop,
                   margin |-> p.margin]
  BY <1>2 DEF Mirror
<1>5. Mirror(q) = Restopped(Mirror(p), stop)
  BY <1>3, <1>4 DEF Restopped
<1> QED
  BY <1>1, <1>2, <1>5 DEF q

Modified(s, b, a, open) == [s EXCEPT !.broker = b, !.account = a, !.engine.open = open]

LEMMA ModifiedFacts ==
  ASSUME config \in Configs, NEW s, Ready(s), s.broker.position # None,
         NEW stop \in Int, NEW target \in Int, NEW open \in TradeSetup \cup {None},
         NEW a \in PlatformAccount, a.position = Restopped(s.account.position, stop),
         a.margin = s.account.margin
  PROVE  Ready(Modified(s, ModifyProtection(s.broker, stop, target), a, open))
<1> DEFINE b == s.broker
           p == b.position
           q == Levelled(p, stop, target)
           o == IF b.pending = None THEN None
                ELSE [b.pending EXCEPT !.stop = stop, !.target = target]
           c == ModifyProtection(b, stop, target)
           e == [s.engine EXCEPT !.open = open]
           t == Modified(s, c, a, open)
           u == [s EXCEPT !.broker = c, !.account = a, !.engine = e]
<1>1. /\ s \in SessionType /\ Steady(s) /\ Waits(s) /\ Adds(b)
      /\ b \in BrokerType /\ s.engine \in Engine
      /\ p # None => p.protected = TRUE
      /\ Follows(s, p) /\ b.events = <<>> /\ b.rejection = FALSE
  BY DEF SessionType, Steady, Ready
<1>2. p \in Position /\ b.pending \in Order \cup {None}
  BY <1>1 DEF BrokerType
<1>3. /\ q \in Position /\ q # None /\ q.qty = p.qty /\ q.margin = p.margin
      /\ q.protected = p.protected /\ Mirror(q) = Restopped(Mirror(p), stop)
  BY <1>2, LevelsFacts
<1>4. o \in Order \cup {None} /\ (o = None <=> b.pending = None)
  <2>1. CASE b.pending = None
    BY <2>1
  <2>2. CASE b.pending # None
    <3>1. o \in Order
      BY <1>2, <2>2 DEF Order
    <3> QED
      BY <2>2, <3>1, NotNone
  <2> QED
    BY <2>1, <2>2
<1>5. c = [b EXCEPT !.position = q, !.pending = o]
  BY <1>1, <1>2 DEF ModifyProtection, BrokerType, Position, Levelled
<1> HIDE DEF q, o, c, p, t
<1>6. /\ c \in BrokerType /\ c.events = b.events /\ c.ledger = b.ledger
      /\ c.journaled = b.journaled /\ c.position = q /\ c.pending = o
      /\ c.deferred = b.deferred /\ c.executed = b.executed /\ c.rejection = b.rejection
  BY <1>1, <1>3, <1>4, <1>5 DEF BrokerType
<1>7. /\ e \in Engine /\ e.delivered = s.engine.delivered /\ e.pending = s.engine.pending
      /\ e.setup = s.engine.setup /\ e.trades = s.engine.trades /\ e.exits = s.engine.exits
      /\ e.entry = s.engine.entry
  BY <1>1 DEF Engine
<1>8. t = u
  BY <1>1 DEF t, Modified, SessionType
<1> HIDE DEF e
<1>9. /\ Quantity(c) = Quantity(b) /\ Adds(c)
      /\ c.position = None <=> b.position = None
      /\ c.position # None => c.position.protected = TRUE
      /\ a.position = Mirror(c.position)
      /\ a.margin = IF c.position = None THEN 0 ELSE c.position.margin
  <2>1. b.position = p /\ p # None
    BY DEF p
  <2>2. Quantity(c) = Quantity(b)
    BY <1>3, <1>6, <2>1 DEF Quantity
  <2>3. Adds(c)
    BY <1>1, <1>4, <1>6 DEF Adds
  <2>4. s.account.position = Mirror(p) /\ s.account.margin = p.margin
    BY <1>1, <2>1 DEF Follows
  <2> QED
    BY <1>1, <1>3, <1>6, <2>1, <2>2, <2>3, <2>4
<1>10. Steady(u) /\ u.broker = c /\ u.engine = e /\ u.failure = s.failure
  <2>1. /\ u \in SessionType /\ u.broker = c /\ u.account = a /\ u.engine = e
        /\ u.failure = s.failure
    BY <1>1, <1>6, <1>7 DEF SessionType
  <2> HIDE DEF u
  <2>2. /\ u.account.position = Mirror(c.position)
        /\ u.account.margin = IF c.position = None THEN 0 ELSE c.position.margin
        /\ u.engine.delivered = s.engine.delivered /\ u.engine.trades = s.engine.trades
        /\ u.engine.exits = s.engine.exits /\ u.engine.entry = s.engine.entry
    BY <1>1, <1>6, <1>7, <1>9, <2>1
  <2>3. Steady(u)
    BY <1>1, <1>6, <1>7, <1>9, <2>1, <2>2, Rewired
  <2> QED
    BY <2>1, <2>3
<1> HIDE DEF u
<1>11. Ready(u)
  BY <1>1, <1>4, <1>6, <1>7, <1>9, <1>10 DEF Ready, Waits
<1> QED
  BY <1>8, <1>11 DEF t, c

LEMMA UpdateProtectionFacts ==
  ASSUME config \in Configs, now \in Nat, status = "running", NEW s, Handled(s),
         NEW stop \in Stops \cup {None}, NEW target \in Targets \cup {None},
         UpdateProtection(s, stop, target)
  PROVE  PaperInvariant'
<1> DEFINE b == s.broker
           p == b.position
           newStop == IF stop = None THEN p.stop ELSE stop
           newTarget == IF target = None THEN p.target ELSE target
           c == ModifyProtection(b, newStop, newTarget)
           old == s.engine.open
           open == IF old = None \/ target = None THEN old ELSE [old EXCEPT !.target = newTarget]
           modified == [s EXCEPT !.broker = ModifyProtection(@, newStop, newTarget),
                                 !.engine.open = IF @ = None \/ target = None THEN @
                                                 ELSE [@ EXCEPT !.target = newTarget]]
           held == [s.account.position EXCEPT !.stop = newStop]
           a == [s.account EXCEPT !.position = held]
           moved == [modified EXCEPT !.account.position.stop = newStop]
           refused == ContainAndRaise(s)
<1>1. /\ s.failure = None
      /\ Become(IF p = None \/ ~Modifies(b, newStop, newTarget) THEN refused
                ELSE IF stop = None THEN modified
                ELSE IF s.account.position = None THEN Raise(modified) ELSE moved)
  BY DEF UpdateProtection
<1>2. /\ Ready(s) /\ s \in SessionType /\ b \in BrokerType /\ NoReentry(b.executed)
      /\ Follows(s, p) /\ s.account \in PlatformAccount /\ s.engine \in Engine
  BY <1>1 DEF Handled, Ready, Steady, SessionType
<1>3. Handled(refused)
  BY <1>2, FailedFacts
<1> HIDE DEF refused
<1>4. CASE p = None
  BY <1>1, <1>3, <1>4, BecomeFacts
<1>5. CASE p # None
  <2>1. p \in Position /\ p.stop \in Int /\ p.target \in Int
    BY <1>2, <1>5 DEF BrokerType, Position
  <2>2. newStop \in Int /\ newTarget \in Int
    <3>1. Stops \subseteq Int /\ Targets \subseteq Int
      BY BarsAssumption DEF Stops, Targets
    <3> QED
      BY <2>1, <3>1
  <2>3. open \in TradeSetup \cup {None}
    <3>1. old \in TradeSetup \cup {None}
      BY <1>2 DEF Engine
    <3> QED
      BY <2>2, <3>1 DEF TradeSetup
  <2>4. /\ s.account.position = Mirror(p) /\ Mirror(p) \in AccountPosition
        /\ s.account.position # None
        /\ Mirror(p) = [side |-> p.side, entry |-> p.entry, qty |-> p.qty, stop |-> p.stop,
                        margin |-> p.margin]
    BY <1>2, <2>1, MirrorFacts DEF Follows
  <2> HIDE DEF newStop, newTarget
  <2>5. held \in AccountPosition
    BY <2>2, <2>4 DEF AccountPosition
  <2>6. modified = [s EXCEPT !.broker = c, !.engine.open = open]
    BY <1>2 DEF SessionType, Engine
  <2> HIDE DEF c, open, modified
  <2>7. CASE stop = None
    <3> DEFINE t == Modified(s, c, s.account, open)
    <3>1. s.account.position = Restopped(s.account.position, newStop)
      BY <2>4, <2>7 DEF newStop, Restopped
    <3>2. Ready(t)
      <4>1. s.broker.position # None /\ c = ModifyProtection(s.broker, newStop, newTarget)
        BY <1>5 DEF c
      <4> HIDE DEF b
      <4> QED
        BY <1>2, <2>2, <2>3, <3>1, <4>1, ModifiedFacts
    <3>3. modified = t
      BY <1>2, <2>6 DEF SessionType, Modified
    <3> HIDE DEF t
    <3>4. Handled(modified)
      BY <3>2, <3>3 DEF Handled, Ready, Steady, Books
    <3> QED
      BY <1>1, <1>3, <1>5, <2>7, <3>4, BecomeFacts
  <2>8. CASE stop # None
    <3> DEFINE t == Modified(s, c, a, open)
    <3>1. a \in PlatformAccount /\ a.position = held /\ a.margin = s.account.margin
      BY <1>2, <2>5 DEF PlatformAccount
    <3>2. moved = t
      <4>1. modified.account = s.account /\ "account" \in DOMAIN modified
        BY <1>2, <2>6 DEF SessionType
      <4>2. moved = [modified EXCEPT !.account = a]
        BY <1>2, <4>1 DEF PlatformAccount
      <4> HIDE DEF moved, a
      <4> QED
        BY <1>2, <2>6, <4>2 DEF SessionType, Modified
    <3> HIDE DEF a, moved
    <3>3. Ready(t)
      <4>1. s.broker.position # None /\ c = ModifyProtection(s.broker, newStop, newTarget)
        BY <1>5 DEF c
      <4>2. a.position = Restopped(s.account.position, newStop)
        BY <3>1 DEF Restopped
      <4> HIDE DEF b
      <4> QED
        BY <1>2, <2>2, <2>3, <3>1, <4>1, <4>2, ModifiedFacts
    <3> HIDE DEF t
    <3>4. Handled(moved)
      BY <3>2, <3>3 DEF Handled, Ready, Steady, Books
    <3> QED
      BY <1>1, <1>3, <1>5, <2>4, <2>8, <3>4, BecomeFacts
  <2> QED
    BY <2>7, <2>8
<1> QED
  BY <1>4, <1>5

-----------------------------------------------------------------------------
(***************************************************************************)
(* The session's steps.                                                    *)
(***************************************************************************)
LEMMA ProcessBarStepFacts ==
  ASSUME PaperInvariant, ProcessBarStep
  PROVE  PaperInvariant'
<1>1. config \in Configs /\ now \in Nat /\ status = "running" /\ Ready(Session)
  BY DEF PaperInvariant, ProcessBarStep, Running
<1>2. PICK bar \in Bars :
        \E s \in {MatchBar(bar)} :
          \/ Observe(s)
          \/ CancelEntry(s)
          \/ \E setup \in Setups : TryEnter(s, setup)
          \/ \E stop \in Stops \cup {None}, target \in Targets \cup {None} :
               /\ stop # None \/ target # None
               /\ UpdateProtection(s, stop, target)
  BY DEF ProcessBarStep
<1> DEFINE s == MatchBar(bar)
<1>3. Handled(s)
  BY <1>1, MatchBarFacts
<1>4. \/ Observe(s)
      \/ CancelEntry(s)
      \/ \E setup \in Setups : TryEnter(s, setup)
      \/ \E stop \in Stops \cup {None}, target \in Targets \cup {None} : UpdateProtection(s, stop, target)
  BY <1>2
<1> HIDE DEF s
<1>5. CASE Observe(s)
  BY <1>1, <1>3, <1>5, BecomeFacts DEF Observe
<1>6. CASE CancelEntry(s)
  BY <1>1, <1>3, <1>6, CancelEntryFacts
<1>7. ASSUME NEW setup \in Setups, TryEnter(s, setup) PROVE PaperInvariant'
  BY <1>1, <1>3, <1>7, TryEnterFacts
<1>8. ASSUME NEW stop \in Stops \cup {None}, NEW target \in Targets \cup {None},
             UpdateProtection(s, stop, target)
      PROVE  PaperInvariant'
  BY <1>1, <1>3, <1>8, UpdateProtectionFacts
<1> QED
  BY <1>4, <1>5, <1>6, <1>7, <1>8

LEMMA FinishFacts ==
  ASSUME PaperInvariant, Finish
  PROVE  PaperInvariant'
<1>1. config \in Configs /\ now \in Nat /\ Ready(Session) /\ NoReentry(broker.executed)
  BY DEF PaperInvariant, Finish, Running
<1>2. PICK retain \in {FALSE, EndPolicy = "mark"} : broker' = Finalize(Session, retain).broker
  BY DEF Finish
<1>3. Alive(Session)
  <2>1. Session \in SessionType
    BY <1>1 DEF Ready, Steady
  <2> QED
    BY <1>1, <2>1, SessionFacts, TypedAlive
<1>4. Alive(Finalize(Session, retain))
  BY <1>1, <1>3, FinalizeAlive
<1>5. NoReentry(broker'.executed)
  BY <1>2, <1>4 DEF Alive
<1>6. status' = "finished" /\ config' = config /\ now' = now
  BY DEF Finish
<1> QED
  BY <1>1, <1>5, <1>6 DEF PaperInvariant, Running

LEMMA NewBrokerFacts ==
  /\ NewBroker \in BrokerType /\ Books(<<>>, NewBroker) /\ Adds(NewBroker)
  /\ Traded(NewBroker) = 0
<1> DEFINE b == NewBroker
           none == <<>>
           zero == 0
           no == FALSE
<1>1. /\ none \in Seq(Cashflow) /\ none \in Seq(Event) /\ none \in Seq(Execution)
      /\ none \o none = none /\ DOMAIN none = {} /\ Len(none) = 0
      /\ zero \in Nat /\ zero \in Int /\ no \in BOOLEAN
  OBVIOUS
<1>2. b = [ledger |-> none, position |-> None, pending |-> None, last_close |-> zero,
           entry_bar |-> zero, events |-> none, deferred |-> None, journaled |-> zero,
           exit_cumulative |-> zero, rejection |-> no, executed |-> none]
  BY DEF NewBroker
<1> HIDE DEF b, none, zero, no
<1>3. b \in BrokerType
  BY <1>1, <1>2 DEF BrokerType
<1>4. /\ b.ledger = none /\ b.position = None /\ b.pending = None /\ b.events = none
      /\ b.deferred = None /\ b.journaled = zero /\ b.executed = none
  BY <1>2
<1>5. Cashflows(b) = {} /\ Early(b) = {} /\ Late(b) = {}
  BY <1>1, <1>4 DEF Cashflows, Fundings, Early, Late
<1>6. Traded(b) = 0
  BY <1>5, SumEmpty DEF Traded
<1>7. Named(none \o b.events, b, Early(b))
  BY <1>1, <1>4, <1>5 DEF Named
<1>8. HeldAtEnd(none) = 0 /\ NoReentry(none)
  <2>1. 1 .. Len(none) = {}
    BY <1>1
  <2>2. HeldAtEnd(none) = 0
    BY <2>1, SumEmpty DEF HeldAtEnd, Held
  <2>3. NoReentry(none)
    BY <1>1 DEF NoReentry, Exits
  <2> QED
    BY <2>2, <2>3
<1>9. Books(none, b)
  <2>1. b.journaled <= Len(b.ledger)
    BY <1>1, <1>4 DEF zero
  <2> QED
    BY <1>3, <1>4, <1>5, <1>7, <1>8, <2>1 DEF Books, Quantity
<1>10. Adds(b)
  BY <1>4 DEF Adds
<1> QED
  BY <1>3, <1>6, <1>9, <1>10 DEF b, none

LEMMA InitFacts ==
  ASSUME Init
  PROVE  PaperInvariant
<1> DEFINE s == Session
           none == <<>>
           zero == 0
           no == FALSE
<1>1. config \in Configs /\ broker = NewBroker /\ status = "running" /\ now = 0
  BY DEF Init
<1>2. /\ account = [position |-> None, margin |-> zero, equity |-> Starting, marked |-> Starting,
                    peak |-> Starting, day |-> None, day_start |-> Starting]
      /\ engine = [pending |-> no, setup |-> None, open |-> None, entry |-> None,
                   exits |-> NoExits, trade_id |-> zero, trades |-> none, delivered |-> none,
                   halted |-> no, close |-> zero]
  BY DEF Init
<1>3. /\ zero \in Nat /\ zero \in Int /\ no \in BOOLEAN /\ none \in Seq(Trade)
      /\ none \in Seq(Event) /\ NoExits \in Trade /\ NoExits.pnl = 0 /\ DOMAIN none = {}
      /\ no = FALSE /\ zero = 0
  BY DEF Trade, NoExits
<1>4. Starting \in Int
  BY <1>1, ConfigFacts
<1>5. /\ broker \in BrokerType /\ Books(none, broker) /\ Adds(broker) /\ Traded(broker) = 0
      /\ broker.position = None /\ broker.pending = None /\ broker.events = none
      /\ broker.deferred = None /\ broker.rejection = FALSE
  BY <1>1, NewBrokerFacts DEF NewBroker
<1>6. Earned(none) = 0
  <2> DEFINE f == [i \in DOMAIN none |-> none[i].pnl]
  <2>1. DOMAIN f = {}
    BY <1>3
  <2> HIDE DEF f
  <2>2. SumFunction(f) = 0
    BY <2>1, SumEmpty DEF SumFunction, SumFunctionOnSet, FoldFunction
  <2> QED
    BY <2>2 DEF Earned, f
<1> HIDE DEF none, zero, no
<1>7. account \in PlatformAccount /\ account.position = None /\ account.margin = 0
  BY <1>2, <1>3, <1>4 DEF PlatformAccount
<1>8. /\ engine \in Engine /\ engine.delivered = none /\ engine.pending = FALSE
      /\ engine.setup = None /\ engine.entry = None /\ engine.exits.pnl = 0
      /\ engine.trades = none
  <2> HIDE DEF NoExits
  <2> QED
    BY <1>2, <1>3 DEF Engine
<1>9. s \in SessionType
  BY <1>5, <1>7, <1>8 DEF SessionType, Session
<1>10. /\ s.broker = broker /\ s.account = account /\ s.engine = engine
  BY SessionFacts
<1> HIDE DEF s
<1>11. Follows(s, s.broker.position)
  BY <1>5, <1>7, <1>8, <1>10 DEF Follows, Mirror
<1>12. Booked(engine) = 0
  BY <1>6, <1>8 DEF Booked, EntryFee
<1>13. Steady(s)
  BY <1>5, <1>8, <1>9, <1>10, <1>11, <1>12 DEF Steady
<1>14. Ready(s)
  BY <1>5, <1>8, <1>10, <1>13 DEF Ready, Waits, none
<1>15. NoReentry(broker.executed)
  BY <1>5 DEF Books
<1> QED
  BY <1>1, <1>14, <1>15 DEF PaperInvariant, s

-----------------------------------------------------------------------------
(***************************************************************************)
(* The theorems.                                                           *)
(***************************************************************************)
\* PaperInvariant: between two candles the account is the mirror of the position, the
\* books of trades and of fills add up to the ledger, and nothing is half done (_on_bar).
THEOREM SessionInvariant == Spec => []PaperInvariant
<1>1. Init => PaperInvariant
  BY InitFacts
<1>2. PaperInvariant /\ [Next]_vars => PaperInvariant'
  <2>1. ASSUME PaperInvariant, Next PROVE PaperInvariant'
    <3>1. CASE ProcessBarStep
      BY <2>1, <3>1, ProcessBarStepFacts
    <3>2. CASE Finish
      BY <2>1, <3>2, FinishFacts
    <3>3. CASE Ended
      BY <2>1, <3>3 DEF Ended, vars, PaperInvariant, Running, Session
    <3> QED
      BY <2>1, <3>1, <3>2, <3>3 DEF Next
  <2>2. ASSUME PaperInvariant, UNCHANGED vars PROVE PaperInvariant'
    BY <2>2 DEF vars, PaperInvariant, Running, Session
  <2> QED
    BY <2>1, <2>2
<1> QED
  BY <1>1, <1>2, PTL DEF Spec

\* EngineFollowsBroker: the account rebuilt from the fills one by one is that of the
\* broker's position after every candle (_apply_paper_fill, PlatformAccountState).
THEOREM EngineAlwaysFollowsBroker == Spec => []EngineFollowsBroker
<1>1. PaperInvariant => EngineFollowsBroker
  <2> SUFFICES ASSUME PaperInvariant, Running PROVE EngineFollowsBroker
    BY DEF EngineFollowsBroker
  <2>1. Ready(Session)
    BY DEF PaperInvariant
  <2>2. Follows(Session, broker.position) /\ Waits(Session)
    BY <2>1, SessionFacts DEF Ready, Steady
  <2> QED
    BY <2>2, SessionFacts DEF EngineFollowsBroker, Follows, Waits, Mirror, MarginUsed
<1> QED
  BY <1>1, SessionInvariant, PTL

\* CashIsExplained: the trade records and the fundings make up the balance of a flat
\* account, and the delivered fills name every other ledger entry once (_trade_record,
\* _record_broker_fill).
THEOREM CashIsAlwaysExplained == Spec => []CashIsExplained
<1>1. PaperInvariant => CashIsExplained
  <2> SUFFICES ASSUME PaperInvariant, Running PROVE CashIsExplained
    BY DEF CashIsExplained
  <2>1. config \in Configs /\ Ready(Session)
    BY DEF PaperInvariant
  <2>2. /\ Books(engine.delivered, broker) /\ broker.deferred = None /\ broker.events = <<>>
        /\ Follows(Session, broker.position) /\ Traded(broker) = Booked(engine)
        /\ engine \in Engine
    BY <2>1, SessionFacts DEF Ready, Steady, SessionType
  <2>3. broker \in BrokerType /\ Late(broker) = {} /\ engine.delivered \in Seq(Event)
    BY <2>2 DEF Books, Engine
  <2>4. Named(engine.delivered, broker, Cashflows(broker))
    <3>1. engine.delivered \o broker.events = engine.delivered
      BY <2>2, <2>3
    <3>2. Early(broker) = Cashflows(broker)
      <4>1. /\ broker.journaled \in Nat
            /\ Cashflows(broker) \subseteq Nat
        BY <2>1, <2>3, LedgerFacts DEF BrokerType, Cashflows
      <4> QED
        BY <2>3, <4>1 DEF Early, Late
    <3> QED
      BY <2>2, <3>1, <3>2 DEF Books
  <2>5. ASSUME broker.position = None
        PROVE  Balance(broker) - Starting
                 = Earned(engine.trades) + SumFunctionOnSet(Amounts(broker), Fundings(broker))
    <3>1. engine.entry = None /\ engine.exits.pnl = 0
      BY <2>2, <2>5, SessionFacts DEF Follows
    <3>2. Earned(engine.trades) \in Int
      BY <2>2, BookedType
    <3>3. Booked(engine) = Earned(engine.trades)
      BY <3>1, <3>2 DEF Booked, EntryFee
    <3>4. /\ Balance(broker) = Starting + Traded(broker) + Funded(broker)
          /\ Traded(broker) \in Int /\ Funded(broker) \in Int
      BY <2>1, <2>3, LedgerFacts
    <3>5. Starting \in Int
      BY <2>1, ConfigFacts
    <3>6. Balance(broker) - Starting = Traded(broker) + Funded(broker)
      BY <3>4, <3>5
    <3> QED
      BY <2>2, <3>3, <3>6 DEF Funded
  <2> QED
    BY <2>4, <2>5 DEF CashIsExplained
<1> QED
  BY <1>1, SessionInvariant, PTL

\* NoEntryAfterExit: the rest of an entry never adds to what an exit has reduced
\* (process_bar and flatten drop it).
THEOREM NeverEntryAfterExit == Spec => []NoEntryAfterExit
<1>1. PaperInvariant => NoEntryAfterExit
  BY DEF PaperInvariant, NoReentry, NoEntryAfterExit
<1> QED
  BY <1>1, SessionInvariant, PTL
=============================================================================
