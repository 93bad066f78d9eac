------------------------- MODULE MultiOrderAccount -------------------------
(***************************************************************************)
(* The account of the Spot multi-order session: local admission of orders  *)
(* with their reservations, attributed execution events that arrive in any *)
(* order and more than once, and complete reconciliation.                  *)
(*                                                                         *)
(* The code is a reducer: each function takes a session state and returns  *)
(* a new one, or raises and leaves it alone.  So the functions are         *)
(* operators on a state record here, and the actions of a host apply them  *)
(* to the variable acct.                                                   *)
(*                                                                         *)
(* Sizes are counted in the unit an order is limited by, quote for a       *)
(* quote-capped BUY and base otherwise.  A BUY reserves UnitCost quote for *)
(* each unit, price and fee cap included; a SELL pays no base fee.         *)
(***************************************************************************)
EXTENDS Integers, Sequences, FiniteSets, FiniteSetsExt, Functions, SequencesExt

CONSTANTS
  Ids,         \* client order ids: records of cycle, slot, purpose and gen
  MaxSize,     \* bound: size of an order
  Budget,      \* allocated quote cash
  Cleanup,     \* its fee reserve
  UnitCost,    \* quote reserved for one unit of a BUY
  MaxOpen,     \* instrument.maximum_open_orders
  MaxEvents,   \* bound: events the venue emits
  Behaviours   \* what the venue may do besides filling and canceling: see Venue

Purposes == {"base", "addition", "grid_buy", "grid_sell", "target", "flatten"}

ASSUME IdsAssumption ==
  IsFiniteSet(Ids) /\ \A id \in Ids : id.purpose \in Purposes /\ id.cycle \in Nat /\ id.gen \in Nat
ASSUME AmountsAssumption ==
  /\ MaxSize \in Nat \ {0} /\ UnitCost \in Nat \ {0}
  /\ Budget \in Nat /\ Cleanup \in 0 .. Budget
  /\ MaxOpen \in Nat \ {0} /\ MaxEvents \in Nat
ASSUME BehavioursAssumption ==
  Behaviours \subseteq {"accepted", "rejected", "unknown", "improved", "baseFee", "thirdAsset",
                        "overfill", "excess", "late"}

VARIABLES
  acct,   \* the session state: account, orders, events
  venue   \* what the venue did: the events, in order of their source sequence

\* An expiry is a cancellation nobody asked for.
TERMINAL == {"filled", "canceled", "rejected"}
Buys(id) == id.purpose \in {"base", "addition", "grid_buy"}

\* The lot a BUY's base goes to: its own, but the lots of a DCA session count as one, the
\* basket, since every SELL of it takes from all of them, oldest first.
Basket == [cycle |-> 0, slot |-> 0, purpose |-> "basket", gen |-> 0]
LotOf(id) == IF id.purpose = "grid_buy" THEN id ELSE Basket

Nothing(lots) == [lot \in lots |-> 0]
NoOrder(lots) ==
  [status |-> "none", size |-> 0, filled |-> 0, reserved_quote |-> 0, reserved_base |-> 0,
   allocations |-> Nothing(lots), terminal_reconciled |-> FALSE, cancel |-> "none",
   unknown |-> "none", replacement |-> 0]

\* A session of the orders ids.
Opened(ids) ==
  LET lots == {LotOf(id) : id \in {i \in ids : Buys(i)}}
  IN  [cash |-> Budget, base |-> 0, cleanup |-> Cleanup, cycle |-> 0,
       orders |-> [id \in ids |-> NoOrder(lots)],
       lots |-> Nothing(lots), born |-> Nothing(lots),
       seq |-> 0, events |-> {}, buffered |-> {}, quarantine |-> {},
       reconciliation |-> FALSE, fees |-> FALSE, unvalued |-> {}]

Init == acct = Opened(Ids) /\ venue = <<>>

-----------------------------------------------------------------------------
(***************************************************************************)
(* Balances.                                                               *)
(***************************************************************************)
Lots(a) == DOMAIN a.lots
Known(a) == {id \in DOMAIN a.orders : a.orders[id].status # "none"}
reserved_quote(a) == SumFunction([id \in DOMAIN a.orders |-> a.orders[id].reserved_quote])
reserved_base(a) == SumFunction([id \in DOMAIN a.orders |-> a.orders[id].reserved_base])
free_quote(a) == a.cash - reserved_quote(a) - a.cleanup - a.cycle
free_base(a) == a.base - reserved_base(a)

Halted(a) == a.reconciliation \/ a.quarantine # {}

\* What each lot gives towards need, oldest first, of the amounts given.
Oldest(a, amount, need) ==
  [lot \in Lots(a) |->
     LET older == {l \in Lots(a) : a.born[l] < a.born[lot]}
         before == SumFunctionOnSet(amount, older)
     IN  Min({amount[lot], Max({0, need - before})})]

\* What the orders hold of a lot.
Allocated(a, lot) == SumFunction([id \in DOMAIN a.orders |-> a.orders[id].allocations[lot]])

\* The lots a SELL may take from, free of other orders: its own slot's lot of
\* the parent BUY for a grid SELL, every lot otherwise.
Available(a, lots) ==
  [lot \in Lots(a) |->
     IF lot \notin lots THEN 0
     ELSE Max({0, a.lots[lot] - Allocated(a, lot)})]

-----------------------------------------------------------------------------
(***************************************************************************)
(* submit_spot_order, cancel_spot_order, replace_spot_order.               *)
(***************************************************************************)
Unreconciled(a) == {id \in Known(a) : ~a.orders[id].terminal_reconciled}
SameSlot(id, old) ==
  id.cycle = old.cycle /\ id.slot = old.slot /\ id.purpose = old.purpose

\* What a base or addition BUY takes over from the cycle's reserve.
Transfer(a, id, size) ==
  IF id.purpose \in {"base", "addition"} THEN Min({a.cycle, size * UnitCost}) ELSE 0

CycleLeft(a, id, size) == IF Buys(id) THEN a.cycle - Transfer(a, id, size) ELSE a.cycle

SellableAll(a, size, lots) == TRUE   \* mutant: the SELL is not held against free base
Sellable(a, size, lots) ==
  /\ size <= free_base(a)
  /\ size <= SumFunction(Available(a, lots))

OverlapAllowed(a, id) ==   \* mutant: the predecessor need not be reconciled
  \A old \in Known(a) : SameSlot(id, old) => old.gen < id.gen
Succeeds(a, id) ==
  \A old \in Known(a) :
    SameSlot(id, old) => a.orders[old].terminal_reconciled /\ old.gen < id.gen

CanSubmit(a, id, size, lots) ==
  /\ ~Halted(a)
  /\ Buys(id) => ~a.fees /\ a.unvalued = {}
  /\ id \notin Known(a)
  /\ Cardinality(Unreconciled(a)) < MaxOpen
  /\ Succeeds(a, id)
  /\ IF Buys(id) THEN size * UnitCost <= free_quote(a) + Transfer(a, id, size)
                    ELSE Sellable(a, size, lots)

Submitted(a, id, size, lots) ==
  [a EXCEPT
     !.cycle = CycleLeft(a, id, size),
     !.orders[id] =
       [NoOrder(Lots(a)) EXCEPT !.status = "pending", !.size = size,
          !.reserved_quote = IF Buys(id) THEN size * UnitCost ELSE 0,
          !.reserved_base = IF Buys(id) THEN 0 ELSE size,
          !.allocations = IF Buys(id) THEN @
                          ELSE Oldest(a, Available(a, lots), size)]]

\* A cancellation is asked for under one command.
CanCancel(a, id, command) ==
  ~Halted(a) /\ id \in Known(a) /\ a.orders[id].cancel \in {"none", command}

Canceled(a, id, command) ==
  IF a.orders[id].terminal_reconciled \/ a.orders[id].cancel # "none" THEN a
  ELSE [a EXCEPT !.orders[id].cancel = command,
                 !.orders[id].status = IF @ \in TERMINAL THEN @ ELSE "cancel_pending"]

Successor(id) == [id EXCEPT !.gen = @ + 1]

CanReplace(a, id, size, lots) ==
  /\ ~Halted(a) /\ id \in Known(a) /\ Successor(id) \in Ids
  /\ a.orders[id].replacement \in {0, size}
  /\ IF a.orders[id].terminal_reconciled THEN CanSubmit(a, Successor(id), size, lots)
                                         ELSE CanCancel(a, id, "replace")

Replaced(a, id, size, lots) ==
  LET b == [a EXCEPT !.orders[id].replacement = size]
  IN  IF a.orders[id].terminal_reconciled THEN Submitted(b, Successor(id), size, lots)
                                          ELSE Canceled(b, id, "replace")

-----------------------------------------------------------------------------
(***************************************************************************)
(* apply_spot_event.                                                       *)
(***************************************************************************)
\* An event: seq, id, size (0 for a status), quote debited or received, base
\* acquired or removed, status, whether it carries an unvalued third-asset fee
\* and whether its fees exceed the policy.
Shortage(a, e) ==
  LET o == a.orders[e.id]
  IN  \/ e.excess
      \/ o.filled + e.size > o.size
      \/ Buys(e.id) /\ (e.quote > o.reserved_quote \/ e.quote > a.cash)
      \/ /\ ~Buys(e.id)
         /\ \/ e.base > o.reserved_base \/ e.base > a.base
            \/ e.base > SumFunction(o.allocations)

\* _account_fill and _consume_lots.
Bought(a, e) ==
  [a EXCEPT !.cash = @ - e.quote, !.base = @ + e.base,
            !.lots[LotOf(e.id)] = @ + e.base,
            !.born[LotOf(e.id)] = IF @ = 0 THEN e.seq ELSE @,
            !.orders[e.id].reserved_quote = @ - e.quote]

Sold(a, e) ==
  LET taken == Oldest(a, a.orders[e.id].allocations, e.base)
  IN  [a EXCEPT !.cash = @ + e.quote, !.base = @ - e.base,
                !.lots = [lot \in Lots(a) |-> @[lot] - taken[lot]],
                !.orders[e.id].reserved_base = @ - e.base,
                !.orders[e.id].allocations = [lot \in Lots(a) |-> @[lot] - taken[lot]]]

Accounted(a, e) ==
  LET b == IF e.size = 0 THEN a ELSE IF Buys(e.id) THEN Bought(a, e) ELSE Sold(a, e)
  IN  IF e.third THEN [b EXCEPT !.unvalued = @ \cup {e.seq}, !.fees = TRUE] ELSE b

Violates(a, e) ==
  /\ e.size > 0
  /\ \/ Shortage(a, e)
     \/ free_quote(Accounted(a, e)) < 0 \/ free_base(Accounted(a, e)) < 0

\* The order's latch for an unknown outcome, and its status.
UnknownAfter(o, e) ==
  IF e.status = "unknown" THEN IF o.cancel # "none" THEN "cancel" ELSE "submit"
  ELSE IF e.status \in TERMINAL \/ o.unknown = "submit" THEN "none" ELSE o.unknown
StatusAfter(o, e) ==
  IF UnknownAfter(o, e) # "none" THEN "unknown"
  ELSE IF o.cancel # "none" /\ e.status \notin TERMINAL THEN "cancel_pending" ELSE e.status

Recorded(a, e) ==
  [Accounted(a, e) EXCEPT
     !.orders[e.id].filled = @ + e.size,
     !.orders[e.id].unknown = UnknownAfter(a.orders[e.id], e),
     !.orders[e.id].status = StatusAfter(a.orders[e.id], e),
     !.reconciliation = @ \/ e.status = "unknown",
     !.seq = e.seq, !.events = @ \cup {e.seq}]

Seen(a, e) == e.seq \in a.events \/ e \in a.buffered \/ e \in a.quarantine

\* mutant: an event ahead of its turn is applied at once
InTurnAnyway(a, e) == TRUE
InTurn(a, e) == e.seq = a.seq + 1 /\ ~a.orders[e.id].terminal_reconciled

\* A new execution of an order that has ended but is not settled.
Refused(a, e) == ~Seen(a, e) /\ InTurn(a, e) /\ a.orders[e.id].status \in TERMINAL

\* An exact duplicate is neutral; an event out of turn, or of an order settled
\* before, waits for a reconciliation; one after a terminal status is refused;
\* one beyond its reservation is set aside with the balances as they were.
ApplyEvent(a, e) ==
  CASE Seen(a, e) -> a
    [] ~Seen(a, e) /\ ~InTurn(a, e) ->
         [a EXCEPT !.buffered = @ \cup {e}, !.reconciliation = TRUE]
    [] Refused(a, e) -> a
    [] OTHER -> IF Violates(a, e)
                  THEN [a EXCEPT !.quarantine = @ \cup {e}, !.reconciliation = TRUE]
                  ELSE Recorded(a, e)

-----------------------------------------------------------------------------
(***************************************************************************)
(* reconcile_spot_state: a complete report of the venue at its event k,    *)
(* with every event up to there and the values of some fees.               *)
(***************************************************************************)
\* A refused event fails the reconciliation: it stays buffered.
ReplayOne(a, e) ==
  IF Refused(a, e) THEN [a EXCEPT !.buffered = @ \cup {e}] ELSE ApplyEvent(a, e)
InReport(a, k, e) == e.seq \in (a.seq + 1) .. k \/ e \in a.buffered
Replayed(a, k) ==
  LET upTo[n \in 0 .. Len(venue)] ==
        IF n = 0 THEN [a EXCEPT !.buffered = {}]
        ELSE IF InReport(a, k, venue[n]) THEN ReplayOne(upTo[n - 1], venue[n]) ELSE upTo[n - 1]
  IN  upTo[Len(venue)]

\* The report agrees with b, the state with its events applied.
Agrees(b, k) ==
  /\ b.buffered = {} /\ b.seq = k
  /\ \A id \in Known(b) : b.orders[id].unknown = "none" /\ b.orders[id].status # "unknown"

\* mutant: a cancellation that was only asked for releases the reservation
ReleasedEarly(o) ==
  IF o.status \in TERMINAL \cup {"cancel_pending"}
    THEN [o EXCEPT !.reserved_quote = 0, !.reserved_base = 0, !.allocations = Nothing(DOMAIN @)]
    ELSE o
Released(o) ==
  IF o.status \in TERMINAL
    THEN [o EXCEPT !.reserved_quote = 0, !.reserved_base = 0, !.allocations = Nothing(DOMAIN @),
                   !.terminal_reconciled = TRUE]
    ELSE o

Reconciled(b, valued) ==
  LET left == b.unvalued \ valued
  IN  [b EXCEPT !.orders = [id \in DOMAIN @ |-> Released(@[id])],
                !.unvalued = left, !.fees = (@ /\ left # {}),
                !.reconciliation = FALSE]

-----------------------------------------------------------------------------
(***************************************************************************)
(* The venue fills orders in part or in full and cancels what is left.  It *)
(* may besides report an order "accepted", "rejected" or "unknown" (an     *)
(* outcome the host cannot tell), buy at an "improved" price, take a       *)
(* "baseFee" from what a BUY acquires or a "thirdAsset" fee without a      *)
(* value, and go wrong: "overfill" by one unit, "excess" fees beyond the   *)
(* policy, or fill "late", after the end of the order.                     *)
(***************************************************************************)
Emitted(id) == {n \in 1 .. Len(venue) : venue[n].id = id}
\* What the venue's first k events executed of an order.
ExecutedBy(id, k) ==
  SumFunctionOnSet([n \in DOMAIN venue |-> venue[n].size], {n \in 1 .. k : venue[n].id = id})
VenueFilled(id) == ExecutedBy(id, Len(venue))
VenueDone(id) == \E n \in Emitted(id) : venue[n].status \in TERMINAL
VenueLeft(id) == acct.orders[id].size - VenueFilled(id)

Event(id, status, size, quote, base, third, excess) ==
  [seq |-> Len(venue) + 1, id |-> id, status |-> status, size |-> size, quote |-> quote,
   base |-> base, third |-> third, excess |-> excess]

EmitStatus(id, status) ==
  /\ Len(venue) < MaxEvents
  /\ id \in Known(acct) /\ ~VenueDone(id)
  /\ status = "accepted" => Emitted(id) = {}
  /\ status = "rejected" => VenueFilled(id) = 0
  /\ venue' = Append(venue, Event(id, status, 0, 0, 0, FALSE, FALSE))
  /\ UNCHANGED acct

May(behaviour) == IF behaviour \in Behaviours THEN BOOLEAN ELSE {FALSE}

\* A BUY costs from 1 to UnitCost a unit; a SELL brings UnitCost.
EmitFill(id, size, improved, baseFee, third, excess) ==
  /\ Len(venue) < MaxEvents
  /\ id \in Known(acct)
  /\ VenueDone(id) => "late" \in Behaviours
  /\ size <= IF "overfill" \in Behaviours \/ VenueDone(id) THEN VenueLeft(id) + 1 ELSE VenueLeft(id)
  /\ improved \/ baseFee => Buys(id)
  /\ baseFee => size > 1
  /\ venue' = Append(venue, Event(id, IF size >= VenueLeft(id) THEN "filled" ELSE "partial",
                                  size, IF improved THEN size ELSE size * UnitCost,
                                  IF baseFee THEN size - 1 ELSE size, third, excess))
  /\ UNCHANGED acct

-----------------------------------------------------------------------------
(***************************************************************************)
(* The host.                                                               *)
(***************************************************************************)
LotChoices(id) ==
  IF id.purpose = "grid_sell" THEN {{lot} : lot \in {l \in Lots(acct) : l.slot = id.slot}}
                              ELSE {Lots(acct)}

Submit(id, size, lots) ==
  CanSubmit(acct, id, size, lots) /\ acct' = Submitted(acct, id, size, lots) /\ UNCHANGED venue

Cancel(id) ==
  /\ CanCancel(acct, id, "cancel")
  /\ acct' = Canceled(acct, id, "cancel") /\ UNCHANGED venue

Replace(id, size, lots) ==
  CanReplace(acct, id, size, lots) /\ acct' = Replaced(acct, id, size, lots) /\ UNCHANGED venue

\* Any event the venue emitted, at any time and as often as it likes.
Deliver(n) == acct' = ApplyEvent(acct, venue[n]) /\ UNCHANGED venue

\* apply_spot_fee_valuation
Value(n) ==
  n \in acct.unvalued /\ acct' = [acct EXCEPT !.unvalued = @ \ {n}] /\ UNCHANGED venue

Reconcile(k) ==
  /\ acct.quarantine = {}
  /\ LET b == Replayed(acct, k)
     IN  /\ Agrees(b, k)
         /\ \E valued \in SUBSET b.unvalued : acct' = Reconciled(b, valued)
  /\ UNCHANGED venue

Venue ==
  \E id \in Known(acct) :
    \/ \E status \in (Behaviours \cap {"accepted", "rejected", "unknown"}) \cup {"canceled"} :
         EmitStatus(id, status)
    \/ \E size \in 1 .. MaxSize + 1, improved \in May("improved"), baseFee \in May("baseFee"),
          third \in May("thirdAsset"), excess \in May("excess") :
         EmitFill(id, size, improved, baseFee, third, excess)

Host ==
  \/ \E id \in Ids, size \in 1 .. MaxSize : \E lots \in LotChoices(id) :
       Submit(id, size, lots) \/ Replace(id, size, lots)
  \/ \E id \in Ids : Cancel(id)
  \/ \E n \in 1 .. Len(venue) : Deliver(n) \/ Value(n)
  \/ \E k \in acct.seq .. Len(venue) : Reconcile(k)

Next == Venue \/ Host

vars == <<acct, venue>>
Spec == Init /\ [][Next]_vars

-----------------------------------------------------------------------------
(***************************************************************************)
(* Properties.                                                             *)
(***************************************************************************)
\* Every reservation is covered: free quote and free base are not negative, the
\* lots add up to the inventory, and the orders that sell from a lot together
\* hold no more than it has.  restore_spot_state refuses a state without it
\* (submit_spot_order, _account_fill, _consume_lots, reconcile_spot_state).
Covered ==
  /\ free_quote(acct) >= 0 /\ free_base(acct) >= 0
  /\ SumFunction(acct.lots) = acct.base
  /\ \A lot \in Lots(acct) : Allocated(acct, lot) <= acct.lots[lot]

\* The balances are those of the venue's first seq events, each counted once
\* and in order, however they were delivered, buffered, repeated or reported
\* (apply_spot_event, reconcile_spot_state).
FollowsVenue ==
  LET quote == [n \in DOMAIN venue |-> IF Buys(venue[n].id) THEN -venue[n].quote
                                                           ELSE venue[n].quote]
      base == [n \in DOMAIN venue |-> IF Buys(venue[n].id) THEN venue[n].base
                                                          ELSE -venue[n].base]
  IN  /\ acct.events = 1 .. acct.seq
      /\ acct.cash = Budget + SumFunctionOnSet(quote, acct.events)
      /\ acct.base = SumFunctionOnSet(base, acct.events)

\* Only what the venue did wrong is set aside: an execution within its order
\* always fits the reservation kept for it, whatever other orders, cancellations
\* and reconciliations happened since (submit_spot_order, reconcile_spot_state).
OnlyFaultsQuarantined ==
  \A e \in acct.quarantine :
    \/ e.excess
    \/ ExecutedBy(e.id, e.seq) > acct.orders[e.id].size

\* At most one order of a slot and purpose can still execute: a successor or
\* replacement is admitted after its predecessor has ended at the venue, not
\* after the cancellation was asked for (submit_spot_order, replace_spot_order).
OneGenerationLive ==
  \A id, old \in Known(acct) :
    SameSlot(id, old) /\ ~VenueDone(id) /\ ~VenueDone(old) => id = old
=============================================================================
