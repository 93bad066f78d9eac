---------------------------- MODULE CashAccount ----------------------------
(***************************************************************************)
(* What a simulated account promises: cash pays for every unit bought and  *)
(* is paid for every unit sold, at the price of the execution, less fees   *)
(* and funding.  An entry adds to the inventory on its own side; any other *)
(* execution reduces it and never turns it over.                           *)
(*                                                                         *)
(* Nothing here knows of average prices, margin or realized profit: the    *)
(* broker that keeps its books that way is shown to implement this.        *)
(***************************************************************************)
EXTENDS Integers, Sequences, SequencesExt

VARIABLES
  deposit,     \* the starting balance
  cash,        \* quote held once the inventory has been paid for
  inventory,   \* base held, negative when short
  executed     \* the executions and fundings so far, in order

vars == <<deposit, cash, inventory, executed>>

Signed(e) == IF (e.side = "buy") = (e.kind = "entry") THEN e.qty ELSE -e.qty

Size(n) == IF n < 0 THEN -n ELSE n

\* An execution moves base one way and its notional the other; a funding, which
\* has no quantity, is a fee that may be negative.
After(held, e) ==
  [cash |-> held.cash - Signed(e) * e.price - e.fee,
   inventory |-> held.inventory + Signed(e),
   legal |-> /\ held.legal
             /\ \/ e.kind = "funding"
                \/ /\ e.kind = "entry"
                   /\ Size(held.inventory + Signed(e)) = Size(held.inventory) + e.qty
                \/ /\ e.kind \notin {"entry", "funding"}
                   /\ Size(held.inventory + Signed(e)) = Size(held.inventory) - e.qty]

Init == cash = deposit /\ inventory = 0 /\ executed = <<>>

Execute ==
  LET new == SubSeq(executed', Len(executed) + 1, Len(executed'))
      held == FoldLeft(After, [cash |-> cash, inventory |-> inventory, legal |-> TRUE], new)
  IN /\ deposit' = deposit
     /\ Len(executed') > Len(executed)
     /\ SubSeq(executed', 1, Len(executed)) = executed
     /\ held.legal
     /\ cash' = held.cash
     /\ inventory' = held.inventory

Spec == Init /\ [][Execute]_vars
=============================================================================
