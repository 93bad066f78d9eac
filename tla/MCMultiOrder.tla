---------------------------- MODULE MCMultiOrder ----------------------------
(***************************************************************************)
(* MultiOrderAccount for TLC, in two scenarios: orders that compete for a  *)
(* lot, at a venue that errs in amounts, and orders that succeed each      *)
(* other in a slot, at a venue that errs in what it reports and when.      *)
(***************************************************************************)
EXTENDS MultiOrderAccount

VARIABLE scenario   \* "competing" or "succession"

Id(slot, purpose, gen) == [cycle |-> 1, slot |-> slot, purpose |-> purpose, gen |-> gen]

\* A lot and the two SELLs that compete for it.
Competing == {Id(1, "grid_buy", 0), Id(1, "grid_sell", 0), Id(0, "flatten", 0)}

\* A BUY and its successor.
Successors == {Id(1, "grid_buy", 0), Id(1, "grid_buy", 1)}

AllIds == Competing \cup Successors

\* The orders and the venue's events of a scenario.
Usable == IF scenario = "competing" THEN Competing ELSE Successors
Emittable(e) ==
  IF scenario = "competing"
  THEN e.status \notin {"unknown", "accepted", "rejected"} /\ ~e.third /\ ~VenueDone(e.id)
  ELSE /\ ~e.excess
       /\ e.quote = e.size * UnitCost /\ e.base = e.size
       /\ e.size > VenueLeft(e.id) => VenueDone(e.id)

MCInit == Init /\ scenario \in {"competing", "succession"}

MCNext ==
  /\ Next
  /\ Known(acct)' \subseteq Usable
  /\ scenario = "competing" => \A id \in Ids : acct'.orders[id].replacement = 0
  /\ venue' # venue => Emittable(Last(venue'))
  /\ scenario = "succession" => Len(venue') <= 3
  /\ UNCHANGED scenario

MCSpec == MCInit /\ [][MCNext]_<<vars, scenario>>
=============================================================================
