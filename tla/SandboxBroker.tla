---------------------------- MODULE SandboxBroker ----------------------------
(***************************************************************************)
(* BinanceSandboxBroker and the futures venue behind it, one long position *)
(* at a time.                                                              *)
(*                                                                         *)
(* A method of the broker sends several requests, between which the venue  *)
(* goes on, so each request is an operator of its own, from a session      *)
(* record to the records it may leave: a request can be lost before or     *)
(* after it took effect.  call.failure marks an exception on its way out.  *)
(***************************************************************************)
EXTENDS Integers, Sequences, FiniteSets, FiniteSetsExt, SequencesExt

CONSTANTS
  Qty,           \* quantity of an entry
  MaxEntries,    \* bound: entries of a session
  MaxRevisions,  \* bound: replacements of protection
  MaxFaults,     \* bound: requests that fail, and orders that expire, in a session
  None

ASSUME SandboxAssumption ==
  /\ Qty \in Nat \ {0} /\ {MaxEntries, MaxRevisions, MaxFaults} \subseteq Nat
  /\ None \notin BOOLEAN

\* Client order ids.  Protection is named after its trade or, when it was replaced, after
\* the revision; every flatten of a session has one and the same id.
Entry(n) == [role |-> "entry", n |-> n]
Stop(n) == [role |-> "stop", n |-> n]
Target(n) == [role |-> "target", n |-> n]
FlattenId == [role |-> "flatten", n |-> 0]
Revision(n) == MaxEntries + n

Ids ==
  {Entry(n) : n \in 1 .. MaxEntries} \cup {FlattenId}
    \cup {Stop(n) : n \in 1 .. MaxEntries + MaxRevisions}
    \cup {Target(n) : n \in 1 .. MaxEntries + MaxRevisions}

-----------------------------------------------------------------------------
\* The venue.  An order is sent while its request is under way and nobody knows.

NoOrder == [st |-> "none", qty |-> 0, filled |-> 0, conditional |-> FALSE]

Live(v, id) == v.orders[id].st \in {"sent", "open"}

\* Every order but an entry is reduce-only.
Executable(v, id) ==
  LET left == v.orders[id].qty - v.orders[id].filled
  IN IF id.role = "entry" THEN left ELSE Min({left, v.position})

Executed(v, id, k) ==
  LET o == v.orders[id]
  IN [v EXCEPT
        !.orders[id] = [o EXCEPT !.filled = @ + k,
                                 !.st = IF o.filled + k = o.qty THEN "filled" ELSE @],
        !.position = IF id.role = "entry" THEN @ + k ELSE @ - k]

\* An order arrives, executes in part or in full, or expires.
Moves(v) ==
  LET In(st) == {id \in Ids : v.orders[id].st = st}
  IN {[v EXCEPT !.orders[id].st = "open"] : id \in In("sent")}
       \cup (UNION {{Executed(v, id, k) : k \in 1 .. Executable(v, id)} : id \in In("open")})
       \cup IF v.faults = MaxFaults THEN {}
            ELSE {[v EXCEPT !.orders[id].st = "expired", !.faults = @ + 1] : id \in In("open")}

\* A new order: a conditional one waits, any other may execute at once, in full or in part,
\* and any may be rejected.
Placed(v, id, qty, conditional) ==
  LET open == [v EXCEPT !.orders[id] = [NoOrder EXCEPT !.st = "open", !.qty = qty,
                                                       !.conditional = conditional]]
  IN {open, [open EXCEPT !.orders[id].st = "rejected"]}
       \cup IF conditional THEN {}
            ELSE {Executed(open, id, k) : k \in 1 .. Executable(open, id)}

-----------------------------------------------------------------------------
\* Requests.  The status a reply carries is in call.reply.

Fail(s) == [s EXCEPT !.call.failure = TRUE]

\* A request that fails.
Lost(S) ==
  {Fail([s EXCEPT !.venue.faults = @ + 1]) : s \in {t \in S : t.venue.faults < MaxFaults}}

Replied(s, v, id) == [s EXCEPT !.venue = v, !.call.reply = v.orders[id].st]

\* POST: an id in use is refused; a request without reply may or may not have arrived.
Post(s, id, qty, conditional) ==
  LET placed == Placed(s.venue, id, qty, conditional)
      sent == [s.venue EXCEPT !.orders[id] = [NoOrder EXCEPT !.st = "sent", !.qty = qty,
                                                             !.conditional = conditional]]
  IN IF Live(s.venue, id) THEN {Fail(s)}
     ELSE {Replied(s, v, id) : v \in placed}
            \cup Lost({[s EXCEPT !.venue = v] : v \in placed \cup {sent}})

\* DELETE: cancels an open order, with or without a reply.  For a conditional order the reply
\* is its child's, which may have ended by itself (AlgoOrderRouter.request); any other order
\* that has ended, or has not arrived, is an error.
Delete(s, id) ==
  LET o == s.venue.orders[id]
      done == Replied(s, [s.venue EXCEPT !.orders[id].st = "canceled"], id)
  IN Lost({s}) \cup
     IF o.st = "open" THEN {done} \cup Lost({done})
     ELSE {Fail(s)} \cup IF o.st \in {"filled", "expired"} /\ o.conditional
                         THEN {Replied(s, s.venue, id)} ELSE {}

-----------------------------------------------------------------------------
\* The broker's bookkeeping.

NewBroker ==
  [tracked |-> <<>>, cum |-> [id \in Ids |-> 0], queue |-> <<>>, position |-> 0,
   active |-> None, revision |-> 0]

Tracked(b) == Range(b.tracked)
Pending(b) == \E id \in Tracked(b) : id.role = "entry"

TrackOrder(s, id) ==
  [s EXCEPT !.broker.tracked = IF id \in Range(@) THEN @ ELSE Append(@, id)]

ForgetOrder(s, id) ==
  [s EXCEPT !.broker.tracked = RemoveFirst(@, id), !.broker.cum[id] = 0]

Fill(role, status, qty) == [role |-> role, status |-> status, qty |-> qty]

ApplyFill(s, fill) ==
  [s EXCEPT !.broker.position =
     IF fill.role = "entry" THEN @ + fill.qty ELSE Max({0, @ - fill.qty})]

Seen(s, id) == [s EXCEPT !.broker.cum[id] = s.venue.orders[id].filled]

\* The fill, or the end of an order, that a status tells beyond what was seen; none when an
\* order that works or is filled tells nothing new.
FillOf(s, id) ==
  LET o == s.venue.orders[id]
      delta == Max({0, o.filled - s.broker.cum[id]})
  IN IF o.st \in {"open", "filled"} /\ delta = 0 THEN <<>>
     ELSE <<Fill(id.role, CASE o.st = "open" -> "partial"
                            [] o.st = "rejected" -> "expired"
                            [] OTHER -> o.st, delta)>>

Applied(s, fills) == IF fills = <<>> THEN s ELSE ApplyFill(s, fills[1])

-----------------------------------------------------------------------------
\* Orders.

SendThenTrack(s, id, qty, conditional) ==
  {IF t.call.failure THEN t ELSE TrackOrder(t, id) : t \in Post(s, id, qty, conditional)}

\* An order is tracked before its request is sent.
SendOrder(s, id, qty, conditional) == Post(TrackOrder(s, id), id, qty, conditional)

\* What a market order's reply says at once.
TakeReply(s, id) ==
  LET fill == Fill(id.role, "filled", s.venue.orders[id].filled)
  IN CASE s.call.reply = "filled" ->
            ForgetOrder([ApplyFill(s, fill) EXCEPT !.broker.queue = Append(@, fill)], id)
       [] s.call.reply = "open" -> s
       [] OTHER -> ForgetOrder(s, id)

\* submit_entry.  Checks against the venue's rules come first and may raise; the fees of a
\* filled order are read last.
SubmitEntry(s, id, conditional) ==
  IF s.broker.tracked # <<>> \/ s.broker.position # 0 THEN {Fail(s)}
  ELSE {Fail(s)} \cup
       UNION {IF t.call.failure THEN {t}
              ELSE {TakeReply(t, id)} \cup IF t.call.reply = "filled" THEN Lost({t}) ELSE {}
              : t \in SendOrder(s, id, Qty, conditional)}

\* One query of poll_fills; the fills of a poll that raises are gone.
Query(s, id) ==
  LET st == s.venue.orders[id].st
      fills == FillOf(s, id)
      taken == [Applied(Seen(s, id), fills) EXCEPT !.call.fills = @ \o fills]
  IN Lost({s}) \cup
     IF st \in {"none", "sent"} THEN {Fail(s)}
     ELSE {IF st = "open" THEN taken ELSE ForgetOrder(taken, id)}
            \cup IF st = "filled" /\ fills # <<>> THEN Lost({Seen(s, id)}) ELSE {}

Bracket(id, qty) == [stop |-> Stop(id.n), target |-> id, qty |-> qty]

AcceptAnyLeg(s, id, qty) ==
  {IF t.call.failure \/ id.role = "stop" THEN t
   ELSE [t EXCEPT !.broker.active = Bracket(id, qty)]
     : t \in SendOrder(s, id, qty, TRUE)}

\* One leg of place_protection; the second makes the pair active.
PlaceLeg(s, id, qty) ==
  {IF t.call.failure THEN t
   ELSE IF t.call.reply # "open" THEN Fail(ForgetOrder(t, id))
   ELSE IF id.role = "stop" THEN t
   ELSE [t EXCEPT !.broker.active = Bracket(id, qty)]
     : t \in SendOrder(s, id, qty, TRUE)}

\* The new stop of modify_stop, which keeps its target.
ReplaceStop(s, id) ==
  {IF t.call.failure \/ t.call.reply # "open" THEN Fail(t)
   ELSE [t EXCEPT !.broker.active.stop = id]
     : t \in SendOrder(s, id, s.broker.active.qty, TRUE)}

\* The old leg is canceled once its replacement works.
DeleteReplaced(s, id) ==
  {IF t.call.failure \/ t.call.reply # "canceled" THEN Fail(t) ELSE ForgetOrder(t, id)
     : t \in Delete(s, id)}

ForgetOnError(s, id) ==
  {ForgetOrder(IF t.call.failure THEN [t EXCEPT !.call.failure = FALSE, !.call.error = TRUE]
               ELSE [t EXCEPT !.call.acks = TRUE], id)
     : t \in Delete(s, id)}

SwallowError(s, id) ==
  {ForgetOrder([t EXCEPT !.call.failure = FALSE, !.call.acks = TRUE], id) : t \in Delete(s, id)}

\* One cancellation of cancel_all: an error is remembered, and the next order still gets its
\* attempt; call.acks tells that one was acknowledged.  An order that ended unasked stays
\* tracked, and its acknowledgement does not pass for a cancellation (_cancel_working_orders).
CancelOne(s, id) ==
  {IF t.call.failure THEN [t EXCEPT !.call.failure = FALSE, !.call.error = TRUE]
   ELSE LET found == FillOf(t, id)
            fills == IF \E i \in DOMAIN found : found[i].qty > 0 THEN found ELSE <<>>
            told == [Applied(Seen(t, id), fills) EXCEPT !.broker.queue = @ \o fills,
                                                        !.call.acks = TRUE]
        IN IF t.call.reply = "expired" THEN [told EXCEPT !.call.error = TRUE]
           ELSE ForgetOrder(told, id)
     : t \in Delete(s, id)}

\* Without protective orders there is no protection.
AfterCancelAll(s) ==
  IF \E id \in Tracked(s.broker) : id.role \in {"stop", "target"} THEN s
  ELSE [s EXCEPT !.broker.active = None]

\* flatten: the position the venue reports, then an order for it.
FetchPosition(s) ==
  {[s EXCEPT !.broker.position = s.venue.position]} \cup Lost({s})

Flatten(s) ==
  {IF t.call.failure THEN t ELSE TakeReply(t, FlattenId)
     : t \in SendOrder(s, FlattenId, s.broker.position, FALSE)}
=============================================================================
