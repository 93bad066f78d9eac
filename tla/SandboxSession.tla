--------------------------- MODULE SandboxSession ---------------------------
(***************************************************************************)
(* LiveEngine on the sandbox broker, driven by PollingFeed: candles are    *)
(* fetched and delivered, working orders are watched in between, and any   *)
(* exception, of the broker or of the feed, contains the exposure and ends *)
(* the session.                                                            *)
(*                                                                         *)
(* The engine is one thread.  A handler under way is call.todo, the steps  *)
(* it has still to make: a request to the venue is a step of its own, for  *)
(* the venue goes on between two requests, and a local step decides what   *)
(* follows.  An exception drops the rest.                                  *)
(***************************************************************************)
EXTENDS SandboxBroker

CONSTANTS
  MaxBars,       \* bound: candles that close
  Lookback,      \* candles a fetch asks for before the latest closed one
  MaxFailures    \* max_consecutive_failures of the feed

ASSUME FeedAssumption == {MaxBars, Lookback} \subseteq Nat /\ MaxFailures \in Nat \ {0}

VARIABLES
  venue,    \* orders by client id, and the position
  broker,   \* BinanceSandboxBroker
  engine,   \* LiveEngine and its PlatformAccountState
  call,     \* the handler under way
  feed      \* PollingFeed: last delivered candle, rows fetched at now, consecutive failures

vars == <<venue, broker, engine, call, feed>>

\* A handler's locals.  mode tells its caller: the feed, or one of the two containments.
NoCall ==
  [mode |-> "idle", todo |-> <<>>, fills |-> <<>>, reply |-> "none", failure |-> FALSE,
   acks |-> FALSE, error |-> FALSE, needAck |-> FALSE, canceled |-> FALSE, flat |-> "failed",
   drained |-> FALSE, closed |-> FALSE, raising |-> FALSE]

Init ==
  /\ venue = [orders |-> [id \in Ids |-> NoOrder], position |-> 0, faults |-> 0]
  /\ broker = NewBroker
  /\ engine = [status |-> "running", pending |-> FALSE, setup |-> FALSE, account |-> 0,
               entries |-> 0, trades |-> 0, halted |-> FALSE, attempted |-> FALSE,
               confirmed |-> None]
  /\ call = NoCall
  /\ feed = [last |-> 0, now |-> 0, rows |-> <<>>, failures |-> 0]

Session == [venue |-> venue, broker |-> broker, engine |-> engine, call |-> call]

Position(s) == s.broker.position # 0 \/ s.engine.account # 0
EntryPending(s) == s.engine.pending \/ Pending(s.broker)

-----------------------------------------------------------------------------
\* Steps.

Step(op, id, qty) == [op |-> op, id |-> id, qty |-> qty]
Local(op) == Step(op, None, 0)
Steps(op, ids) == [i \in DOMAIN ids |-> Step(op, ids[i], 0)]

\* s makes the given steps before the others it has to make.
First(s, steps) == [s EXCEPT !.call.todo = steps \o @]

\* poll_fills takes the queued fills, then queries the orders sorted by their ids, which are
\* hashes; the step after it uses what it found.
Poll(s, then) ==
  {First([s EXCEPT !.broker.queue = <<>>, !.call.fills = s.broker.queue],
         Append(Steps("query", ids), Local(then)))
     : ids \in {s.broker.tracked, Reverse(s.broker.tracked)}}

\* _cancel_working_orders: nothing to cancel proves nothing when an order ought to be there.
CancelWorkingOrders(s, then) ==
  First([s EXCEPT !.call.acks = FALSE, !.call.error = FALSE,
                  !.call.needAck = \/ s.engine.pending /\ ~Pending(s.broker)
                                   \/ s.engine.account # 0],
        Append(Steps("cancel", s.broker.tracked), then))

Canceled(s) ==
  ~s.call.error /\ ~Pending(s.broker) /\ (s.call.acks \/ ~s.call.needAck)

-----------------------------------------------------------------------------
\* Containment and the end of the session.

ContainExposure(s, mode) ==
  CancelWorkingOrders(
    [s EXCEPT !.engine.attempted = TRUE, !.engine.halted = TRUE,
              !.call = [NoCall EXCEPT !.mode = mode, !.raising = s.call.raising]],
    Local("contain"))

\* An exception of flatten or of the drain is caught.
Raise(s) ==
  IF s.call.mode = "handler"
  THEN ContainExposure([s EXCEPT !.call.raising = TRUE], "contain")
  ELSE [s EXCEPT !.call.failure = FALSE, !.call.todo = <<Local("confirm")>>]

FinalizePositionOnly(s) == Position(s) \/ (s.engine.attempted /\ s.engine.confirmed # TRUE)

NeedsContainment(s) ==
  EntryPending(s) \/ Position(s) \/ (s.engine.attempted /\ s.engine.confirmed # TRUE)

End(s) ==
  [s EXCEPT !.engine.status =
              IF s.call.raising \/ s.engine.confirmed = FALSE THEN "failed" ELSE "ended",
            !.call = NoCall]

Finalize(s) == IF NeedsContainment(s) THEN ContainExposure(s, "finalize") ELSE End(s)

OnClose(s) == [s EXCEPT !.engine.account = 0]

\* The fills left after a flatten.
DrainContainmentFills(s) ==
  LET closes == \E i \in DOMAIN s.call.fills :
                  s.call.fills[i].role # "entry" /\ s.call.fills[i].status = "filled"
      drained == [s EXCEPT !.call.fills = <<>>, !.call.drained = TRUE, !.call.closed = closes]
  IN IF closes THEN OnClose(drained) ELSE drained

FlattenConfirmed(s) ==
  \/ s.call.flat = "filled"
  \/ s.call.drained /\ IF s.call.flat = "none" THEN ~Position(s) ELSE s.call.closed

Confirm(s) ==
  [s EXCEPT !.engine.confirmed = s.call.canceled /\ FlattenConfirmed(s) /\ ~Position(s)]

\* What follows a containment: finalization tries again what was not confirmed, once.
AfterContainment(s) == IF s.call.mode = "contain" THEN Finalize(s) ELSE End(s)

-----------------------------------------------------------------------------
\* Fills.

\* A fill outside the bracket is not adopted; protection follows at once, unless its prices
\* are refused.
OnOpen(s, fill) ==
  LET opened == [s EXCEPT !.engine.pending = FALSE, !.engine.trades = @ + 1,
                          !.engine.setup = FALSE]
      adopted == [opened EXCEPT !.engine.account = fill.qty]
      n == opened.engine.trades
  IN IF ~s.engine.setup THEN {opened}
     ELSE {Fail(opened), Fail(adopted),
           First(adopted,
                 <<Step("leg", Stop(n), fill.qty), Step("leg", Target(n), fill.qty)>>)}

ProcessEntryFill(s, fill) ==
  IF fill.status \in {"canceled", "expired"}
  THEN {IF fill.qty > 0 THEN Fail([s EXCEPT !.engine.pending = FALSE])
        ELSE [s EXCEPT !.engine.pending = FALSE]}
  ELSE IF s.engine.account # 0 \/ fill.status = "partial" THEN {Fail(s)}
  ELSE OnOpen(s, fill)

\* The sibling is canceled before the trade is closed; whether that worked is not looked at.
\* (A flatten is only sent by a containment, whose drain takes its fill.)
ProcessExitFill(s, fill) ==
  {IF fill.status # "filled" THEN Fail(s) ELSE CancelWorkingOrders(s, Local("close"))}

ProcessExternalFill(s, fill) ==
  IF fill.role = "entry" THEN ProcessEntryFill(s, fill) ELSE ProcessExitFill(s, fill)

\* The first fill, and the others after it.
ProcessFills(s) ==
  IF s.call.fills = <<>> THEN {s}
  ELSE ProcessExternalFill(First([s EXCEPT !.call.fills = Tail(@)], <<Local("process")>>),
                           Head(s.call.fills))

-----------------------------------------------------------------------------
\* Decisions.

\* An entry the strategy proposes, conditional when it is a stop entry.
TryEnter(s, op) ==
  LET n == s.engine.entries + 1
  IN First([s EXCEPT !.engine.entries = n, !.engine.pending = TRUE, !.engine.setup = TRUE],
           <<Step(op, Entry(n), Qty)>>)

\* A new stop, or a new pair, each canceling what it replaces once it works.
ModifyStop(s) ==
  LET n == s.broker.revision + 1
  IN First([s EXCEPT !.broker.revision = n],
           <<Step("restop", Stop(Revision(n)), s.broker.active.qty),
             Step("replaced", s.broker.active.stop, 0)>>)

ModifyProtection(s) ==
  LET n == s.broker.revision + 1
      qty == s.broker.active.qty
  IN First([s EXCEPT !.broker.revision = n],
           <<Step("leg", Stop(Revision(n)), qty), Step("leg", Target(Revision(n)), qty),
             Step("replaced", s.broker.active.stop, 0),
             Step("replaced", s.broker.active.target, 0)>>)

\* The strategy may keep its protection; metadata is fetched before anything is sent.
UpdateProtection(s) ==
  {s} \cup IF s.broker.revision = MaxRevisions THEN {}
           ELSE IF s.broker.active = None THEN {Fail(s)}
           ELSE {ModifyStop(s), ModifyProtection(s)} \cup Lost({s})

CanEnter(s) == ~Position(s) /\ ~EntryPending(s) /\ ~s.engine.halted

\* The strategy's decision at the end of a bar; it may raise.
Decide(s) ==
  {Fail(s)} \cup
  IF Position(s) THEN UpdateProtection(s)
  ELSE {s}
    \cup (IF EntryPending(s) THEN {CancelWorkingOrders(s, Local("entryCanceled"))} ELSE {})
    \cup (IF CanEnter(s) /\ s.engine.entries < MaxEntries
          THEN {TryEnter(s, op) : op \in {"submit", "submitStop"}} ELSE {})

\* A canceled entry's bar proposes no other.
EntryCanceled(s) ==
  LET free == [s EXCEPT !.engine.pending = FALSE, !.engine.setup = FALSE]
  IN IF ~Canceled(s) THEN {Fail(s)}
     ELSE IF Position(free) THEN UpdateProtection(free) ELSE {free}

\* A rejected entry halts; an accepted one is polled at once, and a filled one must be open.
Entered(s) ==
  IF s.call.reply \notin {"open", "filled"}
  THEN {[s EXCEPT !.engine.pending = FALSE, !.engine.setup = FALSE, !.engine.halted = TRUE]}
  ELSE Poll(First(s, IF s.call.reply = "filled" THEN <<Local("entered")>> ELSE <<>>), "process")

-----------------------------------------------------------------------------
\* The steps of a handler.

Running == engine.status = "running"
Idle == Running /\ call.mode = "idle"

\* The generator's locals go with the loop over it.
Stopped(f) == [last |-> f.last, now |-> 0, rows |-> <<>>, failures |-> 0]

Become(s, f) ==
  /\ venue' = s.venue /\ broker' = s.broker /\ engine' = s.engine
  /\ call' = IF s.call.mode = "handler" /\ s.call.todo = <<>> THEN NoCall ELSE s.call
  /\ feed' = IF s.call.mode \in {"contain", "finalize"} THEN Stopped(f) ELSE f

\* The session after one of S, its exception included, and the feed f.
Leads(S, f) == \E s \in S : Become(IF s.call.failure THEN Raise(s) ELSE s, f)

At(op) == call.todo # <<>> /\ Head(call.todo).op = op

Arg == Head(call.todo)
Rest == [Session EXCEPT !.call.todo = Tail(@)]

Continue(S) == Leads(S, feed)

QueryOrder == At("query") /\ Continue(Query(Rest, Arg.id))
Process == At("process") /\ Continue(ProcessFills(Rest))
DecideBar == At("decide") /\ Continue(Decide(Rest))

Submit ==
  /\ At("submit") \/ At("submitStop")
  /\ Continue(UNION {IF s.call.failure THEN {s} ELSE Entered(s)
                     : s \in SubmitEntry(Rest, Arg.id, Arg.op = "submitStop")})

\* A filled entry that left no trade open has no protection.
FilledEntry ==
  At("entered") /\ Continue({IF engine.account = 0 THEN Fail(Rest) ELSE Rest})

PlaceProtection == At("leg") /\ Continue(PlaceLeg(Rest, Arg.id, Arg.qty))
NewStop == At("restop") /\ Continue(ReplaceStop(Rest, Arg.id))
CancelReplaced == At("replaced") /\ Continue(DeleteReplaced(Rest, Arg.id))
CancelOrder == At("cancel") /\ Continue(CancelOne(Rest, Arg.id))
CancelEntry == At("entryCanceled") /\ Continue(EntryCanceled(AfterCancelAll(Rest)))
Close == At("close") /\ Continue({OnClose(AfterCancelAll(Rest))})

Contain ==
  /\ At("contain")
  /\ Continue({LET s == AfterCancelAll(Rest)
               IN [s EXCEPT !.engine.pending = FALSE,
                            !.call = [NoCall EXCEPT !.mode = s.call.mode,
                                                    !.raising = s.call.raising,
                                                    !.canceled = Canceled(s),
                                                    !.todo = <<Local("position")>>]]})

\* No position, no order; the drain follows either way.
FlattenPosition ==
  /\ At("position")
  /\ Continue(UNION {IF s.call.failure THEN {s}
                     ELSE IF s.broker.position = 0
                     THEN Poll([s EXCEPT !.call.flat = "none"], "drain")
                     ELSE {First(s, <<Local("flatten")>>)}
                     : s \in FetchPosition(Rest)})

SendFlatten ==
  /\ At("flatten")
  /\ Continue(UNION {IF s.call.failure THEN {s}
                     ELSE Poll([s EXCEPT !.call.flat = s.call.reply], "drain")
                     : s \in Flatten(Rest)})

Drain == At("drain") /\ Continue({First(DrainContainmentFills(Rest), <<Local("confirm")>>)})
ConfirmContainment == At("confirm") /\ Continue({AfterContainment(Confirm(Rest))})

-----------------------------------------------------------------------------
\* The feed and the venue.

Handler == [Session EXCEPT !.call.mode = "handler"]

\* between_bars: while the feed waits for its next poll, a retry or a fetch.
WatchOrders ==
  /\ Idle /\ feed.rows = <<>>
  /\ Continue(Poll(Handler, "process"))

\* The time, in closed candles, is read before a fetch, and is whatever the clock says.  Of
\* its rows the forming candle may be one, and some may be missing.
Fetch ==
  /\ Idle /\ feed.rows = <<>>
  /\ \E now \in 0 .. MaxBars :
       \E rows \in SUBSET (Max({1, now - Lookback}) .. now + 1) :
         feed' = [feed EXCEPT !.now = now, !.rows = SetToSortSeq(rows, <), !.failures = 0]
  /\ UNCHANGED <<venue, broker, engine, call>>

Exhausted(failures) == failures >= MaxFailures

\* An adapter error; the last of its retries ends the session.
FetchFails ==
  /\ Idle /\ feed.rows = <<>>
  /\ LET failures == feed.failures + 1
     IN Leads({IF Exhausted(failures) THEN Fail(Handler) ELSE Session},
              [feed EXCEPT !.failures = failures])

ClosedOrForming(ts) == ts <= feed.now + 1
Closed(ts) == ts <= feed.now
Fresh(ts) == ts > feed.last

\* The next row of a fetch: skipped unless closed and new, refused when one is missing before
\* it, and processed otherwise.
NextRow ==
  /\ Idle /\ feed.rows # <<>>
  /\ LET ts == Head(feed.rows)
         rest == [feed EXCEPT !.rows = Tail(@)]
     IN IF ~Closed(ts) \/ ~Fresh(ts) THEN Leads({Session}, rest)
        ELSE IF ts # feed.last + 1 THEN Leads({Fail(Handler)}, rest)
        ELSE Leads(Poll(First(Handler, <<Local("decide")>>), "process"),
                   [rest EXCEPT !.last = ts])

\* The stop signal, seen between rows and while waiting.
StopSession == Idle /\ Continue({Finalize(Session)})

LocalSteps ==
  {"process", "decide", "entered", "entryCanceled", "close", "contain", "drain", "confirm"}

\* What the venue does matters before a request.
VenueMoves ==
  /\ Running
  /\ call.todo # <<>> => Arg.op \notin LocalSteps
  /\ venue' \in Moves(venue)
  /\ UNCHANGED <<broker, engine, call, feed>>

\* A session that has ended stays so; any other has something to do.
Over == ~Running /\ UNCHANGED vars

HandlerStep ==
  \/ QueryOrder \/ Process \/ DecideBar \/ Submit \/ FilledEntry \/ PlaceProtection \/ NewStop
  \/ CancelReplaced \/ CancelOrder \/ CancelEntry \/ Close \/ Contain
  \/ FlattenPosition \/ SendFlatten \/ Drain \/ ConfirmContainment

Next ==
  \/ HandlerStep \/ WatchOrders \/ Fetch \/ FetchFails \/ NextRow \/ StopSession \/ VenueMoves
  \/ Over

Spec == Init /\ [][Next]_vars

-----------------------------------------------------------------------------
\* Properties.

\* Every order the venue may still execute, requests whose reply was lost included, is
\* tracked, so that containment can reach it (place_protection, modify_protection, cancel_all).
LiveIsTracked == \A id \in Ids : Live(venue, id) => id \in Tracked(broker)

\* Containment that was confirmed left no position, and no order that could still make or
\* change one, whatever requests were lost on the way (_contain_exposure); and a session that
\* ends without an error leaves no position and no entry that could make one (_finalize).
EndsFlat ==
  /\ engine.confirmed = TRUE => venue.position = 0 /\ \A id \in Ids : ~Live(venue, id)
  /\ engine.status = "ended" =>
       venue.position = 0 /\ \A id \in Ids : Live(venue, id) => id.role # "entry"

\* A trade the account has open in a running session has both protective orders accepted and
\* known to the broker, for its whole quantity (_place_protection, modify_protection).
TradeIsProtected ==
  Idle /\ engine.account # 0 =>
    /\ broker.active # None
    /\ \A id \in {broker.active.stop, broker.active.target} :
         /\ venue.orders[id].st \notin {"none", "sent", "rejected"}
         /\ venue.orders[id].qty >= engine.account

\* What an order may still execute.
Left(id) == venue.orders[id].qty - venue.orders[id].filled

\* The position, with all that live entries may still add to it, never exceeds one setup's
\* quantity: no entry goes out beside another whose end was not proved (submit_entry,
\* _try_enter).
OneExposure ==
  LET working == {id \in Ids : id.role = "entry" /\ Live(venue, id)}
  IN venue.position + SumFunctionOnSet([id \in Ids |-> Left(id)], working) <= Qty

\* The feed delivers every closed candle once and in order, and never the forming one
\* (PollingFeed.bars).
EveryCandleOnce ==
  [][feed'.last # feed.last => feed'.last = feed.last + 1 /\ feed'.last <= feed.now]_vars

\* Every entry that filled is protected or contained: a running session has no position its
\* strategy has not got protection for (README.md:203).
FillIsProtected ==
  Idle /\ broker.position # 0 /\ broker.queue = <<>> => broker.active # None

\* What tracked orders have executed and the broker has not seen yet.
Unseen(role) ==
  MapThenSumSet(LAMBDA id : venue.orders[id].filled - broker.cum[id],
    {id \in Tracked(broker) : (id.role = "entry") = (role = "entry")})

\* A fill during the replacement of protection fails closed: a running session's broker
\* position is the venue's, but for executions it has still to poll (runtime_contract.md:216).
ReplacementSeesFills ==
  Idle => broker.position = venue.position - Unseen("entry") + Unseen("exit")
=============================================================================
