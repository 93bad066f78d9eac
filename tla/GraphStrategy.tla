--------------------------- MODULE GraphStrategy ---------------------------
(***************************************************************************)
(* A strategy built from a graph, and the host that drives it: the host    *)
(* asks about each bar as often as it likes, opens and closes positions in *)
(* between, keeps the checkpoint exported after the last bar, and starts   *)
(* again from it when the strategy refused a bar or the process ended.     *)
(***************************************************************************)
EXTENDS GraphNodes

CONSTANTS
  Graphs,       \* the graphs by name: wiring, mode, bars, expires, history, ranks
  Shapes,       \* for each graph, the contents a bar may have: condition, prices, lower bound
  OddShapes,    \* for each graph, those an irregular bar may have
  MaxBars,      \* bound: for each graph, decided bars of a run
  MaxOdd,       \* bound: bars of a run that do not follow their predecessor in time
  MaxPositions  \* bound: positions of a run

ASSUME GraphsAssumption ==
  \A n \in DOMAIN Graphs :
    IsGraph(Graphs[n]) /\ Shapes[n] \cup OddShapes[n] \subseteq Values \X Prices \X Nat

VARIABLES
  name,     \* the graph of this run
  feed,     \* the last bar the host asked about
  odd,      \* irregular bars so far
  g,        \* node states
  stepped,  \* bar_index of the last bar decided, -1 before the first
  result,   \* what that bar's step returned, none after a restart
  answer,   \* what the host was told and acts on
  saved,    \* the checkpoint exported after the last decided bar
  position, \* the host's open long, 0 when flat
  opened,   \* positions so far
  known,    \* the position the strategy was told of
  log,      \* the decided bars and what the nodes returned
  up        \* the process runs

strategyVars == <<g, stepped, result, saved, log, up>>
hostVars == <<position, opened, known>>
vars == <<name, feed, odd, answer, strategyVars, hostVars>>

Strategies == [n \in DOMAIN Graphs |-> Built(Graphs[n])]
gr == Strategies[name]

-----------------------------------------------------------------------------
\* Bars.

Bar(i, t, d, shape) ==
  [i |-> i, t |-> t, d |-> d, cond |-> IF i < gr.history THEN "unready" ELSE shape[1],
   px |-> shape[2], lower |-> shape[3]]

Following(shape) == Bar(feed.i + 1, feed.t + 1, feed.t + 2, shape)

\* A bar that closes early or late, after an outage, after bars the host skipped; one whose
\* content or index was revised; one that was decided before.
Irregular(shape) ==
  {[Following(shape) EXCEPT !.d = feed.t + 1], [Following(shape) EXCEPT !.d = feed.t + 3],
   Bar(feed.i + 1, feed.t + 2, feed.t + 3, shape), Bar(feed.i + 2, feed.t + 2, feed.t + 3, shape),
   Bar(feed.i, feed.t, feed.t + 1, shape), Bar(feed.i + 1, feed.t, feed.t + 1, shape),
   Bar(feed.i, feed.t + 1, feed.t + 2, shape)}
    \cup IF feed.t > 1 THEN {Bar(feed.i - 1, feed.t - 1, feed.t, shape)} ELSE {}

-----------------------------------------------------------------------------
\* The strategy.

Nothing == [order |-> FALSE, exit |-> 0]
NoAnswer == [refused |-> FALSE, order |-> FALSE, exit |-> 0]
Refused == [refused |-> TRUE, order |-> FALSE, exit |-> 0]

\* mutant: the request is answered whichever long is open.
ExitForAny(request) == IF request # 0 /\ position # 0 /\ known # 0 THEN request ELSE 0

\* An exit is answered only for the long the strategy was told of.
ExitFor(request) ==
  IF request # 0 /\ position # 0 /\ known # 0 /\ request = known THEN request ELSE 0

Answered(r) == [refused |-> FALSE, order |-> r.order, exit |-> ExitFor(r.exit)]

Decided(b, s) ==
  [bar |-> b, position |-> position, hold |-> s.out.hold, trigger |-> Trigger(gr, s.out),
   event |-> s.out.level, level |-> s.g.level, order |-> s.out.gate]

\* The first query about a bar evaluates the graph; later ones answer from its result, and
\* after a restart with nothing at all.
Stepped(b) ==
  LET s == Step(gr, g, b, position, known)
      r == [order |-> s.out.gate, exit |-> s.out.exit]
  IN /\ g' = s.g
     /\ IF s.raised
        THEN /\ answer' = Refused
             /\ up' = FALSE
             /\ UNCHANGED <<stepped, result, saved, log>>
        ELSE /\ stepped' = b.i
             /\ result' = r
             /\ answer' = Answered(r)
             /\ saved' = [g |-> s.g, stepped |-> b.i]
             /\ log' = Append(log, Decided(b, s))
             /\ up' = TRUE

Cached ==
  /\ result' = IF result = None THEN Nothing ELSE result
  /\ answer' = Answered(result')
  /\ UNCHANGED <<g, stepped, saved, log, up>>

EnsureStepped(b) ==
  IF Refuses(gr, g, b)
  THEN /\ answer' = Refused
       /\ up' = FALSE
       /\ UNCHANGED <<g, stepped, result, saved, log>>
  ELSE IF b.i # stepped THEN Stepped(b) ELSE Cached

-----------------------------------------------------------------------------
\* The host.

Asks(b) ==
  /\ up
  /\ feed' = b
  /\ EnsureStepped(b)
  /\ UNCHANGED <<name, hostVars>>

NextBar ==
  /\ Len(log) < MaxBars[name]
  /\ \E shape \in Shapes[name] : Asks(Following(shape))
  /\ UNCHANGED odd

OddBar ==
  /\ log # <<>>
  /\ Len(log) < MaxBars[name]
  /\ odd < MaxOdd
  /\ \E shape \in OddShapes[name] : \E b \in Irregular(shape) : Asks(b)
  /\ odd' = odd + 1

AskAgain ==
  /\ log # <<>>
  /\ Asks(feed)
  /\ UNCHANGED odd

\* An order that was answered fills, at once or later.
OpenPosition ==
  /\ up
  /\ position = 0
  /\ opened < MaxPositions
  /\ opened < Cardinality({n \in DOMAIN log : log[n].order})
  /\ position' = opened + 1
  /\ opened' = opened + 1
  /\ known' = opened + 1
  /\ answer' = NoAnswer
  /\ UNCHANGED <<name, feed, odd, strategyVars>>

\* The strategy is told that a position closed, and forgets the one it was told of unless
\* that is another one.
ClosePosition ==
  /\ up
  /\ position # 0
  /\ position' = 0
  /\ known' = IF known # 0 /\ known # position THEN known ELSE 0
  /\ answer' = NoAnswer
  /\ UNCHANGED <<name, feed, odd, opened, strategyVars>>

\* A new process restores the checkpoint and goes on where the last decided bar was.
Restart ==
  /\ ValidCheckpoint(gr, saved.g, saved.stepped)
  /\ g' = saved.g
  /\ stepped' = saved.stepped
  /\ result' = None
  /\ answer' = NoAnswer
  /\ known' = 0
  /\ up' = TRUE
  /\ feed' = IF log = <<>> THEN Bar(0, 0, 1, <<"unready", Void, 0>>) ELSE Last(log).bar
  /\ UNCHANGED <<name, odd, saved, position, opened, log>>

Init ==
  /\ name \in DOMAIN Graphs
  /\ feed = Bar(0, 0, 1, <<"unready", Void, 0>>)
  /\ odd = 0
  /\ g = NoNodes
  /\ stepped = -1
  /\ result = None
  /\ answer = NoAnswer
  /\ saved = [g |-> NoNodes, stepped |-> -1]
  /\ position = 0
  /\ opened = 0
  /\ known = 0
  /\ log = <<>>
  /\ up = TRUE

Next == NextBar \/ OddBar \/ AskAgain \/ OpenPosition \/ ClosePosition \/ Restart
Spec == Init /\ [][Next]_vars

-----------------------------------------------------------------------------
\* What the nodes are to compute, from the bars decided so far.

Follows(n) ==
  /\ n > 1
  /\ log[n].bar.t = log[n - 1].bar.t + 1
  /\ log[n].bar.i = log[n - 1].bar.i + 1

\* The condition was true and decided on time on gr.bars consecutive bars up to n.
Held(n) ==
  /\ n >= gr.bars
  /\ \A k \in n - gr.bars + 1 .. n : log[k].bar.cond = "true" /\ OnTime(log[k].bar)
  /\ \A k \in n - gr.bars + 2 .. n : Follows(k)

Ready(n) == log[n].bar.cond # "unready" /\ OnTime(log[n].bar)
Rises(n) == Follows(n) /\ Held(n) /\ Ready(n - 1) /\ ~Held(n - 1)

Crosses(n) ==
  /\ n > 1
  /\ log[n].bar.t = log[n - 1].bar.t + 1
  /\ Compare(log[n - 1].bar) = "false"
  /\ Compare(log[n].bar) = "true"

\* The holding condition, the rising edge and the crossing are what the bars say, however
\* often a bar was asked about and wherever the process was restarted: a reducer whose count
\* or whose previous value survives a gap, or that counts a repeated bar, fails here
\* (nodes/condition_reducers.py, nodes/cross.py).
ReducersFollowHistory ==
  \A n \in DOMAIN log :
    IF gr.wiring = "cross" THEN log[n].trigger = Crosses(n)
    ELSE /\ (log[n].hold = "unready") = ~Ready(n)
         /\ (log[n].hold = "true") = Held(n)
         /\ log[n].trigger = Rises(n)

\* Bar n leaves a level armed at bar a as it was.
Survives(a, n) ==
  /\ log[n].bar.i <= log[a].bar.i + gr.expires
  /\ Follows(n)
  /\ PrimaryReady(log[n].bar)
  /\ ~Invalidates(log[n].bar, log[a].bar.lower)

Hits(a, n) ==
  Survives(a, n) /\ Opportunity(gr.mode, Close(log[n - 1].bar), log[n].bar, log[a].bar.lower)

\* A level armed at a is still armed before bar n.
Pending(a, n) == a < n /\ \A k \in a + 1 .. n - 1 : Survives(a, k) /\ ~Hits(a, k)

ArmedAt(n) ==
  log[n].level # None /\ log[n].level.level.status = "armed"
    /\ log[n].level.level.armed = log[n].bar.i

\* A level is armed by a trigger on a ready bar with a ready bound when no level is pending,
\* and every opportunity is the first bar, inside the window of the level that was armed,
\* on which its predicate holds, with no gap, missing bar or breach in between
\* (nodes/levels.py).
OpportunityExplained ==
  HasLevel(gr) =>
    \A n \in DOMAIN log :
      LET pending == {a \in 1 .. n - 1 : ArmedAt(a) /\ Pending(a, n)}
      IN /\ ArmedAt(n) <=> /\ log[n].trigger
                           /\ pending = {}
                           /\ PrimaryReady(log[n].bar)
                           /\ log[n].bar.lower # 0
         /\ log[n].event <=> \E a \in pending : Hits(a, n)

\* An order is routed exactly when its signal fired on a bar that was decided flat, and more
\* than Cooldown flat bars were decided since the last one with a position
\* (nodes/policy.py, nodes/interp.py, graph/strategy.py).
CooldownExact ==
  \A n \in DOMAIN log :
    LET busy == {k \in 1 .. n : log[k].position # 0}
        signal == IF HasLevel(gr) THEN log[n].event ELSE log[n].trigger
    IN log[n].order <=> signal /\ (busy = {} \/ n - Max(busy) > Cooldown)

\* An exit is answered for the long that is open now, and only if the bar was decided while
\* that same long was open: a result kept from before a position was replaced never closes
\* its successor (graph/strategy.py, get_position_exit_request).
ExitIsCurrent ==
  answer.exit # 0 => answer.exit = position /\ Last(log).position = position

\* Whatever the host asked, the checkpoint it keeps is one that a new process accepts.
CheckpointRestores == ValidCheckpoint(gr, saved.g, saved.stepped)

\* No trigger and no opportunity comes before the bar that the graph's history
\* requirements report for it (graph/condition_history.py, graph/levels.py).
NeverBeforeReported ==
  LET source == IF gr.wiring = "cross" THEN "cross" ELSE "edge"
  IN \A n \in DOMAIN log :
       /\ log[n].trigger => log[n].bar.i >= gr.conditions[source].true
       /\ log[n].event => log[n].bar.i >= gr.levels["level"].opportunity
=============================================================================
