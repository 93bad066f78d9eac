----------------------------- MODULE GraphNodes -----------------------------
(***************************************************************************)
(* The nodes of a strategy graph that keep state from bar to bar, the      *)
(* executor that evaluates them once per bar in topological order, and the *)
(* validation of a checkpoint.                                             *)
(*                                                                         *)
(* Clocks count bar intervals: bar b opens at b.t, closes at b.t + 1, and  *)
(* is decided at b.d.  An operand's identity (symbol, unit, formula) is    *)
(* left out: in a built graph it changes only when the operand is unready, *)
(* which resets a reducer anyway.                                          *)
(***************************************************************************)
EXTENDS Integers, Sequences, FiniteSets, FiniteSetsExt, SequencesExt

CONSTANTS
  Buffer,     \* how far below a level its setup is invalidated
  Tolerance,  \* how far above a level a retest may stop
  Cooldown,   \* flat bars an entry waits after a position
  None

ASSUME GraphAssumption == {Buffer, Tolerance, Cooldown} \subseteq Nat

\* A condition, a bar's open, low and close, and what the nodes remember.
Values == {"true", "false", "unready"}
Prices == Nat \X Nat \X Nat
HoldState == [t : Int, i : Int, count : Nat, out : Values]
EdgeState == [t : Int, i : Int, previous : Values]
Level ==
  [status : {"unavailable", "armed", "expired", "invalidated", "consumed"}, lower : Nat,
   armed : Int, expires : Int, ended : Int]
LevelState ==
  [t : Int, i : Int, d : Int, px : Prices, mark : Int, level : Level,
   payload : Int \X Int \X Int \X Values \X Prices \X Nat]

\* None is the state of a node that has not run.
ASSUME NoneAssumption == None \notin HoldState \cup EdgeState \cup LevelState

-----------------------------------------------------------------------------
\* Graphs.  gr.wiring names the connections, gr.ranks the ids' alphabetical order.

Reducers == {<<"cond", "hold">>, <<"hold", "edge">>}
Owner(trigger) == {<<trigger, "level">>, <<"lower", "level">>, <<"level", "gate">>}

Edges(gr) ==
  {<<"cool", "gate">>} \cup
    CASE gr.wiring = "plain" -> Reducers \cup {<<"edge", "gate">>, <<"cond", "bridge">>,
                                               <<"bridge", "exit">>}
      [] gr.wiring = "edge" -> Reducers \cup Owner("edge")
      [] gr.wiring = "cross" -> {<<"cond", "cross">>} \cup Owner("cross")

Nodes(gr) == UNION {{e[1], e[2]} : e \in Edges(gr)}
Parents(gr, n) == {e[1] : e \in {x \in Edges(gr) : x[2] = n}}
HasLevel(gr) == gr.wiring # "plain"

IsGraph(gr) ==
  /\ gr.wiring \in {"plain", "edge", "cross"}
  /\ HasLevel(gr) => gr.mode \in {"sweep_reclaim", "breakout_retest", "breakout"}
  /\ gr.bars \in Nat \ {0} /\ gr.expires \in Nat \ {0} /\ gr.history \in Nat
  /\ \A n \in Nodes(gr) : gr.ranks[n] \in Nat

\* Nodes in evaluation order: of those whose parents are done, the smallest id.
TopoOrder(gr) ==
  LET order[k \in 0 .. Cardinality(Nodes(gr))] ==
        IF k = 0 THEN <<>>
        ELSE LET done == ToSet(order[k - 1])
                 ready == {n \in Nodes(gr) \ done : Parents(gr, n) \subseteq done}
             IN Append(order[k - 1],
                       CHOOSE n \in ready : \A m \in ready : gr.ranks[n] <= gr.ranks[m])
  IN order[Cardinality(Nodes(gr))]

-----------------------------------------------------------------------------
\* Cursors.  A node remembers the bar it last consumed, none at first.

OnTime(b) == b.d = b.t + 1
Duplicate(st, b) == st # None /\ st.t = b.t /\ st.i = b.i
Consecutive(st, b) == st # None /\ b.t = st.t + 1 /\ b.i = st.i + 1

\* A reducer's cursor moved backwards, or two bars share a clock.
CursorRaises(st, b) ==
  /\ st # None
  /\ b.t < st.t \/ (b.t > st.t /\ b.i <= st.i) \/ (b.t = st.t /\ b.i # st.i)

-----------------------------------------------------------------------------
\* Conditions and reducers.  A condition is true, false or unready.

\* A value of bar b is available once b has closed.
ScalarReady(b) == b.d >= b.t + 1

Compare(b) == IF ScalarReady(b) THEN b.cond ELSE "unready"
Bridge(b, value) == ScalarReady(b) /\ value = "true"

\* mutant: the count survives a gap.
HoldAfterAnyGap(bars, st, b, value) ==
  LET ready == value # "unready" /\ OnTime(b)
      before == IF st # None THEN st.count ELSE 0
      count == IF ready /\ value = "true" THEN Min({bars, before + 1}) ELSE 0
  IN [t |-> b.t, i |-> b.i, count |-> count,
      out |-> IF ~ready THEN "unready" ELSE IF count = bars THEN "true" ELSE "false"]

\* mutant: the count has no ceiling.
HoldAfterUncapped(bars, st, b, value) ==
  LET ready == value # "unready" /\ OnTime(b)
      before == IF Consecutive(st, b) THEN st.count ELSE 0
      count == IF ready /\ value = "true" THEN before + 1 ELSE 0
  IN [t |-> b.t, i |-> b.i, count |-> count,
      out |-> IF ~ready THEN "unready" ELSE IF count >= bars THEN "true" ELSE "false"]

HoldAfter(bars, st, b, value) ==
  LET ready == value # "unready" /\ OnTime(b)
      before == IF Consecutive(st, b) THEN st.count ELSE 0
      count == IF ready /\ value = "true" THEN Min({bars, before + 1}) ELSE 0
  IN [t |-> b.t, i |-> b.i, count |-> count,
      out |-> IF ~ready THEN "unready" ELSE IF count = bars THEN "true" ELSE "false"]

\* mutant: the first bar counts as a rise.
EdgeFiresFirst(st, b, value) ==
  (st = None \/ (Consecutive(st, b) /\ st.previous = "false")) /\ OnTime(b) /\ value = "true"

EdgeFires(st, b, value) ==
  Consecutive(st, b) /\ st.previous = "false" /\ OnTime(b) /\ value = "true"

EdgeAfter(b, value) ==
  [t |-> b.t, i |-> b.i, previous |-> IF OnTime(b) THEN value ELSE "unready"]

\* cond stands for left > right; the crossing looks at the clock alone.
CrossFires(st, b, value) ==
  st # None /\ b.t = st.t + 1 /\ st.previous = "false" /\ value = "true"

CrossAfter(b, value) == [t |-> b.t, i |-> b.i, previous |-> value]

CoolAfter(flat, position) ==
  IF position # 0 THEN 0 ELSE IF flat = -1 THEN -1 ELSE flat + 1

\* mutant: the last bar of the cooldown already allows an entry.
CoolAllowsEarly(flat, position) == position = 0 /\ (flat = -1 \/ flat >= Cooldown)

CoolAllows(flat, position) == position = 0 /\ (flat = -1 \/ flat > Cooldown)

-----------------------------------------------------------------------------
\* What the nodes at the end of a graph make of it.

\* position is the open long, 0 when flat; known is the one the strategy was told of.
PositionExit(allowed, position, known) == IF allowed /\ position # 0 THEN known ELSE 0

DirectionGate(agreement, policy) == agreement /\ policy

-----------------------------------------------------------------------------
\* The frozen level.  A bar's prices are its open, low and close, Void when it has no
\* valid ones; a lower bound of 0 is not ready.

Void == <<0, 0, 0>>
Open(b) == b.px[1]
Low(b) == b.px[2]
Close(b) == b.px[3]

PrimaryReady(b) == OnTime(b) /\ b.px # Void
Invalidates(b, lower) == Open(b) < lower - Buffer \/ Close(b) < lower - Buffer

Opportunity(mode, last, b, lower) ==
  CASE mode = "sweep_reclaim" -> Low(b) < lower /\ Close(b) > lower
    [] mode = "breakout_retest" -> Low(b) <= lower + Tolerance /\ Close(b) > lower
    [] mode = "breakout" -> last <= lower /\ Close(b) > lower

NoLevel == [status |-> "unavailable", lower |-> 0, armed |-> 0, expires |-> 0, ended |-> 0]

Armed(gr, b) ==
  IF b.lower = 0 THEN NoLevel
  ELSE [status |-> "armed", lower |-> b.lower, armed |-> b.i, expires |-> b.i + gr.expires,
        ended |-> 0]

\* mutant: an outage leaves the level armed.
ServedAcrossGap(gr, st, b) ==
  LET level == st.level
      status ==
        IF b.i > level.expires THEN "expired"
        ELSE IF ~PrimaryReady(b) \/ st.px = Void THEN "invalidated"
        ELSE IF Invalidates(b, level.lower) THEN "invalidated"
        ELSE IF Opportunity(gr.mode, st.px[3], b, level.lower) THEN "consumed"
        ELSE "armed"
  IN [level EXCEPT !.status = status, !.ended = IF status = "armed" THEN 0 ELSE b.i]

\* What a new bar makes of an armed level: expiry, then a gap, then the prices.
Served(gr, st, b) ==
  LET level == st.level
      status ==
        IF b.i > level.expires THEN "expired"
        ELSE IF ~Consecutive(st, b) \/ ~PrimaryReady(b) \/ st.px = Void THEN "invalidated"
        ELSE IF Invalidates(b, level.lower) THEN "invalidated"
        ELSE IF Opportunity(gr.mode, st.px[3], b, level.lower) THEN "consumed"
        ELSE "armed"
  IN [level EXCEPT !.status = status, !.ended = IF status = "armed" THEN 0 ELSE b.i]

\* A level that is not armed takes a new trigger; a spent one stays if it cannot arm.
LevelNext(gr, st, b, trigger) ==
  LET old == IF st = None THEN NoLevel ELSE st.level
      fresh == trigger /\ (st = None \/ b.i > st.mark)
      new == IF fresh /\ PrimaryReady(b) THEN Armed(gr, b) ELSE NoLevel
  IN IF old.status = "armed" THEN Served(gr, st, b)
     ELSE IF new = NoLevel THEN old ELSE new

\* Stands for the hash of all that a decision may depend on.
Fingerprint(b) == <<b.i, b.t, b.d, b.cond, b.px, b.lower>>

\* The trigger watermark moves with every new trigger, arming or not.
LevelAfter(gr, st, b, trigger) ==
  [t |-> b.t, i |-> b.i, d |-> b.d, px |-> IF PrimaryReady(b) THEN b.px ELSE Void,
   payload |-> Fingerprint(b), mark |-> IF trigger THEN b.i ELSE IF st = None THEN -1 ELSE st.mark,
   level |-> LevelNext(gr, st, b, trigger)]

\* The level's own cursor, behind the one that a graph with a level checks beforehand.
LevelRaises(st, b) ==
  /\ st # None
  /\ IF Duplicate(st, b) THEN Fingerprint(b) # st.payload
     ELSE b.t <= st.t \/ b.i <= st.i \/ b.d < st.d

LevelFires(before, after) ==
  before # None /\ before.level.status = "armed" /\ after.level.status = "consumed"

-----------------------------------------------------------------------------
\* One bar.  s.g maps a node to its state, s.out to its output, s.raised says that a node
\* raised: the nodes before it have already changed.

NoNodes == [hold |-> None, edge |-> None, cross |-> None, level |-> None, cool |-> -1]

NoOutput ==
  [cond |-> "unready", hold |-> "unready", edge |-> FALSE, cross |-> FALSE, level |-> FALSE,
   cool |-> FALSE, bridge |-> FALSE, exit |-> 0, gate |-> FALSE]

Trigger(gr, out) == IF gr.wiring = "cross" THEN out.cross ELSE out.edge
Signal(gr, out) == IF HasLevel(gr) THEN out.level ELSE Trigger(gr, out)

Raises(n, s, b) ==
  \/ n \in {"hold", "edge"} /\ CursorRaises(s.g[n], b)
  \/ n = "cross" /\ s.g.cross # None /\ b.t < s.g.cross.t
  \/ n = "level" /\ LevelRaises(s.g.level, b)

Evaluated(gr, n, s, b, position, known) ==
  LET g == s.g
      out == s.out
      Set(value) == [s EXCEPT !.out[n] = value]
  IN CASE n = "lower" -> s
       [] n = "cond" -> Set(Compare(b))
       [] n = "hold" ->
            LET after == IF Duplicate(g.hold, b) THEN g.hold
                         ELSE HoldAfter(gr.bars, g.hold, b, out.cond)
            IN [s EXCEPT !.g.hold = after, !.out.hold = after.out]
       [] n = "edge" ->
            IF Duplicate(g.edge, b) THEN Set(FALSE)
            ELSE [s EXCEPT !.g.edge = EdgeAfter(b, out.hold),
                           !.out.edge = EdgeFires(g.edge, b, out.hold)]
       [] n = "cross" ->
            IF g.cross # None /\ g.cross.t = b.t THEN Set(FALSE)
            ELSE [s EXCEPT !.g.cross = CrossAfter(b, out.cond),
                           !.out.cross = CrossFires(g.cross, b, out.cond)]
       [] n = "level" ->
            LET after == IF Duplicate(g.level, b) THEN g.level
                         ELSE LevelAfter(gr, g.level, b, Trigger(gr, out))
            IN [s EXCEPT !.g.level = after, !.out.level = LevelFires(g.level, after)]
       [] n = "cool" ->
            LET flat == CoolAfter(g.cool, position)
            IN [s EXCEPT !.g.cool = flat, !.out.cool = CoolAllows(flat, position)]
       [] n = "bridge" -> Set(Bridge(b, out.cond))
       [] n = "exit" -> Set(PositionExit(out.bridge, position, known))
       [] n = "gate" -> Set(DirectionGate(Signal(gr, out), out.cool))

Visited(gr, n, s, b, position, known) ==
  IF s.raised THEN s
  ELSE IF Raises(n, s, b) THEN [s EXCEPT !.raised = TRUE]
  ELSE Evaluated(gr, n, s, b, position, known)

Step(gr, g, b, position, known) ==
  LET upTo[k \in 0 .. Len(gr.order)] ==
        IF k = 0 THEN [g |-> g, out |-> NoOutput, raised |-> FALSE]
        ELSE Visited(gr, gr.order[k], upTo[k - 1], b, position, known)
  IN upTo[Len(gr.order)]

-----------------------------------------------------------------------------
\* Checkpoints: node states and the bar they were decided at, -1 before the first one.

HoldConsistent(gr, st) ==
  /\ st.count <= gr.bars
  /\ IF st.out = "unready" THEN st.count = 0 ELSE (st.out = "true") = (st.count = gr.bars)

\* A level that was never armed has no history; an armed one has not ended; the others
\* ended after they were armed.
SnapshotConsistent(level, i) ==
  IF level.status = "unavailable" THEN level = NoLevel
  ELSE /\ level.armed < level.expires
       /\ level.armed <= i
       /\ IF level.status = "armed" THEN level.ended = 0
          ELSE level.armed < level.ended /\ level.ended <= i

LevelConsistent(st) ==
  LET level == st.level
  IN /\ SnapshotConsistent(level, st.i)
     /\ st.mark <= st.i
     /\ level.status # "unavailable" => st.mark >= level.armed
     /\ level.status = "armed" => st.i <= level.expires
     /\ level.status = "consumed" => level.ended <= level.expires
     /\ level.status = "expired" => level.ended > level.expires

ValidLevelState(gr, st) ==
  /\ LevelConsistent(st)
  /\ st.level.status # "unavailable" => st.level.expires = st.level.armed + gr.expires

\* The reducers of a graph have consumed one and the same bar, the last one decided.
ReducersValid(gr, g, stepped) ==
  LET reducers == ToSet(gr.order) \cap {"hold", "edge"}
  IN reducers # {} =>
       IF stepped = -1 THEN g = NoNodes
       ELSE /\ \A n \in reducers : g[n] # None /\ g[n].i = stepped /\ g[n].t = g.hold.t
            /\ HoldConsistent(gr, g.hold)

CrossValid(st, level) == st # None /\ st.t = level.t

\* So have, in a graph with a level, its owner and all that is upstream of it.
LevelGraphValid(gr, g, stepped) ==
  IF stepped = -1 THEN g = NoNodes
  ELSE /\ g.level # None
       /\ g.level.i = stepped
       /\ gr.wiring = "cross" => CrossValid(g.cross, g.level)
       /\ gr.wiring = "edge" =>
            \A n \in {"hold", "edge"} : g[n] # None /\ g[n].i = g.level.i /\ g[n].t = g.level.t

ValidCheckpoint(gr, g, stepped) ==
  /\ ReducersValid(gr, g, stepped)
  /\ HasLevel(gr) =>
       LevelGraphValid(gr, g, stepped) /\ (stepped # -1 => ValidLevelState(gr, g.level))

\* A graph with a level refuses a bar before any node sees it: another content under the
\* last cursor, a cursor or a decision clock that moved backwards.
Refuses(gr, g, b) ==
  LET st == g.level
  IN /\ HasLevel(gr)
     /\ st # None
     /\ ~LevelGraphValid(gr, g, st.i) \/ ~ValidLevelState(gr, st) \/ LevelRaises(st, b)

-----------------------------------------------------------------------------
\* The requirements reported for a graph: the first bar at which a node can be ready, be
\* true, or give an opportunity, Unknown behind a node that has no such bar.  cond needs
\* gr.history bars, lower one.

Unknown == [ready |-> -1, true |-> -1, opportunity |-> -1]
SourceFirst(n, history) ==
  LET h == IF n = "cond" THEN history ELSE 1 IN [ready |-> h, true |-> h, opportunity |-> -1]

\* kind's own first bars, given those of its parents.
ConditionFirst(gr, kind, ready, true) ==
  LET late == Max({ready + 1, true})
  IN [opportunity |-> -1,
      ready |-> IF kind \in {"edge", "cross"} THEN late ELSE ready,
      true |-> CASE kind = "hold" -> true + gr.bars - 1
                 [] kind \in {"edge", "cross"} -> late
                 [] OTHER -> true]

ConditionWith(gr, first, n) ==
  LET parents == {first[p] : p \in Parents(gr, n)}
  IN [first EXCEPT ![n] =
        IF n \in {"cond", "lower"} THEN SourceFirst(n, gr.history)
        ELSE IF n \in {"hold", "edge", "cross", "bridge"} /\ parents # {} /\ Unknown \notin parents
             THEN ConditionFirst(gr, n, Max({p.ready : p \in parents}),
                                 Max({p.true : p \in parents}))
             ELSE Unknown]

ConditionReported(gr) ==
  LET order == TopoOrder(gr)
      upTo[k \in 0 .. Len(order)] ==
        IF k = 0 THEN [n \in Nodes(gr) |-> Unknown] ELSE ConditionWith(gr, upTo[k - 1], order[k])
  IN upTo[Len(order)]

\* The same with levels: an opportunity comes at the earliest one bar after the level.
LevelWith(gr, first) ==
  LET parents == {first[p] : p \in Parents(gr, "level")}
      armed == Max({Max({p.ready : p \in parents}), Max({p.true : p \in parents})})
  IN IF HasLevel(gr) /\ Unknown \notin parents
     THEN [first EXCEPT !.level = [ready |-> armed, true |-> armed, opportunity |-> armed + 1]]
     ELSE first

LevelReported(gr) == LevelWith(gr, ConditionReported(gr))

\* What is computed once, when a strategy is built.
Built(gr) ==
  [wiring |-> gr.wiring, mode |-> gr.mode, bars |-> gr.bars, expires |-> gr.expires,
   history |-> gr.history, order |-> TopoOrder(gr), conditions |-> ConditionReported(gr),
   levels |-> LevelReported(gr)]
=============================================================================
