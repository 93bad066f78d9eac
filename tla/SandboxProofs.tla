---------------------------- MODULE SandboxProofs ----------------------------
(***************************************************************************)
(* Proofs about SandboxSession: every live order is tracked, exposure is   *)
(* bounded by one setup, and a session that ended well is flat, for any    *)
(* quantities, lost requests, partial fills and expiries.                  *)
(*                                                                         *)
(* A request takes a session to a set of sessions, so the invariant is an  *)
(* operator on a session s, and there is one lemma for each request and    *)
(* each step of a handler.                                                 *)
(***************************************************************************)
EXTENDS SandboxSession, SumProofs

-----------------------------------------------------------------------------
(***************************************************************************)
(* The inductive invariant.                                                *)
(***************************************************************************)
Statuses == {"none", "sent", "open", "filled", "canceled", "expired", "rejected"}
Entries == {id \in Ids : id.role = "entry"}
Exits == {id \in Ids : id.role \in {"stop", "target"}}

OrderType == [st : Statuses, qty : Nat, filled : Nat, conditional : BOOLEAN]
VenueType == [orders : [Ids -> OrderType], position : Nat, faults : Nat]
FillType ==
  [role : {"entry", "stop", "target", "flatten"},
   status : {"partial", "filled", "canceled", "expired"}, qty : Nat]
BracketType == [stop : Exits, target : Exits, qty : Nat]
BrokerType ==
  [tracked : Seq(Ids), cum : [Ids -> Nat], queue : Seq(FillType), position : Nat,
   active : BracketType \cup {None}, revision : 0 .. MaxRevisions]
EngineType ==
  [status : {"running", "failed", "ended"}, pending : BOOLEAN, setup : BOOLEAN, account : Nat,
   entries : 0 .. MaxEntries, trades : Nat, halted : BOOLEAN, attempted : BOOLEAN,
   confirmed : BOOLEAN \cup {None}]

Asks == {"query", "cancel"}
EntrySteps == {"submit", "submitStop"}
ExitSteps == {"leg", "restop", "replaced"}
HandlerLocals == {"process", "decide", "entered", "entryCanceled", "close"}
AfterSteps == {"position", "flatten", "query", "drain", "confirm"}

StepType ==
  [op : Asks \cup EntrySteps \cup ExitSteps \cup HandlerLocals \cup AfterSteps \cup {"contain"},
   id : Ids \cup {None}, qty : Nat]
CallType ==
  [mode : {"idle", "handler", "contain", "finalize"}, todo : Seq(StepType), fills : Seq(FillType),
   reply : Statuses, failure : BOOLEAN, acks : BOOLEAN, error : BOOLEAN, needAck : BOOLEAN,
   canceled : BOOLEAN, flat : Statuses \cup {"failed"}, drained : BOOLEAN, closed : BOOLEAN,
   raising : BOOLEAN]
SessionType == [venue : VenueType, broker : BrokerType, engine : EngineType, call : CallType]

Distinct(seq) == \A i, j \in DOMAIN seq : seq[i] = seq[j] => i = j

\* What the live entries may still add to the position.
Room(v) ==
  [id \in Ids |-> IF id.role = "entry" /\ Live(v, id) THEN v.orders[id].qty - v.orders[id].filled
                                                     ELSE 0]
Exposed(v) == v.position + SumFunctionOnSet(Room(v), Ids) <= Qty

\* What holds between any two steps.
Base(s) ==
  /\ s \in SessionType
  /\ Distinct(s.broker.tracked)
  /\ \A id \in Ids : Live(s.venue, id) => id \in Tracked(s.broker)
  /\ \A id \in Ids : s.venue.orders[id].filled <= s.venue.orders[id].qty
  /\ \A id \in Entries : id \notin Tracked(s.broker) => s.broker.cum[id] = 0
  /\ Exposed(s.venue)

\* Queries and cancellations come first, one for each of some tracked orders.
Queued(s) ==
  \A i \in DOMAIN s.call.todo :
    s.call.todo[i].op \in Asks =>
      /\ s.call.todo[i].id \in Tracked(s.broker)
      /\ \A j \in 1 .. i - 1 : /\ s.call.todo[j].op \in Asks
                               /\ s.call.todo[j].id # s.call.todo[i].id

\* What the broker has not seen yet: what tracked entries add, and what exits take.
NotSeen(s) ==
  [id \in Ids |->
     LET left == s.venue.orders[id].filled - s.broker.cum[id]
     IN IF id \notin Tracked(s.broker) THEN 0
        ELSE IF id.role = "entry" THEN left ELSE IF left > 0 THEN -left ELSE 0]

\* The broker never holds less than the venue does, once it has seen everything.
Accounted(s) == s.venue.position <= s.broker.position + SumFunctionOnSet(NotSeen(s), Ids)

\* Every trade has an entry of its own: those under way, working or with their fill on its
\* way to the engine, come on top of the trades.
OpensTrade(fill) == fill.role = "entry" /\ fill.status = "filled"
FilledEntries(fills) == {i \in DOMAIN fills : OpensTrade(fills[i])}
Opened(fills) == Cardinality(FilledEntries(fills))
Working(s) == [id \in Ids |-> IF id \in Tracked(s.broker) /\ id.role = "entry" THEN 1 ELSE 0]
Submitting(s) == IF \E i \in DOMAIN s.call.todo : s.call.todo[i].op \in EntrySteps THEN 1 ELSE 0
Used(s) ==
  s.engine.trades + Opened(s.broker.queue) + Opened(s.call.fills)
    + SumFunctionOnSet(Working(s), Ids)
Numbered(s) == Used(s) + Submitting(s) <= s.engine.entries

HandlerStepOK(x) ==
  /\ x.op \in Asks \cup EntrySteps \cup ExitSteps \cup HandlerLocals
  /\ x.op \in EntrySteps => x.id \in Entries
  /\ x.op \in ExitSteps => x.id \in Exits

Handling(s) ==
  /\ s.call.mode \in {"idle", "handler"}
  /\ s.call.mode = "idle" => s.call = NoCall
  /\ s.engine.status = "running" /\ s.engine.confirmed = None
  /\ ~s.call.failure /\ ~s.call.raising
  /\ Queued(s) /\ Accounted(s) /\ Numbered(s)
  /\ \A i \in DOMAIN s.call.todo : HandlerStepOK(s.call.todo[i])
  /\ \A i \in DOMAIN s.call.todo :
       /\ s.call.todo[i].op \in EntrySteps \cup {"decide"} => i = Len(s.call.todo)
       /\ s.call.todo[i].op = "restop" => i = 1 /\ s.broker.active # None

\* While a containment cancels, every tracked order is on its list until an error.
Cancelling(s) ==
  LET todo == s.call.todo
  IN /\ todo # <<>> /\ todo[Len(todo)].op = "contain"
     /\ \A i \in 1 .. Len(todo) - 1 : todo[i].op = "cancel"
     /\ ~s.call.canceled /\ s.call.flat = "failed" /\ ~s.call.drained
     /\ ~s.call.error =>
          \A id \in Tracked(s.broker) : \E i \in 1 .. Len(todo) - 1 : todo[i].id = id

UnseenFlatten(s) ==
  LET left == s.venue.orders[FlattenId].filled - s.broker.cum[FlattenId]
  IN IF FlattenId \in Tracked(s.broker) /\ left > 0 THEN left ELSE 0

\* After everything was canceled only the flatten can work, for all of the position, and the
\* broker holds at least what the venue does.
Quiet(s) ==
  /\ ~s.engine.pending
  /\ Tracked(s.broker) \subseteq {FlattenId}
  /\ Live(s.venue, FlattenId) =>
       /\ s.venue.position > 0
       /\ s.venue.position
            = s.venue.orders[FlattenId].qty - s.venue.orders[FlattenId].filled
  /\ s.call.flat # "failed" => s.broker.position >= s.venue.position + UnseenFlatten(s)
  /\ s.call.flat \in {"none", "filled"} => s.venue.position = 0

\* The steps from there.
Flattening(s) ==
  LET todo == s.call.todo
      fresh == s.call.flat = "failed" /\ ~s.call.drained /\ Tracked(s.broker) = {}
  IN \/ todo = <<Local("position")>> /\ fresh
     \/ /\ todo = <<Local("flatten")>> /\ fresh
        /\ s.broker.position = s.venue.position /\ s.broker.position > 0
     \/ /\ \/ /\ todo = <<Step("query", FlattenId, 0), Local("drain")>>
              /\ FlattenId \in Tracked(s.broker)
           \/ todo = <<Local("drain")>>
        /\ s.call.flat # "failed" /\ ~s.call.drained
     \/ /\ todo = <<Local("confirm")>>
        /\ s.call.drained => s.call.flat # "failed"

Containing(s) ==
  /\ s.call.mode \in {"contain", "finalize"}
  /\ s.call.mode = "contain" => s.call.raising
  /\ s.engine.status = "running" /\ s.engine.confirmed # TRUE /\ s.engine.attempted
  /\ ~s.call.failure
  /\ Queued(s)
  /\ \/ Cancelling(s)
     \/ /\ \A i \in DOMAIN s.call.todo : s.call.todo[i].op \in AfterSteps
        /\ s.call.canceled => Quiet(s) /\ Flattening(s)

\* A session that ended.
Ended(s) ==
  /\ s.engine.status # "running" /\ s.call = NoCall
  /\ s.engine.confirmed = TRUE =>
       s.venue.position = 0 /\ \A id \in Ids : ~Live(s.venue, id)
  /\ s.engine.status = "ended" =>
       s.venue.position = 0 /\ \A id \in Ids : Live(s.venue, id) => id.role # "entry"

SessionInv(s) == Base(s) /\ (Handling(s) \/ Containing(s) \/ Ended(s))

-----------------------------------------------------------------------------
(***************************************************************************)
(* Sequences.                                                              *)
(***************************************************************************)
LEMMA SeqElements ==
  ASSUME NEW S, NEW seq \in Seq(S)
  PROVE  /\ DOMAIN seq = 1 .. Len(seq) /\ Len(seq) \in Nat
         /\ \A i \in DOMAIN seq : seq[i] \in S
         /\ Range(seq) = {seq[i] : i \in 1 .. Len(seq)} /\ Range(seq) \subseteq S
BY DEF Range

\* A sequence without duplicates, one element added or taken out.
LEMMA Added ==
  ASSUME NEW S, NEW seq \in Seq(S), Distinct(seq), NEW e \in S, e \notin Range(seq)
  PROVE  /\ Append(seq, e) \in Seq(S) /\ Distinct(Append(seq, e))
         /\ Range(Append(seq, e)) = Range(seq) \cup {e}
<1> DEFINE r == Append(seq, e)
<1>1. /\ r \in Seq(S) /\ Len(r) = Len(seq) + 1 /\ r[Len(seq) + 1] = e /\ Len(seq) \in Nat
      /\ DOMAIN r = 1 .. Len(r) /\ DOMAIN seq = 1 .. Len(seq)
      /\ \A i \in 1 .. Len(seq) : r[i] = seq[i]
  OBVIOUS
<1> HIDE DEF r
<1>2. \A i \in DOMAIN r : i \in 1 .. Len(seq) \/ i = Len(seq) + 1
  BY <1>1
<1>3. \A i \in 1 .. Len(seq) : i \in DOMAIN r /\ seq[i] # e
  BY <1>1 DEF Range
<1>4. Distinct(r)
  BY <1>1, <1>2, <1>3 DEF Distinct
<1>5. Range(r) \subseteq Range(seq) \cup {e}
  BY <1>1, <1>2 DEF Range
<1>6. Range(seq) \cup {e} \subseteq Range(r)
  <2>1. Len(seq) + 1 \in DOMAIN r
    BY <1>1
  <2> QED
    BY <1>1, <1>3, <2>1 DEF Range
<1> QED
  BY <1>1, <1>4, <1>5, <1>6 DEF r

LEMMA Removed ==
  ASSUME NEW S, NEW seq \in Seq(S), Distinct(seq), NEW e
  PROVE  /\ RemoveFirst(seq, e) \in Seq(S) /\ Distinct(RemoveFirst(seq, e))
         /\ Range(RemoveFirst(seq, e)) = Range(seq) \ {e}
<1>1. CASE ~ \E i \in 1 .. Len(seq) : seq[i] = e
  <2>1. RemoveFirst(seq, e) = seq
    BY <1>1 DEF RemoveFirst
  <2>2. e \notin Range(seq)
    BY <1>1 DEF Range
  <2> QED
    BY <2>1, <2>2
<1>2. CASE \E i \in 1 .. Len(seq) : seq[i] = e
  <2>1. PICK k \in 1 .. Len(seq) : seq[k] = e
    BY <1>2
  <2>2. {i \in 1 .. Len(seq) : seq[i] = e} = {k}
    BY <2>1 DEF Distinct
  <2>3. Min({k}) = k
    BY DEF Min
  <2>4. SelectInSeq(seq, LAMBDA v : v = e) = k
    BY <2>2, <2>3 DEF SelectInSeq
  <2> DEFINE before == SubSeq(seq, 1, k - 1)
             after == SubSeq(seq, k + 1, Len(seq))
             r == before \o after
  <2>5. RemoveFirst(seq, e) = r
    BY <1>2, <2>4 DEF RemoveFirst, RemoveAt
  <2>6. /\ before \in Seq(S) /\ Len(before) = k - 1
        /\ after \in Seq(S) /\ Len(after) = Len(seq) - k
        /\ \A i \in 1 .. k - 1 : before[i] = seq[i]
        /\ \A i \in 1 .. Len(seq) - k : after[i] = seq[i + k]
    BY <2>1
  <2> HIDE DEF before, after
  <2>7. /\ r \in Seq(S) /\ Len(r) = Len(seq) - 1
        /\ \A i \in 1 .. k - 1 : r[i] = seq[i]
        /\ \A i \in k .. Len(seq) - 1 : r[i] = seq[i + 1]
    <3>1. /\ r \in Seq(S) /\ Len(r) = Len(seq) - 1
      <4>1. before \in Seq(S) /\ after \in Seq(S)
        BY <2>6
      <4>2. r \in Seq(S) /\ Len(r) = Len(before) + Len(after)
        BY <4>1
      <4>3. Len(seq) \in Nat /\ k \in Nat
        BY <2>1
      <4> QED
        BY <2>6, <4>2, <4>3
    <3>2. ASSUME NEW i \in 1 .. k - 1 PROVE r[i] = seq[i]
      BY <2>1, <2>6
    <3>3. ASSUME NEW i \in k .. Len(seq) - 1 PROVE r[i] = seq[i + 1]
      <4>1. i > Len(before) /\ i <= Len(before) + Len(after) /\ i \in Nat
        BY <2>1, <2>6
      <4>2. r[i] = after[i - Len(before)]
        BY <2>6, <4>1
      <4>3. i - Len(before) \in 1 .. Len(seq) - k /\ (i - Len(before)) + k = i + 1
        BY <2>1, <2>6, <4>1
      <4> QED
        BY <2>6, <4>2, <4>3
    <3> QED
      BY <3>1, <3>2, <3>3
  <2> HIDE DEF r
  <2>8. DOMAIN r = 1 .. Len(seq) - 1 /\ DOMAIN seq = 1 .. Len(seq)
    BY <2>7
  <2>9. \A i \in DOMAIN r :
          \/ i \in 1 .. k - 1 /\ r[i] = seq[i] /\ i \in DOMAIN seq
          \/ i \in k .. Len(seq) - 1 /\ r[i] = seq[i + 1] /\ i + 1 \in DOMAIN seq
    BY <2>1, <2>7, <2>8
  <2>10. Distinct(r)
    BY <2>9 DEF Distinct
  <2>11. \A i \in DOMAIN r : r[i] # e
    BY <2>1, <2>8, <2>9 DEF Distinct
  <2>12. \A j \in DOMAIN seq : j # k =>
           \/ j \in DOMAIN r /\ r[j] = seq[j]
           \/ j - 1 \in DOMAIN r /\ r[j - 1] = seq[j]
    <3> SUFFICES ASSUME NEW j \in DOMAIN seq, j # k
                 PROVE  \/ j \in DOMAIN r /\ r[j] = seq[j]
                        \/ j - 1 \in DOMAIN r /\ r[j - 1] = seq[j]
      OBVIOUS
    <3>1. CASE j < k
      <4>1. j \in 1 .. k - 1 /\ j \in DOMAIN r
        BY <2>1, <2>8, <3>1
      <4> QED
        BY <2>7, <4>1
    <3>2. CASE j > k
      <4>1. j - 1 \in k .. Len(seq) - 1 /\ j - 1 \in DOMAIN r /\ (j - 1) + 1 = j
        BY <2>1, <2>8, <3>2
      <4> QED
        BY <2>7, <4>1
    <3> QED
      BY <2>1, <2>8, <3>1, <3>2
  <2>13. Range(r) = Range(seq) \ {e}
    <3>1. Range(r) \subseteq Range(seq) \ {e}
      BY <2>9, <2>11 DEF Range
    <3>2. Range(seq) \ {e} \subseteq Range(r)
      BY <2>1, <2>12 DEF Range
    <3> QED
      BY <3>1, <3>2
  <2> QED
    BY <2>5, <2>7, <2>10, <2>13
<1> QED
  BY <1>1, <1>2

\* A function on the first naturals, and two sequences one after the other.
LEMMA FunctionIsSeq ==
  ASSUME NEW S, NEW n \in Nat, NEW f \in [1 .. n -> S]
  PROVE  f \in Seq(S) /\ Len(f) = n
OBVIOUS

LEMMA Joined ==
  ASSUME NEW S, NEW a \in Seq(S), NEW b \in Seq(S)
  PROVE  /\ a \o b \in Seq(S) /\ Len(a \o b) = Len(a) + Len(b)
         /\ \A i \in 1 .. Len(a) : (a \o b)[i] = a[i]
         /\ \A i \in Len(a) + 1 .. Len(a) + Len(b) : /\ (a \o b)[i] = b[i - Len(a)]
                                                      /\ i - Len(a) \in DOMAIN b
<1>1. a \o b \in Seq(S) /\ Len(a \o b) = Len(a) + Len(b)
  OBVIOUS
<1>2. \A i \in 1 .. Len(a) : (a \o b)[i] = a[i]
  OBVIOUS
<1>3. ASSUME NEW i \in Len(a) + 1 .. Len(a) + Len(b)
      PROVE  (a \o b)[i] = b[i - Len(a)] /\ i - Len(a) \in DOMAIN b
  OBVIOUS
<1> QED
  BY <1>1, <1>2, <1>3

\* The elements of a sequence in reverse order.
LEMMA Reversed ==
  ASSUME NEW S, NEW seq \in Seq(S), Distinct(seq)
  PROVE  /\ Reverse(seq) \in Seq(S) /\ Distinct(Reverse(seq))
         /\ Range(Reverse(seq)) = Range(seq) /\ Len(Reverse(seq)) = Len(seq)
<1> DEFINE r == Reverse(seq)
           n == Len(seq)
<1>1. n \in Nat /\ DOMAIN seq = 1 .. n /\ \A i \in 1 .. n : seq[i] \in S
  BY SeqElements
<1>2. \A i \in 1 .. n : (n - i) + 1 \in 1 .. n /\ (n - ((n - i) + 1)) + 1 = i
  BY <1>1
<1>3. r = [i \in 1 .. n |-> seq[(n - i) + 1]]
  BY DEF Reverse
<1>4. r \in Seq(S) /\ Len(r) = n /\ DOMAIN r = 1 .. n
  <2>1. r \in [1 .. n -> S]
    BY <1>1, <1>2, <1>3
  <2> HIDE DEF r
  <2> QED
    BY <1>1, <2>1
<1>5. \A i \in 1 .. n : r[i] = seq[(n - i) + 1]
  BY <1>3
<1> HIDE DEF r, n
<1>6. Distinct(r)
  <2> SUFFICES ASSUME NEW i \in 1 .. n, NEW j \in 1 .. n, r[i] = r[j] PROVE i = j
    BY <1>4 DEF Distinct
  <2>1. (n - i) + 1 = (n - j) + 1
    BY <1>1, <1>2, <1>5 DEF Distinct
  <2> QED
    BY <1>1, <2>1
<1>7. Range(r) = Range(seq)
  <2>1. Range(r) \subseteq Range(seq)
    BY <1>1, <1>2, <1>4, <1>5 DEF Range
  <2>2. Range(seq) \subseteq Range(r)
    <3> SUFFICES ASSUME NEW i \in 1 .. n PROVE seq[i] \in Range(r)
      BY <1>1 DEF Range
    <3>1. r[(n - i) + 1] = seq[i]
      BY <1>2, <1>5
    <3> QED
      BY <1>2, <1>4, <3>1 DEF Range
  <2> QED
    BY <2>1, <2>2
<1> QED
  BY <1>4, <1>6, <1>7 DEF r, n

-----------------------------------------------------------------------------
(***************************************************************************)
(* The fills on their way to the engine.                                   *)
(***************************************************************************)
LEMMA OpenedNat ==
  ASSUME NEW fills \in Seq(FillType)
  PROVE  /\ IsFiniteSet(FilledEntries(fills)) /\ Opened(fills) \in Nat
         /\ FilledEntries(fills) \subseteq 1 .. Len(fills)
<1>1. Len(fills) \in Nat /\ DOMAIN fills = 1 .. Len(fills)
  BY SeqElements
<1>2. IsFiniteSet(1 .. Len(fills))
  <2>1. 1 \in Int /\ Len(fills) \in Int
    BY <1>1
  <2> QED
    BY <2>1, FS_Interval
<1>3. FilledEntries(fills) \subseteq 1 .. Len(fills)
  BY <1>1 DEF FilledEntries
<1>4. IsFiniteSet(FilledEntries(fills))
  BY <1>2, <1>3, FS_Subset
<1> QED
  BY <1>3, <1>4, FS_CardinalityType DEF Opened

LEMMA NothingOpened == Opened(<<>>) = 0
<1>1. FilledEntries(<<>>) = {}
  BY DEF FilledEntries
<1> QED
  BY <1>1, FS_EmptySet DEF Opened

\* One fill more.
LEMMA OpenedOneMore ==
  ASSUME NEW fills \in Seq(FillType), NEW fill \in FillType, NEW more \in Seq(FillType),
         Len(more) = Len(fills) + 1, more[Len(fills) + 1] = fill,
         \A i \in 1 .. Len(fills) : more[i] = fills[i]
  PROVE  Opened(more) = IF OpensTrade(fill) THEN Opened(fills) + 1 ELSE Opened(fills)
<1> DEFINE n == Len(fills)
           F == FilledEntries(fills)
<1>1. /\ n \in Nat /\ DOMAIN fills = 1 .. n /\ DOMAIN more = 1 .. n + 1
      /\ 1 .. n + 1 = (1 .. n) \cup {n + 1} /\ n + 1 \notin 1 .. n
  <2>1. n \in Nat /\ DOMAIN fills = 1 .. n /\ DOMAIN more = 1 .. Len(more)
    BY SeqElements
  <2> QED
    BY <2>1
<1>2. IsFiniteSet(F) /\ F \subseteq 1 .. n
  BY OpenedNat
<1>3. FilledEntries(more) = IF OpensTrade(fill) THEN F \cup {n + 1} ELSE F
  BY <1>1 DEF FilledEntries, OpensTrade
<1>4. n + 1 \notin F
  BY <1>1, <1>2
<1>5. Cardinality(F \cup {n + 1}) = Cardinality(F) + 1
  BY <1>2, <1>4, FS_AddElement
<1> QED
  BY <1>3, <1>5 DEF Opened

LEMMA OpenedAppend ==
  ASSUME NEW fills \in Seq(FillType), NEW fill \in FillType
  PROVE  /\ Append(fills, fill) \in Seq(FillType)
         /\ Opened(Append(fills, fill))
            = IF OpensTrade(fill) THEN Opened(fills) + 1 ELSE Opened(fills)
<1>1. /\ Append(fills, fill) \in Seq(FillType) /\ Len(Append(fills, fill)) = Len(fills) + 1
      /\ Append(fills, fill)[Len(fills) + 1] = fill
      /\ \A i \in 1 .. Len(fills) : Append(fills, fill)[i] = fills[i]
  OBVIOUS
<1> QED
  BY <1>1, OpenedOneMore

LEMMA OpenedConcat ==
  ASSUME NEW fills \in Seq(FillType), NEW fill \in FillType
  PROVE  /\ fills \o <<fill>> \in Seq(FillType)
         /\ Opened(fills \o <<fill>>)
            = IF OpensTrade(fill) THEN Opened(fills) + 1 ELSE Opened(fills)
<1> DEFINE one == <<fill>>
<1>1. one \in Seq(FillType) /\ Len(one) = 1 /\ one[1] = fill
  OBVIOUS
<1> HIDE DEF one
<1> DEFINE more == fills \o one
<1>2. /\ more \in Seq(FillType) /\ Len(more) = Len(fills) + Len(one)
      /\ \A i \in 1 .. Len(fills) : more[i] = fills[i]
      /\ \A i \in Len(fills) + 1 .. Len(fills) + Len(one) : more[i] = one[i - Len(fills)]
  BY <1>1, Joined
<1> HIDE DEF more
<1>3. Len(fills) \in Nat
  BY SeqElements
<1>4. Len(more) = Len(fills) + 1 /\ more[Len(fills) + 1] = fill
  <2>1. Len(fills) + 1 \in Len(fills) + 1 .. Len(fills) + 1 /\ (Len(fills) + 1) - Len(fills) = 1
    BY <1>3
  <2> QED
    BY <1>1, <1>2, <2>1
<1>5. Opened(more) = IF OpensTrade(fill) THEN Opened(fills) + 1 ELSE Opened(fills)
  BY <1>2, <1>4, OpenedOneMore
<1> QED
  BY <1>2, <1>5 DEF more, one

\* A fill less.
LEMMA OpenedTail ==
  ASSUME NEW fills \in Seq(FillType), fills # <<>>
  PROVE  /\ Head(fills) \in FillType /\ Tail(fills) \in Seq(FillType)
         /\ Opened(fills)
            = IF OpensTrade(Head(fills)) THEN Opened(Tail(fills)) + 1 ELSE Opened(Tail(fills))
<1> DEFINE n == Len(fills)
           F == FilledEntries(fills)
           rest == Tail(fills)
           G == FilledEntries(rest)
           shift == [i \in G |-> i + 1]
<1>1. /\ n \in Nat /\ n >= 1 /\ DOMAIN fills = 1 .. n /\ Head(fills) = fills[1]
      /\ rest \in Seq(FillType) /\ Len(rest) = n - 1 /\ Head(fills) \in FillType
      /\ \A i \in 1 .. n - 1 : rest[i] = fills[i + 1]
  OBVIOUS
<1>2. DOMAIN rest = 1 .. n - 1
  BY <1>1
<1> HIDE DEF rest
<1>3. /\ IsFiniteSet(F) /\ F \subseteq 1 .. n
      /\ IsFiniteSet(G) /\ G \subseteq 1 .. n - 1
  BY <1>1, OpenedNat
<1>4. \A i \in 1 .. n - 1 : i \in G <=> i + 1 \in F
  BY <1>1, <1>2 DEF FilledEntries
<1>5. shift \in Bijection(G, F \ {1})
  <2> HIDE DEF F, G, n
  <2>0. n \in Nat /\ n >= 1
    BY <1>1 DEF n
  <2>1. \A i \in G : i + 1 \in F \ {1} /\ i \in Nat
    BY <2>0, <1>3, <1>4
  <2>2. \A k \in F \ {1} : k - 1 \in G /\ (k - 1) + 1 = k
    <3> SUFFICES ASSUME NEW k \in F \ {1} PROVE k - 1 \in G /\ (k - 1) + 1 = k
      OBVIOUS
    <3>1. k - 1 \in 1 .. n - 1 /\ (k - 1) + 1 = k
      BY <2>0, <1>3
    <3> QED
      BY <1>4, <3>1
  <2>3. shift \in [G -> F \ {1}]
    BY <2>1
  <2>4. \A i, j \in G : shift[i] = shift[j] => i = j
    BY <2>1
  <2>5. \A k \in F \ {1} : \E i \in G : shift[i] = k
    BY <2>2
  <2> QED
    BY <2>3, <2>4, <2>5 DEF Bijection, Injection, Surjection, IsInjective
<1>6. Cardinality(G) = Cardinality(F \ {1})
  <2> HIDE DEF F, G, shift
  <2> QED
    BY <1>3, <1>5, FS_Bijection DEF ExistsBijection
<1>7. 1 \in F <=> OpensTrade(Head(fills))
  BY <1>1 DEF FilledEntries, OpensTrade
<1>8. Cardinality(F \ {1}) = IF 1 \in F THEN Cardinality(F) - 1 ELSE Cardinality(F)
  BY <1>3, FS_RemoveElement
<1>9. Cardinality(F) \in Nat
  BY <1>3, FS_CardinalityType
<1> QED
  BY <1>1, <1>6, <1>7, <1>8, <1>9 DEF Opened, rest

-----------------------------------------------------------------------------
(***************************************************************************)
(* The orders.                                                             *)
(***************************************************************************)
LEMMA IdsFinite == IsFiniteSet(Ids)
<1> DEFINE m == MaxEntries
           n == MaxEntries + MaxRevisions
           E == {Entry(k) : k \in 1 .. m}
           S == {Stop(k) : k \in 1 .. n}
           T == {Target(k) : k \in 1 .. n}
<1>1. m \in Int /\ n \in Int
  BY SandboxAssumption
<1>2. IsFiniteSet(1 .. m) /\ IsFiniteSet(1 .. n)
  BY <1>1, FS_Interval
<1> HIDE DEF m, n
<1>3. IsFiniteSet(E)
  <2> DEFINE f == [k \in 1 .. m |-> Entry(k)]
  <2>1. f \in Surjection(1 .. m, E)
    BY DEF Surjection
  <2> QED
    BY <1>2, <2>1, FS_Surjection
<1>4. IsFiniteSet(S)
  <2> DEFINE f == [k \in 1 .. n |-> Stop(k)]
  <2>1. f \in Surjection(1 .. n, S)
    BY DEF Surjection
  <2> QED
    BY <1>2, <2>1, FS_Surjection
<1>5. IsFiniteSet(T)
  <2> DEFINE f == [k \in 1 .. n |-> Target(k)]
  <2>1. f \in Surjection(1 .. n, T)
    BY DEF Surjection
  <2> QED
    BY <1>2, <2>1, FS_Surjection
<1>6. Ids = ((E \cup {FlattenId}) \cup S) \cup T
  BY DEF Ids, m, n
<1> HIDE DEF E, S, T
<1>7. IsFiniteSet(E \cup {FlattenId})
  BY <1>3, FS_AddElement
<1>8. IsFiniteSet((E \cup {FlattenId}) \cup S)
  BY <1>4, <1>7, FS_Union
<1> QED
  BY <1>5, <1>6, <1>8, FS_Union

\* The three kinds of orders a trade has, and the flatten.
LEMMA IdKinds ==
  /\ FlattenId \in Ids /\ FlattenId.role = "flatten"
  /\ \A n \in 1 .. MaxEntries : Entry(n) \in Entries
  /\ \A n \in 1 .. MaxEntries + MaxRevisions :
       /\ Stop(n) \in Exits /\ Stop(n).role = "stop"
       /\ Target(n) \in Exits /\ Target(n).role = "target"
  /\ \A id \in Exits : id.role # "stop" => id.role = "target" /\ Stop(id.n) \in Exits
  /\ \A id \in Ids : /\ id.role \in {"entry", "stop", "target", "flatten"}
                     /\ id \in Entries <=> id.role = "entry"
                     /\ id.role = "flatten" => id = FlattenId
  /\ Entries \subseteq Ids /\ Exits \subseteq Ids
<1>1. FlattenId \in Ids /\ FlattenId.role = "flatten"
  BY DEF Ids, FlattenId
<1>2. \A n \in 1 .. MaxEntries : Entry(n) \in Entries
  BY DEF Ids, Entries, Entry
<1>3. \A n \in 1 .. MaxEntries + MaxRevisions :
        /\ Stop(n) \in Exits /\ Stop(n).role = "stop"
        /\ Target(n) \in Exits /\ Target(n).role = "target"
  BY DEF Ids, Exits, Stop, Target
<1>4. ASSUME NEW id \in Exits, id.role # "stop"
      PROVE  id.role = "target" /\ Stop(id.n) \in Exits
  <2>1. \E n \in 1 .. MaxEntries + MaxRevisions : id = Target(n)
    BY <1>4 DEF Ids, Exits, Stop, Target, Entry, FlattenId
  <2> QED
    BY <1>3, <2>1 DEF Target
<1>5. \A id \in Ids : /\ id.role \in {"entry", "stop", "target", "flatten"}
                      /\ id.role = "flatten" => id = FlattenId
  BY DEF Ids, Stop, Target, Entry, FlattenId
<1> QED
  BY <1>1, <1>2, <1>3, <1>4, <1>5 DEF Entries, Exits

LEMMA SessionParts ==
  ASSUME NEW s \in SessionType
  PROVE  /\ s.venue \in VenueType /\ s.broker \in BrokerType
         /\ s.engine \in EngineType /\ s.call \in CallType
         /\ s.venue.position \in Nat /\ s.broker.position \in Nat
         /\ s.venue.orders \in [Ids -> OrderType] /\ s.broker.cum \in [Ids -> Nat]
         /\ s.broker.tracked \in Seq(Ids) /\ s.broker.queue \in Seq(FillType)
         /\ s.call.fills \in Seq(FillType) /\ s.call.todo \in Seq(StepType)
         /\ \A id \in Ids : /\ s.venue.orders[id] \in OrderType
                            /\ s.venue.orders[id].qty \in Nat /\ s.venue.orders[id].filled \in Nat
                            /\ s.venue.orders[id].st \in Statuses
                            /\ s.broker.cum[id] \in Nat
         /\ Tracked(s.broker) \subseteq Ids
<1>1. /\ s.venue \in VenueType /\ s.broker \in BrokerType
      /\ s.engine \in EngineType /\ s.call \in CallType
  BY DEF SessionType
<1>2. /\ s.venue.position \in Nat /\ s.broker.position \in Nat
      /\ s.venue.orders \in [Ids -> OrderType] /\ s.broker.cum \in [Ids -> Nat]
      /\ s.broker.tracked \in Seq(Ids) /\ s.broker.queue \in Seq(FillType)
      /\ s.call.fills \in Seq(FillType) /\ s.call.todo \in Seq(StepType)
  BY <1>1 DEF VenueType, BrokerType, CallType
<1>3. \A id \in Ids : s.venue.orders[id] \in OrderType /\ s.broker.cum[id] \in Nat
  BY <1>2
<1>4. \A id \in Ids : /\ s.venue.orders[id].qty \in Nat /\ s.venue.orders[id].filled \in Nat
                      /\ s.venue.orders[id].st \in Statuses
  BY <1>3 DEF OrderType
<1>5. Tracked(s.broker) \subseteq Ids
  BY <1>2, SeqElements DEF Tracked
<1> QED
  BY <1>1, <1>2, <1>3, <1>4, <1>5

\* s and t differ in the order id alone, which keeps what Base says of one order.
Touched(s, t, id) ==
  /\ t \in SessionType /\ id \in Ids
  /\ \A j \in Ids \ {id} : /\ t.venue.orders[j] = s.venue.orders[j]
                           /\ t.broker.cum[j] = s.broker.cum[j]
                           /\ j \in Tracked(t.broker) <=> j \in Tracked(s.broker)
  /\ Distinct(t.broker.tracked)
  /\ Live(t.venue, id) => id \in Tracked(t.broker)
  /\ t.venue.orders[id].filled <= t.venue.orders[id].qty
  /\ id.role = "entry" /\ id \notin Tracked(t.broker) => t.broker.cum[id] = 0

\* Its part of each sum.
NoMoreExposed(s, t, id) ==
  t.venue.position + Room(t.venue)[id] <= s.venue.position + Room(s.venue)[id]
NoMoreHidden(s, t, id) ==
  t.venue.position - t.broker.position - NotSeen(t)[id]
    <= s.venue.position - s.broker.position - NotSeen(s)[id]

\* The values of the three functions summed.
LEMMA Summands ==
  ASSUME NEW s \in SessionType, \A id \in Ids : s.venue.orders[id].filled <= s.venue.orders[id].qty
  PROVE  /\ \A id \in Ids : /\ Room(s.venue)[id] \in Nat /\ NotSeen(s)[id] \in Int
                            /\ Working(s)[id] \in Nat
         /\ SumFunctionOnSet(Room(s.venue), Ids) \in Nat
         /\ SumFunctionOnSet(NotSeen(s), Ids) \in Int
         /\ SumFunctionOnSet(Working(s), Ids) \in Nat
         /\ \A id \in Ids : /\ Room(s.venue)[id] <= SumFunctionOnSet(Room(s.venue), Ids)
                            /\ Working(s)[id] <= SumFunctionOnSet(Working(s), Ids)
<1>2. ASSUME NEW id \in Ids
      PROVE  /\ Room(s.venue)[id] \in Nat /\ NotSeen(s)[id] \in Int /\ Working(s)[id] \in Nat
  <2> DEFINE o == s.venue.orders[id]
             c == s.broker.cum[id]
  <2>1. o.qty \in Nat /\ o.filled \in Nat /\ o.filled <= o.qty /\ c \in Nat
    BY SessionParts
  <2>2. Room(s.venue)[id] \in Nat
    BY <2>1 DEF Room
  <2>3. NotSeen(s)[id] \in Int
    BY <2>1 DEF NotSeen
  <2>4. Working(s)[id] \in Nat
    BY DEF Working
  <2> QED
    BY <2>2, <2>3, <2>4
<1> DEFINE r == Room(s.venue)
           h == NotSeen(s)
           w == Working(s)
<1> HIDE DEF r, h, w
<1>3. \A id \in Ids : r[id] \in Nat /\ h[id] \in Int /\ w[id] \in Nat
  BY <1>2 DEF r, h, w
<1>4. /\ SumFunctionOnSet(r, Ids) \in Nat
      /\ \A id \in Ids : r[id] <= SumFunctionOnSet(r, Ids)
  BY <1>3, IdsFinite, SumNat
<1>5. /\ SumFunctionOnSet(w, Ids) \in Nat
      /\ \A id \in Ids : w[id] <= SumFunctionOnSet(w, Ids)
  BY <1>3, IdsFinite, SumNat
<1>6. SumFunctionOnSet(h, Ids) \in Int
  BY <1>3, IdsFinite, SumType
<1> QED
  BY <1>3, <1>4, <1>5, <1>6 DEF r, h, w

\* The sums when one order was touched, and the invariants they are in.
LEMMA TouchedSums ==
  ASSUME NEW s, Base(s), NEW t, NEW id, Touched(s, t, id)
  PROVE  /\ \A i \in Ids : t.venue.orders[i].filled <= t.venue.orders[i].qty
         /\ SumFunctionOnSet(Room(t.venue), Ids)
            = SumFunctionOnSet(Room(s.venue), Ids) - Room(s.venue)[id] + Room(t.venue)[id]
         /\ SumFunctionOnSet(NotSeen(t), Ids)
            = SumFunctionOnSet(NotSeen(s), Ids) - NotSeen(s)[id] + NotSeen(t)[id]
         /\ SumFunctionOnSet(Working(t), Ids)
            = SumFunctionOnSet(Working(s), Ids) - Working(s)[id] + Working(t)[id]
<1>1. /\ s \in SessionType /\ t \in SessionType /\ id \in Ids
      /\ \A i \in Ids : s.venue.orders[i].filled <= s.venue.orders[i].qty
      /\ \A i \in Ids : t.venue.orders[i].filled <= t.venue.orders[i].qty
  BY DEF Base, Touched
<1>2. \A i \in Ids : /\ Room(s.venue)[i] \in Nat /\ NotSeen(s)[i] \in Int /\ Working(s)[i] \in Nat
                     /\ Room(t.venue)[i] \in Nat /\ NotSeen(t)[i] \in Int /\ Working(t)[i] \in Nat
  BY <1>1, Summands
<1>3. ASSUME NEW i \in Ids \ {id}
      PROVE  /\ Room(s.venue)[i] = Room(t.venue)[i] /\ NotSeen(s)[i] = NotSeen(t)[i]
             /\ Working(s)[i] = Working(t)[i]
  <2>1. /\ t.venue.orders[i] = s.venue.orders[i] /\ t.broker.cum[i] = s.broker.cum[i]
        /\ i \in Tracked(t.broker) <=> i \in Tracked(s.broker)
    BY DEF Touched
  <2>2. Room(s.venue)[i] = Room(t.venue)[i]
    BY <2>1 DEF Room, Live
  <2>3. NotSeen(s)[i] = NotSeen(t)[i]
    BY <2>1 DEF NotSeen
  <2>4. Working(s)[i] = Working(t)[i]
    BY <2>1 DEF Working
  <2> QED
    BY <2>2, <2>3, <2>4
<1> DEFINE r(x) == Room(x.venue)
<1> HIDE DEF r
<1>4. SumFunctionOnSet(r(t), Ids) = SumFunctionOnSet(r(s), Ids) - r(s)[id] + r(t)[id]
  <2>1. \A i \in Ids : r(s)[i] \in Int /\ r(t)[i] \in Int
    BY <1>2 DEF r
  <2>2. \A i \in Ids \ {id} : r(s)[i] = r(t)[i]
    BY <1>3 DEF r
  <2> QED
    BY <1>1, <2>1, <2>2, IdsFinite, SumUpdate
<1>5. SumFunctionOnSet(NotSeen(t), Ids)
      = SumFunctionOnSet(NotSeen(s), Ids) - NotSeen(s)[id] + NotSeen(t)[id]
  <2>1. \A i \in Ids : NotSeen(s)[i] \in Int /\ NotSeen(t)[i] \in Int
    BY <1>2
  <2>2. \A i \in Ids \ {id} : NotSeen(s)[i] = NotSeen(t)[i]
    BY <1>3
  <2> QED
    BY <1>1, <2>1, <2>2, IdsFinite, SumUpdate
<1>6. SumFunctionOnSet(Working(t), Ids)
      = SumFunctionOnSet(Working(s), Ids) - Working(s)[id] + Working(t)[id]
  <2>1. \A i \in Ids : Working(s)[i] \in Int /\ Working(t)[i] \in Int
    BY <1>2
  <2>2. \A i \in Ids \ {id} : Working(s)[i] = Working(t)[i]
    BY <1>3
  <2> QED
    BY <1>1, <2>1, <2>2, IdsFinite, SumUpdate
<1> QED
  BY <1>1, <1>4, <1>5, <1>6 DEF r

\* All of Base but the exposure.
LEMMA TouchedOrders ==
  ASSUME NEW s, Base(s), NEW t, NEW id, Touched(s, t, id), Exposed(t.venue)
  PROVE  Base(t)
<1>1. ASSUME NEW i \in Ids, Live(t.venue, i) PROVE i \in Tracked(t.broker)
  <2>1. CASE i = id
    BY <1>1, <2>1 DEF Touched
  <2>2. CASE i # id
    <3>1. /\ t.venue.orders[i] = s.venue.orders[i]
          /\ i \in Tracked(t.broker) <=> i \in Tracked(s.broker)
      BY <2>2 DEF Touched
    <3> QED
      BY <1>1, <3>1 DEF Base, Live
  <2> QED
    BY <2>1, <2>2
<1>2. ASSUME NEW i \in Entries, i \notin Tracked(t.broker) PROVE t.broker.cum[i] = 0
  <2>1. i \in Ids /\ i.role = "entry"
    BY DEF Entries
  <2>2. CASE i = id
    BY <1>2, <2>1, <2>2 DEF Touched
  <2>3. CASE i # id
    <3>1. /\ t.broker.cum[i] = s.broker.cum[i]
          /\ i \in Tracked(t.broker) <=> i \in Tracked(s.broker)
      BY <2>1, <2>3 DEF Touched
    <3> QED
      BY <1>2, <3>1 DEF Base
  <2> QED
    BY <2>2, <2>3
<1>3. \A i \in Ids : t.venue.orders[i].filled <= t.venue.orders[i].qty
  BY TouchedSums
<1>4. t \in SessionType /\ Distinct(t.broker.tracked)
  BY DEF Touched
<1> QED
  BY <1>1, <1>2, <1>3, <1>4 DEF Base

LEMMA TouchedBase ==
  ASSUME NEW s, Base(s), NEW t, NEW id, Touched(s, t, id), NoMoreExposed(s, t, id)
  PROVE  Base(t)
<1> DEFINE R == SumFunctionOnSet(Room(s.venue), Ids)
           Q == SumFunctionOnSet(Room(t.venue), Ids)
           a == Room(s.venue)[id]
           b == Room(t.venue)[id]
<1>1. /\ s \in SessionType /\ t \in SessionType /\ id \in Ids
      /\ \A i \in Ids : s.venue.orders[i].filled <= s.venue.orders[i].qty
      /\ \A i \in Ids : t.venue.orders[i].filled <= t.venue.orders[i].qty
  BY TouchedSums DEF Base, Touched
<1>2. R \in Nat /\ Q \in Nat /\ a \in Nat /\ b \in Nat
  BY <1>1, Summands
<1>3. Q = R - a + b
  BY TouchedSums
<1>4. s.venue.position + R <= Qty
  BY DEF Base, Exposed
<1>5. t.venue.position + b <= s.venue.position + a
  BY DEF NoMoreExposed
<1>6. s.venue.position \in Nat /\ t.venue.position \in Nat /\ Qty \in Nat
  BY <1>1, SessionParts, SandboxAssumption
<1> HIDE DEF R, Q, a, b
<1>7. t.venue.position + Q <= Qty
  BY <1>2, <1>3, <1>4, <1>5, <1>6
<1> QED
  BY <1>7, TouchedOrders DEF Q, Exposed

LEMMA TouchedAccounted ==
  ASSUME NEW s, Base(s), NEW t, NEW id, Touched(s, t, id), NoMoreHidden(s, t, id), Accounted(s)
  PROVE  Accounted(t)
<1> DEFINE R == SumFunctionOnSet(NotSeen(s), Ids)
           Q == SumFunctionOnSet(NotSeen(t), Ids)
           a == NotSeen(s)[id]
           b == NotSeen(t)[id]
<1>1. /\ s \in SessionType /\ t \in SessionType /\ id \in Ids
      /\ \A i \in Ids : s.venue.orders[i].filled <= s.venue.orders[i].qty
      /\ \A i \in Ids : t.venue.orders[i].filled <= t.venue.orders[i].qty
  BY TouchedSums DEF Base, Touched
<1>2. R \in Int /\ Q \in Int /\ a \in Int /\ b \in Int
  BY <1>1, Summands
<1>3. Q = R - a + b
  BY TouchedSums
<1>4. s.venue.position <= s.broker.position + R
  BY DEF Accounted
<1>5. t.venue.position - t.broker.position - b <= s.venue.position - s.broker.position - a
  BY DEF NoMoreHidden
<1>6. /\ s.venue.position \in Nat /\ t.venue.position \in Nat
      /\ s.broker.position \in Nat /\ t.broker.position \in Nat
  BY <1>1, SessionParts
<1> HIDE DEF R, Q, a, b
<1>7. t.venue.position <= t.broker.position + Q
  BY <1>2, <1>3, <1>4, <1>5, <1>6
<1> QED
  BY <1>7 DEF Q, Accounted

-----------------------------------------------------------------------------
(***************************************************************************)
(* The venue.                                                              *)
(***************************************************************************)
LEMMA MinOfTwo ==
  ASSUME NEW x \in Int, NEW y \in Int
  PROVE  Min({x, y}) = IF x <= y THEN x ELSE y
BY DEF Min

LEMMA MaxOfTwo ==
  ASSUME NEW x \in Int, NEW y \in Int
  PROVE  Max({x, y}) = IF x <= y THEN y ELSE x
BY DEF Max

\* w is v after the order id executed k.
Executes(v, w, id, k) ==
  /\ w \in VenueType /\ k \in Nat /\ k > 0
  /\ \A j \in Ids \ {id} : w.orders[j] = v.orders[j]
  /\ w.orders[id].qty = v.orders[id].qty
  /\ w.orders[id].filled = v.orders[id].filled + k /\ w.orders[id].filled <= w.orders[id].qty
  /\ w.orders[id].st = IF w.orders[id].filled = w.orders[id].qty THEN "filled" ELSE v.orders[id].st
  /\ IF id.role = "entry" THEN w.position = v.position + k
     ELSE k <= v.position /\ w.position = v.position - k

LEMMA ExecutedFacts ==
  ASSUME NEW v \in VenueType, NEW id \in Ids, v.orders[id].filled <= v.orders[id].qty,
         NEW k \in 1 .. Executable(v, id)
  PROVE  Executes(v, Executed(v, id, k), id, k)
<1> DEFINE o == v.orders[id]
           w == Executed(v, id, k)
           left == o.qty - o.filled
<1>1. /\ v.orders \in [Ids -> OrderType] /\ v.position \in Nat /\ v.faults \in Nat
      /\ o \in OrderType
  BY DEF VenueType
<1>2. /\ o.qty \in Nat /\ o.filled \in Nat /\ o.st \in Statuses /\ o.conditional \in BOOLEAN
      /\ left \in Nat
  BY <1>1 DEF OrderType
<1>3. /\ k \in Nat /\ k > 0 /\ k <= left
      /\ id.role # "entry" => k <= v.position
  <2>1. Executable(v, id) = IF id.role = "entry" THEN left ELSE Min({left, v.position})
    BY DEF Executable
  <2>2. Min({left, v.position}) = IF left <= v.position THEN left ELSE v.position
    BY <1>1, <1>2, MinOfTwo
  <2>3. k \in 1 .. Executable(v, id)
    OBVIOUS
  <2> HIDE DEF left
  <2>4. CASE id.role = "entry"
    BY <1>2, <2>1, <2>3, <2>4
  <2>5. CASE id.role # "entry"
    <3>1. Executable(v, id) = IF left <= v.position THEN left ELSE v.position
      BY <2>1, <2>2, <2>5
    <3> QED
      BY <1>1, <1>2, <2>3, <2>5, <3>1
  <2> QED
    BY <2>4, <2>5
<1> DEFINE p == [o EXCEPT !.filled = @ + k,
                          !.st = IF o.filled + k = o.qty THEN "filled" ELSE @]
<1>4. w = [v EXCEPT !.orders[id] = p, !.position = IF id.role = "entry" THEN @ + k ELSE @ - k]
  BY DEF Executed
<1>5. /\ p \in OrderType /\ p.qty = o.qty /\ p.filled = o.filled + k /\ p.filled <= p.qty
      /\ p.st = IF p.filled = p.qty THEN "filled" ELSE o.st
  <2> DEFINE filled == o.filled + k
             st == IF o.filled + k = o.qty THEN "filled" ELSE o.st
  <2>1. p = [o EXCEPT !.filled = filled, !.st = st]
    OBVIOUS
  <2>2. filled \in Nat /\ filled <= o.qty
    BY <1>2, <1>3
  <2>3. st \in Statuses
    BY <1>2 DEF Statuses
  <2>4. filled = o.filled + k /\ st = IF filled = o.qty THEN "filled" ELSE o.st
    OBVIOUS
  <2> HIDE DEF p, o, filled, st
  <2>5. p \in OrderType /\ p.filled = filled /\ p.st = st /\ p.qty = o.qty
    BY <1>1, <2>1, <2>2, <2>3 DEF OrderType
  <2> QED
    BY <2>2, <2>4, <2>5
<1> HIDE DEF p
<1>6. /\ w.orders = [v.orders EXCEPT ![id] = p]
      /\ w.position = IF id.role = "entry" THEN v.position + k ELSE v.position - k
      /\ w.faults = v.faults
      /\ w = [orders |-> w.orders, position |-> w.position, faults |-> w.faults]
  BY <1>4 DEF VenueType
<1> HIDE DEF w
<1>7. /\ w.orders \in [Ids -> OrderType] /\ w.orders[id] = p
      /\ \A j \in Ids \ {id} : w.orders[j] = v.orders[j]
  BY <1>1, <1>5, <1>6
<1>8. w.position \in Nat
  BY <1>1, <1>3, <1>6
<1>9. w \in VenueType
  BY <1>1, <1>6, <1>7, <1>8 DEF VenueType
<1> QED
  BY <1>3, <1>5, <1>6, <1>7, <1>9 DEF Executes, w

\* The state of a new order, of which k was executed at once.
Places(v, w, id, qty, conditional) ==
  /\ w \in VenueType
  /\ \A j \in Ids \ {id} : w.orders[j] = v.orders[j]
  /\ w.orders[id].qty = qty /\ w.orders[id].filled <= qty
  /\ w.orders[id].st \in {"sent", "open", "filled", "rejected"}
  /\ w.orders[id].st = "filled" => w.orders[id].filled = qty
  /\ w.orders[id].st \in {"sent", "open"} => w.orders[id].filled < qty \/ qty = 0
  /\ w.orders[id].st = "rejected" => w.orders[id].filled = 0
  /\ conditional => w.orders[id].filled = 0
  /\ IF id.role = "entry" THEN w.position = v.position + w.orders[id].filled
     ELSE w.position = v.position - w.orders[id].filled

LEMMA NoOrderType == NoOrder \in OrderType
BY DEF NoOrder, OrderType, Statuses

LEMMA PlacedFacts ==
  ASSUME NEW v \in VenueType, NEW id \in Ids, NEW qty \in Nat, NEW conditional \in BOOLEAN
  PROVE  /\ \A w \in Placed(v, id, qty, conditional) :
              Places(v, w, id, qty, conditional) /\ w.orders[id].st # "sent"
         /\ Places(v, [v EXCEPT !.orders[id] = [NoOrder EXCEPT !.st = "sent", !.qty = qty,
                                                       !.conditional = conditional]],
                   id, qty, conditional)
<1> DEFINE order(st) == [NoOrder EXCEPT !.st = st, !.qty = qty, !.conditional = conditional]
           put(o) == [v EXCEPT !.orders[id] = o]
           open == put(order("open"))
           rejected == [open EXCEPT !.orders[id].st = "rejected"]
<1>1. v.orders \in [Ids -> OrderType] /\ v.position \in Nat /\ v.faults \in Nat
  BY DEF VenueType
<1>2. ASSUME NEW o \in OrderType
      PROVE  /\ put(o) \in VenueType /\ put(o).position = v.position
             /\ put(o).orders[id] = o
             /\ \A j \in Ids \ {id} : put(o).orders[j] = v.orders[j]
  <2>1. put(o).orders = [v.orders EXCEPT ![id] = o] /\ put(o).position = v.position
    BY DEF VenueType
  <2>2. put(o) \in VenueType
    BY <1>1 DEF VenueType
  <2> QED
    BY <1>1, <2>1, <2>2
<1>3. ASSUME NEW st \in {"open", "sent"}
      PROVE  /\ order(st) \in OrderType /\ order(st).st = st /\ order(st).qty = qty
             /\ order(st).filled = 0
  <2>1. st \in Statuses
    BY DEF Statuses
  <2>2. order(st) \in OrderType
    BY <2>1, NoOrderType DEF OrderType
  <2> QED
    BY <2>2 DEF NoOrder
<1> HIDE DEF order
<1> DEFINE refused == [order("open") EXCEPT !.st = "rejected"]
<1>4. rejected = put(refused)
  <2>1. put(order("open")).orders = [v.orders EXCEPT ![id] = order("open")]
    BY DEF VenueType
  <2>2. [put(order("open")) EXCEPT !.orders[id].st = "rejected"] = put(refused)
    BY <1>1, <2>1 DEF VenueType
  <2> QED
    BY <2>2
<1>5. /\ refused \in OrderType /\ refused.st = "rejected" /\ refused.qty = qty
      /\ refused.filled = 0
  <2>1. order("open") \in OrderType /\ "rejected" \in Statuses
    BY <1>3 DEF Statuses
  <2>2. refused \in OrderType /\ refused.st = "rejected"
    BY <2>1 DEF OrderType
  <2> QED
    BY <1>3, <2>1, <2>2 DEF OrderType
<1>6. Placed(v, id, qty, conditional)
      = {open, rejected}
          \cup IF conditional THEN {}
               ELSE {Executed(open, id, k) : k \in 1 .. Executable(open, id)}
  BY DEF Placed, order
<1> HIDE DEF refused
<1>7. /\ \A o \in OrderType :
           o.st \in {"open", "sent", "rejected"} /\ o.qty = qty /\ o.filled = 0 =>
             Places(v, put(o), id, qty, conditional)
  <2> SUFFICES ASSUME NEW o \in OrderType, o.st \in {"open", "sent", "rejected"}, o.qty = qty,
                      o.filled = 0
               PROVE  Places(v, put(o), id, qty, conditional)
    OBVIOUS
  <2>1. /\ put(o) \in VenueType /\ put(o).position = v.position
        /\ put(o).orders[id] = o
        /\ \A j \in Ids \ {id} : put(o).orders[j] = v.orders[j]
    BY <1>2
  <2> HIDE DEF put
  <2>2. qty = 0 \/ 0 < qty
    OBVIOUS
  <2> QED
    BY <1>1, <2>1, <2>2 DEF Places
<1>8. ASSUME NEW k \in 1 .. Executable(open, id)
      PROVE  /\ Places(v, Executed(open, id, k), id, qty, FALSE)
             /\ Executed(open, id, k).orders[id].st # "sent"
  <2> DEFINE w == Executed(open, id, k)
  <2>1. /\ open \in VenueType /\ open.position = v.position
        /\ \A j \in Ids \ {id} : open.orders[j] = v.orders[j]
        /\ open.orders[id].st = "open" /\ open.orders[id].qty = qty
        /\ open.orders[id].filled = 0
    BY <1>2, <1>3
  <2> HIDE DEF open
  <2>2. Executes(open, w, id, k)
    BY <2>1, ExecutedFacts
  <2> HIDE DEF w
  <2>3. /\ w \in VenueType /\ \A j \in Ids \ {id} : w.orders[j] = v.orders[j]
        /\ w.orders[id].qty = qty /\ w.orders[id].filled = k /\ k <= qty /\ k \in Nat
        /\ w.orders[id].st = IF k = qty THEN "filled" ELSE "open"
        /\ IF id.role = "entry" THEN w.position = v.position + k ELSE w.position = v.position - k
    BY <2>1, <2>2 DEF Executes
  <2>4. Places(v, w, id, qty, FALSE) /\ w.orders[id].st # "sent"
    BY <2>3 DEF Places
  <2> QED
    BY <2>4 DEF w
<1>9. /\ Places(v, open, id, qty, conditional) /\ open.orders[id].st # "sent"
      /\ Places(v, rejected, id, qty, conditional) /\ rejected.orders[id].st # "sent"
  <2>1. open.orders[id] = order("open") /\ put(refused).orders[id] = refused
    BY <1>2, <1>3, <1>5
  <2>2. Places(v, open, id, qty, conditional) /\ Places(v, put(refused), id, qty, conditional)
    BY <1>3, <1>5, <1>7
  <2> HIDE DEF open, put, rejected
  <2> QED
    BY <1>3, <1>4, <1>5, <2>1, <2>2
<1>10. ASSUME NEW w \in Placed(v, id, qty, conditional)
       PROVE  Places(v, w, id, qty, conditional) /\ w.orders[id].st # "sent"
  <2> HIDE DEF open, rejected
  <2>1. CASE w \in {open, rejected}
    BY <1>9, <2>1
  <2>2. CASE ~conditional /\ w \in {Executed(open, id, k) : k \in 1 .. Executable(open, id)}
    BY <1>8, <2>2
  <2> QED
    BY <1>6, <2>1, <2>2
<1>11. Places(v, put(order("sent")), id, qty, conditional)
  BY <1>3, <1>7
<1> QED
  BY <1>10, <1>11 DEF order

-----------------------------------------------------------------------------
(***************************************************************************)
(* Requests.                                                               *)
(***************************************************************************)
\* What a request leaves alone of the handler under way, and of the session.
SameHandler(c, d) ==
  /\ d.mode = c.mode /\ d.todo = c.todo /\ d.fills = c.fills /\ d.acks = c.acks
  /\ d.error = c.error /\ d.needAck = c.needAck /\ d.canceled = c.canceled /\ d.flat = c.flat
  /\ d.drained = c.drained /\ d.closed = c.closed /\ d.raising = c.raising

Requested(s, t) ==
  /\ t \in SessionType /\ t.broker = s.broker /\ t.engine = s.engine
  /\ SameHandler(s.call, t.call)

LEMMA FailFacts ==
  ASSUME NEW s \in SessionType
  PROVE  Requested(s, Fail(s)) /\ Fail(s).venue = s.venue /\ Fail(s).call.failure
<1> DEFINE t == Fail(s)
<1>1. t = [s EXCEPT !.call.failure = TRUE]
  BY DEF Fail
<1> HIDE DEF t
<1>2. /\ t.venue = s.venue /\ t.broker = s.broker /\ t.engine = s.engine
      /\ t.call = [s.call EXCEPT !.failure = TRUE] /\ s.call \in CallType
  BY <1>1 DEF SessionType
<1>3. t.call \in CallType /\ SameHandler(s.call, t.call) /\ t.call.failure
  BY <1>2 DEF CallType, SameHandler
<1>4. t = [s EXCEPT !.call = t.call]
  BY <1>1, <1>2 DEF SessionType
<1>5. t \in SessionType
  BY <1>3, <1>4 DEF SessionType
<1> QED
  BY <1>2, <1>3, <1>5 DEF Requested, t

LEMMA RepliedFacts ==
  ASSUME NEW s \in SessionType, NEW v \in VenueType, NEW id \in Ids
  PROVE  /\ Requested(s, Replied(s, v, id)) /\ Replied(s, v, id).venue = v
         /\ Replied(s, v, id).call.reply = v.orders[id].st
         /\ Replied(s, v, id).call.failure = s.call.failure
<1> DEFINE t == Replied(s, v, id)
           reply == v.orders[id].st
<1>1. t = [s EXCEPT !.venue = v, !.call.reply = reply]
  BY DEF Replied
<1>2. reply \in Statuses
  <2>1. v.orders[id] \in OrderType
    BY DEF VenueType
  <2> QED
    BY <2>1 DEF OrderType
<1> HIDE DEF t, reply
<1>3. /\ t.venue = v /\ t.broker = s.broker /\ t.engine = s.engine
      /\ t.call = [s.call EXCEPT !.reply = reply] /\ s.call \in CallType
  BY <1>1 DEF SessionType
<1>4. /\ t.call \in CallType /\ SameHandler(s.call, t.call) /\ t.call.reply = reply
      /\ t.call.failure = s.call.failure
  BY <1>2, <1>3 DEF CallType, SameHandler
<1>5. t = [s EXCEPT !.venue = v, !.call = t.call]
  BY <1>1, <1>3 DEF SessionType
<1>6. t \in SessionType
  BY <1>4, <1>5 DEF SessionType
<1> QED
  BY <1>3, <1>4, <1>6 DEF Requested, t, reply

LEMMA OtherVenue ==
  ASSUME NEW s \in SessionType, NEW v \in VenueType
  PROVE  /\ Requested(s, [s EXCEPT !.venue = v]) /\ [s EXCEPT !.venue = v].venue = v
         /\ [s EXCEPT !.venue = v].call = s.call
BY DEF SessionType, Requested, SameHandler

\* A request that failed left what it would have left, or nothing.
LEMMA LostFacts ==
  ASSUME NEW S, S \subseteq SessionType, NEW t \in Lost(S)
  PROVE  \E s \in S : /\ Requested(s, t) /\ t.call.failure
                      /\ t.venue.orders = s.venue.orders /\ t.venue.position = s.venue.position
<1>1. PICK s \in S : t = Fail([s EXCEPT !.venue.faults = @ + 1])
  BY DEF Lost
<1> DEFINE v == [s.venue EXCEPT !.faults = @ + 1]
           r == [s EXCEPT !.venue = v]
<1>2. s \in SessionType /\ s.venue \in VenueType /\ s.venue.faults \in Nat
  BY DEF SessionType, VenueType
<1>3. v \in VenueType /\ v.orders = s.venue.orders /\ v.position = s.venue.position
  <2>1. s.venue.faults + 1 \in Nat
    BY <1>2
  <2> QED
    BY <1>2, <2>1 DEF VenueType
<1>4. [s EXCEPT !.venue.faults = @ + 1] = r
  BY <1>2 DEF SessionType
<1> HIDE DEF v
<1>5. Requested(s, r) /\ r.venue = v
  BY <1>2, <1>3, OtherVenue
<1> HIDE DEF r
<1>6. Requested(r, t) /\ t.venue = r.venue /\ t.call.failure
  BY <1>1, <1>4, <1>5, FailFacts DEF Requested
<1> QED
  BY <1>3, <1>5, <1>6 DEF Requested, SameHandler

\* t is s after an order was posted: refused when its id is in use, and otherwise new.
Posted(s, t, id, qty, conditional) ==
  /\ Requested(s, t)
  /\ \/ t.venue = s.venue /\ t.call.failure
     \/ \E w \in VenueType :
          /\ ~Live(s.venue, id)
          /\ Places(s.venue, w, id, qty, conditional)
          /\ t.venue.orders = w.orders /\ t.venue.position = w.position
          /\ ~t.call.failure => t.call.reply = w.orders[id].st /\ w.orders[id].st # "sent"

LEMMA PostFacts ==
  ASSUME NEW s \in SessionType, NEW id \in Ids, NEW qty \in Nat, NEW conditional \in BOOLEAN,
         NEW t \in Post(s, id, qty, conditional), ~s.call.failure
  PROVE  Posted(s, t, id, qty, conditional)
<1> DEFINE placed == Placed(s.venue, id, qty, conditional)
           sent == [s.venue EXCEPT !.orders[id] = [NoOrder EXCEPT !.st = "sent", !.qty = qty,
                                                                  !.conditional = conditional]]
<1>1. s.venue \in VenueType
  BY SessionParts
<1>2. /\ \A w \in placed : Places(s.venue, w, id, qty, conditional) /\ w.orders[id].st # "sent"
      /\ Places(s.venue, sent, id, qty, conditional)
  BY <1>1, PlacedFacts
<1>3. t \in IF Live(s.venue, id) THEN {Fail(s)}
            ELSE {Replied(s, v, id) : v \in placed}
                   \cup Lost({[s EXCEPT !.venue = v] : v \in placed \cup {sent}})
  BY DEF Post
<1> HIDE DEF placed, sent
<1>4. CASE Live(s.venue, id)
  <2>1. t = Fail(s)
    BY <1>3, <1>4
  <2> QED
    BY <2>1, FailFacts DEF Posted
<1>5. CASE ~Live(s.venue, id) /\ t \in {Replied(s, v, id) : v \in placed}
  <2>1. PICK w \in placed : t = Replied(s, w, id)
    BY <1>5
  <2>2. w \in VenueType /\ Places(s.venue, w, id, qty, conditional) /\ w.orders[id].st # "sent"
    BY <1>2 DEF Places
  <2>3. Requested(s, t) /\ t.venue = w /\ t.call.reply = w.orders[id].st
    BY <2>1, <2>2, RepliedFacts
  <2> QED
    BY <1>5, <2>2, <2>3 DEF Posted
<1>6. CASE ~Live(s.venue, id) /\ t \in Lost({[s EXCEPT !.venue = v] : v \in placed \cup {sent}})
  <2> DEFINE S == {[s EXCEPT !.venue = v] : v \in placed \cup {sent}}
  <2>1. \A w \in placed \cup {sent} : w \in VenueType /\ Places(s.venue, w, id, qty, conditional)
    BY <1>2 DEF Places
  <2>2. ASSUME NEW r \in S
        PROVE  r \in SessionType /\ \E w \in placed \cup {sent} : Requested(s, r) /\ r.venue = w
    <3>1. PICK w \in placed \cup {sent} : r = [s EXCEPT !.venue = w]
      OBVIOUS
    <3>2. Requested(s, r) /\ r.venue = w
      BY <2>1, <3>1, OtherVenue
    <3> QED
      BY <3>2 DEF Requested
  <2>3. t \in Lost(S) /\ S \subseteq SessionType
    BY <1>6, <2>2
  <2> HIDE DEF S
  <2>4. PICK r \in S : /\ Requested(r, t) /\ t.call.failure
                       /\ t.venue.orders = r.venue.orders /\ t.venue.position = r.venue.position
    BY <2>3, LostFacts
  <2>5. PICK w \in placed \cup {sent} : Requested(s, r) /\ r.venue = w
    BY <2>2
  <2>6. Requested(s, t)
    BY <2>4, <2>5 DEF Requested, SameHandler
  <2>7. w \in VenueType /\ Places(s.venue, w, id, qty, conditional)
    BY <2>1
  <2>8. t.venue.orders = w.orders /\ t.venue.position = w.position
    BY <2>4, <2>5
  <2> QED
    BY <1>6, <2>4, <2>6, <2>7, <2>8 DEF Posted
<1> QED
  BY <1>3, <1>4, <1>5, <1>6

\* t is s after the cancellation of an order: it may have ended, and nothing else changed.
Deleted(s, t, id) ==
  /\ Requested(s, t)
  /\ \A j \in Ids \ {id} : t.venue.orders[j] = s.venue.orders[j]
  /\ t.venue.position = s.venue.position
  /\ t.venue.orders[id].qty = s.venue.orders[id].qty
  /\ t.venue.orders[id].filled = s.venue.orders[id].filled
  /\ t.venue.orders[id].st \in {s.venue.orders[id].st, "canceled"}
  /\ ~t.call.failure => /\ t.venue.orders[id].st \in {"canceled", "filled", "expired"}
                        /\ t.call.reply = t.venue.orders[id].st

LEMMA DeleteFacts ==
  ASSUME NEW s \in SessionType, NEW id \in Ids, NEW t \in Delete(s, id), ~s.call.failure
  PROVE  Deleted(s, t, id)
<1> DEFINE o == s.venue.orders[id]
           v == [s.venue EXCEPT !.orders[id].st = "canceled"]
           done == Replied(s, v, id)
<1>1. s.venue \in VenueType /\ s.venue.orders \in [Ids -> OrderType] /\ o \in OrderType
  BY SessionParts
<1>2. /\ v \in VenueType /\ v.position = s.venue.position
      /\ \A j \in Ids \ {id} : v.orders[j] = s.venue.orders[j]
      /\ v.orders[id].st = "canceled" /\ v.orders[id].qty = o.qty
      /\ v.orders[id].filled = o.filled
  <2> DEFINE p == [o EXCEPT !.st = "canceled"]
  <2>1. "canceled" \in Statuses
    BY DEF Statuses
  <2>2. p \in OrderType /\ p.st = "canceled" /\ p.qty = o.qty /\ p.filled = o.filled
    BY <1>1, <2>1 DEF OrderType
  <2>3. v = [s.venue EXCEPT !.orders[id] = p]
    BY <1>1 DEF VenueType
  <2> HIDE DEF p, v
  <2>4. v.orders = [s.venue.orders EXCEPT ![id] = p] /\ v.position = s.venue.position
    BY <1>1, <2>3 DEF VenueType
  <2>5. v \in VenueType
    BY <1>1, <2>2, <2>3 DEF VenueType
  <2> QED
    BY <1>1, <2>2, <2>4, <2>5
<1>3. t \in Lost({s}) \cup
        IF o.st = "open" THEN {done} \cup Lost({done})
        ELSE {Fail(s)} \cup IF o.st \in {"filled", "expired"} /\ o.conditional
                            THEN {Replied(s, s.venue, id)} ELSE {}
  BY DEF Delete
<1> HIDE DEF v
<1>4. Requested(s, done) /\ done.venue = v /\ done.call.reply = "canceled"
  BY <1>2, RepliedFacts
<1> HIDE DEF done
<1>5. CASE t \in Lost({s})
  <2>1. {s} \subseteq SessionType
    OBVIOUS
  <2>2. /\ Requested(s, t) /\ t.call.failure
        /\ t.venue.orders = s.venue.orders /\ t.venue.position = s.venue.position
    BY <1>5, <2>1, LostFacts
  <2> QED
    BY <2>2 DEF Deleted
<1>6. CASE t = done
  BY <1>2, <1>4, <1>6 DEF Deleted
<1>7. CASE t \in Lost({done})
  <2>1. {done} \subseteq SessionType
    BY <1>4 DEF Requested
  <2>2. /\ Requested(done, t) /\ t.call.failure
        /\ t.venue.orders = done.venue.orders /\ t.venue.position = done.venue.position
    BY <1>7, <2>1, LostFacts
  <2>3. Requested(s, t)
    BY <1>4, <2>2 DEF Requested, SameHandler
  <2> QED
    BY <1>2, <1>4, <2>2, <2>3 DEF Deleted
<1>8. CASE t = Fail(s)
  <2>1. Requested(s, t) /\ t.venue = s.venue /\ t.call.failure
    BY <1>8, FailFacts
  <2> QED
    BY <2>1 DEF Deleted
<1>9. CASE o.st \in {"filled", "expired"} /\ t = Replied(s, s.venue, id)
  <2>1. Requested(s, t) /\ t.venue = s.venue /\ t.call.reply = o.st
    BY <1>1, <1>9, RepliedFacts
  <2> QED
    BY <1>9, <2>1 DEF Deleted
<1> QED
  BY <1>3, <1>5, <1>6, <1>7, <1>8, <1>9

-----------------------------------------------------------------------------
(***************************************************************************)
(* The broker's bookkeeping.                                               *)
(***************************************************************************)
\* Only the broker's tracked orders, what it has seen of them and its position change.
Booked(s, t) ==
  /\ t \in SessionType /\ t.venue = s.venue /\ t.engine = s.engine /\ t.call = s.call
  /\ t.broker.queue = s.broker.queue /\ t.broker.active = s.broker.active
  /\ t.broker.revision = s.broker.revision

LEMMA BookedFacts ==
  ASSUME NEW s \in SessionType, NEW b \in BrokerType, b.queue = s.broker.queue,
         b.active = s.broker.active, b.revision = s.broker.revision
  PROVE  Booked(s, [s EXCEPT !.broker = b]) /\ [s EXCEPT !.broker = b].broker = b
BY DEF Booked, SessionType

LEMMA TrackFacts ==
  ASSUME NEW s \in SessionType, Distinct(s.broker.tracked), NEW id \in Ids
  PROVE  LET t == TrackOrder(s, id)
         IN /\ Booked(s, t) /\ t.broker.cum = s.broker.cum
            /\ t.broker.position = s.broker.position
            /\ Distinct(t.broker.tracked)
            /\ Tracked(t.broker) = Tracked(s.broker) \cup {id}
<1> DEFINE t == TrackOrder(s, id)
           tracked == IF id \in Range(s.broker.tracked) THEN s.broker.tracked
                      ELSE Append(s.broker.tracked, id)
           b == [s.broker EXCEPT !.tracked = tracked]
<1>1. s.broker \in BrokerType /\ s.broker.tracked \in Seq(Ids)
  BY SessionParts
<1>2. /\ tracked \in Seq(Ids) /\ Distinct(tracked)
      /\ Range(tracked) = Range(s.broker.tracked) \cup {id}
  BY <1>1, Added
<1>3. t = [s EXCEPT !.broker = b]
  BY DEF TrackOrder, SessionType
<1> HIDE DEF tracked, t
<1>4. /\ b \in BrokerType /\ b.tracked = tracked /\ b.cum = s.broker.cum
      /\ b.position = s.broker.position /\ b.queue = s.broker.queue
      /\ b.active = s.broker.active /\ b.revision = s.broker.revision
  BY <1>1, <1>2 DEF BrokerType
<1> HIDE DEF b
<1>5. Booked(s, t) /\ t.broker = b
  BY <1>3, <1>4, BookedFacts
<1> QED
  BY <1>2, <1>4, <1>5 DEF Tracked, t

Forgets(s, t, id) ==
  /\ Booked(s, t) /\ t.broker.position = s.broker.position
  /\ t.broker.cum[id] = 0 /\ \A j \in Ids \ {id} : t.broker.cum[j] = s.broker.cum[j]
  /\ Distinct(t.broker.tracked)
  /\ Tracked(t.broker) = Tracked(s.broker) \ {id}

LEMMA ForgetFacts ==
  ASSUME NEW s \in SessionType, Distinct(s.broker.tracked), NEW id \in Ids
  PROVE  Forgets(s, ForgetOrder(s, id), id)
<1> DEFINE t == ForgetOrder(s, id)
           tracked == RemoveFirst(s.broker.tracked, id)
           b == [s.broker EXCEPT !.tracked = tracked, !.cum = [s.broker.cum EXCEPT ![id] = 0]]
<1>1. /\ s.broker \in BrokerType /\ s.broker.tracked \in Seq(Ids)
      /\ s.broker.cum \in [Ids -> Nat]
  BY SessionParts
<1>2. /\ tracked \in Seq(Ids) /\ Distinct(tracked)
      /\ Range(tracked) = Range(s.broker.tracked) \ {id}
  BY <1>1, Removed
<1>3. t = [s EXCEPT !.broker = b]
  BY <1>1 DEF ForgetOrder, SessionType, BrokerType
<1> HIDE DEF tracked, t
<1>4. /\ b \in BrokerType /\ b.tracked = tracked /\ b.cum = [s.broker.cum EXCEPT ![id] = 0]
      /\ b.position = s.broker.position /\ b.queue = s.broker.queue
      /\ b.active = s.broker.active /\ b.revision = s.broker.revision
  BY <1>1, <1>2 DEF BrokerType
<1> HIDE DEF b
<1>5. Booked(s, t) /\ t.broker = b
  BY <1>3, <1>4, BookedFacts
<1> QED
  BY <1>1, <1>2, <1>4, <1>5 DEF Tracked, Forgets, t

Applies(s, t, fill) ==
  /\ Booked(s, t) /\ t.broker.tracked = s.broker.tracked /\ t.broker.cum = s.broker.cum
  /\ t.broker.position = IF fill.role = "entry" THEN s.broker.position + fill.qty
                         ELSE IF s.broker.position <= fill.qty THEN 0
                              ELSE s.broker.position - fill.qty

LEMMA ApplyFacts ==
  ASSUME NEW s \in SessionType, NEW fill \in FillType
  PROVE  Applies(s, ApplyFill(s, fill), fill)
<1> DEFINE t == ApplyFill(s, fill)
           p == IF fill.role = "entry" THEN s.broker.position + fill.qty
                ELSE Max({0, s.broker.position - fill.qty})
           b == [s.broker EXCEPT !.position = p]
<1>1. s.broker \in BrokerType /\ s.broker.position \in Nat /\ fill.qty \in Nat
  BY SessionParts DEF FillType
<1>2. p \in Nat /\ p = IF fill.role = "entry" THEN s.broker.position + fill.qty
                       ELSE IF s.broker.position <= fill.qty THEN 0
                            ELSE s.broker.position - fill.qty
  <2> DEFINE rest == s.broker.position - fill.qty
  <2>1. rest \in Int
    BY <1>1
  <2>2. Max({0, rest}) = IF 0 <= rest THEN rest ELSE 0
    BY <2>1, MaxOfTwo
  <2> QED
    BY <1>1, <2>2
<1>3. t = [s EXCEPT !.broker = b]
  BY DEF ApplyFill, SessionType
<1> HIDE DEF p, t
<1>4. /\ b \in BrokerType /\ b.tracked = s.broker.tracked /\ b.cum = s.broker.cum
      /\ b.position = p /\ b.queue = s.broker.queue
      /\ b.active = s.broker.active /\ b.revision = s.broker.revision
  BY <1>1, <1>2 DEF BrokerType
<1> HIDE DEF b
<1>5. Booked(s, t) /\ t.broker = b
  BY <1>3, <1>4, BookedFacts
<1> QED
  BY <1>2, <1>4, <1>5 DEF Applies, t

Sees(s, t, id) ==
  /\ Booked(s, t) /\ t.broker.tracked = s.broker.tracked
  /\ t.broker.position = s.broker.position
  /\ t.broker.cum[id] = s.venue.orders[id].filled
  /\ \A j \in Ids \ {id} : t.broker.cum[j] = s.broker.cum[j]

LEMMA SeenFacts ==
  ASSUME NEW s \in SessionType, NEW id \in Ids
  PROVE  Sees(s, Seen(s, id), id)
<1> DEFINE t == Seen(s, id)
           filled == s.venue.orders[id].filled
           b == [s.broker EXCEPT !.cum = [s.broker.cum EXCEPT ![id] = filled]]
<1>1. s.broker \in BrokerType /\ s.broker.cum \in [Ids -> Nat] /\ filled \in Nat
  BY SessionParts
<1>2. t = [s EXCEPT !.broker = b]
  BY <1>1 DEF Seen, SessionType, BrokerType
<1> HIDE DEF t, filled
<1>3. /\ b \in BrokerType /\ b.tracked = s.broker.tracked
      /\ b.cum = [s.broker.cum EXCEPT ![id] = filled]
      /\ b.position = s.broker.position /\ b.queue = s.broker.queue
      /\ b.active = s.broker.active /\ b.revision = s.broker.revision
  BY <1>1 DEF BrokerType
<1> HIDE DEF b
<1>4. Booked(s, t) /\ t.broker = b
  BY <1>2, <1>3, BookedFacts
<1> QED
  BY <1>1, <1>3, <1>4 DEF Sees, t, filled

\* What the broker has not seen of an order.
Unseen1(s, id) ==
  LET left == s.venue.orders[id].filled - s.broker.cum[id] IN IF left > 0 THEN left ELSE 0

\* The fills a query finds: none, or one for what was not seen.
Finds(s, id, fills) ==
  \/ fills = <<>> /\ Unseen1(s, id) = 0
  \/ \E fill \in FillType :
       /\ fills = <<fill>> /\ fill.role = id.role /\ fill.qty = Unseen1(s, id)
       /\ OpensTrade(fill) => id.role = "entry" /\ s.venue.orders[id].st = "filled"

LEMMA FillFacts ==
  ASSUME NEW s \in SessionType, NEW id \in Ids, s.venue.orders[id].st \notin {"none", "sent"}
  PROVE  Finds(s, id, FillOf(s, id))
<1> DEFINE o == s.venue.orders[id]
           left == o.filled - s.broker.cum[id]
           delta == Max({0, left})
           status == CASE o.st = "open" -> "partial"
                       [] o.st = "rejected" -> "expired"
                       [] OTHER -> o.st
           fill == Fill(id.role, status, delta)
<1>1. o.st \in Statuses /\ o.filled \in Nat /\ s.broker.cum[id] \in Nat /\ left \in Int
  BY SessionParts
<1>2. delta = Unseen1(s, id) /\ delta \in Nat
  <2>1. delta = IF 0 <= left THEN left ELSE 0
    BY <1>1, MaxOfTwo
  <2> QED
    BY <1>1, <2>1 DEF Unseen1
<1>3. FillOf(s, id) = IF o.st \in {"open", "filled"} /\ delta = 0 THEN <<>> ELSE <<fill>>
  BY DEF FillOf
<1> HIDE DEF delta, left
<1>4. /\ status \in {"partial", "filled", "canceled", "expired"}
      /\ status = "filled" => o.st = "filled"
  BY <1>1 DEF Statuses
<1> HIDE DEF status
<1>5. /\ fill \in FillType /\ fill.role = id.role /\ fill.qty = delta /\ fill.status = status
  BY <1>2, <1>4, IdKinds DEF Fill, FillType
<1> HIDE DEF fill
<1>6. OpensTrade(fill) => id.role = "entry" /\ o.st = "filled"
  BY <1>4, <1>5 DEF OpensTrade
<1> QED
  BY <1>2, <1>3, <1>5, <1>6 DEF Finds

\* An order whose fills were seen and applied.
Taken(s, t, id) ==
  /\ Booked(s, t) /\ t.broker.tracked = s.broker.tracked
  /\ t.broker.cum[id] = s.venue.orders[id].filled
  /\ \A j \in Ids \ {id} : t.broker.cum[j] = s.broker.cum[j]
  /\ t.broker.position = IF id.role = "entry" THEN s.broker.position + Unseen1(s, id)
                         ELSE IF s.broker.position <= Unseen1(s, id) THEN 0
                              ELSE s.broker.position - Unseen1(s, id)

LEMMA TakenFacts ==
  ASSUME NEW s \in SessionType, NEW id \in Ids, NEW fills, Finds(s, id, fills)
  PROVE  Taken(s, Applied(Seen(s, id), fills), id)
<1> DEFINE r == Seen(s, id)
           t == Applied(r, fills)
<1> SUFFICES Taken(s, t, id)
  OBVIOUS
<1>1. Sees(s, r, id) /\ r \in SessionType
  BY SeenFacts DEF Sees, Booked
<1>2. s.broker.position \in Nat
  BY SessionParts
<1>3. CASE fills = <<>> /\ Unseen1(s, id) = 0
  <2>1. t = r
    BY <1>3 DEF Applied
  <2> HIDE DEF r, t
  <2> QED
    BY <1>1, <1>2, <1>3, <2>1 DEF Taken, Sees
<1>4. ASSUME NEW fill \in FillType, fills = <<fill>>, fill.role = id.role,
             fill.qty = Unseen1(s, id)
      PROVE  Taken(s, t, id)
  <2>1. fills # <<>> /\ fills[1] = fill
    BY <1>4
  <2>2. t = ApplyFill(r, fill)
    BY <2>1 DEF Applied
  <2> HIDE DEF r, t
  <2>3. Applies(r, t, fill)
    BY <1>1, <2>2, ApplyFacts
  <2> QED
    BY <1>1, <1>4, <2>3 DEF Taken, Sees, Applies, Booked
<1> HIDE DEF t
<1>5. CASE \E fill \in FillType :
             fills = <<fill>> /\ fill.role = id.role /\ fill.qty = Unseen1(s, id)
  BY <1>4, <1>5
<1> QED
  BY <1>3, <1>5 DEF Finds

-----------------------------------------------------------------------------
(***************************************************************************)
(* What these do to the sums.                                              *)
(***************************************************************************)
\* A state with the same orders, tracked and seen alike.
SameBooks(s, t) ==
  /\ t \in SessionType
  /\ t.venue.orders = s.venue.orders /\ t.venue.position = s.venue.position
  /\ t.broker.tracked = s.broker.tracked /\ t.broker.cum = s.broker.cum
  /\ t.broker.position = s.broker.position

LEMMA SameBooksFacts ==
  ASSUME NEW s, NEW t, Base(s), SameBooks(s, t)
  PROVE  /\ Base(t)
         /\ Accounted(s) => Accounted(t)
         /\ Working(t) = Working(s) /\ Tracked(t.broker) = Tracked(s.broker)
         /\ \A id \in Ids : Live(t.venue, id) <=> Live(s.venue, id)
<1>1. Room(t.venue) = Room(s.venue)
  BY DEF SameBooks, Room, Live
<1>2. Tracked(t.broker) = Tracked(s.broker)
  BY DEF SameBooks, Tracked
<1>3. NotSeen(t) = NotSeen(s)
  BY <1>2 DEF SameBooks, NotSeen
<1>4. Working(t) = Working(s)
  BY <1>2 DEF Working
<1>5. \A id \in Ids : Live(t.venue, id) <=> Live(s.venue, id)
  BY DEF SameBooks, Live
<1>6. Exposed(t.venue)
  BY <1>1 DEF Base, SameBooks, Exposed
<1>7. Base(t)
  BY <1>2, <1>5, <1>6 DEF Base, SameBooks
<1>8. Accounted(s) => Accounted(t)
  BY <1>3 DEF SameBooks, Accounted
<1> QED
  BY <1>2, <1>4, <1>5, <1>7, <1>8

\* An order that was seen, and forgotten when it had ended.
LEMMA TakenTouched ==
  ASSUME NEW s, Base(s), NEW id \in Ids, id \in Tracked(s.broker),
         NEW t \in SessionType, t.venue = s.venue, Distinct(t.broker.tracked),
         \A j \in Ids \ {id} : /\ t.broker.cum[j] = s.broker.cum[j]
                               /\ j \in Tracked(t.broker) <=> j \in Tracked(s.broker),
         t.broker.position = IF id.role = "entry" THEN s.broker.position + Unseen1(s, id)
                             ELSE IF s.broker.position <= Unseen1(s, id) THEN 0
                                  ELSE s.broker.position - Unseen1(s, id),
         IF id \in Tracked(t.broker) THEN t.broker.cum[id] = s.venue.orders[id].filled
         ELSE t.broker.cum[id] = 0 /\ ~Live(s.venue, id)
  PROVE  Touched(s, t, id) /\ NoMoreExposed(s, t, id) /\ NoMoreHidden(s, t, id)
<1> DEFINE filled == s.venue.orders[id].filled
           cum == s.broker.cum[id]
           unseen == Unseen1(s, id)
           p == s.venue.position
           b == s.broker.position
           c == t.broker.position
<1>1. s \in SessionType /\ \A i \in Ids : s.venue.orders[i].filled <= s.venue.orders[i].qty
  BY DEF Base
<1>2. /\ filled \in Nat /\ cum \in Nat /\ p \in Nat /\ b \in Nat /\ c \in Nat
      /\ t.venue.position = p
  BY <1>1, SessionParts
<1>3. unseen = IF filled - cum > 0 THEN filled - cum ELSE 0
  BY DEF Unseen1
<1>4. Touched(s, t, id)
  BY <1>1 DEF Touched
<1>5. NoMoreExposed(s, t, id)
  <2>1. Room(t.venue)[id] \in Nat
    BY <1>1, <1>4, Summands DEF Touched
  <2> QED
    BY <1>2, <2>1 DEF NoMoreExposed
<1>6. NotSeen(s)[id] = IF id.role = "entry" THEN filled - cum
                       ELSE IF filled - cum > 0 THEN -(filled - cum) ELSE 0
  BY DEF NotSeen
<1>7. NotSeen(t)[id] = 0
  <2>1. CASE id \in Tracked(t.broker)
    <3>1. t.broker.cum[id] = filled /\ t.venue.orders[id].filled = filled
      BY <2>1
    <3>2. filled - filled = 0
      BY <1>2
    <3> QED
      BY <3>1, <3>2 DEF NotSeen
  <2>2. CASE id \notin Tracked(t.broker)
    BY <2>2 DEF NotSeen
  <2> QED
    BY <2>1, <2>2
<1>8. c = IF id.role = "entry" THEN b + unseen ELSE IF b <= unseen THEN 0 ELSE b - unseen
  OBVIOUS
<1>9. p - c - NotSeen(t)[id] <= p - b - NotSeen(s)[id]
  <2> HIDE DEF filled, cum, p, b, c, unseen
  <2>1. CASE id.role = "entry"
    BY <1>2, <1>3, <1>6, <1>7, <1>8, <2>1
  <2>2. CASE id.role # "entry"
    BY <1>2, <1>3, <1>6, <1>7, <1>8, <2>2
  <2> QED
    BY <2>1, <2>2
<1> QED
  BY <1>2, <1>4, <1>5, <1>9 DEF NoMoreHidden

\* An order that has ended is forgotten.
LEMMA ForgottenTouched ==
  ASSUME NEW s, Base(s), NEW id \in Ids, NEW t, Forgets(s, t, id), ~Live(s.venue, id)
  PROVE  Touched(s, t, id) /\ NoMoreExposed(s, t, id) /\ Base(t)
<1>1. s \in SessionType /\ \A i \in Ids : s.venue.orders[i].filled <= s.venue.orders[i].qty
  BY DEF Base
<1>2. t \in SessionType /\ t.venue = s.venue
  BY DEF Forgets, Booked
<1>3. Touched(s, t, id)
  BY <1>1, <1>2 DEF Touched, Forgets
<1>4. Room(t.venue)[id] \in Nat /\ s.venue.position \in Nat
  BY <1>1, <1>2, Summands, SessionParts
<1>5. NoMoreExposed(s, t, id)
  BY <1>2, <1>4 DEF NoMoreExposed
<1> QED
  BY <1>3, <1>5, TouchedBase

\* A canceled order adds nothing any more.
LEMMA DeletedTouched ==
  ASSUME NEW s, Base(s), NEW id \in Ids, NEW t, Deleted(s, t, id)
  PROVE  /\ Touched(s, t, id) /\ NoMoreExposed(s, t, id) /\ NoMoreHidden(s, t, id)
         /\ Tracked(t.broker) = Tracked(s.broker) /\ Working(t) = Working(s)
         /\ ~t.call.failure => ~Live(t.venue, id)
         /\ Live(t.venue, id) => Live(s.venue, id)
<1>1. s \in SessionType /\ \A i \in Ids : s.venue.orders[i].filled <= s.venue.orders[i].qty
  BY DEF Base
<1>2. /\ t \in SessionType /\ t.broker = s.broker /\ t.venue.position = s.venue.position
      /\ t.venue.orders[id].filled = s.venue.orders[id].filled
      /\ t.venue.orders[id].qty = s.venue.orders[id].qty
  BY DEF Deleted, Requested
<1>3. Live(t.venue, id) => Live(s.venue, id)
  BY DEF Deleted, Live
<1>4. Touched(s, t, id)
  BY <1>1, <1>2, <1>3 DEF Touched, Deleted, Base, Entries
<1>5. /\ Room(s.venue)[id] \in Nat /\ Room(t.venue)[id] \in Nat /\ NotSeen(s)[id] \in Int
      /\ s.venue.position \in Nat /\ s.broker.position \in Nat
  BY <1>1, <1>2, <1>4, Summands, SessionParts DEF Touched
<1>6. Room(t.venue)[id] = Room(s.venue)[id] \/ Room(t.venue)[id] = 0
  BY <1>2, <1>3 DEF Room
<1>7. NoMoreExposed(s, t, id)
  BY <1>2, <1>5, <1>6 DEF NoMoreExposed
<1>8. NotSeen(t)[id] = NotSeen(s)[id]
  BY <1>2 DEF NotSeen
<1>9. NoMoreHidden(s, t, id)
  BY <1>2, <1>5, <1>8 DEF NoMoreHidden
<1>10. Tracked(t.broker) = Tracked(s.broker) /\ Working(t) = Working(s)
  BY <1>2 DEF Tracked, Working
<1>11. ~t.call.failure => ~Live(t.venue, id)
  BY DEF Deleted, Live
<1> QED
  BY <1>3, <1>4, <1>7, <1>9, <1>10, <1>11

\* r is s with the order id tracked.
NowTracks(s, r, id) ==
  /\ Booked(s, r) /\ r.broker.cum = s.broker.cum /\ r.broker.position = s.broker.position
  /\ Distinct(r.broker.tracked) /\ Tracked(r.broker) = Tracked(s.broker) \cup {id}

\* An order that is not an entry, once posted.
LEMMA PostedTouched ==
  ASSUME NEW s, Base(s), NEW id \in Ids, id.role # "entry", NEW qty \in Nat,
         NEW conditional \in BOOLEAN, NEW r, NowTracks(s, r, id),
         NEW t, Posted(r, t, id, qty, conditional)
  PROVE  /\ Touched(s, t, id) /\ NoMoreExposed(s, t, id)
         /\ ~t.call.failure => NoMoreHidden(s, t, id)
         /\ Tracked(t.broker) = Tracked(s.broker) \cup {id}
<1>1. s \in SessionType /\ \A i \in Ids : s.venue.orders[i].filled <= s.venue.orders[i].qty
  BY DEF Base
<1>2. /\ t \in SessionType /\ t.broker = r.broker /\ r.venue = s.venue
      /\ t.broker.cum = s.broker.cum /\ t.broker.position = s.broker.position
      /\ Tracked(t.broker) = Tracked(s.broker) \cup {id} /\ Distinct(t.broker.tracked)
  BY DEF Posted, Requested, NowTracks, Booked
<1>3. s.venue.position \in Nat /\ s.broker.position \in Nat /\ s.broker.cum[id] \in Nat
  BY <1>1, SessionParts
<1>4. Room(s.venue)[id] = 0 /\ Room(t.venue)[id] = 0
  BY DEF Room
<1>5. CASE t.venue = r.venue /\ t.call.failure
  <2>1. Touched(s, t, id)
    BY <1>1, <1>2, <1>5 DEF Touched
  <2>2. NoMoreExposed(s, t, id)
    BY <1>2, <1>3, <1>4, <1>5 DEF NoMoreExposed
  <2> QED
    BY <1>2, <1>5, <2>1, <2>2
<1>6. ASSUME NEW w \in VenueType, Places(r.venue, w, id, qty, conditional),
             t.venue.orders = w.orders, t.venue.position = w.position
      PROVE  Touched(s, t, id) /\ NoMoreExposed(s, t, id) /\ NoMoreHidden(s, t, id)
  <2> DEFINE k == w.orders[id].filled
             cum == s.broker.cum[id]
             p == s.venue.position
  <2>1. /\ t.venue.orders[id].filled = k /\ k <= qty /\ t.venue.orders[id].qty = qty
        /\ t.venue.position = p - k
        /\ \A j \in Ids \ {id} : t.venue.orders[j] = s.venue.orders[j]
    BY <1>2, <1>6 DEF Places
  <2>2. k \in Nat /\ t.venue.position \in Nat
    BY <1>2, <2>1, SessionParts
  <2>3. Touched(s, t, id)
    BY <1>2, <2>1 DEF Touched
  <2>4. NoMoreExposed(s, t, id)
    BY <1>3, <1>4, <2>1, <2>2 DEF NoMoreExposed
  <2>5. NotSeen(t)[id] = IF k - cum > 0 THEN -(k - cum) ELSE 0
    BY <1>2, <2>1 DEF NotSeen
  <2>6. NotSeen(s)[id] \in Int /\ NotSeen(s)[id] <= 0
    <3>1. s.venue.orders[id].filled \in Nat
      BY <1>1, SessionParts
    <3> QED
      BY <1>3, <3>1 DEF NotSeen
  <2> HIDE DEF k, cum
  <2>7. NoMoreHidden(s, t, id)
    <3>1. cum \in Nat
      BY <1>3 DEF cum
    <3> QED
      BY <1>2, <1>3, <2>1, <2>2, <2>5, <2>6, <3>1 DEF NoMoreHidden
  <2> QED
    BY <2>3, <2>4, <2>7
<1> QED
  BY <1>2, <1>5, <1>6 DEF Posted

\* Without a tracked entry, a broker that holds nothing tells that the venue holds nothing.
LEMMA NoEntryNoPosition ==
  ASSUME NEW s, Base(s), Accounted(s), s.broker.position = 0,
         \A id \in Tracked(s.broker) : id.role # "entry"
  PROVE  /\ s.venue.position = 0
         /\ \A id \in Ids : Live(s.venue, id) => id.role # "entry"
         /\ SumFunctionOnSet(Room(s.venue), Ids) = 0
         /\ SumFunctionOnSet(Working(s), Ids) = 0
<1>1. s \in SessionType /\ \A i \in Ids : s.venue.orders[i].filled <= s.venue.orders[i].qty
  BY DEF Base
<1>2. \A id \in Ids : Live(s.venue, id) => id.role # "entry"
  BY DEF Base
<1> DEFINE h == NotSeen(s)
           z == [id \in Ids |-> 0]
<1>3. ASSUME NEW id \in Ids PROVE h[id] \in Int /\ h[id] <= 0
  <2>1. s.venue.orders[id].filled \in Nat /\ s.broker.cum[id] \in Nat
    BY <1>1, SessionParts
  <2>2. id \notin Tracked(s.broker) \/ id.role # "entry"
    OBVIOUS
  <2> QED
    BY <2>1, <2>2 DEF NotSeen
<1>4. SumFunctionOnSet(h, Ids) <= 0 /\ SumFunctionOnSet(h, Ids) \in Int
  <2>1. SumFunctionOnSet(z, Ids) = 0
    <3>1. \A id \in Ids : z[id] = 0
      OBVIOUS
    <3> HIDE DEF z
    <3> QED
      BY <3>1, IdsFinite, SumZero
  <2>2. \A id \in Ids : h[id] \in Int /\ z[id] \in Int /\ h[id] <= z[id]
    BY <1>3
  <2> HIDE DEF h, z
  <2>3. SumFunctionOnSet(h, Ids) <= SumFunctionOnSet(z, Ids)
    BY <2>2, IdsFinite, SumOrder
  <2>4. SumFunctionOnSet(h, Ids) \in Int
    BY <2>2, IdsFinite, SumType
  <2> QED
    BY <2>1, <2>3, <2>4
<1>5. s.venue.position = 0
  <2>1. s.venue.position \in Nat
    BY <1>1, SessionParts
  <2>2. s.venue.position <= 0 + SumFunctionOnSet(h, Ids)
    BY DEF Accounted
  <2> HIDE DEF h
  <2> QED
    BY <1>4, <2>1, <2>2
<1>6. SumFunctionOnSet(Room(s.venue), Ids) = 0
  <2>1. \A id \in Ids : Room(s.venue)[id] = 0
    BY <1>2 DEF Room
  <2> QED
    BY <2>1, IdsFinite, SumZero
<1>7. SumFunctionOnSet(Working(s), Ids) = 0
  <2>1. \A id \in Ids : Working(s)[id] = 0
    BY DEF Working
  <2> QED
    BY <2>1, IdsFinite, SumZero
<1> QED
  BY <1>2, <1>5, <1>6, <1>7

\* An entry goes out when no order is tracked and the broker holds nothing.
LEMMA EntryPosted ==
  ASSUME NEW s, Base(s), Accounted(s), Tracked(s.broker) = {}, s.broker.position = 0,
         NEW id \in Entries, NEW conditional \in BOOLEAN, NEW r, NowTracks(s, r, id),
         NEW t, Posted(r, t, id, Qty, conditional)
  PROVE  /\ Base(t) /\ Tracked(t.broker) = {id}
         /\ SumFunctionOnSet(Working(t), Ids) = 1
         /\ ~t.call.failure => /\ Accounted(t)
                               /\ t.broker.position = 0 /\ t.broker.cum[id] = 0
                               /\ t.venue.position = t.venue.orders[id].filled
<1>1. /\ s \in SessionType /\ \A i \in Ids : s.venue.orders[i].filled <= s.venue.orders[i].qty
      /\ id \in Ids /\ id.role = "entry"
  BY IdKinds DEF Base
<1>2. Tracked(s.broker) = {}
  OBVIOUS
<1>3. /\ s.venue.position = 0
      /\ SumFunctionOnSet(Room(s.venue), Ids) = 0 /\ SumFunctionOnSet(Working(s), Ids) = 0
      /\ ~Live(s.venue, id)
  BY <1>1, <1>2, NoEntryNoPosition
<1>4. /\ t \in SessionType /\ t.broker = r.broker /\ r.venue = s.venue
      /\ t.broker.cum = s.broker.cum /\ t.broker.position = 0
      /\ Tracked(t.broker) = {id} /\ Distinct(t.broker.tracked)
  BY <1>2 DEF Posted, Requested, NowTracks, Booked
<1>5. t.broker.cum[id] = 0
  BY <1>2, <1>4 DEF Base
<1>6. NotSeen(s)[id] = 0 /\ Room(s.venue)[id] = 0 /\ Working(s)[id] = 0
  BY <1>1, <1>2, <1>3 DEF NotSeen, Room, Working
<1>7. Working(t)[id] = 1
  BY <1>1, <1>4 DEF Working
<1>8. CASE t.venue = r.venue /\ t.call.failure
  <2>1. Touched(s, t, id)
    BY <1>1, <1>2, <1>4, <1>5, <1>8 DEF Touched
  <2>2. NoMoreExposed(s, t, id)
    BY <1>3, <1>4, <1>6, <1>8 DEF NoMoreExposed
  <2>3. SumFunctionOnSet(Working(t), Ids) = 0 - 0 + 1
    BY <1>3, <1>6, <1>7, <2>1, TouchedSums
  <2> QED
    BY <1>4, <1>8, <2>1, <2>2, <2>3, TouchedBase
<1>9. ASSUME NEW w \in VenueType, Places(r.venue, w, id, Qty, conditional),
             t.venue.orders = w.orders, t.venue.position = w.position
      PROVE  /\ Base(t) /\ SumFunctionOnSet(Working(t), Ids) = 1 /\ Accounted(t)
             /\ t.venue.position = t.venue.orders[id].filled
  <2> DEFINE k == w.orders[id].filled
  <2>1. /\ t.venue.orders[id].filled = k /\ k <= Qty /\ t.venue.orders[id].qty = Qty
        /\ t.venue.position = 0 + k
        /\ \A j \in Ids \ {id} : t.venue.orders[j] = s.venue.orders[j]
    BY <1>1, <1>3, <1>4, <1>9 DEF Places
  <2>2. k \in Nat /\ t.venue.position = k
    BY <1>1, <1>4, <2>1, SessionParts
  <2>3. Touched(s, t, id)
    BY <1>1, <1>2, <1>4, <1>5, <2>1 DEF Touched
  <2>4. Room(t.venue)[id] \in Nat /\ Room(t.venue)[id] <= Qty - k
    BY <1>1, <2>1, <2>2, SandboxAssumption DEF Room
  <2>5. SumFunctionOnSet(Room(t.venue), Ids) = 0 - 0 + Room(t.venue)[id]
    BY <1>3, <1>6, <2>3, TouchedSums
  <2>6. Exposed(t.venue)
    <3>1. Qty \in Nat
      BY SandboxAssumption
    <3> HIDE DEF k
    <3> QED
      BY <2>2, <2>4, <2>5, <3>1 DEF Exposed
  <2>7. Base(t)
    BY <2>3, <2>6, TouchedOrders
  <2>8. NotSeen(t)[id] = k - 0
    BY <1>1, <1>4, <1>5, <2>1 DEF NotSeen
  <2>9. NoMoreHidden(s, t, id)
    <3> HIDE DEF k
    <3> QED
      BY <1>3, <1>4, <1>6, <2>2, <2>8 DEF NoMoreHidden
  <2>10. Accounted(t)
    BY <2>3, <2>9, TouchedAccounted
  <2>11. SumFunctionOnSet(Working(t), Ids) = 0 - 0 + 1
    BY <1>3, <1>6, <1>7, <2>3, TouchedSums
  <2> QED
    BY <2>1, <2>2, <2>7, <2>10, <2>11
<1> QED
  BY <1>4, <1>5, <1>8, <1>9 DEF Posted

-----------------------------------------------------------------------------
(***************************************************************************)
(* The handlers of a session without exceptions.                           *)
(***************************************************************************)
\* A handler goes on; it goes on to a step that does not replace a stop; it has raised.
Goes(s) == Base(s) /\ Handling(s) /\ s.call.mode = "handler"
Under(s) == Goes(s) /\ \A i \in DOMAIN s.call.todo : s.call.todo[i].op # "restop"
Broken(s) ==
  /\ Base(s) /\ s.call.mode = "handler" /\ s.call.failure
  /\ s.engine.status = "running" /\ s.engine.confirmed = None
Result(s) == IF s.call.failure THEN Broken(s) ELSE Goes(s)

NoAsks(todo) == \A i \in DOMAIN todo : todo[i].op \notin Asks

LEMMA UsedType ==
  ASSUME NEW s, Base(s)
  PROVE  /\ Used(s) \in Nat /\ Submitting(s) \in {0, 1}
         /\ s.engine.trades \in Nat /\ s.engine.entries \in 0 .. MaxEntries
         /\ Opened(s.broker.queue) \in Nat /\ Opened(s.call.fills) \in Nat
         /\ SumFunctionOnSet(Working(s), Ids) \in Nat
<1>1. s \in SessionType /\ \A i \in Ids : s.venue.orders[i].filled <= s.venue.orders[i].qty
  BY DEF Base
<1>2. /\ s.engine \in EngineType /\ s.broker.queue \in Seq(FillType)
      /\ s.call.fills \in Seq(FillType)
  BY <1>1, SessionParts
<1>3. Opened(s.broker.queue) \in Nat /\ Opened(s.call.fills) \in Nat
  BY <1>2, OpenedNat
<1>4. SumFunctionOnSet(Working(s), Ids) \in Nat
  BY <1>1, Summands
<1>5. s.engine.trades \in Nat /\ s.engine.entries \in 0 .. MaxEntries
  BY <1>2 DEF EngineType
<1> QED
  BY <1>3, <1>4, <1>5 DEF Used, Submitting

\* The first element of a sequence and the others.
LEMMA HeadAndTail ==
  ASSUME NEW S, NEW seq \in Seq(S), seq # <<>>
  PROVE  /\ Head(seq) = seq[1] /\ Head(seq) \in S /\ 1 \in DOMAIN seq
         /\ Tail(seq) \in Seq(S) /\ Len(Tail(seq)) = Len(seq) - 1 /\ Len(seq) \in Nat
         /\ DOMAIN Tail(seq) = 1 .. Len(seq) - 1 /\ DOMAIN seq = 1 .. Len(seq)
         /\ \A i \in DOMAIN Tail(seq) : Tail(seq)[i] = seq[i + 1] /\ i + 1 \in DOMAIN seq
OBVIOUS

\* r is s after it took the step x from its list.
Takes(s, r, x) ==
  /\ s.call.todo # <<>> /\ x = Head(s.call.todo)
  /\ r = [s EXCEPT !.call.todo = Tail(@)]

LEMMA TakesFacts ==
  ASSUME NEW s \in SessionType, NEW r, NEW x, Takes(s, r, x)
  PROVE  /\ r \in SessionType /\ x \in StepType
         /\ r.venue = s.venue /\ r.broker = s.broker /\ r.engine = s.engine
         /\ r.call.todo = Tail(s.call.todo)
         /\ r.call.mode = s.call.mode /\ r.call.failure = s.call.failure
         /\ r.call.fills = s.call.fills /\ r.call.raising = s.call.raising
         /\ r.call.error = s.call.error /\ r.call.canceled = s.call.canceled
         /\ r.call.flat = s.call.flat /\ r.call.drained = s.call.drained
         /\ r.call.closed = s.call.closed
<1>1. s.call \in CallType /\ s.call.todo \in Seq(StepType)
  BY SessionParts
<1>2. Tail(s.call.todo) \in Seq(StepType) /\ x \in StepType
  BY <1>1, HeadAndTail DEF Takes
<1> DEFINE rest == Tail(s.call.todo)
           c == [s.call EXCEPT !.todo = rest]
<1>3. r = [s EXCEPT !.call = c]
  BY <1>1 DEF Takes, SessionType
<1> HIDE DEF rest
<1>4. /\ c \in CallType /\ c.todo = rest /\ c.mode = s.call.mode /\ c.failure = s.call.failure
      /\ c.fills = s.call.fills /\ c.raising = s.call.raising /\ c.error = s.call.error
      /\ c.canceled = s.call.canceled /\ c.flat = s.call.flat /\ c.drained = s.call.drained
      /\ c.closed = s.call.closed
  BY <1>1, <1>2 DEF CallType, rest
<1> HIDE DEF c
<1>5. /\ r \in SessionType /\ r.venue = s.venue /\ r.broker = s.broker /\ r.engine = s.engine
      /\ r.call = c
  BY <1>3, <1>4 DEF SessionType
<1> QED
  BY <1>2, <1>4, <1>5 DEF rest

\* The list after a step is taken is still one of the same kind.
LEMMA TakesQueued ==
  ASSUME NEW s \in SessionType, NEW r, NEW x, Takes(s, r, x), Queued(s)
  PROVE  /\ Queued(r)
         /\ x.op \in Asks => /\ x.id \in Tracked(r.broker)
                             /\ \A i \in DOMAIN r.call.todo :
                                  r.call.todo[i].op \in Asks => r.call.todo[i].id # x.id
         /\ x.op \notin Asks => NoAsks(r.call.todo)
<1> DEFINE todo == s.call.todo
           rest == r.call.todo
<1>1. todo \in Seq(StepType) /\ todo # <<>> /\ x = Head(todo)
  BY SessionParts DEF Takes
<1>2. rest = Tail(todo) /\ r.broker = s.broker
  BY TakesFacts
<1>3. /\ x = todo[1] /\ 1 \in DOMAIN todo /\ Len(todo) \in Nat
      /\ DOMAIN rest = 1 .. Len(todo) - 1
      /\ \A i \in DOMAIN rest : rest[i] = todo[i + 1] /\ i + 1 \in DOMAIN todo
  BY <1>1, <1>2, HeadAndTail
<1>4. ASSUME NEW i \in DOMAIN rest, rest[i].op \in Asks
      PROVE  /\ rest[i].id \in Tracked(r.broker)
             /\ x.op \in Asks /\ x.id # rest[i].id
             /\ \A j \in 1 .. i - 1 : rest[j].op \in Asks /\ rest[j].id # rest[i].id
  <2>1. /\ todo[i + 1].op \in Asks /\ todo[i + 1] = rest[i] /\ i + 1 \in DOMAIN todo
        /\ i \in Nat /\ i >= 1
    BY <1>3, <1>4
  <2>2. /\ todo[i + 1].id \in Tracked(s.broker)
        /\ \A j \in 1 .. (i + 1) - 1 : todo[j].op \in Asks /\ todo[j].id # todo[i + 1].id
    BY <2>1 DEF Queued
  <2>3. 1 \in 1 .. (i + 1) - 1
    BY <2>1
  <2>4. ASSUME NEW j \in 1 .. i - 1 PROVE rest[j].op \in Asks /\ rest[j].id # rest[i].id
    <3>1. j + 1 \in 1 .. (i + 1) - 1 /\ j \in DOMAIN rest
      BY <1>3, <2>1
    <3> QED
      BY <1>3, <2>1, <2>2, <3>1
  <2> QED
    BY <1>2, <1>3, <2>1, <2>2, <2>3, <2>4
<1>5. Queued(r)
  BY <1>4 DEF Queued
<1>6. x.op \in Asks => x.id \in Tracked(r.broker)
  BY <1>2, <1>3 DEF Queued
<1> HIDE DEF rest
<1> QED
  BY <1>4, <1>5, <1>6 DEF NoAsks, rest

LEMMA Begin ==
  ASSUME NEW s, Base(s), Handling(s), NEW r, NEW x, Takes(s, r, x)
  PROVE  /\ Under(r) /\ HandlerStepOK(x) /\ x \in StepType /\ s.call.mode = "handler"
         /\ r.venue = s.venue /\ r.broker = s.broker /\ r.engine = s.engine
         /\ x.op \in Asks => /\ x.id \in Tracked(r.broker)
                             /\ \A i \in DOMAIN r.call.todo :
                                  r.call.todo[i].op \in Asks => r.call.todo[i].id # x.id
         /\ x.op \notin Asks => NoAsks(r.call.todo)
         /\ x.op \in EntrySteps \cup {"decide"} => r.call.todo = <<>>
         /\ x.op \in EntrySteps => Used(r) + 1 <= r.engine.entries
         /\ x.op = "restop" => r.broker.active # None
<1> DEFINE todo == s.call.todo
           rest == r.call.todo
<1>1. s \in SessionType /\ todo \in Seq(StepType) /\ todo # <<>> /\ x = Head(todo)
  BY SessionParts DEF Base, Takes
<1>2. /\ r \in SessionType /\ x \in StepType
      /\ r.venue = s.venue /\ r.broker = s.broker /\ r.engine = s.engine
      /\ rest = Tail(todo)
      /\ r.call.mode = s.call.mode /\ r.call.failure = s.call.failure
      /\ r.call.fills = s.call.fills /\ r.call.raising = s.call.raising
  BY <1>1, TakesFacts
<1>3. /\ x = todo[1] /\ 1 \in DOMAIN todo /\ Len(todo) \in Nat /\ DOMAIN todo = 1 .. Len(todo)
      /\ DOMAIN rest = 1 .. Len(todo) - 1 /\ Len(rest) = Len(todo) - 1 /\ rest \in Seq(StepType)
      /\ \A i \in DOMAIN rest : rest[i] = todo[i + 1] /\ i + 1 \in DOMAIN todo
  BY <1>1, <1>2, HeadAndTail
<1>4. s.call.mode = "handler"
  BY <1>1 DEF Handling, NoCall
<1>5. SameBooks(s, r)
  BY <1>2 DEF SameBooks
<1>6. Base(r) /\ Accounted(r) /\ Working(r) = Working(s)
  <2>1. Accounted(s)
    BY DEF Handling
  <2> QED
    BY <1>5, <2>1, SameBooksFacts
<1>7. /\ Queued(r)
      /\ x.op \in Asks => /\ x.id \in Tracked(r.broker)
                          /\ \A i \in DOMAIN rest : rest[i].op \in Asks => rest[i].id # x.id
      /\ x.op \notin Asks => NoAsks(rest)
  BY <1>1, TakesQueued DEF Handling
<1>8. \A i \in DOMAIN rest :
        /\ HandlerStepOK(rest[i]) /\ rest[i].op # "restop"
        /\ rest[i].op \in EntrySteps \cup {"decide"} => i = Len(rest)
  <2> SUFFICES ASSUME NEW i \in DOMAIN rest
               PROVE  /\ HandlerStepOK(rest[i]) /\ rest[i].op # "restop"
                      /\ rest[i].op \in EntrySteps \cup {"decide"} => i = Len(rest)
    OBVIOUS
  <2>1. rest[i] = todo[i + 1] /\ i + 1 \in DOMAIN todo /\ i \in Nat /\ i >= 1
    BY <1>3
  <2>2. /\ HandlerStepOK(todo[i + 1])
        /\ todo[i + 1].op \in EntrySteps \cup {"decide"} => i + 1 = Len(todo)
        /\ todo[i + 1].op = "restop" => i + 1 = 1
    BY <2>1 DEF Handling
  <2>3. i + 1 # 1 /\ (i + 1 = Len(todo) => i = Len(rest))
    BY <1>3, <2>1
  <2> QED
    BY <2>1, <2>2, <2>3
<1>9. /\ HandlerStepOK(x)
      /\ x.op \in EntrySteps \cup {"decide"} => 1 = Len(todo)
      /\ x.op = "restop" => s.broker.active # None
  BY <1>3 DEF Handling
<1>10. x.op \in EntrySteps \cup {"decide"} => rest = <<>>
  BY <1>3, <1>9
<1>11. Used(r) = Used(s)
  BY <1>2, <1>6 DEF Used
<1>12. Submitting(r) <= Submitting(s) /\ (x.op \in EntrySteps => Submitting(s) = 1)
  <2>1. ASSUME \E i \in DOMAIN rest : rest[i].op \in EntrySteps
        PROVE  \E i \in DOMAIN todo : todo[i].op \in EntrySteps
    BY <1>3, <2>1
  <2>2. x.op \in EntrySteps => \E i \in DOMAIN todo : todo[i].op \in EntrySteps
    BY <1>3
  <2> QED
    BY <2>1, <2>2 DEF Submitting
<1>13. /\ Numbered(r)
       /\ x.op \in EntrySteps => Used(r) + 1 <= r.engine.entries
  <2>1. Used(s) + Submitting(s) <= s.engine.entries
    BY DEF Handling, Numbered
  <2>2. /\ Used(s) \in Nat /\ Submitting(s) \in {0, 1} /\ s.engine.entries \in 0 .. MaxEntries
        /\ Submitting(r) \in {0, 1}
    BY <1>6, UsedType
  <2>3. s.engine.entries \in Nat
    BY <2>2, SandboxAssumption
  <2> QED
    BY <1>2, <1>11, <1>12, <2>1, <2>2, <2>3 DEF Numbered
<1> HIDE DEF todo, rest
<1>14. Handling(r)
  BY <1>2, <1>4, <1>6, <1>7, <1>8, <1>13 DEF Handling, rest
<1>15. Under(r)
  BY <1>2, <1>4, <1>6, <1>8, <1>14 DEF Under, Goes, rest
<1> QED
  BY <1>2, <1>4, <1>7, <1>9, <1>10, <1>13, <1>15 DEF rest

LEMMA Kept ==
  ASSUME NEW s, Under(s), NEW t, Base(t), Accounted(t), t.engine = s.engine,
         t.call.mode = s.call.mode, t.call.todo = s.call.todo, t.call.raising = s.call.raising,
         ~t.call.failure, Used(t) <= Used(s),
         \A i \in DOMAIN s.call.todo :
           s.call.todo[i].op \in Asks => s.call.todo[i].id \in Tracked(t.broker)
  PROVE  Under(t)
<1>1. Base(s) /\ Handling(s) /\ s.call.mode = "handler"
  BY DEF Under, Goes
<1>2. Queued(t)
  <2>1. Queued(s)
    BY <1>1 DEF Handling
  <2> QED
    BY <2>1 DEF Queued
<1>3. Numbered(t)
  <2>1. Submitting(t) = Submitting(s)
    BY DEF Submitting
  <2>2. Used(s) + Submitting(s) <= s.engine.entries
    BY <1>1 DEF Handling, Numbered
  <2>3. /\ Used(s) \in Nat /\ Used(t) \in Nat /\ Submitting(s) \in {0, 1}
        /\ s.engine.entries \in Nat
    BY <1>1, UsedType, SandboxAssumption
  <2> QED
    BY <2>1, <2>2, <2>3 DEF Numbered
<1>4. Handling(t)
  <2>1. \A i \in DOMAIN s.call.todo :
          /\ HandlerStepOK(s.call.todo[i]) /\ s.call.todo[i].op # "restop"
          /\ s.call.todo[i].op \in EntrySteps \cup {"decide"} => i = Len(s.call.todo)
    BY <1>1 DEF Handling, Under
  <2>2. /\ t.engine.status = "running" /\ t.engine.confirmed = None /\ ~t.call.raising
    BY <1>1 DEF Handling
  <2> QED
    BY <1>1, <1>2, <1>3, <2>1, <2>2 DEF Handling
<1> QED
  BY <1>1, <1>4 DEF Under, Goes

LEMMA UsedTouched ==
  ASSUME NEW s, Base(s), NEW t, Base(t), NEW id, Touched(s, t, id), t.engine = s.engine,
         Opened(t.broker.queue) + Opened(t.call.fills) + Working(t)[id]
           <= Opened(s.broker.queue) + Opened(s.call.fills) + Working(s)[id]
  PROVE  Used(t) <= Used(s)
<1> DEFINE a == SumFunctionOnSet(Working(s), Ids)
           b == SumFunctionOnSet(Working(t), Ids)
<1>1. b = a - Working(s)[id] + Working(t)[id]
  BY TouchedSums
<1>2. Working(s)[id] \in {0, 1} /\ Working(t)[id] \in {0, 1}
  BY DEF Working, Touched
<1>3. /\ a \in Nat /\ b \in Nat /\ s.engine.trades \in Nat
      /\ Opened(s.broker.queue) \in Nat /\ Opened(s.call.fills) \in Nat
      /\ Opened(t.broker.queue) \in Nat /\ Opened(t.call.fills) \in Nat
  BY UsedType
<1>4. /\ Used(s) = s.engine.trades + Opened(s.broker.queue) + Opened(s.call.fills) + a
      /\ Used(t) = s.engine.trades + Opened(t.broker.queue) + Opened(t.call.fills) + b
  BY DEF Used
<1> HIDE DEF a, b
<1> QED
  BY <1>1, <1>2, <1>3, <1>4

\* A request that failed and left the books as they were raises.
LEMMA Raised ==
  ASSUME NEW s, Under(s), NEW t, Base(t), t.engine = s.engine, t.call.mode = s.call.mode,
         t.call.failure
  PROVE  Broken(t)
<1>1. s.engine.status = "running" /\ s.engine.confirmed = None /\ s.call.mode = "handler"
  BY DEF Under, Goes, Handling
<1> QED
  BY <1>1 DEF Broken

\* What a query found is added to the fills under way.
LEMMA FindsOpened ==
  ASSUME NEW s \in SessionType, NEW id, NEW found, Finds(s, id, found),
         NEW fills \in Seq(FillType)
  PROVE  /\ fills \o found \in Seq(FillType)
         /\ Opened(fills \o found) <= Opened(fills) + 1
         /\ ~(id.role = "entry" /\ s.venue.orders[id].st = "filled") =>
              Opened(fills \o found) = Opened(fills)
<1>0. Opened(fills) \in Nat
  BY OpenedNat
<1>1. CASE found = <<>>
  <2>1. fills \o found = fills
    BY <1>1
  <2> QED
    BY <1>0, <2>1
<1>2. CASE \E fill \in FillType :
             /\ found = <<fill>>
             /\ OpensTrade(fill) => id.role = "entry" /\ s.venue.orders[id].st = "filled"
  <2>1. PICK fill \in FillType :
          /\ found = <<fill>>
          /\ OpensTrade(fill) => id.role = "entry" /\ s.venue.orders[id].st = "filled"
    BY <1>2
  <2>2. /\ fills \o <<fill>> \in Seq(FillType)
        /\ Opened(fills \o <<fill>>) = IF OpensTrade(fill) THEN Opened(fills) + 1 ELSE Opened(fills)
    BY OpenedConcat
  <2> QED
    BY <1>0, <2>1, <2>2
<1> QED
  BY <1>1, <1>2 DEF Finds

\* What a query leaves alone, and what it tells when it succeeds.
Queried(s, t, id) ==
  /\ t \in SessionType /\ t.engine = s.engine
  /\ t.venue.orders = s.venue.orders /\ t.venue.position = s.venue.position
  /\ t.broker.queue = s.broker.queue
  /\ t.call.mode = s.call.mode /\ t.call.todo = s.call.todo /\ t.call.raising = s.call.raising
  /\ t.call.canceled = s.call.canceled /\ t.call.flat = s.call.flat
  /\ t.call.drained = s.call.drained
  /\ \A j \in Ids \ {id} : /\ t.broker.cum[j] = s.broker.cum[j]
                           /\ j \in Tracked(t.broker) <=> j \in Tracked(s.broker)
  /\ Distinct(t.broker.tracked)

QueryTold(s, t, id) ==
  /\ t.venue = s.venue
  /\ t.broker.position = IF id.role = "entry" THEN s.broker.position + Unseen1(s, id)
                         ELSE IF s.broker.position <= Unseen1(s, id) THEN 0
                              ELSE s.broker.position - Unseen1(s, id)
  /\ IF id \in Tracked(t.broker)
       THEN /\ t.broker.cum[id] = s.venue.orders[id].filled
            /\ s.venue.orders[id].st # "filled"
       ELSE t.broker.cum[id] = 0 /\ ~Live(s.venue, id)
  /\ Opened(t.call.fills) <= Opened(s.call.fills) + 1
  /\ ~(id.role = "entry" /\ s.venue.orders[id].st = "filled") =>
       Opened(t.call.fills) = Opened(s.call.fills)

QueryFailed(s, t, id) ==
  /\ t.broker.tracked = s.broker.tracked /\ t.broker.position = s.broker.position
  /\ t.broker.cum[id] \in {s.broker.cum[id], s.venue.orders[id].filled}

LEMMA QueryFacts ==
  ASSUME NEW s \in SessionType, Distinct(s.broker.tracked), ~s.call.failure,
         NEW id \in Ids, id \in Tracked(s.broker), NEW t \in Query(s, id)
  PROVE  /\ Queried(s, t, id)
         /\ t.call.failure => QueryFailed(s, t, id)
         /\ ~t.call.failure => QueryTold(s, t, id)
<1> DEFINE st == s.venue.orders[id].st
           fills == FillOf(s, id)
           r == Applied(Seen(s, id), fills)
           taken == [r EXCEPT !.call.fills = @ \o fills]
           u == Seen(s, id)
<1>1. t \in Lost({s}) \cup
        IF st \in {"none", "sent"} THEN {Fail(s)}
        ELSE {IF st = "open" THEN taken ELSE ForgetOrder(taken, id)}
               \cup IF st = "filled" /\ fills # <<>> THEN Lost({u}) ELSE {}
  BY DEF Query
<1>2. CASE t \in Lost({s})
  <2>1. {s} \subseteq SessionType
    OBVIOUS
  <2>2. /\ Requested(s, t) /\ t.call.failure
        /\ t.venue.orders = s.venue.orders /\ t.venue.position = s.venue.position
    BY <1>2, <2>1, LostFacts
  <2> QED
    BY <2>2 DEF Queried, QueryFailed, Requested, SameHandler
<1>3. CASE t = Fail(s)
  <2>1. Requested(s, t) /\ t.venue = s.venue /\ t.call.failure
    BY <1>3, FailFacts
  <2> QED
    BY <2>1 DEF Queried, QueryFailed, Requested, SameHandler
<1>4. CASE t \in Lost({u})
  <2>1. Sees(s, u, id)
    BY SeenFacts
  <2> HIDE DEF u
  <2>2. {u} \subseteq SessionType
    BY <2>1 DEF Sees, Booked
  <2>3. /\ Requested(u, t) /\ t.call.failure
        /\ t.venue.orders = u.venue.orders /\ t.venue.position = u.venue.position
    BY <1>4, <2>2, LostFacts
  <2> QED
    BY <2>1, <2>3 DEF Queried, QueryFailed, Requested, SameHandler, Sees, Booked, Tracked
<1>5. CASE st \notin {"none", "sent"} /\ t = IF st = "open" THEN taken ELSE ForgetOrder(taken, id)
  <2>1. Finds(s, id, fills)
    BY <1>5, FillFacts
  <2>2. Taken(s, r, id)
    BY <2>1, TakenFacts
  <2>3. /\ s.call.fills \in Seq(FillType) /\ s.call \in CallType
        /\ Tracked(s.broker) = Range(s.broker.tracked)
    BY SessionParts DEF Tracked
  <2> DEFINE found == s.call.fills \o fills
             c == [s.call EXCEPT !.fills = found]
  <2>4. /\ found \in Seq(FillType) /\ Opened(found) <= Opened(s.call.fills) + 1
        /\ ~(id.role = "entry" /\ st = "filled") => Opened(found) = Opened(s.call.fills)
    BY <2>1, <2>3, FindsOpened
  <2> HIDE DEF r
  <2>5. taken = [r EXCEPT !.call = c]
    BY <2>2 DEF Taken, Booked, SessionType
  <2> HIDE DEF found, fills, taken
  <2>6. /\ c \in CallType /\ c.fills = found /\ c.mode = s.call.mode /\ c.todo = s.call.todo
        /\ c.raising = s.call.raising /\ c.canceled = s.call.canceled
        /\ c.flat = s.call.flat /\ c.drained = s.call.drained /\ ~c.failure
    BY <2>3, <2>4 DEF CallType
  <2> HIDE DEF c
  <2>7. /\ taken \in SessionType /\ taken.venue = s.venue /\ taken.broker = r.broker
        /\ taken.engine = s.engine /\ taken.call = c
    BY <2>2, <2>5, <2>6 DEF Taken, Booked, SessionType
  <2>8. Distinct(taken.broker.tracked)
    BY <2>2, <2>7 DEF Taken
  <2>9. CASE st = "open"
    <3>1. t = taken
      BY <1>5, <2>9
    <3>2. Queried(s, t, id)
      BY <2>2, <2>6, <2>7, <2>8, <3>1 DEF Queried, Taken, Booked, Tracked
    <3>3. id \in Tracked(t.broker)
      BY <2>2, <2>7, <3>1 DEF Taken, Tracked
    <3>4. QueryTold(s, t, id)
      BY <2>2, <2>4, <2>6, <2>7, <2>9, <3>1, <3>3 DEF QueryTold, Taken
    <3> QED
      BY <2>6, <2>7, <3>1, <3>2, <3>4
  <2>10. CASE st # "open"
    <3>1. Forgets(taken, t, id)
      BY <1>5, <2>7, <2>8, <2>10, ForgetFacts
    <3>2. /\ t \in SessionType /\ t.venue = s.venue /\ t.engine = s.engine /\ t.call = c
          /\ t.broker.queue = s.broker.queue /\ Distinct(t.broker.tracked)
          /\ t.broker.position = r.broker.position
          /\ Tracked(t.broker) = Tracked(s.broker) \ {id}
          /\ t.broker.cum[id] = 0
          /\ \A j \in Ids \ {id} : t.broker.cum[j] = s.broker.cum[j]
      BY <2>2, <2>7, <3>1 DEF Forgets, Booked, Taken, Tracked
    <3>3. ~Live(s.venue, id)
      BY <1>5, <2>10 DEF Live
    <3>4. Queried(s, t, id)
      BY <2>6, <3>2 DEF Queried
    <3>5. QueryTold(s, t, id)
      BY <2>2, <2>4, <2>6, <3>2, <3>3 DEF QueryTold, Taken
    <3> QED
      BY <2>6, <3>2, <3>4, <3>5
  <2> QED
    BY <2>9, <2>10
<1> QED
  BY <1>1, <1>2, <1>3, <1>4, <1>5

LEMMA QueryHandled ==
  ASSUME NEW s, Under(s), NEW id, id \in Tracked(s.broker),
         \A i \in DOMAIN s.call.todo :
           s.call.todo[i].op \in Asks => s.call.todo[i].id # id,
         NEW t \in Query(s, id)
  PROVE  Result(t)
<1>1. /\ Base(s) /\ Accounted(s) /\ Queued(s) /\ ~s.call.failure
      /\ s \in SessionType /\ Distinct(s.broker.tracked)
      /\ \A i \in Ids : s.venue.orders[i].filled <= s.venue.orders[i].qty
  BY DEF Under, Goes, Handling, Base
<1>2. id \in Ids
  BY <1>1, SessionParts
<1>3. /\ Queried(s, t, id)
      /\ t.call.failure => QueryFailed(s, t, id)
      /\ ~t.call.failure => QueryTold(s, t, id)
  BY <1>1, <1>2, QueryFacts
<1>4. CASE t.call.failure
  <2>1. Tracked(t.broker) = Tracked(s.broker)
    BY <1>3, <1>4 DEF QueryFailed, Tracked
  <2>2. Touched(s, t, id)
    BY <1>1, <1>2, <1>3, <2>1 DEF Touched, Queried, Base, Live
  <2>3. NoMoreExposed(s, t, id)
    <3>1. Room(t.venue)[id] = Room(s.venue)[id]
      BY <1>3 DEF Queried, Room, Live
    <3>2. Room(s.venue)[id] \in Nat /\ s.venue.position \in Nat
      BY <1>1, <1>2, Summands, SessionParts
    <3> QED
      BY <1>3, <3>1, <3>2 DEF Queried, NoMoreExposed
  <2>4. Base(t)
    BY <1>1, <2>2, <2>3, TouchedBase
  <2>5. Broken(t)
    BY <1>3, <1>4, <2>4, Raised DEF Queried
  <2> QED
    BY <1>4, <2>5 DEF Result
<1>5. CASE ~t.call.failure
  <2>1. Touched(s, t, id) /\ NoMoreExposed(s, t, id) /\ NoMoreHidden(s, t, id)
    BY <1>1, <1>2, <1>3, <1>5, TakenTouched DEF Queried, QueryTold
  <2>2. Base(t) /\ Accounted(t)
    BY <1>1, <2>1, TouchedBase, TouchedAccounted
  <2>3. Used(t) <= Used(s)
    <3>1. /\ Opened(t.broker.queue) = Opened(s.broker.queue) /\ Opened(s.broker.queue) \in Nat
          /\ Opened(t.call.fills) \in Nat /\ Opened(s.call.fills) \in Nat
      BY <1>1, <1>3, <2>2, UsedType DEF Queried
    <3>2. /\ Working(s)[id] = IF id.role = "entry" THEN 1 ELSE 0
          /\ Working(t)[id] = IF id \in Tracked(t.broker) /\ id.role = "entry" THEN 1 ELSE 0
      BY <1>2 DEF Working
    <3>3. /\ Opened(t.call.fills) <= Opened(s.call.fills) + 1
          /\ ~(id.role = "entry" /\ s.venue.orders[id].st = "filled") =>
               Opened(t.call.fills) = Opened(s.call.fills)
          /\ id \in Tracked(t.broker) => s.venue.orders[id].st # "filled"
      BY <1>3, <1>5 DEF QueryTold
    <3>4. Opened(t.call.fills) + Working(t)[id] <= Opened(s.call.fills) + Working(s)[id]
      BY <3>1, <3>2, <3>3
    <3>5. Opened(t.broker.queue) + Opened(t.call.fills) + Working(t)[id]
            <= Opened(s.broker.queue) + Opened(s.call.fills) + Working(s)[id]
      BY <3>1, <3>2, <3>4
    <3> QED
      BY <1>1, <1>3, <2>1, <2>2, <3>5, UsedTouched DEF Queried
  <2>4. \A i \in DOMAIN s.call.todo :
          s.call.todo[i].op \in Asks => s.call.todo[i].id \in Tracked(t.broker)
    <3> SUFFICES ASSUME NEW i \in DOMAIN s.call.todo, s.call.todo[i].op \in Asks
                 PROVE  s.call.todo[i].id \in Tracked(t.broker)
      OBVIOUS
    <3>1. s.call.todo[i].id \in Tracked(s.broker) /\ s.call.todo[i].id # id
      BY <1>1 DEF Queued
    <3>2. s.call.todo[i].id \in Ids
      BY <1>1, <3>1, SessionParts
    <3> QED
      BY <1>3, <3>1, <3>2 DEF Queried
  <2>5. Under(t)
    BY <1>3, <1>5, <2>2, <2>3, <2>4, Kept DEF Queried
  <2> QED
    BY <1>5, <2>5 DEF Result, Under
<1> QED
  BY <1>4, <1>5

\* One cancellation, from what the venue answered.
Cancels(u, t, id) ==
  /\ t \in SessionType /\ t.engine = u.engine /\ t.venue = u.venue
  /\ t.call.mode = u.call.mode /\ t.call.todo = u.call.todo /\ t.call.raising = u.call.raising
  /\ t.call.canceled = u.call.canceled /\ t.call.flat = u.call.flat
  /\ t.call.drained = u.call.drained /\ t.call.fills = u.call.fills
  /\ ~t.call.failure
  /\ \A j \in Ids \ {id} : /\ t.broker.cum[j] = u.broker.cum[j]
                           /\ j \in Tracked(t.broker) <=> j \in Tracked(u.broker)
  /\ Distinct(t.broker.tracked)
  /\ t.broker.active = u.broker.active
  /\ ~t.call.error => id \notin Tracked(t.broker) /\ ~u.call.error

CancelTold(u, t, id) ==
  /\ t.broker.position = IF id.role = "entry" THEN u.broker.position + Unseen1(u, id)
                         ELSE IF u.broker.position <= Unseen1(u, id) THEN 0
                              ELSE u.broker.position - Unseen1(u, id)
  /\ ~Live(u.venue, id)
  /\ IF id \in Tracked(t.broker)
       THEN /\ t.broker.cum[id] = u.venue.orders[id].filled
            /\ u.venue.orders[id].st # "filled"
       ELSE t.broker.cum[id] = 0
  /\ Opened(t.broker.queue) <= Opened(u.broker.queue) + 1
  /\ ~(id.role = "entry" /\ u.venue.orders[id].st = "filled") =>
       Opened(t.broker.queue) = Opened(u.broker.queue)

LEMMA CancelFacts ==
  ASSUME NEW s \in SessionType, Distinct(s.broker.tracked), ~s.call.failure,
         NEW id \in Ids, id \in Tracked(s.broker), NEW t \in CancelOne(s, id)
  PROVE  \E u \in Delete(s, id) : /\ Deleted(s, u, id) /\ Cancels(u, t, id)
                                  /\ CancelTold(u, t, id) \/ t.broker = u.broker
<1> DEFINE found(u) == FillOf(u, id)
           fills(u) == IF \E i \in DOMAIN found(u) : found(u)[i].qty > 0 THEN found(u) ELSE <<>>
           r(u) == Applied(Seen(u, id), fills(u))
           told(u) == [r(u) EXCEPT !.broker.queue = @ \o fills(u), !.call.acks = TRUE]
<1>1. PICK u \in Delete(s, id) :
        t = IF u.call.failure THEN [u EXCEPT !.call.failure = FALSE, !.call.error = TRUE]
            ELSE IF u.call.reply = "expired" THEN [told(u) EXCEPT !.call.error = TRUE]
            ELSE ForgetOrder(told(u), id)
  BY DEF CancelOne
<1>2. Deleted(s, u, id)
  BY DeleteFacts
<1>3. /\ u \in SessionType /\ u.broker = s.broker /\ Distinct(u.broker.tracked)
      /\ id \in Tracked(u.broker) /\ u.call \in CallType
  BY <1>2, SessionParts DEF Deleted, Requested
<1>4. CASE u.call.failure
  <2> DEFINE c == [u.call EXCEPT !.failure = FALSE, !.error = TRUE]
  <2>1. t = [u EXCEPT !.call = c]
    BY <1>1, <1>3, <1>4 DEF SessionType
  <2>2. /\ c \in CallType /\ c.mode = u.call.mode /\ c.todo = u.call.todo
        /\ c.raising = u.call.raising /\ c.canceled = u.call.canceled /\ c.flat = u.call.flat
        /\ c.drained = u.call.drained /\ c.fills = u.call.fills /\ ~c.failure /\ c.error
    BY <1>3 DEF CallType
  <2> HIDE DEF c
  <2>3. /\ t \in SessionType /\ t.venue = u.venue /\ t.broker = u.broker
        /\ t.engine = u.engine /\ t.call = c
    BY <1>3, <2>1, <2>2 DEF SessionType
  <2>4. Cancels(u, t, id)
    BY <1>3, <2>2, <2>3 DEF Cancels
  <2> QED
    BY <1>2, <2>3, <2>4
<1>5. CASE ~u.call.failure
  <2>1. u.venue.orders[id].st \in {"canceled", "filled", "expired"}
        /\ u.call.reply = u.venue.orders[id].st
    BY <1>2, <1>5 DEF Deleted
  <2>2. Finds(u, id, found(u))
    BY <1>3, <2>1, FillFacts
  <2>3. Finds(u, id, fills(u))
    <3>1. CASE found(u) = <<>> /\ Unseen1(u, id) = 0
      BY <3>1 DEF Finds
    <3>2. CASE \E fill \in FillType :
                 /\ found(u) = <<fill>> /\ fill.role = id.role /\ fill.qty = Unseen1(u, id)
                 /\ OpensTrade(fill) => id.role = "entry" /\ u.venue.orders[id].st = "filled"
      <4>1. PICK fill \in FillType :
              /\ found(u) = <<fill>> /\ fill.role = id.role /\ fill.qty = Unseen1(u, id)
              /\ OpensTrade(fill) => id.role = "entry" /\ u.venue.orders[id].st = "filled"
        BY <3>2
      <4>2. DOMAIN found(u) = {1} /\ found(u)[1] = fill
        BY <4>1
      <4>3. fill.qty \in Nat
        BY DEF FillType
      <4> HIDE DEF found
      <4>4. CASE fill.qty > 0
        <5>1. fills(u) = found(u)
          BY <4>2, <4>4
        <5> HIDE DEF fills
        <5> QED
          BY <2>2, <5>1
      <4>5. CASE ~(fill.qty > 0)
        <5>1. fills(u) = <<>> /\ Unseen1(u, id) = 0
          BY <4>1, <4>2, <4>3, <4>5
        <5> HIDE DEF fills
        <5> QED
          BY <5>1 DEF Finds
      <4> QED
        BY <4>4, <4>5
    <3> HIDE DEF found, fills
    <3> QED
      BY <2>2, <3>1, <3>2 DEF Finds
  <2> HIDE DEF found, fills
  <2>4. Taken(u, r(u), id)
    BY <1>3, <2>3, TakenFacts
  <2>5. u.broker.queue \in Seq(FillType)
    BY <1>3, SessionParts
  <2> DEFINE queue == u.broker.queue \o fills(u)
             rr == r(u)
             b == [rr.broker EXCEPT !.queue = queue]
             c == [u.call EXCEPT !.acks = TRUE]
  <2>6. /\ queue \in Seq(FillType) /\ Opened(queue) <= Opened(u.broker.queue) + 1
        /\ ~(id.role = "entry" /\ u.venue.orders[id].st = "filled") =>
             Opened(queue) = Opened(u.broker.queue)
    BY <1>3, <2>3, <2>5, FindsOpened
  <2>7. told(u) = [rr EXCEPT !.broker = b, !.call = c] /\ Taken(u, rr, id)
    BY <2>4 DEF Taken, Booked, SessionType
  <2> HIDE DEF rr, queue, r, told
  <2>8. /\ b \in BrokerType /\ b.queue = queue /\ b.tracked = rr.broker.tracked
        /\ b.cum = rr.broker.cum /\ b.position = rr.broker.position
        /\ b.active = rr.broker.active
    <3>1. rr.broker \in BrokerType
      BY <2>7 DEF Taken, Booked, SessionType
    <3> QED
      BY <2>6, <3>1 DEF BrokerType
  <2>9. /\ c \in CallType /\ c.mode = u.call.mode /\ c.todo = u.call.todo
        /\ c.raising = u.call.raising /\ c.canceled = u.call.canceled /\ c.flat = u.call.flat
        /\ c.drained = u.call.drained /\ c.fills = u.call.fills /\ ~c.failure
        /\ c.error = u.call.error
    BY <1>3, <1>5 DEF CallType
  <2> HIDE DEF b, c
  <2> DEFINE v == told(u)
  <2>10. /\ v \in SessionType /\ v.venue = u.venue /\ v.broker = b
         /\ v.engine = u.engine /\ v.call = c
    BY <2>7, <2>8, <2>9 DEF Taken, Booked, SessionType
  <2> HIDE DEF v
  <2>11. /\ Tracked(v.broker) = Tracked(u.broker) /\ Distinct(v.broker.tracked)
         /\ \A j \in Ids \ {id} : v.broker.cum[j] = u.broker.cum[j]
         /\ v.broker.cum[id] = u.venue.orders[id].filled
         /\ v.broker.position = IF id.role = "entry" THEN u.broker.position + Unseen1(u, id)
                                ELSE IF u.broker.position <= Unseen1(u, id) THEN 0
                                     ELSE u.broker.position - Unseen1(u, id)
         /\ v.broker.active = u.broker.active
    BY <1>3, <2>7, <2>8, <2>10 DEF Taken, Booked, Tracked
  <2>12. ~Live(u.venue, id)
    BY <2>1 DEF Live
  <2>13. CASE u.call.reply = "expired"
    <3> DEFINE d == [v.call EXCEPT !.error = TRUE]
    <3>1. t = [v EXCEPT !.call = d]
      BY <1>1, <1>5, <2>10, <2>13 DEF SessionType, v
    <3>2. /\ d \in CallType /\ d.mode = u.call.mode /\ d.todo = u.call.todo
          /\ d.raising = u.call.raising /\ d.canceled = u.call.canceled /\ d.flat = u.call.flat
          /\ d.drained = u.call.drained /\ d.fills = u.call.fills /\ ~d.failure /\ d.error
      BY <2>9, <2>10 DEF CallType
    <3> HIDE DEF d
    <3>3. /\ t \in SessionType /\ t.venue = u.venue /\ t.broker = v.broker
          /\ t.engine = u.engine /\ t.call = d
      BY <2>10, <3>1, <3>2 DEF SessionType
    <3>4. Cancels(u, t, id)
      BY <2>11, <3>2, <3>3 DEF Cancels
    <3>5. CancelTold(u, t, id)
      BY <1>3, <2>1, <2>6, <2>8, <2>10, <2>11, <2>12, <2>13, <3>3 DEF CancelTold
    <3> QED
      BY <1>2, <3>4, <3>5
  <2>14. CASE u.call.reply # "expired"
    <3>1. Forgets(v, t, id)
      BY <1>1, <1>5, <2>10, <2>11, <2>14, ForgetFacts DEF v
    <3>2. /\ t \in SessionType /\ t.venue = u.venue /\ t.engine = u.engine /\ t.call = c
          /\ t.broker.queue = queue /\ t.broker.active = u.broker.active
          /\ Tracked(t.broker) = Tracked(u.broker) \ {id} /\ Distinct(t.broker.tracked)
          /\ t.broker.cum[id] = 0
          /\ \A j \in Ids \ {id} : t.broker.cum[j] = u.broker.cum[j]
          /\ t.broker.position = v.broker.position
      BY <2>8, <2>10, <2>11, <3>1 DEF Forgets, Booked
    <3>3. Cancels(u, t, id)
      BY <2>9, <3>2 DEF Cancels
    <3>4. CancelTold(u, t, id)
      BY <2>6, <2>11, <2>12, <3>2 DEF CancelTold
    <3> QED
      BY <1>2, <3>3, <3>4
  <2> QED
    BY <2>13, <2>14
<1> QED
  BY <1>4, <1>5

\* A cancellation keeps the books.
LEMMA CancelKeeps ==
  ASSUME NEW s, Base(s), ~s.call.failure, NEW id, id \in Tracked(s.broker),
         NEW t \in CancelOne(s, id)
  PROVE  /\ Base(t)
         /\ Accounted(s) => Accounted(t) /\ Used(t) <= Used(s)
         /\ \E u : Deleted(s, u, id) /\ Cancels(u, t, id)
<1>1. s \in SessionType /\ Distinct(s.broker.tracked) /\ id \in Ids
  BY SessionParts DEF Base
<1>2. PICK u : /\ Deleted(s, u, id) /\ Cancels(u, t, id)
               /\ CancelTold(u, t, id) \/ t.broker = u.broker
  BY <1>1, CancelFacts
<1>3. /\ Touched(s, u, id) /\ NoMoreExposed(s, u, id) /\ NoMoreHidden(s, u, id)
      /\ Tracked(u.broker) = Tracked(s.broker) /\ Working(u) = Working(s)
  BY <1>1, <1>2, DeletedTouched
<1>4. Base(u) /\ (Accounted(s) => Accounted(u))
  BY <1>3, TouchedBase, TouchedAccounted
<1>5. /\ u.engine = s.engine /\ u.broker = s.broker /\ u.call.fills = s.call.fills
      /\ u \in SessionType
  BY <1>2 DEF Deleted, Requested, SameHandler
<1>6. Used(u) = Used(s)
  BY <1>3, <1>5 DEF Used
<1>7. /\ t \in SessionType /\ t.venue = u.venue /\ t.engine = u.engine
      /\ t.call.fills = u.call.fills /\ Distinct(t.broker.tracked)
      /\ \A j \in Ids \ {id} : /\ t.broker.cum[j] = u.broker.cum[j]
                               /\ j \in Tracked(t.broker) <=> j \in Tracked(u.broker)
  BY <1>2 DEF Cancels
<1>8. CASE t.broker = u.broker
  <2>1. SameBooks(u, t)
    BY <1>7, <1>8 DEF SameBooks
  <2>2. Base(t) /\ (Accounted(u) => Accounted(t)) /\ Working(t) = Working(u)
    BY <1>4, <2>1, SameBooksFacts
  <2>3. Used(t) = Used(u) /\ Used(s) \in Nat
    BY <1>7, <1>8, <2>2, UsedType DEF Used
  <2> QED
    BY <1>2, <1>4, <1>6, <2>2, <2>3
<1>9. CASE CancelTold(u, t, id)
  <2>1. Touched(u, t, id) /\ NoMoreExposed(u, t, id) /\ NoMoreHidden(u, t, id)
    BY <1>1, <1>3, <1>4, <1>7, <1>9, TakenTouched DEF CancelTold
  <2>2. Base(t) /\ (Accounted(u) => Accounted(t))
    BY <1>4, <2>1, TouchedBase, TouchedAccounted
  <2>3. /\ Opened(t.broker.queue) \in Nat /\ Opened(u.broker.queue) \in Nat
        /\ Opened(u.call.fills) \in Nat
    BY <1>4, <2>2, UsedType
  <2>4. /\ Working(u)[id] = IF id.role = "entry" THEN 1 ELSE 0
        /\ Working(t)[id] = IF id \in Tracked(t.broker) /\ id.role = "entry" THEN 1 ELSE 0
    BY <1>1, <1>3 DEF Working
  <2>5. /\ Opened(t.broker.queue) <= Opened(u.broker.queue) + 1
        /\ ~(id.role = "entry" /\ u.venue.orders[id].st = "filled") =>
             Opened(t.broker.queue) = Opened(u.broker.queue)
        /\ id \in Tracked(t.broker) => u.venue.orders[id].st # "filled"
    BY <1>9 DEF CancelTold
  <2>6. Opened(t.broker.queue) + Opened(t.call.fills) + Working(t)[id]
          <= Opened(u.broker.queue) + Opened(u.call.fills) + Working(u)[id]
    BY <1>7, <2>3, <2>4, <2>5
  <2>7. Used(t) <= Used(u)
    BY <1>4, <1>7, <2>1, <2>2, <2>6, UsedTouched
  <2> QED
    BY <1>2, <1>4, <1>6, <2>2, <2>7
<1> QED
  BY <1>2, <1>8, <1>9

LEMMA CancelHandled ==
  ASSUME NEW s, Under(s), NEW id, id \in Tracked(s.broker),
         \A i \in DOMAIN s.call.todo :
           s.call.todo[i].op \in Asks => s.call.todo[i].id # id,
         NEW t \in CancelOne(s, id)
  PROVE  Under(t)
<1>1. /\ Base(s) /\ Accounted(s) /\ Queued(s) /\ ~s.call.failure /\ s \in SessionType
  BY DEF Under, Goes, Handling, Base
<1>2. /\ Base(t) /\ Accounted(t) /\ Used(t) <= Used(s)
      /\ \E u : Deleted(s, u, id) /\ Cancels(u, t, id)
  BY <1>1, CancelKeeps
<1>3. PICK u : Deleted(s, u, id) /\ Cancels(u, t, id)
  BY <1>2
<1>4. /\ t.engine = s.engine /\ t.call.mode = s.call.mode /\ t.call.todo = s.call.todo
      /\ t.call.raising = s.call.raising /\ ~t.call.failure
      /\ \A j \in Ids \ {id} : j \in Tracked(t.broker) <=> j \in Tracked(s.broker)
  BY <1>3 DEF Deleted, Requested, SameHandler, Cancels
<1>5. \A i \in DOMAIN s.call.todo :
        s.call.todo[i].op \in Asks => s.call.todo[i].id \in Tracked(t.broker)
  <2> SUFFICES ASSUME NEW i \in DOMAIN s.call.todo, s.call.todo[i].op \in Asks
               PROVE  s.call.todo[i].id \in Tracked(t.broker)
    OBVIOUS
  <2>1. s.call.todo[i].id \in Tracked(s.broker) /\ s.call.todo[i].id # id
    BY <1>1 DEF Queued
  <2>2. s.call.todo[i].id \in Ids
    BY <1>1, <2>1, SessionParts
  <2> QED
    BY <1>4, <2>1, <2>2
<1> QED
  BY <1>2, <1>4, <1>5, Kept

\* A step that leaves the orders and the books alone.
LEMMA KeptBooks ==
  ASSUME NEW s, Under(s), NEW t, SameBooks(s, t), t.engine = s.engine,
         t.call.mode = s.call.mode, t.call.todo = s.call.todo, t.call.raising = s.call.raising,
         t.broker.queue = s.broker.queue, t.call.fills = s.call.fills, ~t.call.failure
  PROVE  Under(t)
<1>1. Base(s) /\ Accounted(s) /\ Queued(s)
  BY DEF Under, Goes, Handling
<1>2. Base(t) /\ Accounted(t) /\ Working(t) = Working(s) /\ Tracked(t.broker) = Tracked(s.broker)
  BY <1>1, SameBooksFacts
<1>3. Used(t) = Used(s) /\ Used(s) \in Nat
  BY <1>1, <1>2, UsedType DEF Used
<1>4. Used(t) <= Used(s)
  BY <1>3
<1>5. \A i \in DOMAIN s.call.todo :
        s.call.todo[i].op \in Asks => s.call.todo[i].id \in Tracked(t.broker)
  BY <1>1, <1>2 DEF Queued
<1> QED
  BY <1>2, <1>4, <1>5, Kept

\* An exception leaves the books as they are.
LEMMA FailBroken ==
  ASSUME NEW s, Base(s), s.call.mode = "handler", s.engine.status = "running",
         s.engine.confirmed = None
  PROVE  Broken(Fail(s)) /\ Result(Fail(s))
<1>1. s \in SessionType
  BY DEF Base
<1>2. Requested(s, Fail(s)) /\ Fail(s).venue = s.venue /\ Fail(s).call.failure
  BY <1>1, FailFacts
<1> DEFINE t == Fail(s)
<1> HIDE DEF t
<1>3. SameBooks(s, t)
  BY <1>2 DEF SameBooks, Requested, t
<1>4. Base(t)
  BY <1>3, SameBooksFacts
<1>5. Broken(t)
  BY <1>2, <1>4 DEF Broken, Requested, SameHandler, t
<1> QED
  BY <1>2, <1>5 DEF Result, t

LEMMA UnderFails ==
  ASSUME NEW s, Under(s)
  PROVE  Broken(Fail(s)) /\ Result(Fail(s))
BY FailBroken DEF Under, Goes, Handling

\* Protection that becomes active, or is gone.
LEMMA ActiveFacts ==
  ASSUME NEW s \in SessionType, NEW a \in BracketType \cup {None}
  PROVE  LET t == [s EXCEPT !.broker.active = a]
         IN /\ SameBooks(s, t) /\ t.venue = s.venue /\ t.engine = s.engine /\ t.call = s.call
            /\ t.broker.queue = s.broker.queue /\ t.broker.revision = s.broker.revision
            /\ t.broker.active = a
<1> DEFINE b == [s.broker EXCEPT !.active = a]
           t == [s EXCEPT !.broker.active = a]
<1>1. s.broker \in BrokerType
  BY SessionParts
<1>2. t = [s EXCEPT !.broker = b]
  BY DEF SessionType
<1>3. /\ b \in BrokerType /\ b.queue = s.broker.queue /\ b.revision = s.broker.revision
      /\ b.active = a /\ b.tracked = s.broker.tracked /\ b.cum = s.broker.cum
      /\ b.position = s.broker.position
  BY <1>1 DEF BrokerType
<1> HIDE DEF b, t
<1>4. /\ t \in SessionType /\ t.venue = s.venue /\ t.engine = s.engine /\ t.call = s.call
      /\ t.broker = b
  BY <1>2, <1>3 DEF SessionType
<1> QED
  BY <1>3, <1>4 DEF SameBooks, t

\* A protective order is tracked and sent.
LEMMA ExitSent ==
  ASSUME NEW s, Under(s), NEW id \in Exits, NEW qty \in Nat, NoAsks(s.call.todo),
         NEW t \in SendOrder(s, id, qty, TRUE)
  PROVE  /\ Base(t) /\ t.engine = s.engine /\ SameHandler(s.call, t.call)
         /\ t.broker.queue = s.broker.queue /\ t.broker.active = s.broker.active
         /\ t.call.failure => Broken(t)
         /\ ~t.call.failure => /\ Under(t) /\ t.call.reply # "sent"
                               /\ t.call.reply = t.venue.orders[id].st
<1> DEFINE r == TrackOrder(s, id)
<1>1. /\ Base(s) /\ s \in SessionType /\ Distinct(s.broker.tracked) /\ ~s.call.failure
      /\ Accounted(s)
  BY DEF Under, Goes, Base, Handling
<1>2. id \in Ids /\ id.role # "entry"
  BY DEF Exits
<1>3. NowTracks(s, r, id)
  BY <1>1, <1>2, TrackFacts DEF NowTracks
<1>4. t \in Post(r, id, qty, TRUE)
  BY DEF SendOrder
<1> HIDE DEF r
<1>5. r \in SessionType /\ r.call = s.call /\ r.engine = s.engine
  BY <1>3 DEF NowTracks, Booked
<1>6. Posted(r, t, id, qty, TRUE)
  BY <1>1, <1>2, <1>4, <1>5, PostFacts
<1>7. /\ Touched(s, t, id) /\ NoMoreExposed(s, t, id)
      /\ ~t.call.failure => NoMoreHidden(s, t, id)
      /\ Tracked(t.broker) = Tracked(s.broker) \cup {id}
  <2> DEFINE conditional == TRUE
  <2>1. conditional \in BOOLEAN /\ Posted(r, t, id, qty, conditional)
    BY <1>6
  <2> HIDE DEF conditional
  <2> QED
    BY <1>1, <1>2, <1>3, <2>1, PostedTouched
<1>8. Base(t)
  BY <1>1, <1>7, TouchedBase
<1>9. /\ t.engine = s.engine /\ SameHandler(s.call, t.call)
      /\ t.broker.queue = s.broker.queue /\ t.broker.active = s.broker.active
  BY <1>3, <1>5, <1>6 DEF Posted, Requested, NowTracks, Booked
<1>10. ASSUME t.call.failure PROVE Broken(t)
  BY <1>8, <1>9, <1>10, Raised DEF SameHandler
<1>11. ASSUME ~t.call.failure PROVE Under(t)
  <2>1. Accounted(t)
    BY <1>1, <1>7, <1>11, TouchedAccounted
  <2>2. Used(t) <= Used(s)
    <3>1. /\ Working(s)[id] = 0 /\ Working(t)[id] = 0
      BY <1>2 DEF Working
    <3>2. /\ Opened(s.broker.queue) \in Nat /\ Opened(s.call.fills) \in Nat
      BY <1>1, UsedType
    <3>3. Opened(t.broker.queue) + Opened(t.call.fills) + Working(t)[id]
            <= Opened(s.broker.queue) + Opened(s.call.fills) + Working(s)[id]
      BY <1>9, <3>1, <3>2 DEF SameHandler
    <3> QED
      BY <1>1, <1>7, <1>8, <1>9, <3>3, UsedTouched
  <2> QED
    BY <1>8, <1>9, <1>11, <2>1, <2>2, Kept DEF SameHandler, NoAsks
<1>12. ASSUME ~t.call.failure
       PROVE  t.call.reply # "sent" /\ t.call.reply = t.venue.orders[id].st
  BY <1>6, <1>12 DEF Posted
<1> QED
  BY <1>8, <1>9, <1>10, <1>11, <1>12

LEMMA LegHandled ==
  ASSUME NEW s, Under(s), NEW id \in Exits, NEW qty \in Nat, NoAsks(s.call.todo),
         NEW t \in PlaceLeg(s, id, qty)
  PROVE  Result(t)
<1>1. PICK u \in SendOrder(s, id, qty, TRUE) :
        t = IF u.call.failure THEN u
            ELSE IF u.call.reply # "open" THEN Fail(ForgetOrder(u, id))
            ELSE IF id.role = "stop" THEN u
            ELSE [u EXCEPT !.broker.active = Bracket(id, qty)]
  BY DEF PlaceLeg
<1>2. /\ Base(u) /\ u.engine = s.engine /\ SameHandler(s.call, u.call)
      /\ u.call.failure => Broken(u)
      /\ ~u.call.failure => /\ Under(u) /\ u.call.reply # "sent"
                            /\ u.call.reply = u.venue.orders[id].st
  BY ExitSent
<1>3. id \in Ids /\ u \in SessionType /\ Distinct(u.broker.tracked)
  BY <1>2 DEF Exits, Base
<1>4. CASE u.call.failure
  BY <1>1, <1>2, <1>4 DEF Result
<1>5. CASE ~u.call.failure /\ u.call.reply # "open"
  <2> DEFINE v == ForgetOrder(u, id)
  <2>1. t = Fail(v)
    BY <1>1, <1>5
  <2>2. Forgets(u, v, id)
    BY <1>3, ForgetFacts
  <2> HIDE DEF v
  <2>3. ~Live(u.venue, id)
    BY <1>2, <1>5 DEF Live
  <2>4. Base(v)
    BY <1>2, <1>3, <2>2, <2>3, ForgottenTouched
  <2>5. /\ v.engine = u.engine /\ v.call = u.call
    BY <2>2 DEF Forgets, Booked
  <2>6. u.call.mode = "handler" /\ u.engine.status = "running" /\ u.engine.confirmed = None
    BY <1>2, <1>5 DEF Under, Goes, Handling
  <2> QED
    BY <2>1, <2>4, <2>5, <2>6, FailBroken
<1>6. CASE ~u.call.failure /\ u.call.reply = "open" /\ id.role = "stop"
  BY <1>1, <1>2, <1>6 DEF Result, Under
<1>7. CASE ~u.call.failure /\ u.call.reply = "open" /\ id.role # "stop"
  <2> DEFINE a == Bracket(id, qty)
  <2>1. t = [u EXCEPT !.broker.active = a]
    BY <1>1, <1>7
  <2>2. a \in BracketType
    BY <1>7, IdKinds DEF Bracket, BracketType
  <2> HIDE DEF a
  <2>3. /\ SameBooks(u, t) /\ t.engine = u.engine /\ t.call = u.call
        /\ t.broker.queue = u.broker.queue
    BY <1>3, <2>1, <2>2, ActiveFacts
  <2>4. Under(t)
    BY <1>2, <1>7, <2>3, KeptBooks
  <2> QED
    BY <1>7, <2>3, <2>4 DEF Result, Under
<1> QED
  BY <1>4, <1>5, <1>6, <1>7

LEMMA ReplaceHandled ==
  ASSUME NEW s, Under(s), NEW id \in Exits, NoAsks(s.call.todo), s.broker.active # None,
         NEW t \in ReplaceStop(s, id)
  PROVE  Result(t)
<1>1. s.broker.active \in BracketType
  BY DEF Under, Goes, Base, SessionType, BrokerType
<1>2. s.broker.active.qty \in Nat
  BY <1>1 DEF BracketType
<1>3. PICK u \in SendOrder(s, id, s.broker.active.qty, TRUE) :
        t = IF u.call.failure \/ u.call.reply # "open" THEN Fail(u)
            ELSE [u EXCEPT !.broker.active.stop = id]
  BY DEF ReplaceStop
<1>4. /\ Base(u) /\ u.engine = s.engine /\ SameHandler(s.call, u.call)
      /\ u.broker.active = s.broker.active
      /\ ~u.call.failure => Under(u)
  BY <1>2, ExitSent
<1>5. u \in SessionType
  BY <1>4 DEF Base
<1>6. CASE u.call.failure \/ u.call.reply # "open"
  <2>1. u.call.mode = "handler" /\ u.engine.status = "running" /\ u.engine.confirmed = None
    BY <1>4 DEF SameHandler, Under, Goes, Handling
  <2> QED
    BY <1>3, <1>4, <1>6, <2>1, FailBroken
<1>7. CASE ~u.call.failure /\ u.call.reply = "open"
  <2> DEFINE a == [u.broker.active EXCEPT !.stop = id]
  <2>1. t = [u EXCEPT !.broker.active = a]
    BY <1>3, <1>7
  <2>2. a \in BracketType
    BY <1>1, <1>4 DEF BracketType
  <2> HIDE DEF a
  <2>3. /\ SameBooks(u, t) /\ t.engine = u.engine /\ t.call = u.call
        /\ t.broker.queue = u.broker.queue
    BY <1>5, <2>1, <2>2, ActiveFacts
  <2>4. Under(t)
    BY <1>4, <1>7, <2>3, KeptBooks
  <2> QED
    BY <1>7, <2>3, <2>4 DEF Result, Under
<1> QED
  BY <1>6, <1>7

LEMMA ReplacedHandled ==
  ASSUME NEW s, Under(s), NEW id \in Exits, NoAsks(s.call.todo),
         NEW t \in DeleteReplaced(s, id)
  PROVE  Result(t)
<1>1. PICK u \in Delete(s, id) :
        t = IF u.call.failure \/ u.call.reply # "canceled" THEN Fail(u) ELSE ForgetOrder(u, id)
  BY DEF DeleteReplaced
<1>2. id \in Ids /\ id.role # "entry"
  BY DEF Exits
<1>3. /\ s \in SessionType /\ Base(s) /\ Accounted(s) /\ ~s.call.failure
      /\ s.call.mode = "handler" /\ s.engine.status = "running" /\ s.engine.confirmed = None
  BY DEF Under, Goes, Base, Handling
<1>4. Deleted(s, u, id)
  BY <1>2, <1>3, DeleteFacts
<1>5. /\ Touched(s, u, id) /\ NoMoreExposed(s, u, id) /\ NoMoreHidden(s, u, id)
      /\ Tracked(u.broker) = Tracked(s.broker) /\ Working(u) = Working(s)
      /\ ~u.call.failure => ~Live(u.venue, id)
  BY <1>2, <1>3, <1>4, DeletedTouched
<1>6. Base(u) /\ Accounted(u)
  BY <1>3, <1>5, TouchedBase, TouchedAccounted
<1>7. u.engine = s.engine /\ u.broker = s.broker /\ SameHandler(s.call, u.call)
  BY <1>4 DEF Deleted, Requested
<1>8. CASE u.call.failure \/ u.call.reply # "canceled"
  BY <1>1, <1>3, <1>6, <1>7, <1>8, FailBroken DEF SameHandler
<1>9. CASE ~u.call.failure /\ u.call.reply = "canceled"
  <2>1. u \in SessionType /\ Distinct(u.broker.tracked)
    BY <1>6 DEF Base
  <2>2. Forgets(u, t, id)
    BY <1>1, <1>2, <1>9, <2>1, ForgetFacts
  <2>3. Touched(u, t, id) /\ Base(t)
    BY <1>2, <1>5, <1>6, <1>9, <2>2, ForgottenTouched
  <2>4. /\ t.broker.position = u.broker.position /\ t.venue = u.venue /\ t.engine = u.engine
        /\ t.call = u.call /\ id \notin Tracked(t.broker) /\ t.broker.queue = u.broker.queue
    BY <2>2 DEF Forgets, Booked
  <2>5. NoMoreHidden(u, t, id)
    <3>1. NotSeen(t)[id] = 0 /\ NotSeen(u)[id] <= 0
      <4>1. u.venue.orders[id].filled \in Nat /\ u.broker.cum[id] \in Nat
        BY <1>2, <2>1, SessionParts
      <4> QED
        BY <1>2, <2>4, <4>1 DEF NotSeen
    <3>2. NotSeen(u)[id] \in Int /\ u.venue.position \in Nat /\ u.broker.position \in Nat
      BY <1>2, <1>6, <2>1, Summands, SessionParts DEF Base
    <3> QED
      BY <2>4, <3>1, <3>2 DEF NoMoreHidden
  <2>6. Accounted(t)
    BY <1>6, <2>3, <2>5, TouchedAccounted
  <2>7. Used(t) <= Used(u)
    <3>1. /\ Working(u)[id] = 0 /\ Working(t)[id] = 0
      BY <1>2 DEF Working
    <3>2. /\ Opened(u.broker.queue) \in Nat /\ Opened(u.call.fills) \in Nat
      BY <1>6, UsedType
    <3>3. Opened(t.broker.queue) + Opened(t.call.fills) + Working(t)[id]
            <= Opened(u.broker.queue) + Opened(u.call.fills) + Working(u)[id]
      BY <2>4, <3>1, <3>2
    <3> QED
      BY <1>6, <2>3, <2>4, <3>3, UsedTouched
  <2>8. Used(u) = Used(s)
    BY <1>5, <1>7 DEF Used, SameHandler
  <2>9. Under(t)
    BY <1>7, <1>9, <2>3, <2>4, <2>6, <2>7, <2>8, Kept DEF SameHandler, NoAsks
  <2> QED
    BY <1>9, <2>4, <2>9 DEF Result, Under
<1> QED
  BY <1>8, <1>9

-----------------------------------------------------------------------------
(***************************************************************************)
(* Lists of steps.                                                         *)
(***************************************************************************)
\* The requests among some steps come first, each for a tracked order of its own.
Listed(steps, b) ==
  \A i \in DOMAIN steps :
    steps[i].op \in Asks =>
      /\ steps[i].id \in Tracked(b)
      /\ \A j \in 1 .. i - 1 : steps[j].op \in Asks /\ steps[j].id # steps[i].id

\* The requests for the tracked orders, and what follows them.
AsksThen(steps, op, b, z) ==
  /\ steps \in Seq(StepType) /\ Listed(steps, b)
  /\ Len(steps) \in Nat \ {0} /\ DOMAIN steps = 1 .. Len(steps) /\ steps[Len(steps)] = z
  /\ \A i \in 1 .. Len(steps) - 1 : steps[i].op = op /\ steps[i].id \in Tracked(b)
  /\ \A id \in Tracked(b) : \E i \in 1 .. Len(steps) - 1 : steps[i].id = id

\* A request for each of the given orders, and what follows them.
AsksFor(steps, op, ids, z) ==
  /\ steps \in Seq(StepType) /\ Len(steps) = Len(ids) + 1 /\ DOMAIN steps = 1 .. Len(steps)
  /\ \A i \in DOMAIN ids : steps[i] = Step(op, ids[i], 0)
  /\ steps[Len(ids) + 1] = z

LEMMA AskList ==
  ASSUME NEW op, NEW ids \in Seq(Ids), NEW z \in StepType, op \in Asks,
         NEW steps, steps = Append(Steps(op, ids), z)
  PROVE  AsksFor(steps, op, ids, z)
<1> DEFINE n == Len(ids)
           asks == Steps(op, ids)
<1>1. n \in Nat /\ DOMAIN ids = 1 .. n /\ \A i \in 1 .. n : ids[i] \in Ids
  BY SeqElements
<1>2. asks = [i \in 1 .. n |-> Step(op, ids[i], 0)]
  BY <1>1 DEF Steps
<1>3. \A i \in 1 .. n : Step(op, ids[i], 0) \in StepType
  BY <1>1 DEF Step, StepType
<1>4. /\ steps \in Seq(StepType) /\ Len(steps) = Len(ids) + 1 /\ DOMAIN steps = 1 .. Len(steps)
      /\ \A i \in 1 .. Len(ids) : steps[i] = Step(op, ids[i], 0)
      /\ steps[Len(ids) + 1] = z
  <2>1. asks \in [1 .. n -> StepType]
    BY <1>2, <1>3
  <2>2. \A i \in 1 .. n : asks[i] = Step(op, ids[i], 0)
    BY <1>2
  <2>3. steps = Append(asks, z)
    OBVIOUS
  <2> HIDE DEF asks, n
  <2>4. asks \in Seq(StepType) /\ Len(asks) = n
    BY <1>1, <2>1, FunctionIsSeq
  <2>5. steps \in Seq(StepType) /\ Len(steps) = n + 1 /\ steps[n + 1] = z
    BY <2>3, <2>4
  <2>6. \A i \in 1 .. n : steps[i] = asks[i]
    BY <2>3, <2>4
  <2> QED
    BY <2>2, <2>5, <2>6 DEF n
<1> HIDE DEF asks
<1> QED
  BY <1>1, <1>4 DEF AsksFor

LEMMA AskSteps ==
  ASSUME NEW op, NEW ids \in Seq(Ids), NEW z \in StepType, NEW b, op \in Asks, z.op \notin Asks,
         Distinct(ids), Range(ids) = Tracked(b), NEW steps, steps = Append(Steps(op, ids), z)
  PROVE  AsksThen(steps, op, b, z)
<1>1. Len(ids) \in Nat /\ DOMAIN ids = 1 .. Len(ids) /\ \A i \in 1 .. Len(ids) : ids[i] \in Ids
  BY SeqElements
<1>4. /\ steps \in Seq(StepType) /\ Len(steps) = Len(ids) + 1 /\ DOMAIN steps = 1 .. Len(steps)
      /\ \A i \in 1 .. Len(ids) : steps[i] = Step(op, ids[i], 0)
      /\ steps[Len(ids) + 1] = z
  <2>1. AsksFor(steps, op, ids, z)
    BY AskList
  <2> QED
    BY <1>1, <2>1 DEF AsksFor
<1>5. \A i \in 1 .. Len(ids) : /\ steps[i].op = op /\ steps[i].id = ids[i]
                               /\ ids[i] \in Tracked(b)
  <2>1. \A i \in 1 .. Len(ids) : ids[i] \in Tracked(b)
    BY <1>1 DEF Range
  <2>2. ASSUME NEW i \in 1 .. Len(ids) PROVE steps[i].op = op /\ steps[i].id = ids[i]
    <3>1. steps[i] = Step(op, ids[i], 0)
      BY <1>4
    <3> QED
      BY <3>1 DEF Step
  <2> QED
    BY <2>1, <2>2
<1>6. \A id \in Tracked(b) : \E i \in 1 .. Len(ids) : steps[i].id = id
  BY <1>1, <1>5 DEF Range
<1>7. ASSUME NEW i \in DOMAIN steps, steps[i].op \in Asks
      PROVE  /\ steps[i].id \in Tracked(b)
             /\ \A j \in 1 .. i - 1 : steps[j].op \in Asks /\ steps[j].id # steps[i].id
  <2>1. i \in 1 .. Len(ids)
    <3>1. i \in 1 .. Len(ids) \/ i = Len(ids) + 1
      BY <1>1, <1>4
    <3> QED
      BY <1>4, <1>7, <3>1
  <2>2. ASSUME NEW j \in 1 .. i - 1 PROVE steps[j].op \in Asks /\ steps[j].id # steps[i].id
    <3>1. j \in 1 .. Len(ids) /\ j # i
      BY <1>1, <2>1
    <3> QED
      BY <1>1, <1>5, <2>1, <3>1 DEF Distinct
  <2> QED
    BY <1>5, <2>1, <2>2
<1>8. Listed(steps, b)
  BY <1>7 DEF Listed
<1>9. Len(steps) \in Nat \ {0} /\ Len(steps) - 1 = Len(ids)
  BY <1>1, <1>4
<1> QED
  BY <1>1, <1>4, <1>5, <1>6, <1>8, <1>9 DEF AsksThen

\* Steps a handler may put before the ones it has.
Fits(steps, t, rest) ==
  /\ steps \in Seq(StepType) /\ Listed(steps, t.broker)
  /\ \A i \in DOMAIN steps :
       /\ HandlerStepOK(steps[i])
       /\ steps[i].op \in EntrySteps \cup {"decide"} => i = Len(steps) /\ rest = <<>>
       /\ steps[i].op = "restop" => i = 1 /\ t.broker.active # None

LEMMA Prepended ==
  ASSUME NEW s, Under(s), NoAsks(s.call.todo), NEW t, Base(t), Accounted(t), Numbered(t),
         t.call.mode = "handler", t.engine.status = "running", t.engine.confirmed = None,
         ~t.call.failure, ~t.call.raising, NEW steps, Fits(steps, t, s.call.todo),
         t.call.todo = steps \o s.call.todo
  PROVE  /\ Goes(t)
         /\ (\A i \in DOMAIN steps : steps[i].op # "restop") => Under(t)
<1> DEFINE rest == s.call.todo
           todo == t.call.todo
<1>1. steps \in Seq(StepType) /\ rest \in Seq(StepType)
  BY SessionParts DEF Under, Goes, Base, Fits
<1>2. /\ todo \in Seq(StepType) /\ Len(todo) = Len(steps) + Len(rest)
      /\ Len(steps) \in Nat /\ Len(rest) \in Nat /\ DOMAIN todo = 1 .. Len(todo)
      /\ DOMAIN steps = 1 .. Len(steps) /\ DOMAIN rest = 1 .. Len(rest)
      /\ \A i \in 1 .. Len(steps) : todo[i] = steps[i]
      /\ \A i \in Len(steps) + 1 .. Len(steps) + Len(rest) :
           todo[i] = rest[i - Len(steps)] /\ i - Len(steps) \in DOMAIN rest
  BY <1>1, Joined
<1>3. \A i \in DOMAIN rest :
        /\ HandlerStepOK(rest[i]) /\ rest[i].op # "restop" /\ rest[i].op \notin Asks
        /\ rest[i].op \in EntrySteps \cup {"decide"} => i = Len(rest)
  BY DEF Under, Goes, Handling, NoAsks
<1> HIDE DEF rest, todo
<1>4. \A i \in DOMAIN todo :
        \/ i \in DOMAIN steps /\ todo[i] = steps[i]
        \/ i > Len(steps) /\ i - Len(steps) \in DOMAIN rest /\ todo[i] = rest[i - Len(steps)]
  <2> SUFFICES ASSUME NEW i \in DOMAIN todo, i \notin DOMAIN steps
               PROVE  /\ i > Len(steps) /\ i - Len(steps) \in DOMAIN rest
                      /\ todo[i] = rest[i - Len(steps)]
    BY <1>2
  <2>1. i \in Len(steps) + 1 .. Len(steps) + Len(rest)
    BY <1>2
  <2> QED
    BY <1>2, <2>1
<1>5. \A i \in DOMAIN todo :
        /\ HandlerStepOK(todo[i])
        /\ todo[i].op \in EntrySteps \cup {"decide"} => i = Len(todo)
        /\ todo[i].op = "restop" => i = 1 /\ t.broker.active # None /\ i \in DOMAIN steps
                                    /\ steps[i] = todo[i]
  <2> SUFFICES ASSUME NEW i \in DOMAIN todo
               PROVE  /\ HandlerStepOK(todo[i])
                      /\ todo[i].op \in EntrySteps \cup {"decide"} => i = Len(todo)
                      /\ todo[i].op = "restop" => i = 1 /\ t.broker.active # None
                                                  /\ i \in DOMAIN steps /\ steps[i] = todo[i]
    OBVIOUS
  <2>1. CASE i \in DOMAIN steps /\ todo[i] = steps[i]
    <3>1. /\ HandlerStepOK(steps[i])
          /\ steps[i].op \in EntrySteps \cup {"decide"} => i = Len(steps) /\ rest = <<>>
          /\ steps[i].op = "restop" => i = 1 /\ t.broker.active # None
      BY <2>1 DEF Fits, rest
    <3>2. rest = <<>> => Len(todo) = Len(steps)
      BY <1>2
    <3> QED
      BY <2>1, <3>1, <3>2
  <2>2. CASE i > Len(steps) /\ i - Len(steps) \in DOMAIN rest /\ todo[i] = rest[i - Len(steps)]
    <3>1. i - Len(steps) = Len(rest) => i = Len(todo)
      BY <1>2, <2>2
    <3> QED
      BY <1>3, <2>2, <3>1
  <2> QED
    BY <1>4, <2>1, <2>2
<1>6. Queued(t)
  <2> SUFFICES ASSUME NEW i \in DOMAIN todo, todo[i].op \in Asks
               PROVE  /\ todo[i].id \in Tracked(t.broker)
                      /\ \A j \in 1 .. i - 1 : todo[j].op \in Asks /\ todo[j].id # todo[i].id
    BY DEF Queued, todo
  <2>1. i \in DOMAIN steps /\ todo[i] = steps[i]
    BY <1>3, <1>4
  <2>2. /\ steps[i].id \in Tracked(t.broker)
        /\ \A j \in 1 .. i - 1 : steps[j].op \in Asks /\ steps[j].id # steps[i].id
    BY <2>1 DEF Fits, Listed
  <2>3. \A j \in 1 .. i - 1 : todo[j] = steps[j]
    BY <1>2, <2>1
  <2> QED
    BY <2>1, <2>2, <2>3
<1>7. Handling(t)
  BY <1>5, <1>6 DEF Handling, todo
<1>8. Goes(t)
  BY <1>7 DEF Goes
<1>9. ASSUME \A i \in DOMAIN steps : steps[i].op # "restop" PROVE Under(t)
  BY <1>5, <1>8, <1>9 DEF Under, todo
<1> QED
  BY <1>8, <1>9

LEMMA NoSubmitting ==
  ASSUME NEW s \in SessionType, NEW t \in SessionType, NEW steps \in Seq(StepType),
         t.call.todo = steps \o s.call.todo,
         \A i \in DOMAIN steps : steps[i].op \notin EntrySteps
  PROVE  Submitting(t) <= Submitting(s)
<1> DEFINE rest == s.call.todo
           todo == t.call.todo
<1>1. rest \in Seq(StepType)
  BY SessionParts
<1>2. ASSUME NEW i \in DOMAIN todo, todo[i].op \in EntrySteps
      PROVE  \E j \in DOMAIN rest : rest[j].op \in EntrySteps
  <2>1. /\ DOMAIN todo = 1 .. Len(steps) + Len(rest) /\ Len(steps) \in Nat /\ Len(rest) \in Nat
        /\ DOMAIN steps = 1 .. Len(steps) /\ DOMAIN rest = 1 .. Len(rest)
    BY <1>1, Joined
  <2>2. CASE i \in 1 .. Len(steps)
    <3>1. todo[i] = steps[i]
      BY <1>1, <2>2, Joined
    <3> QED
      BY <1>2, <2>1, <2>2, <3>1
  <2>3. CASE i \in Len(steps) + 1 .. Len(steps) + Len(rest)
    <3>1. todo[i] = rest[i - Len(steps)] /\ i - Len(steps) \in DOMAIN rest
      BY <1>1, <2>3, Joined
    <3> QED
      BY <1>2, <3>1
  <2> QED
    BY <2>1, <2>2, <2>3
<1> QED
  BY <1>2 DEF Submitting

\* A session with another engine state, or other locals of its handler.
LEMMA EngineFacts ==
  ASSUME NEW s \in SessionType, NEW e \in EngineType
  PROVE  LET t == [s EXCEPT !.engine = e]
         IN /\ SameBooks(s, t) /\ t.venue = s.venue /\ t.broker = s.broker /\ t.engine = e
            /\ t.call = s.call
BY DEF SessionType, SameBooks

LEMMA CallFacts ==
  ASSUME NEW s \in SessionType, NEW c \in CallType
  PROVE  LET t == [s EXCEPT !.call = c]
         IN /\ SameBooks(s, t) /\ t.venue = s.venue /\ t.broker = s.broker /\ t.engine = s.engine
            /\ t.call = c
BY DEF SessionType, SameBooks

\* c and d differ in the steps to make.
SameLocals(c, d) ==
  /\ d.mode = c.mode /\ d.reply = c.reply /\ d.failure = c.failure
  /\ d.canceled = c.canceled /\ d.flat = c.flat /\ d.drained = c.drained /\ d.raising = c.raising

LEMMA FirstFacts ==
  ASSUME NEW s \in SessionType, NEW steps \in Seq(StepType)
  PROVE  LET t == First(s, steps)
         IN /\ SameBooks(s, t) /\ t.venue = s.venue /\ t.broker = s.broker /\ t.engine = s.engine
            /\ t.call.todo = steps \o s.call.todo /\ SameLocals(s.call, t.call)
            /\ t.call.fills = s.call.fills
<1> DEFINE todo == steps \o s.call.todo
           c == [s.call EXCEPT !.todo = todo]
           t == First(s, steps)
<1>1. s.call \in CallType /\ s.call.todo \in Seq(StepType)
  BY SessionParts
<1>2. todo \in Seq(StepType)
  BY <1>1
<1>3. t = [s EXCEPT !.call = c]
  BY DEF First, SessionType
<1> HIDE DEF todo
<1>4. c \in CallType /\ c.todo = todo /\ c.fills = s.call.fills /\ SameLocals(s.call, c)
  BY <1>1, <1>2 DEF CallType, SameLocals
<1> HIDE DEF c, t
<1>5. /\ SameBooks(s, t) /\ t.venue = s.venue /\ t.broker = s.broker /\ t.engine = s.engine
      /\ t.call = c
  BY <1>3, <1>4, CallFacts
<1> QED
  BY <1>4, <1>5 DEF t, todo

\* Steps that only come first, and enter nothing.
LEMMA FirstGoes ==
  ASSUME NEW s, Under(s), NoAsks(s.call.todo), NEW steps, Fits(steps, s, s.call.todo),
         \A i \in DOMAIN steps : steps[i].op \notin EntrySteps
  PROVE  /\ Goes(First(s, steps))
         /\ (\A i \in DOMAIN steps : steps[i].op # "restop") => Under(First(s, steps))
<1> DEFINE t == First(s, steps)
<1>1. /\ Base(s) /\ Accounted(s) /\ Numbered(s) /\ s \in SessionType
      /\ s.call.mode = "handler" /\ s.engine.status = "running" /\ s.engine.confirmed = None
      /\ ~s.call.failure /\ ~s.call.raising
  BY DEF Under, Goes, Handling, Base
<1>2. steps \in Seq(StepType)
  BY DEF Fits
<1>3. /\ SameBooks(s, t) /\ t.broker = s.broker /\ t.engine = s.engine
      /\ t.call.todo = steps \o s.call.todo /\ SameLocals(s.call, t.call)
      /\ t.call.fills = s.call.fills
  BY <1>1, <1>2, FirstFacts
<1> HIDE DEF t
<1>4. Base(t) /\ Accounted(t) /\ Working(t) = Working(s)
  BY <1>1, <1>3, SameBooksFacts
<1>5. Numbered(t)
  <2>1. Submitting(t) <= Submitting(s)
    BY <1>1, <1>2, <1>3, <1>4, NoSubmitting DEF Base
  <2>2. Used(t) = Used(s)
    BY <1>3, <1>4 DEF Used
  <2>3. /\ Used(s) \in Nat /\ Submitting(s) \in {0, 1} /\ Submitting(t) \in {0, 1}
        /\ s.engine.entries \in Nat
    BY <1>1, <1>4, UsedType, SandboxAssumption
  <2> QED
    BY <1>1, <1>3, <2>1, <2>2, <2>3 DEF Numbered
<1>6. Fits(steps, t, s.call.todo)
  BY <1>3 DEF Fits
<1> QED
  BY <1>1, <1>3, <1>4, <1>5, <1>6, Prepended DEF SameLocals, t

\* What a poll starts with.
LEMMA PollFacts ==
  ASSUME NEW s \in SessionType, Distinct(s.broker.tracked), NEW then, Local(then) \in StepType,
         NEW t \in Poll(s, then)
  PROVE  /\ SameBooks(s, t) /\ t.venue = s.venue /\ t.engine = s.engine
         /\ t.broker.queue = <<>> /\ t.broker.active = s.broker.active
         /\ t.call.fills = s.broker.queue /\ SameLocals(s.call, t.call)
         /\ \E ids \in Seq(Ids) :
              /\ Distinct(ids) /\ Range(ids) = Tracked(s.broker)
              /\ t.call.todo = Append(Steps("query", ids), Local(then)) \o s.call.todo
<1>1. /\ s.call \in CallType /\ s.broker \in BrokerType /\ s.broker.queue \in Seq(FillType)
      /\ s.broker.tracked \in Seq(Ids) /\ s.call.todo \in Seq(StepType)
  BY SessionParts
<1> DEFINE u == [s EXCEPT !.broker.queue = <<>>, !.call.fills = s.broker.queue]
<1>2. PICK ids \in {s.broker.tracked, Reverse(s.broker.tracked)} :
        t = First(u, Append(Steps("query", ids), Local(then)))
  BY DEF Poll
<1>3. ids \in Seq(Ids) /\ Distinct(ids) /\ Range(ids) = Tracked(s.broker)
  BY <1>1, Reversed DEF Tracked
<1> DEFINE steps == Append(Steps("query", ids), Local(then))
           b == [s.broker EXCEPT !.queue = <<>>]
           fills == s.broker.queue
           c == [s.call EXCEPT !.fills = fills]
<1>4. u = [s EXCEPT !.broker = b, !.call = c]
  BY DEF SessionType
<1>5. /\ b \in BrokerType /\ b.queue = <<>> /\ b.active = s.broker.active
      /\ b.tracked = s.broker.tracked /\ b.cum = s.broker.cum
      /\ b.position = s.broker.position
  <2>1. <<>> \in Seq(FillType)
    OBVIOUS
  <2> QED
    BY <1>1, <2>1 DEF BrokerType
<1> HIDE DEF b, fills
<1>6. c \in CallType /\ c.todo = s.call.todo /\ c.fills = fills /\ SameLocals(s.call, c)
  BY <1>1 DEF CallType, SameLocals, fills
<1> HIDE DEF c, u
<1>7. /\ u \in SessionType /\ u.venue = s.venue /\ u.engine = s.engine /\ u.broker = b
      /\ u.call = c
  BY <1>4, <1>5, <1>6 DEF SessionType
<1>8. steps \in Seq(StepType)
  <2> DEFINE z == Local(then)
             op == "query"
  <2>1. op \in Asks /\ z \in StepType
    BY DEF Asks
  <2>2. \A i \in DOMAIN ids : Step(op, ids[i], 0) \in StepType
    BY <1>3, SeqElements, <2>1 DEF Step, StepType
  <2>3. Steps(op, ids) \in Seq(StepType)
    <3> DEFINE f == [i \in 1 .. Len(ids) |-> Step(op, ids[i], 0)]
    <3>1. Len(ids) \in Nat /\ DOMAIN ids = 1 .. Len(ids)
      BY <1>3
    <3>2. f \in [1 .. Len(ids) -> StepType] /\ f = Steps(op, ids)
      BY <2>2, <3>1 DEF Steps
    <3> HIDE DEF f
    <3> QED
      BY <3>1, <3>2, FunctionIsSeq
  <2> HIDE DEF z, op
  <2>4. Append(Steps(op, ids), z) \in Seq(StepType)
    BY <2>1, <2>3
  <2> QED
    BY <2>4 DEF z, op
<1> HIDE DEF steps
<1>9. /\ SameBooks(u, t) /\ t.venue = u.venue /\ t.broker = u.broker /\ t.engine = u.engine
      /\ t.call.todo = steps \o u.call.todo /\ SameLocals(u.call, t.call)
      /\ t.call.fills = u.call.fills
  BY <1>2, <1>7, <1>8, FirstFacts DEF steps
<1>10. SameBooks(s, t) /\ SameLocals(s.call, t.call)
  BY <1>5, <1>6, <1>7, <1>9 DEF SameBooks, SameLocals
<1>11. t.call.todo = steps \o s.call.todo /\ t.call.fills = s.broker.queue
  BY <1>6, <1>7, <1>9 DEF fills
<1> QED
  BY <1>3, <1>5, <1>7, <1>9, <1>10, <1>11 DEF steps

\* Requests for every tracked order come before what a handler has still to do.
LEMMA AsksGo ==
  ASSUME NEW s, Under(s), NoAsks(s.call.todo), NEW op \in Asks, NEW ids \in Seq(Ids),
         Distinct(ids), Range(ids) = Tracked(s.broker),
         NEW z \in StepType, HandlerStepOK(z), z.op \in HandlerLocals \ {"decide"},
         NEW t, SameBooks(s, t), t.engine = s.engine, SameLocals(s.call, t.call),
         Opened(t.broker.queue) + Opened(t.call.fills)
           <= Opened(s.broker.queue) + Opened(s.call.fills),
         t.call.todo = Append(Steps(op, ids), z) \o s.call.todo
  PROVE  Under(t)
<1>1. /\ Base(s) /\ Accounted(s) /\ Numbered(s) /\ s \in SessionType
      /\ s.call.mode = "handler" /\ s.engine.status = "running" /\ s.engine.confirmed = None
      /\ ~s.call.failure /\ ~s.call.raising
  BY DEF Under, Goes, Handling, Base
<1> DEFINE steps == Append(Steps(op, ids), z)
<1>2. Base(t) /\ Accounted(t) /\ Working(t) = Working(s) /\ Tracked(t.broker) = Tracked(s.broker)
  BY <1>1, SameBooksFacts
<1>3. AsksThen(steps, op, t.broker, z)
  <2>1. z.op \notin Asks
    BY DEF Asks, HandlerLocals
  <2> QED
    BY <1>2, <2>1, AskSteps
<1>4. t.call.todo = steps \o s.call.todo
  OBVIOUS
<1> HIDE DEF steps
<1>5. \A i \in DOMAIN steps :
        /\ steps[i].op \notin EntrySteps \cup {"decide", "restop"}
        /\ HandlerStepOK(steps[i])
  <2>1. \A i \in DOMAIN steps : steps[i].op = op \/ steps[i] = z
    BY <1>3 DEF AsksThen
  <2>2. z.op \notin EntrySteps \cup {"decide", "restop"}
    BY DEF HandlerLocals, EntrySteps
  <2> QED
    BY <2>1, <2>2 DEF EntrySteps, ExitSteps, HandlerStepOK, Asks
<1>6. Fits(steps, t, s.call.todo)
  BY <1>3, <1>5 DEF Fits, AsksThen
<1>7. Numbered(t)
  <2>1. steps \in Seq(StepType) /\ t \in SessionType
    BY <1>2, <1>3 DEF AsksThen, Base
  <2>2. Submitting(t) <= Submitting(s)
    BY <1>1, <1>4, <1>5, <2>1, NoSubmitting
  <2>3. Used(t) <= Used(s)
    <3> DEFINE w == SumFunctionOnSet(Working(s), Ids)
    <3>1. /\ s.engine.trades \in Nat /\ Opened(s.broker.queue) \in Nat
          /\ Opened(s.call.fills) \in Nat /\ w \in Nat
          /\ Opened(t.broker.queue) \in Nat /\ Opened(t.call.fills) \in Nat
      BY <1>1, <1>2, UsedType
    <3>2. /\ Used(s) = s.engine.trades + Opened(s.broker.queue) + Opened(s.call.fills) + w
          /\ Used(t) = s.engine.trades + Opened(t.broker.queue) + Opened(t.call.fills) + w
      BY <1>2 DEF Used
    <3> HIDE DEF w
    <3> QED
      BY <3>1, <3>2
  <2>4. /\ Used(s) \in Nat /\ Used(t) \in Nat
        /\ Submitting(s) \in {0, 1} /\ Submitting(t) \in {0, 1} /\ s.engine.entries \in Nat
    BY <1>1, <1>2, UsedType, SandboxAssumption
  <2> QED
    BY <1>1, <2>2, <2>3, <2>4 DEF Numbered
<1> QED
  BY <1>1, <1>2, <1>4, <1>5, <1>6, <1>7, Prepended DEF SameLocals

\* A local step of a handler.
LEMMA LocalStep ==
  ASSUME NEW op \in HandlerLocals
  PROVE  /\ Local(op) \in StepType /\ HandlerStepOK(Local(op)) /\ Local(op).op = op
         /\ Local(op).op \notin Asks \cup EntrySteps \cup ExitSteps
BY DEF Local, Step, StepType, HandlerStepOK, HandlerLocals, EntrySteps, ExitSteps, Asks

LEMMA PollGoes ==
  ASSUME NEW s, Under(s), NoAsks(s.call.todo), NEW then \in HandlerLocals \ {"decide"},
         NEW t \in Poll(s, then)
  PROVE  Under(t)
<1>1. Base(s) /\ s \in SessionType /\ Distinct(s.broker.tracked)
  BY DEF Under, Goes, Base
<1> DEFINE z == Local(then)
<1>2. z \in StepType /\ HandlerStepOK(z) /\ z.op \in HandlerLocals \ {"decide"}
  BY LocalStep
<1> HIDE DEF z
<1>3. /\ SameBooks(s, t) /\ t.engine = s.engine
      /\ t.broker.queue = <<>>
      /\ t.call.fills = s.broker.queue /\ SameLocals(s.call, t.call)
      /\ \E ids \in Seq(Ids) :
           /\ Distinct(ids) /\ Range(ids) = Tracked(s.broker)
           /\ t.call.todo = Append(Steps("query", ids), z) \o s.call.todo
  BY <1>1, <1>2, PollFacts DEF z
<1>4. PICK ids \in Seq(Ids) :
        /\ Distinct(ids) /\ Range(ids) = Tracked(s.broker)
        /\ t.call.todo = Append(Steps("query", ids), z) \o s.call.todo
  BY <1>3
<1>5. Opened(t.broker.queue) + Opened(t.call.fills)
        <= Opened(s.broker.queue) + Opened(s.call.fills)
  <2>1. Opened(s.broker.queue) \in Nat /\ Opened(s.call.fills) \in Nat
    BY <1>1, UsedType
  <2>2. Opened(t.broker.queue) = 0
    BY <1>3, NothingOpened
  <2> QED
    BY <1>3, <2>1, <2>2
<1>6. "query" \in Asks
  BY DEF Asks
<1> QED
  BY <1>2, <1>3, <1>4, <1>5, <1>6, AsksGo

\* The same for cancellations.
LEMMA CancelsFacts ==
  ASSUME NEW s \in SessionType, NEW z \in StepType
  PROVE  LET t == CancelWorkingOrders(s, z)
         IN /\ SameBooks(s, t) /\ t.venue = s.venue /\ t.broker = s.broker
            /\ t.engine = s.engine /\ t.call.fills = s.call.fills /\ SameLocals(s.call, t.call)
            /\ ~t.call.error
            /\ t.call.todo = Append(Steps("cancel", s.broker.tracked), z) \o s.call.todo
<1> DEFINE need == \/ s.engine.pending /\ ~Pending(s.broker)
                   \/ s.engine.account # 0
           c == [s.call EXCEPT !.acks = FALSE, !.error = FALSE, !.needAck = need]
           u == [s EXCEPT !.call.acks = FALSE, !.call.error = FALSE, !.call.needAck = need]
           ids == s.broker.tracked
           steps == Append(Steps("cancel", ids), z)
           t == CancelWorkingOrders(s, z)
<1>1. /\ s.call \in CallType /\ s.call.todo \in Seq(StepType) /\ s.engine \in EngineType
      /\ ids \in Seq(Ids)
  BY SessionParts
<1>2. need \in BOOLEAN
  BY <1>1 DEF EngineType
<1>3. u = [s EXCEPT !.call = c] /\ t = First(u, steps)
  BY DEF CancelWorkingOrders, SessionType
<1> HIDE DEF need
<1>4. /\ c \in CallType /\ ~c.error /\ c.todo = s.call.todo /\ c.fills = s.call.fills
      /\ SameLocals(s.call, c)
  BY <1>1, <1>2 DEF CallType, SameLocals
<1> HIDE DEF c, u
<1>5. /\ u \in SessionType /\ u.venue = s.venue /\ u.engine = s.engine /\ u.broker = s.broker
      /\ u.call = c
  BY <1>3, <1>4, CallFacts DEF SameBooks
<1>6. steps \in Seq(StepType)
  <2> DEFINE op == "cancel"
  <2>1. op \in Asks
    BY DEF Asks
  <2>2. \A i \in DOMAIN ids : Step(op, ids[i], 0) \in StepType
    BY <1>1, SeqElements, <2>1 DEF Step, StepType
  <2>3. Steps(op, ids) \in Seq(StepType)
    <3> DEFINE f == [i \in 1 .. Len(ids) |-> Step(op, ids[i], 0)]
    <3>1. Len(ids) \in Nat /\ DOMAIN ids = 1 .. Len(ids)
      BY <1>1
    <3>2. f \in [1 .. Len(ids) -> StepType] /\ f = Steps(op, ids)
      BY <2>2, <3>1 DEF Steps
    <3> HIDE DEF f
    <3> QED
      BY <3>1, <3>2, FunctionIsSeq
  <2> HIDE DEF op
  <2>4. Append(Steps(op, ids), z) \in Seq(StepType)
    BY <2>3
  <2> QED
    BY <2>4 DEF op
<1> HIDE DEF steps, t
<1>7. /\ SameBooks(u, t) /\ t.venue = u.venue /\ t.broker = u.broker /\ t.engine = u.engine
      /\ t.call.todo = steps \o u.call.todo /\ SameLocals(u.call, t.call)
      /\ t.call.fills = u.call.fills
  BY <1>3, <1>5, <1>6, FirstFacts
<1>8. ~t.call.error
  <2>1. t.call = [u.call EXCEPT !.todo = steps \o @]
    BY <1>3, <1>5 DEF First, SessionType
  <2>2. u.call \in CallType
    BY <1>4, <1>5
  <2> QED
    BY <1>4, <1>5, <2>1, <2>2 DEF CallType
<1>9. SameBooks(s, t) /\ SameLocals(s.call, t.call)
  BY <1>4, <1>5, <1>7 DEF SameBooks, SameLocals
<1> QED
  BY <1>4, <1>5, <1>7, <1>8, <1>9 DEF t, steps

LEMMA CancelsGo ==
  ASSUME NEW s, Under(s), NoAsks(s.call.todo), NEW then \in HandlerLocals \ {"decide"}
  PROVE  Under(CancelWorkingOrders(s, Local(then)))
<1>1. /\ Base(s) /\ s \in SessionType /\ Distinct(s.broker.tracked)
      /\ s.broker.tracked \in Seq(Ids) /\ Range(s.broker.tracked) = Tracked(s.broker)
  BY SessionParts DEF Under, Goes, Base, Tracked
<1> DEFINE z == Local(then)
           t == CancelWorkingOrders(s, z)
<1>2. z \in StepType /\ HandlerStepOK(z) /\ z.op \in HandlerLocals \ {"decide"}
  BY LocalStep
<1> HIDE DEF z
<1>3. /\ SameBooks(s, t) /\ t.broker = s.broker /\ t.engine = s.engine
      /\ t.call.fills = s.call.fills /\ SameLocals(s.call, t.call)
      /\ t.call.todo = Append(Steps("cancel", s.broker.tracked), z) \o s.call.todo
  BY <1>1, <1>2, CancelsFacts
<1> HIDE DEF t
<1>4. Opened(t.broker.queue) + Opened(t.call.fills)
        <= Opened(s.broker.queue) + Opened(s.call.fills)
  <2>1. Opened(s.broker.queue) \in Nat /\ Opened(s.call.fills) \in Nat
    BY <1>1, UsedType
  <2> QED
    BY <1>3, <2>1
<1>5. "cancel" \in Asks
  BY DEF Asks
<1>6. Under(t)
  BY <1>1, <1>2, <1>3, <1>4, <1>5, AsksGo
<1> QED
  BY <1>6 DEF t, z

-----------------------------------------------------------------------------
(***************************************************************************)
(* An entry.                                                               *)
(***************************************************************************)
LEMMA QueueFacts ==
  ASSUME NEW s \in SessionType, NEW queue \in Seq(FillType)
  PROVE  LET t == [s EXCEPT !.broker.queue = queue]
         IN /\ SameBooks(s, t) /\ t.venue = s.venue /\ t.engine = s.engine /\ t.call = s.call
            /\ t.broker.queue = queue /\ t.broker.active = s.broker.active
<1> DEFINE b == [s.broker EXCEPT !.queue = queue]
           t == [s EXCEPT !.broker.queue = queue]
<1>1. s.broker \in BrokerType
  BY SessionParts
<1>2. t = [s EXCEPT !.broker = b]
  BY DEF SessionType
<1>3. /\ b \in BrokerType /\ b.queue = queue /\ b.active = s.broker.active
      /\ b.tracked = s.broker.tracked /\ b.cum = s.broker.cum /\ b.position = s.broker.position
  BY <1>1 DEF BrokerType
<1> HIDE DEF b, t
<1>4. /\ t \in SessionType /\ t.venue = s.venue /\ t.engine = s.engine /\ t.call = s.call
      /\ t.broker = b
  BY <1>2, <1>3 DEF SessionType
<1> QED
  BY <1>3, <1>4 DEF SameBooks, t

\* The reply tells that all of an order was filled.
LEMMA ReplyFilled ==
  ASSUME NEW s \in SessionType, Distinct(s.broker.tracked), NEW id \in Ids,
         s.call.reply = "filled"
  PROVE  LET t == TakeReply(s, id)
             filled == s.venue.orders[id].filled
         IN /\ t \in SessionType /\ t.venue = s.venue /\ t.engine = s.engine /\ t.call = s.call
            /\ Opened(t.broker.queue)
               = Opened(s.broker.queue) + IF id.role = "entry" THEN 1 ELSE 0
            /\ t.broker.position = IF id.role = "entry" THEN s.broker.position + filled
                                   ELSE IF s.broker.position <= filled THEN 0
                                        ELSE s.broker.position - filled
            /\ Distinct(t.broker.tracked) /\ Tracked(t.broker) = Tracked(s.broker) \ {id}
            /\ t.broker.cum[id] = 0
            /\ \A j \in Ids \ {id} : t.broker.cum[j] = s.broker.cum[j]
<1> DEFINE fill == Fill(id.role, "filled", s.venue.orders[id].filled)
           a == ApplyFill(s, fill)
           queue == Append(a.broker.queue, fill)
           b == [a EXCEPT !.broker.queue = queue]
           t == TakeReply(s, id)
<1>1. /\ fill \in FillType /\ fill.role = id.role /\ fill.qty = s.venue.orders[id].filled
      /\ OpensTrade(fill) <=> id.role = "entry"
  BY SessionParts, IdKinds DEF Fill, FillType, OpensTrade
<1>2. t = ForgetOrder(b, id)
  BY DEF TakeReply
<1> HIDE DEF fill
<1>3. Applies(s, a, fill)
  BY <1>1, ApplyFacts
<1> HIDE DEF a
<1>4. /\ a \in SessionType /\ a.venue = s.venue /\ a.engine = s.engine /\ a.call = s.call
      /\ a.broker.queue = s.broker.queue /\ a.broker.tracked = s.broker.tracked
      /\ a.broker.cum = s.broker.cum
  BY <1>3 DEF Applies, Booked
<1>5. /\ queue \in Seq(FillType)
      /\ Opened(queue) = Opened(s.broker.queue) + IF id.role = "entry" THEN 1 ELSE 0
  <2>1. s.broker.queue \in Seq(FillType)
    BY SessionParts
  <2>2. /\ queue \in Seq(FillType)
        /\ Opened(queue) = IF OpensTrade(fill) THEN Opened(s.broker.queue) + 1
                           ELSE Opened(s.broker.queue)
    BY <1>1, <1>4, <2>1, OpenedAppend
  <2>3. Opened(s.broker.queue) \in Nat
    BY <2>1, OpenedNat
  <2> HIDE DEF queue
  <2> QED
    BY <1>1, <2>2, <2>3
<1> HIDE DEF queue
<1>6. /\ SameBooks(a, b) /\ b.venue = a.venue /\ b.engine = a.engine /\ b.call = a.call
      /\ b.broker.queue = queue
  BY <1>4, <1>5, QueueFacts
<1> HIDE DEF b
<1>7. b \in SessionType /\ Distinct(b.broker.tracked) /\ Tracked(b.broker) = Tracked(s.broker)
  BY <1>4, <1>6 DEF SameBooks, Tracked
<1>8. Forgets(b, t, id)
  BY <1>2, <1>7, ForgetFacts
<1> HIDE DEF t
<1>9. /\ t \in SessionType /\ t.venue = s.venue /\ t.engine = s.engine /\ t.call = s.call
      /\ t.broker.queue = queue /\ t.broker.position = a.broker.position
      /\ Distinct(t.broker.tracked) /\ Tracked(t.broker) = Tracked(s.broker) \ {id}
      /\ t.broker.cum[id] = 0
      /\ \A j \in Ids \ {id} : t.broker.cum[j] = s.broker.cum[j]
  BY <1>4, <1>6, <1>7, <1>8 DEF Forgets, Booked, SameBooks
<1> QED
  BY <1>1, <1>3, <1>5, <1>9 DEF Applies, t

\* A request lost on the way leaves the books alone.
LEMMA LostBroken ==
  ASSUME NEW s, Base(s), s.call.mode = "handler", s.engine.status = "running",
         s.engine.confirmed = None, NEW t \in Lost({s})
  PROVE  Broken(t) /\ t.call.failure
<1>1. s \in SessionType /\ {s} \subseteq SessionType
  BY DEF Base
<1>2. /\ Requested(s, t) /\ t.call.failure
      /\ t.venue.orders = s.venue.orders /\ t.venue.position = s.venue.position
  BY <1>1, LostFacts
<1>3. SameBooks(s, t)
  BY <1>2 DEF SameBooks, Requested
<1>4. Base(t)
  BY <1>3, SameBooksFacts
<1> QED
  BY <1>2, <1>4 DEF Broken, Requested, SameHandler

\* The last step of a handler.
LEMMA Done ==
  ASSUME NEW t, Base(t), Accounted(t), t.call.mode = "handler", t.call.todo = <<>>,
         t.engine.status = "running", t.engine.confirmed = None, ~t.call.failure,
         ~t.call.raising, Used(t) <= t.engine.entries
  PROVE  Under(t) /\ NoAsks(t.call.todo)
<1>1. DOMAIN t.call.todo = {}
  OBVIOUS
<1>2. Queued(t) /\ Submitting(t) = 0 /\ NoAsks(t.call.todo)
  BY <1>1 DEF Queued, Submitting, NoAsks
<1>3. Numbered(t)
  <2>1. Used(t) \in Nat
    BY UsedType
  <2> QED
    BY <1>2, <2>1 DEF Numbered
<1> QED
  BY <1>1, <1>2, <1>3 DEF Under, Goes, Handling

LEMMA SubmitFacts ==
  ASSUME NEW s, Under(s), s.call.todo = <<>>, Used(s) + 1 <= s.engine.entries,
         NEW id \in Entries, NEW conditional \in BOOLEAN, NEW t \in SubmitEntry(s, id, conditional)
  PROVE  IF t.call.failure THEN Broken(t) ELSE Under(t) /\ t.call.todo = <<>>
<1>1. /\ Base(s) /\ Accounted(s) /\ s \in SessionType
      /\ s.call.mode = "handler" /\ s.engine.status = "running" /\ s.engine.confirmed = None
      /\ ~s.call.failure /\ ~s.call.raising /\ Distinct(s.broker.tracked)
  BY DEF Under, Goes, Handling, Base
<1>2. id \in Ids /\ id.role = "entry" /\ Qty \in Nat
  BY SandboxAssumption DEF Entries
<1>3. CASE t = Fail(s)
  <2>1. t.call.failure
    BY <1>1, <1>3, FailFacts
  <2> QED
    BY <1>3, <2>1, UnderFails
<1>4. CASE /\ s.broker.tracked = <<>> /\ s.broker.position = 0
           /\ \E u \in SendOrder(s, id, Qty, conditional) :
                t \in IF u.call.failure THEN {u}
                      ELSE {TakeReply(u, id)}
                             \cup IF u.call.reply = "filled" THEN Lost({u}) ELSE {}
  <2>1. PICK u \in SendOrder(s, id, Qty, conditional) :
          t \in IF u.call.failure THEN {u}
                ELSE {TakeReply(u, id)} \cup IF u.call.reply = "filled" THEN Lost({u}) ELSE {}
    BY <1>4
  <2> DEFINE r == TrackOrder(s, id)
  <2>2. NowTracks(s, r, id)
    BY <1>1, <1>2, TrackFacts DEF NowTracks
  <2>3. u \in Post(r, id, Qty, conditional)
    BY DEF SendOrder
  <2> HIDE DEF r
  <2>4. r \in SessionType /\ r.call = s.call /\ r.engine = s.engine
    BY <2>2 DEF NowTracks, Booked
  <2>5. Posted(r, u, id, Qty, conditional)
    BY <1>1, <1>2, <2>3, <2>4, PostFacts
  <2>6. /\ Base(u) /\ Tracked(u.broker) = {id}
        /\ SumFunctionOnSet(Working(u), Ids) = 1
        /\ ~u.call.failure => /\ Accounted(u)
                              /\ u.broker.position = 0 /\ u.broker.cum[id] = 0
                              /\ u.venue.position = u.venue.orders[id].filled
    <3>1. Tracked(s.broker) = {} /\ s.broker.position = 0
      BY <1>4 DEF Tracked, Range
    <3> QED
      BY <1>1, <2>2, <2>5, <3>1, EntryPosted
  <2>7. /\ u.engine = s.engine /\ SameHandler(s.call, u.call) /\ u.broker.queue = s.broker.queue
    BY <2>2, <2>4, <2>5 DEF Posted, Requested, NowTracks, Booked
  <2>8. /\ u \in SessionType /\ Distinct(u.broker.tracked)
        /\ u.call.mode = "handler" /\ u.call.todo = <<>> /\ ~u.call.raising
        /\ u.engine.status = "running" /\ u.engine.confirmed = None
    BY <1>1, <2>6, <2>7 DEF Base, SameHandler
  <2>9. Used(u) <= s.engine.entries
    <3>1. /\ s.engine.trades \in Nat /\ Opened(s.broker.queue) \in Nat
          /\ Opened(s.call.fills) \in Nat /\ SumFunctionOnSet(Working(s), Ids) \in Nat
          /\ s.engine.entries \in Nat
      BY <1>1, UsedType, SandboxAssumption
    <3>2. u.call.fills = s.call.fills
      BY <2>7 DEF SameHandler
    <3> QED
      BY <2>6, <2>7, <3>1, <3>2 DEF Used
  <2>10. CASE u.call.failure
    <3>1. Broken(u)
      BY <2>6, <2>8, <2>10 DEF Broken
    <3> QED
      BY <2>1, <2>10, <3>1
  <2>11. CASE ~u.call.failure /\ t \in Lost({u})
    <3>1. Broken(t) /\ t.call.failure
      BY <2>6, <2>8, <2>11, LostBroken
    <3> QED
      BY <3>1
  <2>12. CASE ~u.call.failure /\ t = TakeReply(u, id)
    <3>1. /\ u.venue.orders[id].filled \in Nat /\ u.broker.cum[id] = 0 /\ Accounted(u)
          /\ u.broker.position = 0 /\ id \in Tracked(u.broker)
          /\ u.venue.position = u.venue.orders[id].filled
      BY <1>2, <2>6, <2>8, <2>12, SessionParts
    <3>2. /\ u.call.reply = u.venue.orders[id].st /\ u.call.reply \in {"open", "filled", "rejected"}
          /\ u.call.reply = "rejected" => u.venue.orders[id].filled = 0
      BY <2>5, <2>12 DEF Posted, Places
    <3>3. CASE u.call.reply = "open"
      <4>1. t = u
        BY <2>12, <3>3 DEF TakeReply
      <4>2. Under(u)
        BY <2>6, <2>7, <2>8, <2>9, <2>12, Done
      <4> QED
        BY <2>8, <2>12, <4>1, <4>2
    <3>4. CASE u.call.reply = "filled"
      <4>1. /\ t \in SessionType /\ t.venue = u.venue /\ t.engine = u.engine /\ t.call = u.call
            /\ Opened(t.broker.queue) = Opened(u.broker.queue) + 1
            /\ t.broker.position = u.broker.position + u.venue.orders[id].filled
            /\ Distinct(t.broker.tracked) /\ Tracked(t.broker) = Tracked(u.broker) \ {id}
            /\ t.broker.cum[id] = 0
            /\ \A j \in Ids \ {id} : t.broker.cum[j] = u.broker.cum[j]
        BY <1>2, <2>8, <2>12, <3>4, ReplyFilled
      <4>2. Unseen1(u, id) = u.venue.orders[id].filled /\ ~Live(u.venue, id)
        BY <3>1, <3>2, <3>4 DEF Unseen1, Live
      <4>3. Touched(u, t, id) /\ NoMoreExposed(u, t, id) /\ NoMoreHidden(u, t, id)
        BY <1>2, <2>6, <3>1, <4>1, <4>2, TakenTouched
      <4>4. Base(t) /\ Accounted(t)
        BY <2>6, <3>1, <4>3, TouchedBase, TouchedAccounted
      <4>5. Used(t) <= Used(u)
        <5>1. Working(u)[id] = 1 /\ Working(t)[id] = 0
          BY <1>2, <3>1, <4>1 DEF Working
        <5>2. /\ Opened(u.broker.queue) \in Nat /\ Opened(u.call.fills) \in Nat
          BY <2>6, UsedType
        <5>3. Opened(t.broker.queue) + Opened(t.call.fills) + Working(t)[id]
                <= Opened(u.broker.queue) + Opened(u.call.fills) + Working(u)[id]
          BY <4>1, <5>1, <5>2
        <5> QED
          BY <2>6, <4>1, <4>3, <4>4, <5>3, UsedTouched
      <4>6. Used(t) <= t.engine.entries
        <5>1. Used(t) \in Nat /\ Used(u) \in Nat /\ s.engine.entries \in Nat
          BY <1>1, <2>6, <4>4, UsedType, SandboxAssumption
        <5> QED
          BY <2>7, <2>9, <4>1, <4>5, <5>1
      <4>7. Under(t)
        BY <2>8, <2>12, <4>1, <4>4, <4>6, Done
      <4> QED
        BY <2>8, <2>12, <4>1, <4>7
    <3>5. CASE u.call.reply = "rejected"
      <4>1. t = ForgetOrder(u, id)
        BY <2>12, <3>5 DEF TakeReply
      <4>2. Forgets(u, t, id)
        BY <1>2, <2>8, <4>1, ForgetFacts
      <4>3. ~Live(u.venue, id)
        BY <3>2, <3>5 DEF Live
      <4>4. Touched(u, t, id) /\ Base(t)
        BY <1>2, <2>6, <4>2, <4>3, ForgottenTouched
      <4>5. /\ t.broker.position = u.broker.position /\ t.venue = u.venue /\ t.engine = u.engine
            /\ t.call = u.call /\ id \notin Tracked(t.broker) /\ t.broker.queue = u.broker.queue
        BY <4>2 DEF Forgets, Booked
      <4>6. NoMoreHidden(u, t, id)
        <5>1. NotSeen(t)[id] = 0 /\ NotSeen(u)[id] = 0
          BY <1>2, <3>1, <3>2, <3>5, <4>5 DEF NotSeen
        <5>2. u.venue.position \in Nat /\ u.broker.position \in Nat
          BY <2>8, SessionParts
        <5> QED
          BY <4>5, <5>1, <5>2 DEF NoMoreHidden
      <4>7. Accounted(t)
        BY <2>6, <3>1, <4>4, <4>6, TouchedAccounted
      <4>8. Used(t) <= Used(u)
        <5>1. Working(u)[id] = 1 /\ Working(t)[id] = 0
          BY <1>2, <3>1, <4>5 DEF Working
        <5>2. /\ Opened(u.broker.queue) \in Nat /\ Opened(u.call.fills) \in Nat
          BY <2>6, UsedType
        <5>3. Opened(t.broker.queue) + Opened(t.call.fills) + Working(t)[id]
                <= Opened(u.broker.queue) + Opened(u.call.fills) + Working(u)[id]
          BY <4>5, <5>1, <5>2
        <5> QED
          BY <2>6, <4>4, <4>5, <5>3, UsedTouched
      <4>9. Used(t) <= t.engine.entries
        <5>1. Used(t) \in Nat /\ Used(u) \in Nat /\ s.engine.entries \in Nat
          BY <1>1, <2>6, <4>4, UsedType, SandboxAssumption
        <5> QED
          BY <2>7, <2>9, <4>5, <4>8, <5>1
      <4>10. Under(t)
        BY <2>8, <2>12, <4>4, <4>5, <4>7, <4>9, Done
      <4> QED
        BY <2>8, <2>12, <4>5, <4>10
    <3> QED
      BY <3>2, <3>3, <3>4, <3>5
  <2> QED
    BY <2>1, <2>10, <2>11, <2>12
<1> QED
  BY <1>3, <1>4 DEF SubmitEntry

-----------------------------------------------------------------------------
(***************************************************************************)
(* The local steps of a handler.                                           *)
(***************************************************************************)
\* Steps without requests, and one such step.
LEMMA NoAsksJoined ==
  ASSUME NEW a \in Seq(StepType), NEW b \in Seq(StepType), NoAsks(a), NoAsks(b)
  PROVE  NoAsks(a \o b)
<1> DEFINE c == a \o b
<1>1. /\ DOMAIN c = 1 .. Len(a) + Len(b) /\ Len(a) \in Nat /\ Len(b) \in Nat
      /\ DOMAIN a = 1 .. Len(a)
      /\ \A i \in 1 .. Len(a) : c[i] = a[i]
      /\ \A i \in Len(a) + 1 .. Len(a) + Len(b) : c[i] = b[i - Len(a)] /\ i - Len(a) \in DOMAIN b
  BY Joined
<1> HIDE DEF c
<1>2. ASSUME NEW i \in DOMAIN c PROVE c[i].op \notin Asks
  <2>1. i \in 1 .. Len(a) \/ i \in Len(a) + 1 .. Len(a) + Len(b)
    BY <1>1
  <2> QED
    BY <1>1, <2>1 DEF NoAsks
<1> QED
  BY <1>2 DEF NoAsks, c

LEMMA OneStep ==
  ASSUME NEW x \in StepType, HandlerStepOK(x), x.op \notin Asks, NEW t, NEW rest \in Seq(StepType),
         x.op \in EntrySteps \cup {"decide"} => rest = <<>>, x.op # "restop"
  PROVE  /\ Fits(<<x>>, t, rest) /\ <<x>> \in Seq(StepType) /\ NoAsks(<<x>>)
         /\ \A i \in DOMAIN <<x>> : <<x>>[i].op = x.op
<1> DEFINE steps == <<x>>
<1>1. steps \in Seq(StepType) /\ DOMAIN steps = {1} /\ steps[1] = x /\ Len(steps) = 1
  OBVIOUS
<1> HIDE DEF steps
<1>2. NoAsks(steps) /\ Listed(steps, t.broker) /\ \A i \in DOMAIN steps : steps[i].op = x.op
  BY <1>1 DEF NoAsks, Listed
<1>3. Fits(steps, t, rest)
  BY <1>1, <1>2 DEF Fits
<1> QED
  BY <1>1, <1>2, <1>3 DEF steps

\* A local step comes before the others a handler has.
LEMMA LocalFirst ==
  ASSUME NEW s, Under(s), NoAsks(s.call.todo), NEW op \in HandlerLocals,
         op = "decide" => s.call.todo = <<>>, NEW t, t = First(s, <<Local(op)>>)
  PROVE  Under(t) /\ NoAsks(t.call.todo)
<1> DEFINE x == Local(op)
           steps == <<x>>
<1>1. s \in SessionType /\ s.call.todo \in Seq(StepType)
  BY SessionParts DEF Under, Goes, Base
<1>2. /\ x \in StepType /\ HandlerStepOK(x) /\ x.op = op
      /\ x.op \notin Asks \cup EntrySteps \cup ExitSteps
  BY LocalStep
<1> HIDE DEF x
<1>3. x.op # "restop" /\ (x.op \in EntrySteps \cup {"decide"} => s.call.todo = <<>>)
  BY <1>2 DEF ExitSteps
<1>4. /\ Fits(steps, s, s.call.todo) /\ steps \in Seq(StepType) /\ NoAsks(steps)
      /\ \A i \in DOMAIN steps : steps[i].op = x.op
  BY <1>1, <1>2, <1>3, OneStep
<1>5. t = First(s, steps)
  BY DEF x
<1> HIDE DEF steps
<1>6. \A i \in DOMAIN steps : steps[i].op \notin EntrySteps /\ steps[i].op # "restop"
  BY <1>2, <1>3, <1>4
<1>7. Under(t)
  BY <1>4, <1>5, <1>6, FirstGoes
<1>8. t.call.todo = steps \o s.call.todo
  BY <1>1, <1>4, <1>5, FirstFacts
<1> QED
  BY <1>1, <1>4, <1>7, <1>8, NoAsksJoined

\* Another engine state.
LEMMA OtherEngine ==
  ASSUME NEW s, Under(s), NEW e \in EngineType, e.status = "running", e.confirmed = None,
         NEW t, t = [s EXCEPT !.engine = e], Numbered(t)
  PROVE  /\ Under(t) /\ t.engine = e /\ t.call = s.call /\ t.broker = s.broker
<1>1. /\ Base(s) /\ Accounted(s) /\ Queued(s) /\ s \in SessionType
      /\ s.call.mode = "handler" /\ ~s.call.failure /\ ~s.call.raising
      /\ \A i \in DOMAIN s.call.todo :
           /\ HandlerStepOK(s.call.todo[i]) /\ s.call.todo[i].op # "restop"
           /\ s.call.todo[i].op \in EntrySteps \cup {"decide"} => i = Len(s.call.todo)
  BY DEF Under, Goes, Handling, Base
<1>2. SameBooks(s, t) /\ t.engine = e /\ t.call = s.call /\ t.broker = s.broker
  BY <1>1, EngineFacts
<1>3. Base(t) /\ Accounted(t)
  BY <1>1, <1>2, SameBooksFacts
<1>4. Queued(t)
  BY <1>1, <1>2 DEF Queued
<1>5. Handling(t)
  BY <1>1, <1>2, <1>3, <1>4 DEF Handling
<1> QED
  BY <1>1, <1>2, <1>3, <1>5 DEF Under, Goes

\* The same numbers of entries and trades; one entry of its own for one trade more.
LEMMA NewEngine ==
  ASSUME NEW s, Under(s), NEW e \in EngineType, e.status = "running", e.confirmed = None,
         e.entries = s.engine.entries,
         \/ e.trades = s.engine.trades
         \/ /\ e.trades = s.engine.trades + 1
            /\ Used(s) + 1 + Submitting(s) <= s.engine.entries,
         NEW t, t = [s EXCEPT !.engine = e]
  PROVE  /\ Under(t) /\ t.engine = e /\ t.call = s.call /\ t.broker = s.broker
<1>1. Base(s) /\ Numbered(s) /\ s \in SessionType
  BY DEF Under, Goes, Handling, Base
<1>2. SameBooks(s, t) /\ t.engine = e /\ t.call = s.call /\ t.broker = s.broker
  BY <1>1, EngineFacts
<1>3. Working(t) = Working(s) /\ Submitting(t) = Submitting(s)
  BY <1>1, <1>2, SameBooksFacts DEF Submitting
<1>4. /\ s.engine.trades \in Nat /\ Opened(s.broker.queue) \in Nat
      /\ Opened(s.call.fills) \in Nat /\ SumFunctionOnSet(Working(s), Ids) \in Nat
      /\ Submitting(s) \in {0, 1} /\ s.engine.entries \in Nat
  BY <1>1, UsedType, SandboxAssumption
<1>5. Used(t) = Used(s) \/ /\ Used(t) = Used(s) + 1
                           /\ Used(s) + 1 + Submitting(s) <= s.engine.entries
  BY <1>2, <1>3, <1>4 DEF Used
<1>6. Numbered(t)
  BY <1>1, <1>2, <1>3, <1>5 DEF Numbered
<1> QED
  BY <1>6, OtherEngine

LEMMA EnteredHandled ==
  ASSUME NEW s, Under(s), s.call.todo = <<>>, NEW t \in Entered(s)
  PROVE  Result(t)
<1>1. /\ s \in SessionType /\ s.engine \in EngineType /\ NoAsks(s.call.todo)
      /\ s.engine.status = "running" /\ s.engine.confirmed = None
  BY SessionParts DEF Under, Goes, Base, Handling, NoAsks
<1>2. CASE s.call.reply \notin {"open", "filled"}
  <2> DEFINE e == [s.engine EXCEPT !.pending = FALSE, !.setup = FALSE, !.halted = TRUE]
  <2>1. t = [s EXCEPT !.engine = e]
    BY <1>1, <1>2 DEF Entered, SessionType
  <2>2. /\ e \in EngineType /\ e.status = "running" /\ e.confirmed = None
        /\ e.trades = s.engine.trades /\ e.entries = s.engine.entries
    BY <1>1 DEF EngineType
  <2> HIDE DEF e
  <2>3. Under(t)
    BY <2>1, <2>2, NewEngine
  <2> QED
    BY <2>3 DEF Result, Under, Goes, Handling
<1>3. CASE s.call.reply = "filled"
  <2> DEFINE u == First(s, <<Local("entered")>>)
  <2>1. t \in Poll(u, "process")
    BY <1>3 DEF Entered
  <2>2. Under(u) /\ NoAsks(u.call.todo)
    <3> DEFINE op == "entered"
    <3>1. op \in HandlerLocals /\ (op = "decide" => s.call.todo = <<>>)
      BY DEF HandlerLocals
    <3>2. u = First(s, <<Local(op)>>)
      OBVIOUS
    <3> HIDE DEF op, u
    <3> QED
      BY <1>1, <3>1, <3>2, LocalFirst
  <2> HIDE DEF u
  <2>3. "process" \in HandlerLocals \ {"decide"}
    BY DEF HandlerLocals
  <2>4. Under(t)
    BY <2>1, <2>2, <2>3, PollGoes
  <2> QED
    BY <2>4 DEF Result, Under, Goes, Handling
<1>4. CASE s.call.reply = "open"
  <2> DEFINE steps == <<>>
             u == First(s, steps)
  <2>1. t \in Poll(u, "process")
    BY <1>4 DEF Entered
  <2>2. steps \in Seq(StepType) /\ DOMAIN steps = {} /\ steps \o s.call.todo = <<>>
    OBVIOUS
  <2> HIDE DEF steps
  <2>3. Fits(steps, s, s.call.todo)
    BY <2>2 DEF Fits, Listed
  <2>4. Under(u)
    BY <1>1, <2>2, <2>3, FirstGoes
  <2>5. u.call.todo = <<>>
    BY <1>1, <2>2, FirstFacts
  <2> HIDE DEF u
  <2>6. NoAsks(u.call.todo)
    BY <2>5 DEF NoAsks
  <2>7. "process" \in HandlerLocals \ {"decide"}
    BY DEF HandlerLocals
  <2>8. Under(t)
    BY <2>1, <2>4, <2>6, <2>7, PollGoes
  <2> QED
    BY <2>8 DEF Result, Under, Goes, Handling
<1> QED
  BY <1>2, <1>3, <1>4

LEMMA SubmitHandled ==
  ASSUME NEW s, Under(s), s.call.todo = <<>>, Used(s) + 1 <= s.engine.entries,
         NEW id \in Entries, NEW conditional \in BOOLEAN,
         NEW u \in SubmitEntry(s, id, conditional),
         NEW t, t \in IF u.call.failure THEN {u} ELSE Entered(u)
  PROVE  Result(t)
<1>1. IF u.call.failure THEN Broken(u) ELSE Under(u) /\ u.call.todo = <<>>
  BY SubmitFacts
<1>2. CASE u.call.failure
  BY <1>1, <1>2 DEF Result
<1>3. CASE ~u.call.failure
  BY <1>1, <1>3, EnteredHandled
<1> QED
  BY <1>2, <1>3

\* Requests for protective orders, which replace a stop first of all.
LEMMA ExitList ==
  ASSUME NEW steps \in Seq(StepType), NEW t, NEW rest,
         \A i \in DOMAIN steps :
           /\ steps[i].op \in ExitSteps /\ steps[i].id \in Exits
           /\ steps[i].op = "restop" => i = 1 /\ t.broker.active # None
  PROVE  Fits(steps, t, rest) /\ \A i \in DOMAIN steps : steps[i].op \notin EntrySteps
<1>1. \A i \in DOMAIN steps : steps[i].op \notin Asks \cup EntrySteps \cup {"decide"}
  BY DEF ExitSteps, EntrySteps, Asks
<1> QED
  BY <1>1 DEF Fits, Listed, HandlerStepOK

LEMMA ExitStep ==
  ASSUME NEW op \in ExitSteps, NEW id \in Exits, NEW qty \in Nat
  PROVE  /\ Step(op, id, qty) \in StepType /\ Step(op, id, qty).op = op
         /\ Step(op, id, qty).id = id
BY IdKinds DEF Step, StepType

\* The fill of an entry opens a trade.
LEMMA OnOpenHandled ==
  ASSUME NEW s, Under(s), NoAsks(s.call.todo), Used(s) + 1 + Submitting(s) <= s.engine.entries,
         NEW fill \in FillType, NEW t \in OnOpen(s, fill)
  PROVE  Result(t)
<1>1. /\ Base(s) /\ s \in SessionType /\ s.engine \in EngineType /\ s.call.todo \in Seq(StepType)
      /\ s.engine.status = "running" /\ s.engine.confirmed = None
  BY SessionParts DEF Under, Goes, Base, Handling
<1>2. fill.qty \in Nat /\ s.engine.trades \in Nat
  BY <1>1 DEF FillType, EngineType
<1> DEFINE trades == s.engine.trades + 1
           e == [s.engine EXCEPT !.pending = FALSE, !.trades = trades, !.setup = FALSE]
           opened == [s EXCEPT !.engine.pending = FALSE, !.engine.trades = @ + 1,
                               !.engine.setup = FALSE]
           adopted == [opened EXCEPT !.engine.account = fill.qty]
           n == opened.engine.trades
           f == [e EXCEPT !.account = fill.qty]
           steps == <<Step("leg", Stop(n), fill.qty), Step("leg", Target(n), fill.qty)>>
<1>3. t \in {opened, Fail(opened), Fail(adopted), First(adopted, steps)}
  BY DEF OnOpen
<1>4. opened = [s EXCEPT !.engine = e] /\ adopted = [opened EXCEPT !.engine = f]
  BY <1>1 DEF SessionType
<1>0. trades \in Nat
  BY <1>2
<1> HIDE DEF trades
<1>5. /\ e \in EngineType /\ e.status = "running" /\ e.confirmed = None
      /\ e.trades = trades /\ e.entries = s.engine.entries
  BY <1>0, <1>1 DEF EngineType
<1>6. /\ f \in EngineType /\ f.status = "running" /\ f.confirmed = None
      /\ f.trades = e.trades /\ f.entries = s.engine.entries
  BY <1>2, <1>5 DEF EngineType
<1> HIDE DEF e, f, opened, adopted
<1>7. Under(opened) /\ opened.engine = e /\ opened.call = s.call /\ opened.broker = s.broker
  BY <1>4, <1>5, NewEngine DEF trades
<1>8. Under(adopted) /\ adopted.engine = f /\ adopted.call = s.call
  <2>1. f.entries = opened.engine.entries /\ f.trades = opened.engine.trades
    BY <1>5, <1>6, <1>7
  <2>2. Under(adopted) /\ adopted.engine = f /\ adopted.call = opened.call
    <3>1. adopted = [opened EXCEPT !.engine = f] /\ Under(opened)
      BY <1>4, <1>7
    <3>2. f \in EngineType /\ f.status = "running" /\ f.confirmed = None
      BY <1>6
    <3> QED
      BY <2>1, <3>1, <3>2, NewEngine
  <2> QED
    BY <1>7, <2>2
<1>9. n \in 1 .. MaxEntries + MaxRevisions
  <2>1. Used(s) \in Nat /\ Submitting(s) \in {0, 1} /\ s.engine.entries \in 0 .. MaxEntries
        /\ s.engine.trades + 0 <= Used(s)
    <3>1. /\ Used(s) \in Nat /\ Submitting(s) \in {0, 1} /\ s.engine.entries \in 0 .. MaxEntries
          /\ Opened(s.broker.queue) \in Nat /\ Opened(s.call.fills) \in Nat
          /\ SumFunctionOnSet(Working(s), Ids) \in Nat
      BY <1>1, UsedType
    <3> QED
      BY <1>2, <3>1 DEF Used
  <2>2. MaxEntries \in Nat /\ MaxRevisions \in Nat
    BY SandboxAssumption
  <2>3. n = s.engine.trades + 1
    BY <1>5, <1>7 DEF trades
  <2> QED
    BY <1>2, <2>1, <2>2, <2>3
<1>10. /\ steps \in Seq(StepType)
       /\ \A i \in DOMAIN steps : steps[i].op = "leg" /\ steps[i].id \in Exits
  <2> DEFINE x == Step("leg", Stop(n), fill.qty)
             y == Step("leg", Target(n), fill.qty)
  <2>1. "leg" \in ExitSteps
    BY DEF ExitSteps
  <2>2. Stop(n) \in Exits /\ Target(n) \in Exits
    BY <1>9, IdKinds
  <2>3. /\ x \in StepType /\ x.op = "leg" /\ x.id \in Exits
        /\ y \in StepType /\ y.op = "leg" /\ y.id \in Exits
    BY <1>2, <2>1, <2>2, ExitStep
  <2> HIDE DEF x, y
  <2>4. /\ <<x, y>> \in Seq(StepType)
        /\ \A i \in DOMAIN <<x, y>> : <<x, y>>[i].op = "leg" /\ <<x, y>>[i].id \in Exits
    BY <2>3
  <2> QED
    BY <2>4 DEF x, y
<1> HIDE DEF steps
<1>11. Under(First(adopted, steps))
  <2>1. /\ Fits(steps, adopted, adopted.call.todo)
        /\ \A i \in DOMAIN steps : steps[i].op \notin EntrySteps /\ steps[i].op # "restop"
    BY <1>10, ExitList DEF ExitSteps
  <2> QED
    BY <1>8, <2>1, FirstGoes
<1>12. Result(Fail(opened)) /\ Result(Fail(adopted))
  BY <1>7, <1>8, UnderFails
<1>13. \A r : Under(r) => Result(r)
  BY DEF Result, Under, Goes, Handling
<1> QED
  BY <1>3, <1>7, <1>11, <1>12, <1>13

LEMMA UnderResult ==
  ASSUME NEW s, Under(s)
  PROVE  Result(s)
BY DEF Result, Under, Goes, Handling

\* The first fill is taken, and the others come after it.
LEMMA NextFill ==
  ASSUME NEW s, Under(s), NoAsks(s.call.todo), s.call.fills # <<>>,
         NEW t, t = First([s EXCEPT !.call.fills = Tail(@)], <<Local("process")>>)
  PROVE  /\ Under(t) /\ NoAsks(t.call.todo) /\ Head(s.call.fills) \in FillType
         /\ OpensTrade(Head(s.call.fills)) => Used(t) + 1 + Submitting(t) <= t.engine.entries
<1> DEFINE fills == Tail(s.call.fills)
           c == [s.call EXCEPT !.fills = fills]
           u == [s EXCEPT !.call.fills = Tail(@)]
           opens == OpensTrade(Head(s.call.fills))
<1>1. /\ Base(s) /\ Accounted(s) /\ Queued(s) /\ Numbered(s) /\ s \in SessionType
      /\ s.call \in CallType /\ s.call.fills \in Seq(FillType) /\ ~s.call.failure
  BY SessionParts DEF Under, Goes, Handling, Base
<1>2. /\ Head(s.call.fills) \in FillType /\ fills \in Seq(FillType)
      /\ Opened(s.call.fills) = IF opens THEN Opened(fills) + 1 ELSE Opened(fills)
  BY <1>1, OpenedTail
<1>3. Opened(fills) \in Nat
  BY <1>2, OpenedNat
<1>4. u = [s EXCEPT !.call = c]
  BY <1>1 DEF SessionType
<1> HIDE DEF fills
<1>5. /\ c \in CallType /\ c.fills = fills /\ c.todo = s.call.todo /\ c.mode = s.call.mode
      /\ c.raising = s.call.raising /\ ~c.failure
  BY <1>1, <1>2 DEF CallType
<1> HIDE DEF c, u, opens
<1>6. SameBooks(s, u) /\ u.broker = s.broker /\ u.engine = s.engine /\ u.call = c
  BY <1>1, <1>4, <1>5, CallFacts
<1>7. /\ Base(u) /\ Accounted(u) /\ Working(u) = Working(s) /\ u \in SessionType
      /\ Tracked(u.broker) = Tracked(s.broker)
  BY <1>1, <1>6, SameBooksFacts DEF SameBooks
<1>8. /\ s.engine.trades \in Nat /\ Opened(s.broker.queue) \in Nat
      /\ SumFunctionOnSet(Working(s), Ids) \in Nat
      /\ Submitting(s) \in {0, 1} /\ s.engine.entries \in Nat
  BY <1>1, UsedType, SandboxAssumption
<1>9. Used(u) = IF opens THEN Used(s) - 1 ELSE Used(s)
  BY <1>2, <1>3, <1>5, <1>6, <1>7, <1>8 DEF Used
<1>10. Used(u) <= Used(s) /\ Used(s) \in Nat /\ Used(u) \in Nat
  <2>1. Used(s) \in Nat /\ Used(u) \in Nat
    BY <1>1, <1>7, UsedType
  <2> QED
    BY <1>9, <2>1
<1>11. \A i \in DOMAIN s.call.todo :
         s.call.todo[i].op \in Asks => s.call.todo[i].id \in Tracked(u.broker)
  BY <1>1, <1>7 DEF Queued
<1>12. Under(u)
  BY <1>5, <1>6, <1>7, <1>10, <1>11, Kept
<1>13. Under(t) /\ NoAsks(t.call.todo)
  <2> DEFINE op == "process"
  <2>1. op \in HandlerLocals /\ op # "decide" /\ t = First(u, <<Local(op)>>)
    BY DEF HandlerLocals, u
  <2> HIDE DEF op
  <2> QED
    BY <1>5, <1>6, <1>12, <2>1, LocalFirst
<1>14. ASSUME opens PROVE Used(t) + 1 + Submitting(t) <= t.engine.entries
  <2> DEFINE x == Local("process")
             steps == <<x>>
  <2>1. x \in StepType /\ x.op \notin EntrySteps
    <3> DEFINE op == "process"
    <3>1. op \in HandlerLocals
      BY DEF HandlerLocals
    <3> HIDE DEF op
    <3>2. Local(op) \in StepType /\ Local(op).op \notin EntrySteps
      BY <3>1, LocalStep
    <3> QED
      BY <3>2 DEF op
  <2> HIDE DEF x
  <2>2. steps \in Seq(StepType) /\ \A i \in DOMAIN steps : steps[i].op \notin EntrySteps
    BY <2>1
  <2>3. t = First(u, steps)
    BY DEF u, x
  <2> HIDE DEF steps
  <2>4. /\ SameBooks(u, t) /\ t.broker = u.broker /\ t.engine = u.engine
        /\ t.call.todo = steps \o u.call.todo /\ t.call.fills = u.call.fills
    BY <1>7, <2>2, <2>3, FirstFacts
  <2>5. Working(t) = Working(u) /\ Base(t)
    BY <1>7, <2>4, SameBooksFacts
  <2>6. Used(t) = Used(u)
    BY <2>4, <2>5 DEF Used
  <2>7. Submitting(t) <= Submitting(u) /\ Submitting(u) = Submitting(s)
    <3>1. Submitting(u) = Submitting(s)
      BY <1>5, <1>6 DEF Submitting
    <3> QED
      BY <1>7, <2>2, <2>4, <2>5, <3>1, NoSubmitting DEF Base
  <2>8. Submitting(t) \in {0, 1}
    BY <2>5, UsedType
  <2>9. Used(s) + Submitting(s) <= s.engine.entries /\ t.engine.entries = s.engine.entries
    BY <1>1, <1>6, <2>4 DEF Numbered
  <2>10. Used(t) = Used(s) - 1 /\ Submitting(t) <= Submitting(s)
    BY <1>9, <1>14, <2>6, <2>7
  <2>11. Used(s) \in Nat /\ Submitting(s) \in {0, 1} /\ s.engine.entries \in Nat
    BY <1>8, <1>10
  <2> QED
    BY <2>8, <2>9, <2>10, <2>11
<1> QED
  BY <1>2, <1>13, <1>14 DEF opens

LEMMA ProcessHandled ==
  ASSUME NEW s, Under(s), NoAsks(s.call.todo), NEW t \in ProcessFills(s)
  PROVE  Result(t)
<1>1. CASE s.call.fills = <<>>
  BY <1>1, UnderResult DEF ProcessFills
<1>2. CASE s.call.fills # <<>>
  <2> DEFINE u == First([s EXCEPT !.call.fills = Tail(@)], <<Local("process")>>)
             fill == Head(s.call.fills)
  <2>1. t \in ProcessExternalFill(u, fill)
    BY <1>2 DEF ProcessFills
  <2>2. /\ Under(u) /\ NoAsks(u.call.todo) /\ fill \in FillType
        /\ OpensTrade(fill) => Used(u) + 1 + Submitting(u) <= u.engine.entries
    BY <1>2, NextFill
  <2> HIDE DEF u, fill
  <2>3. /\ u \in SessionType /\ u.engine \in EngineType
        /\ u.engine.status = "running" /\ u.engine.confirmed = None
    BY <2>2, SessionParts DEF Under, Goes, Base, Handling
  <2>4. Result(Fail(u)) /\ Result(u)
    BY <2>2, UnderFails, UnderResult
  <2>5. CASE fill.role # "entry"
    <3> DEFINE op == "close"
    <3>1. op \in HandlerLocals \ {"decide"}
      BY DEF HandlerLocals
    <3>2. t = Fail(u) \/ t = CancelWorkingOrders(u, Local(op))
      BY <2>1, <2>5 DEF ProcessExternalFill, ProcessExitFill
    <3> HIDE DEF op
    <3>3. Under(CancelWorkingOrders(u, Local(op)))
      BY <2>2, <3>1, CancelsGo
    <3> QED
      BY <2>4, <3>2, <3>3, UnderResult
  <2>6. CASE fill.role = "entry" /\ fill.status \in {"canceled", "expired"}
    <3> DEFINE e == [u.engine EXCEPT !.pending = FALSE]
               v == [u EXCEPT !.engine.pending = FALSE]
    <3>1. t \in {v, Fail(v)}
      BY <2>1, <2>6 DEF ProcessExternalFill, ProcessEntryFill
    <3>2. v = [u EXCEPT !.engine = e]
      BY <2>3 DEF SessionType
    <3>3. /\ e \in EngineType /\ e.status = "running" /\ e.confirmed = None
          /\ e.trades = u.engine.trades /\ e.entries = u.engine.entries
      BY <2>3 DEF EngineType
    <3> HIDE DEF e, v
    <3>4. Under(v)
      BY <2>2, <3>2, <3>3, NewEngine
    <3> QED
      BY <3>1, <3>4, UnderFails, UnderResult
  <2>7. CASE /\ fill.role = "entry" /\ fill.status \notin {"canceled", "expired"}
             /\ u.engine.account # 0 \/ fill.status = "partial"
    BY <2>1, <2>4, <2>7 DEF ProcessExternalFill, ProcessEntryFill
  <2>8. CASE /\ fill.role = "entry" /\ fill.status \notin {"canceled", "expired"}
             /\ ~(u.engine.account # 0 \/ fill.status = "partial")
    <3>1. t \in OnOpen(u, fill)
      BY <2>1, <2>8 DEF ProcessExternalFill, ProcessEntryFill
    <3>2. OpensTrade(fill)
      BY <2>2, <2>8 DEF OpensTrade, FillType
    <3> QED
      BY <2>2, <3>1, <3>2, OnOpenHandled
  <2> QED
    BY <2>5, <2>6, <2>7, <2>8
<1> QED
  BY <1>1, <1>2

\* Protection that is gone leaves the books alone.
LEMMA AfterCancelAllFacts ==
  ASSUME NEW s \in SessionType
  PROVE  LET t == AfterCancelAll(s)
         IN /\ SameBooks(s, t) /\ t.venue = s.venue /\ t.engine = s.engine /\ t.call = s.call
            /\ t.broker.queue = s.broker.queue
<1> DEFINE t == AfterCancelAll(s)
<1>1. CASE t = s
  BY <1>1 DEF SameBooks
<1>2. CASE t = [s EXCEPT !.broker.active = None]
  <2> DEFINE a == None
  <2>1. a \in BracketType \cup {None} /\ t = [s EXCEPT !.broker.active = a]
    BY <1>2
  <2> HIDE DEF a, t
  <2>2. /\ SameBooks(s, t) /\ t.venue = s.venue /\ t.engine = s.engine /\ t.call = s.call
        /\ t.broker.queue = s.broker.queue
    BY <2>1, ActiveFacts
  <2> QED
    BY <2>2 DEF t
<1>3. t = s \/ t = [s EXCEPT !.broker.active = None]
  BY DEF AfterCancelAll
<1> QED
  BY <1>1, <1>2, <1>3

LEMMA AfterCancelAllUnder ==
  ASSUME NEW s, Under(s), NEW t, t = AfterCancelAll(s)
  PROVE  Under(t) /\ t.call = s.call /\ t.engine = s.engine
<1>1. s \in SessionType /\ ~s.call.failure
  BY DEF Under, Goes, Base, Handling
<1>2. /\ SameBooks(s, t) /\ t.engine = s.engine /\ t.call = s.call
      /\ t.broker.queue = s.broker.queue
  BY <1>1, AfterCancelAllFacts
<1> QED
  BY <1>1, <1>2, KeptBooks

LEMMA CloseHandled ==
  ASSUME NEW s, Under(s), NEW t, t = OnClose(AfterCancelAll(s))
  PROVE  Result(t)
<1> DEFINE u == AfterCancelAll(s)
           e == [u.engine EXCEPT !.account = 0]
<1>1. Under(u)
  BY AfterCancelAllUnder
<1>2. t = OnClose(u)
  OBVIOUS
<1> HIDE DEF u
<1>3. u \in SessionType /\ u.engine \in EngineType
      /\ u.engine.status = "running" /\ u.engine.confirmed = None
  BY <1>1, SessionParts DEF Under, Goes, Base, Handling
<1>4. t = [u EXCEPT !.engine = e]
  BY <1>2, <1>3 DEF OnClose, SessionType
<1>5. /\ e \in EngineType /\ e.status = "running" /\ e.confirmed = None
      /\ e.trades = u.engine.trades /\ e.entries = u.engine.entries
  BY <1>3 DEF EngineType
<1> HIDE DEF e
<1>6. Under(t)
  BY <1>1, <1>4, <1>5, NewEngine
<1> QED
  BY <1>6, UnderResult

\* A revision of the protection that is in force.
LEMMA RevisionFacts ==
  ASSUME NEW s, Under(s), s.broker.revision # MaxRevisions, s.broker.active # None,
         NEW t, t = [s EXCEPT !.broker.revision = s.broker.revision + 1]
  PROVE  /\ Under(t) /\ t.call = s.call /\ t.broker.active = s.broker.active
         /\ LET n == s.broker.revision + 1
            IN Stop(Revision(n)) \in Exits /\ Target(Revision(n)) \in Exits
         /\ s.broker.active.stop \in Exits /\ s.broker.active.target \in Exits
         /\ s.broker.active.qty \in Nat
<1> DEFINE n == s.broker.revision + 1
           b == [s.broker EXCEPT !.revision = n]
<1>1. /\ s \in SessionType /\ s.broker \in BrokerType /\ ~s.call.failure
      /\ s.broker.revision \in 0 .. MaxRevisions
      /\ s.broker.active \in BracketType
  <2>1. s \in SessionType /\ s.broker \in BrokerType /\ ~s.call.failure
    BY SessionParts DEF Under, Goes, Base, Handling
  <2> QED
    BY <2>1 DEF BrokerType
<1>2. n \in 1 .. MaxRevisions /\ MaxRevisions \in Nat /\ MaxEntries \in Nat
  BY <1>1, SandboxAssumption
<1>3. t = [s EXCEPT !.broker = b]
  BY <1>1 DEF SessionType
<1>4. n \in 0 .. MaxRevisions
  BY <1>2
<1>5. Revision(n) \in 1 .. MaxEntries + MaxRevisions
  BY <1>2 DEF Revision
<1>6. Stop(Revision(n)) \in Exits /\ Target(Revision(n)) \in Exits
  BY <1>5, IdKinds
<1> HIDE DEF n
<1>7. /\ b \in BrokerType /\ b.tracked = s.broker.tracked /\ b.cum = s.broker.cum
      /\ b.position = s.broker.position /\ b.queue = s.broker.queue
      /\ b.active = s.broker.active
  BY <1>1, <1>4 DEF BrokerType
<1> HIDE DEF b
<1>8. /\ t \in SessionType /\ t.venue = s.venue /\ t.engine = s.engine /\ t.call = s.call
      /\ t.broker = b
  BY <1>1, <1>3, <1>7 DEF SessionType
<1>9. SameBooks(s, t)
  BY <1>7, <1>8 DEF SameBooks
<1>10. Under(t)
  BY <1>1, <1>7, <1>8, <1>9, KeptBooks
<1> QED
  BY <1>1, <1>6, <1>7, <1>8, <1>10 DEF n, BracketType

LEMMA ModifyHandled ==
  ASSUME NEW s, Under(s), NoAsks(s.call.todo), s.broker.revision # MaxRevisions,
         s.broker.active # None, NEW t \in {ModifyStop(s), ModifyProtection(s)}
  PROVE  Result(t)
<1> DEFINE n == s.broker.revision + 1
           qty == s.broker.active.qty
           u == [s EXCEPT !.broker.revision = n]
           w == Step("restop", Stop(Revision(n)), qty)
           x == Step("leg", Stop(Revision(n)), qty)
           y == Step("leg", Target(Revision(n)), qty)
           a == Step("replaced", s.broker.active.stop, 0)
           z == Step("replaced", s.broker.active.target, 0)
<1>1. /\ Under(u) /\ u.call = s.call /\ u.broker.active = s.broker.active
      /\ Stop(Revision(n)) \in Exits /\ Target(Revision(n)) \in Exits
      /\ s.broker.active.stop \in Exits /\ s.broker.active.target \in Exits
      /\ qty \in Nat
  BY RevisionFacts
<1>2. /\ w \in StepType /\ w.op = "restop" /\ w.id \in Exits
      /\ x \in StepType /\ x.op = "leg" /\ x.id \in Exits
      /\ y \in StepType /\ y.op = "leg" /\ y.id \in Exits
      /\ a \in StepType /\ a.op = "replaced" /\ a.id \in Exits
      /\ z \in StepType /\ z.op = "replaced" /\ z.id \in Exits
  <2>1. {"restop", "leg", "replaced"} \subseteq ExitSteps /\ 0 \in Nat
    BY DEF ExitSteps
  <2> QED
    BY <1>1, <2>1, ExitStep
<1>3. t \in {First(u, <<w, a>>), First(u, <<x, y, a, z>>)}
  BY DEF ModifyStop, ModifyProtection
<1> HIDE DEF n, u, w, x, y, z, a
<1>4. ASSUME NEW steps \in Seq(StepType), t = First(u, steps),
             \A i \in DOMAIN steps : /\ steps[i].op \in ExitSteps /\ steps[i].id \in Exits
                                     /\ steps[i].op = "restop" => i = 1
      PROVE  Result(t)
  <2>1. /\ Fits(steps, u, u.call.todo)
        /\ \A i \in DOMAIN steps : steps[i].op \notin EntrySteps
    BY <1>1, <1>4, ExitList
  <2>2. Goes(t)
    BY <1>1, <1>4, <2>1, FirstGoes
  <2> QED
    BY <2>2 DEF Result, Goes, Handling
<1>5. CASE t = First(u, <<w, a>>)
  <2> DEFINE steps == <<w, a>>
  <2>1. /\ steps \in Seq(StepType) /\ DOMAIN steps = {1, 2} /\ steps[1] = w /\ steps[2] = a
    BY <1>2
  <2> HIDE DEF steps
  <2>2. \A i \in DOMAIN steps : /\ steps[i].op \in ExitSteps /\ steps[i].id \in Exits
                                /\ steps[i].op = "restop" => i = 1
    BY <1>2, <2>1 DEF ExitSteps
  <2>3. t = First(u, steps)
    BY <1>5 DEF steps
  <2> QED
    BY <1>4, <2>1, <2>2, <2>3
<1>6. CASE t = First(u, <<x, y, a, z>>)
  <2> DEFINE steps == <<x, y, a, z>>
  <2>1. /\ steps \in Seq(StepType) /\ DOMAIN steps = {1, 2, 3, 4}
        /\ steps[1] = x /\ steps[2] = y /\ steps[3] = a /\ steps[4] = z
    BY <1>2
  <2> HIDE DEF steps
  <2>2. \A i \in DOMAIN steps : /\ steps[i].op \in ExitSteps /\ steps[i].id \in Exits
                                /\ steps[i].op = "restop" => i = 1
    BY <1>2, <2>1 DEF ExitSteps
  <2>3. t = First(u, steps)
    BY <1>6 DEF steps
  <2> QED
    BY <1>4, <2>1, <2>2, <2>3
<1> QED
  BY <1>3, <1>5, <1>6

LEMMA UpdateHandled ==
  ASSUME NEW s, Under(s), NoAsks(s.call.todo), NEW t \in UpdateProtection(s)
  PROVE  Result(t)
<1>1. /\ Base(s) /\ s.call.mode = "handler" /\ s.engine.status = "running"
      /\ s.engine.confirmed = None
  BY DEF Under, Goes, Handling
<1>2. CASE t = s
  BY <1>2, UnderResult
<1>3. CASE t = Fail(s)
  BY <1>3, UnderFails
<1>4. CASE t \in Lost({s})
  BY <1>1, <1>4, LostBroken DEF Result
<1>5. CASE /\ s.broker.revision # MaxRevisions /\ s.broker.active # None
           /\ t \in {ModifyStop(s), ModifyProtection(s)}
  BY <1>5, ModifyHandled
<1> QED
  BY <1>2, <1>3, <1>4, <1>5 DEF UpdateProtection

LEMMA EntryCanceledHandled ==
  ASSUME NEW s, Under(s), NoAsks(s.call.todo), NEW t \in EntryCanceled(AfterCancelAll(s))
  PROVE  Result(t)
<1> DEFINE u == AfterCancelAll(s)
           e == [u.engine EXCEPT !.pending = FALSE, !.setup = FALSE]
           free == [u EXCEPT !.engine.pending = FALSE, !.engine.setup = FALSE]
<1>1. Under(u) /\ u.call = s.call
  BY AfterCancelAllUnder
<1>2. t \in {Fail(u), free} \cup UpdateProtection(free)
  BY DEF EntryCanceled
<1> HIDE DEF u
<1>3. u \in SessionType /\ u.engine \in EngineType
      /\ u.engine.status = "running" /\ u.engine.confirmed = None
  BY <1>1, SessionParts DEF Under, Goes, Base, Handling
<1>4. free = [u EXCEPT !.engine = e]
  BY <1>3 DEF SessionType
<1>5. /\ e \in EngineType /\ e.status = "running" /\ e.confirmed = None
      /\ e.trades = u.engine.trades /\ e.entries = u.engine.entries
  BY <1>3 DEF EngineType
<1> HIDE DEF e, free
<1>6. Under(free) /\ free.call = s.call
  BY <1>1, <1>4, <1>5, NewEngine
<1>7. CASE t \in UpdateProtection(free)
  BY <1>6, <1>7, UpdateHandled
<1>8. CASE t \in {Fail(u), free}
  BY <1>1, <1>6, <1>8, UnderFails, UnderResult
<1> QED
  BY <1>2, <1>7, <1>8

\* An entry more is numbered before it is submitted.
LEMMA EnterHandled ==
  ASSUME NEW s, Under(s), s.call.todo = <<>>, s.engine.entries < MaxEntries,
         NEW op \in EntrySteps, NEW t, t = TryEnter(s, op)
  PROVE  Result(t)
<1> DEFINE n == s.engine.entries + 1
           e == [s.engine EXCEPT !.entries = n, !.pending = TRUE, !.setup = TRUE]
           u == [s EXCEPT !.engine.entries = n, !.engine.pending = TRUE, !.engine.setup = TRUE]
           x == Step(op, Entry(n), Qty)
           steps == <<x>>
<1>1. /\ Base(s) /\ Numbered(s) /\ s \in SessionType /\ s.engine \in EngineType
      /\ s.engine.status = "running" /\ s.engine.confirmed = None
  BY SessionParts DEF Under, Goes, Base, Handling
<1>2. n \in 1 .. MaxEntries /\ n \in 0 .. MaxEntries /\ s.engine.entries \in Nat /\ Qty \in Nat
  BY <1>1, SandboxAssumption DEF EngineType
<1>3. t = First(u, steps) /\ u = [s EXCEPT !.engine = e]
  BY <1>1 DEF TryEnter, SessionType
<1>4. Entry(n) \in Entries /\ Entry(n) \in Ids
  BY <1>2, IdKinds
<1>5. /\ x \in StepType /\ HandlerStepOK(x) /\ x.op = op /\ x.op \notin Asks
      /\ x.op # "restop"
  <2> DEFINE id == Entry(n)
  <2>1. id \in Entries /\ id \in Ids
    BY <1>4
  <2> HIDE DEF id
  <2>2. Step(op, id, Qty) \in StepType
    BY <1>2, <2>1 DEF Step, StepType
  <2>3. Step(op, id, Qty).op = op /\ Step(op, id, Qty).id = id
    BY DEF Step
  <2>4. op \notin Asks \cup ExitSteps
    BY DEF EntrySteps, Asks, ExitSteps
  <2>5. HandlerStepOK(Step(op, id, Qty))
    BY <2>1, <2>3, <2>4 DEF HandlerStepOK
  <2> QED
    BY <2>2, <2>3, <2>4, <2>5 DEF id, ExitSteps
<1>6. /\ e \in EngineType /\ e.status = "running" /\ e.confirmed = None
      /\ e.trades = s.engine.trades /\ e.entries = s.engine.entries + 1
  <2>1. /\ e.entries = n /\ e.status = "running" /\ e.confirmed = None
        /\ e.trades = s.engine.trades
    BY <1>1 DEF EngineType
  <2> HIDE DEF n
  <2>2. e \in EngineType
    BY <1>1, <1>2 DEF EngineType
  <2> QED
    BY <2>1, <2>2 DEF n
<1> HIDE DEF n, e, u, x
<1>7. SameBooks(s, u) /\ u.engine = e /\ u.call = s.call /\ u.broker = s.broker
  BY <1>1, <1>3, <1>6, EngineFacts
<1>8. /\ Used(u) = Used(s) /\ Submitting(s) = 0 /\ Submitting(u) = 0 /\ Used(s) \in Nat
  <2>1. Working(u) = Working(s)
    BY <1>1, <1>7, SameBooksFacts
  <2>2. Used(u) = Used(s)
    BY <1>6, <1>7, <2>1 DEF Used
  <2>3. DOMAIN s.call.todo = {}
    OBVIOUS
  <2> QED
    BY <1>1, <1>7, <2>2, <2>3, UsedType DEF Submitting
<1>9. Used(s) <= s.engine.entries
  BY <1>1, <1>8 DEF Numbered
<1>10. Numbered(u)
  BY <1>2, <1>6, <1>7, <1>8, <1>9 DEF Numbered
<1>11. Under(u)
  BY <1>3, <1>6, <1>10, OtherEngine
<1>12. /\ Base(u) /\ Accounted(u) /\ u \in SessionType /\ u.call.mode = "handler"
       /\ u.engine.status = "running" /\ u.engine.confirmed = None
       /\ ~u.call.failure /\ ~u.call.raising
  BY <1>11 DEF Under, Goes, Handling, Base
<1>13. /\ steps \in Seq(StepType) /\ Fits(steps, u, u.call.todo)
       /\ \A i \in DOMAIN steps : steps[i].op = x.op
  <2>1. u.call.todo \in Seq(StepType) /\ u.call.todo = <<>>
    BY <1>7, <1>12, SessionParts
  <2> QED
    BY <1>5, <2>1, OneStep
<1> HIDE DEF steps
<1>14. /\ SameBooks(u, t) /\ t.broker = u.broker /\ t.engine = u.engine
       /\ t.call.todo = steps \o u.call.todo /\ SameLocals(u.call, t.call)
       /\ t.call.fills = u.call.fills
  <2>1. steps \in Seq(StepType) /\ u \in SessionType /\ t = First(u, steps)
    BY <1>3, <1>12, <1>13
  <2> QED
    BY <2>1, FirstFacts
<1>15. Base(t) /\ Accounted(t) /\ Working(t) = Working(u)
  BY <1>12, <1>14, SameBooksFacts
<1>16. Numbered(t)
  <2>1. Used(t) = Used(u) /\ Submitting(t) \in {0, 1}
    BY <1>14, <1>15, UsedType DEF Used
  <2> QED
    BY <1>2, <1>6, <1>7, <1>8, <1>9, <1>14, <2>1 DEF Numbered
<1>17. Fits(steps, t, u.call.todo)
  BY <1>13, <1>14 DEF Fits
<1>18. NoAsks(u.call.todo)
  BY <1>7 DEF NoAsks
<1>19. \A i \in DOMAIN steps : steps[i].op # "restop"
  BY <1>5, <1>13
<1>20. Under(t)
  BY <1>11, <1>12, <1>14, <1>15, <1>16, <1>17, <1>18, <1>19, Prepended DEF SameLocals
<1> QED
  BY <1>20, UnderResult

LEMMA DecideHandled ==
  ASSUME NEW s, Under(s), s.call.todo = <<>>, NEW t \in Decide(s)
  PROVE  Result(t)
<1>1. NoAsks(s.call.todo)
  BY DEF NoAsks
<1>2. CASE t \in {s, Fail(s)}
  BY <1>2, UnderFails, UnderResult
<1>3. CASE t \in UpdateProtection(s)
  BY <1>1, <1>3, UpdateHandled
<1>4. CASE t = CancelWorkingOrders(s, Local("entryCanceled"))
  <2> DEFINE op == "entryCanceled"
  <2>1. op \in HandlerLocals \ {"decide"} /\ t = CancelWorkingOrders(s, Local(op))
    BY <1>4 DEF HandlerLocals
  <2> HIDE DEF op
  <2> QED
    BY <1>1, <2>1, CancelsGo, UnderResult
<1>5. CASE s.engine.entries < MaxEntries /\ \E op \in EntrySteps : t = TryEnter(s, op)
  BY <1>5, EnterHandled
<1> QED
  BY <1>2, <1>3, <1>4, <1>5 DEF Decide, EntrySteps

-----------------------------------------------------------------------------
(***************************************************************************)
(* Containment.                                                            *)
(***************************************************************************)
LEMMA NoCallType ==
  /\ NoCall \in CallType
  /\ ~NoCall.canceled /\ NoCall.todo = <<>> /\ NoCall.fills = <<>> /\ ~NoCall.failure
  /\ NoCall.flat = "failed" /\ ~NoCall.drained /\ NoCall.mode = "idle" /\ ~NoCall.raising
<1>1. <<>> \in Seq(FillType) /\ <<>> \in Seq(StepType)
  OBVIOUS
<1> QED
  BY <1>1 DEF NoCall, CallType, Statuses

\* A containment starts with the cancellation of everything tracked.
LEMMA ContainFacts ==
  ASSUME NEW s, Base(s), s.engine.status = "running", s.engine.confirmed # TRUE,
         NEW mode \in {"contain", "finalize"}, mode = "contain" => s.call.raising,
         NEW t, t = ContainExposure(s, mode)
  PROVE  Base(t) /\ Containing(t) /\ t.call.todo # <<>> /\ t.call.mode = mode
<1>1. /\ s \in SessionType /\ s.engine \in EngineType /\ s.call.raising \in BOOLEAN
      /\ Distinct(s.broker.tracked) /\ s.broker.tracked \in Seq(Ids)
      /\ Range(s.broker.tracked) = Tracked(s.broker)
  <2>1. s \in SessionType /\ Distinct(s.broker.tracked)
    BY DEF Base
  <2>2. s.call \in CallType
    BY <2>1, SessionParts
  <2>3. s.call.raising \in BOOLEAN
    BY <2>2 DEF CallType
  <2> QED
    BY <2>1, <2>3, SessionParts DEF Tracked
<1> DEFINE z == Local("contain")
           e == [s.engine EXCEPT !.attempted = TRUE, !.halted = TRUE]
           c == [NoCall EXCEPT !.mode = mode, !.raising = s.call.raising]
           v == [s EXCEPT !.engine.attempted = TRUE, !.engine.halted = TRUE, !.call = c]
<1>2. t = CancelWorkingOrders(v, z)
  BY DEF ContainExposure
<1>3. v = [s EXCEPT !.engine = e, !.call = c]
  BY <1>1 DEF SessionType
<1>4. /\ e \in EngineType /\ e.attempted /\ e.status = "running" /\ e.confirmed = s.engine.confirmed
  BY <1>1 DEF EngineType
<1>5. /\ c \in CallType /\ c.mode = mode /\ c.raising = s.call.raising /\ ~c.canceled
      /\ c.todo = <<>> /\ ~c.failure /\ c.flat = "failed" /\ ~c.drained
  <2>1. NoCall \in CallType
    BY NoCallType
  <2>2. mode \in {"idle", "handler", "contain", "finalize"}
    OBVIOUS
  <2>3. /\ c \in CallType /\ c.mode = mode /\ c.raising = s.call.raising
        /\ c.canceled = NoCall.canceled /\ c.todo = NoCall.todo /\ c.failure = NoCall.failure
        /\ c.flat = NoCall.flat /\ c.drained = NoCall.drained
    BY <1>1, <2>1, <2>2 DEF CallType
  <2>4. ~NoCall.canceled /\ NoCall.todo = <<>> /\ ~NoCall.failure /\ NoCall.flat = "failed"
        /\ ~NoCall.drained
    BY NoCallType
  <2> HIDE DEF c
  <2> QED
    BY <2>3, <2>4
<1> HIDE DEF c, e, v
<1>6. /\ v \in SessionType /\ v.venue = s.venue /\ v.broker = s.broker /\ v.engine = e
      /\ v.call = c
  BY <1>1, <1>3, <1>4, <1>5 DEF SessionType
<1>7. SameBooks(s, v)
  BY <1>6 DEF SameBooks
<1>8. Base(v)
  BY <1>7, SameBooksFacts
<1>9. z \in StepType /\ z.op = "contain" /\ z.op \notin Asks
  BY DEF Local, Step, StepType, Asks
<1> HIDE DEF z
<1>10. /\ SameBooks(v, t) /\ t.broker = v.broker
       /\ t.engine = v.engine /\ SameLocals(v.call, t.call)
       /\ t.call.todo = Append(Steps("cancel", v.broker.tracked), z) \o v.call.todo
  BY <1>2, <1>6, <1>9, CancelsFacts
<1>11. Base(t) /\ Tracked(t.broker) = Tracked(s.broker)
  BY <1>6, <1>8, <1>10, SameBooksFacts DEF Tracked
<1> DEFINE steps == Append(Steps("cancel", s.broker.tracked), z)
<1>12. AsksThen(steps, "cancel", t.broker, z)
  <2>1. "cancel" \in Asks
    BY DEF Asks
  <2> QED
    BY <1>1, <1>9, <1>11, <2>1, AskSteps
<1>13. t.call.todo = steps \o <<>>
  BY <1>5, <1>6, <1>10
<1> HIDE DEF steps
<1>14. t.call.todo = steps
  BY <1>12, <1>13 DEF AsksThen
<1>15. Queued(t)
  BY <1>12, <1>14 DEF AsksThen, Listed, Queued
<1>16. steps # <<>>
  BY <1>12 DEF AsksThen
<1>17. Cancelling(t)
  <2>1. /\ ~t.call.canceled /\ t.call.flat = "failed" /\ ~t.call.drained
    BY <1>5, <1>6, <1>10 DEF SameLocals
  <2>2. /\ t.call.todo # <<>> /\ t.call.todo[Len(t.call.todo)].op = "contain"
        /\ \A i \in 1 .. Len(t.call.todo) - 1 : t.call.todo[i].op = "cancel"
        /\ \A id \in Tracked(t.broker) :
             \E i \in 1 .. Len(t.call.todo) - 1 : t.call.todo[i].id = id
    BY <1>9, <1>12, <1>14, <1>16 DEF AsksThen
  <2> QED
    BY <2>1, <2>2 DEF Cancelling
<1>18. Containing(t)
  BY <1>4, <1>5, <1>6, <1>10, <1>15, <1>17 DEF Containing, SameLocals
<1> QED
  BY <1>5, <1>6, <1>10, <1>11, <1>14, <1>16, <1>18 DEF SameLocals

\* An exception in a handler starts one.
LEMMA BrokenRaises ==
  ASSUME NEW s, Broken(s)
  PROVE  Base(Raise(s)) /\ Containing(Raise(s)) /\ Raise(s).call.mode = "contain"
<1> DEFINE c == [s.call EXCEPT !.raising = TRUE]
           u == [s EXCEPT !.call.raising = TRUE]
<1>1. /\ Base(s) /\ s \in SessionType /\ s.call \in CallType /\ s.call.mode = "handler"
      /\ s.engine.status = "running" /\ s.engine.confirmed = None
  BY SessionParts DEF Broken, Base
<1>2. Raise(s) = ContainExposure(u, "contain")
  BY <1>1 DEF Raise
<1>3. u = [s EXCEPT !.call = c]
  BY <1>1 DEF SessionType
<1>4. c \in CallType /\ c.raising
  BY <1>1 DEF CallType
<1> HIDE DEF c, u
<1>5. SameBooks(s, u) /\ u.engine = s.engine /\ u.call = c
  BY <1>1, <1>3, <1>4, CallFacts
<1>6. Base(u)
  BY <1>1, <1>5, SameBooksFacts
<1>7. None # TRUE
  BY SandboxAssumption
<1> DEFINE mode == "contain"
<1>8. mode \in {"contain", "finalize"} /\ Raise(s) = ContainExposure(u, mode)
  BY <1>2
<1> HIDE DEF mode
<1>9. Base(Raise(s)) /\ Containing(Raise(s)) /\ Raise(s).call.mode = mode
  BY <1>1, <1>4, <1>5, <1>6, <1>7, <1>8, ContainFacts
<1> QED
  BY <1>9 DEF mode

\* A containment under way, whatever it has left to do; and what one step of it leaves.
Inside(s) ==
  /\ Base(s) /\ s.call.mode \in {"contain", "finalize"}
  /\ s.call.mode = "contain" => s.call.raising
  /\ s.engine.status = "running" /\ s.engine.confirmed # TRUE /\ s.engine.attempted
Contained(s) ==
  IF s.call.failure
  THEN Inside(s) /\ (s.call.canceled => Quiet(s) /\ (s.call.drained => s.call.flat # "failed"))
  ELSE Base(s) /\ Containing(s)

\* An exception in a containment leads to its confirmation.
LEMMA ContainedRaises ==
  ASSUME NEW s, Contained(s), s.call.failure, NEW t, t = Raise(s)
  PROVE  Base(t) /\ Containing(t) /\ t.call.mode = s.call.mode
<1> DEFINE x == Local("confirm")
           todo == <<x>>
           c == [s.call EXCEPT !.failure = FALSE, !.todo = todo]
<1>0. /\ Base(s) /\ s.call.mode \in {"contain", "finalize"}
      /\ s.call.mode = "contain" => s.call.raising
      /\ s.engine.status = "running" /\ s.engine.confirmed # TRUE /\ s.engine.attempted
      /\ s.call.canceled => Quiet(s) /\ (s.call.drained => s.call.flat # "failed")
  BY DEF Contained, Inside
<1>1. s \in SessionType /\ s.call \in CallType
  BY <1>0, SessionParts DEF Base
<1>2. t = [s EXCEPT !.call = c]
  BY <1>0, <1>1 DEF Raise, SessionType
<1>3. x \in StepType /\ x.op = "confirm"
  BY DEF Local, Step, StepType, AfterSteps
<1> HIDE DEF x
<1>4. todo \in Seq(StepType) /\ DOMAIN todo = {1} /\ todo[1] = x
  BY <1>3
<1> HIDE DEF todo
<1>5. /\ c \in CallType /\ c.mode = s.call.mode /\ c.todo = todo /\ ~c.failure
      /\ c.raising = s.call.raising /\ c.canceled = s.call.canceled /\ c.flat = s.call.flat
      /\ c.drained = s.call.drained
  BY <1>1, <1>4 DEF CallType
<1> HIDE DEF c
<1>6. /\ SameBooks(s, t) /\ t.venue = s.venue /\ t.broker = s.broker /\ t.engine = s.engine
      /\ t.call = c
  BY <1>1, <1>2, <1>5, CallFacts
<1>7. Base(t)
  BY <1>0, <1>6, SameBooksFacts
<1>8. Queued(t)
  BY <1>3, <1>4, <1>5, <1>6 DEF Queued, Asks
<1>9. \A i \in DOMAIN t.call.todo : t.call.todo[i].op \in AfterSteps
  BY <1>3, <1>4, <1>5, <1>6 DEF AfterSteps
<1>10. ASSUME t.call.canceled PROVE Quiet(t) /\ Flattening(t)
  <2>1. Quiet(t)
    BY <1>0, <1>5, <1>6, <1>10 DEF Quiet, UnseenFlatten
  <2>2. Flattening(t)
    BY <1>0, <1>5, <1>6, <1>10 DEF Flattening, todo, x
  <2> QED
    BY <2>1, <2>2
<1> QED
  BY <1>0, <1>5, <1>6, <1>7, <1>8, <1>9, <1>10 DEF Containing

LEMMA BeginContained ==
  ASSUME NEW s, Base(s), Containing(s), NEW r, NEW x, Takes(s, r, x)
  PROVE  /\ Inside(r) /\ ~r.call.failure /\ Queued(r) /\ SameBooks(s, r)
         /\ r.venue = s.venue /\ r.broker = s.broker /\ r.engine = s.engine
         /\ r.call.canceled = s.call.canceled /\ r.call.flat = s.call.flat
         /\ r.call.drained = s.call.drained /\ r.call.error = s.call.error
         /\ r.call.todo = Tail(s.call.todo) /\ r.call.todo \in Seq(StepType)
         /\ s.call.todo \in Seq(StepType) /\ s.call.todo # <<>> /\ x = s.call.todo[1]
         /\ x \in StepType
         /\ x.op \in Asks => /\ x.id \in Tracked(r.broker)
                             /\ \A i \in DOMAIN r.call.todo :
                                  r.call.todo[i].op \in Asks => r.call.todo[i].id # x.id
         /\ x.op \notin Asks => NoAsks(r.call.todo)
         /\ x.op \in AfterSteps =>
              /\ \A i \in DOMAIN r.call.todo : r.call.todo[i].op \in AfterSteps
              /\ r.call.canceled => Quiet(r) /\ Flattening(s)
         /\ x.op \in {"cancel", "contain"} => Cancelling(s)
<1>1. /\ s \in SessionType /\ s.call.todo \in Seq(StepType) /\ s.call.todo # <<>>
      /\ x = Head(s.call.todo)
  BY SessionParts DEF Base, Takes
<1>2. /\ r \in SessionType /\ x \in StepType
      /\ r.venue = s.venue /\ r.broker = s.broker /\ r.engine = s.engine
      /\ r.call.todo = Tail(s.call.todo)
      /\ r.call.mode = s.call.mode /\ r.call.failure = s.call.failure
      /\ r.call.raising = s.call.raising
      /\ r.call.error = s.call.error /\ r.call.canceled = s.call.canceled
      /\ r.call.flat = s.call.flat /\ r.call.drained = s.call.drained
  BY <1>1, TakesFacts
<1>3. SameBooks(s, r)
  BY <1>2 DEF SameBooks
<1>4. Base(r)
  BY <1>3, SameBooksFacts
<1>5. Inside(r) /\ ~r.call.failure
  BY <1>2, <1>4 DEF Inside, Containing
<1>6. /\ Queued(r)
      /\ x.op \in Asks => /\ x.id \in Tracked(r.broker)
                          /\ \A i \in DOMAIN r.call.todo :
                               r.call.todo[i].op \in Asks => r.call.todo[i].id # x.id
      /\ x.op \notin Asks => NoAsks(r.call.todo)
  BY <1>1, TakesQueued DEF Containing
<1>7. /\ x = s.call.todo[1] /\ 1 \in DOMAIN s.call.todo /\ Len(s.call.todo) \in Nat
      /\ DOMAIN s.call.todo = 1 .. Len(s.call.todo) /\ r.call.todo \in Seq(StepType)
      /\ \A i \in DOMAIN r.call.todo :
           r.call.todo[i] = s.call.todo[i + 1] /\ i + 1 \in DOMAIN s.call.todo
  BY <1>1, <1>2, HeadAndTail
<1>8. Cancelling(s) => x.op \in {"cancel", "contain"}
  <2> SUFFICES ASSUME Cancelling(s) PROVE x.op \in {"cancel", "contain"}
    OBVIOUS
  <2> DEFINE n == Len(s.call.todo)
  <2>1. n \in Nat /\ 1 \in 1 .. n
    BY <1>7
  <2> HIDE DEF n
  <2>2. n = 1 \/ 1 \in 1 .. n - 1
    BY <2>1
  <2> QED
    BY <1>7, <2>2 DEF Cancelling, n
<1>9. {"cancel", "contain"} \cap AfterSteps = {}
  BY DEF AfterSteps
<1>10. \/ Cancelling(s)
       \/ /\ \A i \in DOMAIN s.call.todo : s.call.todo[i].op \in AfterSteps
          /\ s.call.canceled => Quiet(s) /\ Flattening(s)
  BY DEF Containing
<1>11. Quiet(s) => Quiet(r)
  BY <1>2 DEF Quiet, UnseenFlatten
<1>12. ASSUME x.op \in AfterSteps
       PROVE  /\ \A i \in DOMAIN r.call.todo : r.call.todo[i].op \in AfterSteps
              /\ r.call.canceled => Quiet(r) /\ Flattening(s)
  BY <1>2, <1>7, <1>8, <1>9, <1>10, <1>11, <1>12
<1>13. ASSUME x.op \in {"cancel", "contain"} PROVE Cancelling(s)
  BY <1>7, <1>9, <1>10, <1>13
<1> QED
  BY <1>1, <1>2, <1>3, <1>5, <1>6, <1>7, <1>12, <1>13

\* One cancellation of a containment.
LEMMA CancelContained ==
  ASSUME NEW s, Base(s), Containing(s), NEW r, NEW x, Takes(s, r, x), x.op = "cancel",
         NEW t \in CancelOne(r, x.id)
  PROVE  Contained(t)
<1> DEFINE todo == s.call.todo
           rest == r.call.todo
           id == x.id
<1>1. "cancel" \in Asks
  BY DEF Asks
<1>2. /\ Inside(r) /\ ~r.call.failure /\ Queued(r)
      /\ r.broker = s.broker /\ r.call.canceled = s.call.canceled /\ r.call.flat = s.call.flat
      /\ r.call.drained = s.call.drained /\ r.call.error = s.call.error
      /\ rest = Tail(todo) /\ rest \in Seq(StepType)
      /\ todo \in Seq(StepType) /\ todo # <<>> /\ x = todo[1]
      /\ id \in Tracked(r.broker)
      /\ \A i \in DOMAIN rest : rest[i].op \in Asks => rest[i].id # id
      /\ Cancelling(s)
  BY <1>1, BeginContained
<1>3. Base(r) /\ r \in SessionType
  BY <1>2 DEF Inside, Base
<1>4. Base(t) /\ \E u : Deleted(r, u, id) /\ Cancels(u, t, id)
  BY <1>2, <1>3, CancelKeeps
<1>5. PICK u : Deleted(r, u, id) /\ Cancels(u, t, id)
  BY <1>4
<1>6. /\ t.engine = r.engine /\ t.call.mode = r.call.mode /\ t.call.todo = rest
      /\ t.call.raising = r.call.raising /\ ~t.call.failure
      /\ t.call.canceled = s.call.canceled /\ t.call.flat = s.call.flat
      /\ t.call.drained = s.call.drained
      /\ ~t.call.error => id \notin Tracked(t.broker) /\ ~s.call.error
      /\ \A j \in Ids \ {id} : j \in Tracked(t.broker) <=> j \in Tracked(s.broker)
  BY <1>2, <1>5 DEF Deleted, Requested, SameHandler, Cancels
<1>7. Queued(t)
  <2>1. ASSUME NEW i \in DOMAIN rest, rest[i].op \in Asks PROVE rest[i].id \in Tracked(t.broker)
    <3>1. rest[i].id \in Tracked(r.broker) /\ rest[i].id # id
      BY <1>2, <2>1 DEF Queued
    <3>2. rest[i].id \in Ids
      BY <1>3, <3>1, SessionParts
    <3> QED
      BY <1>2, <1>6, <3>1, <3>2
  <2> QED
    BY <1>2, <1>6, <2>1 DEF Queued
<1> DEFINE n == Len(todo)
<1>8. /\ n \in Nat /\ Len(rest) = n - 1 /\ DOMAIN rest = 1 .. n - 1
      /\ \A i \in 1 .. n - 1 : rest[i] = todo[i + 1]
  BY <1>2, HeadAndTail
<1>9. /\ todo[n].op = "contain" /\ \A i \in 1 .. n - 1 : todo[i].op = "cancel"
      /\ ~s.call.canceled /\ s.call.flat = "failed" /\ ~s.call.drained
      /\ ~s.call.error =>
           \A j \in Tracked(s.broker) : \E i \in 1 .. n - 1 : todo[i].id = j
  BY <1>2 DEF Cancelling
<1>10. n # 1 /\ n # 0
  BY <1>2, <1>9
<1> HIDE DEF n, todo, rest
<1>11. n \in Nat /\ n > 1
  BY <1>8, <1>10
<1>12. /\ rest # <<>> /\ rest[Len(rest)].op = "contain"
       /\ \A i \in 1 .. Len(rest) - 1 : rest[i].op = "cancel"
  <2>1. n - 1 \in 1 .. n - 1 /\ (n - 1) + 1 = n
    BY <1>11
  <2>2. \A i \in 1 .. Len(rest) - 1 : i \in 1 .. n - 1 /\ i + 1 \in 1 .. n - 1
    BY <1>8, <1>11
  <2> QED
    BY <1>8, <1>9, <2>1, <2>2
<1>13. ASSUME ~t.call.error, NEW j \in Tracked(t.broker)
       PROVE  \E i \in 1 .. Len(rest) - 1 : rest[i].id = j
  <2>1. j \in Ids
    BY <1>4, <1>13, SessionParts DEF Base
  <2>2. j # id /\ j \in Tracked(s.broker) /\ ~s.call.error
    BY <1>6, <1>13, <2>1
  <2>3. PICK i \in 1 .. n - 1 : todo[i].id = j
    BY <1>9, <2>2
  <2>4. i # 1
    BY <1>2, <2>2, <2>3
  <2>5. i - 1 \in 1 .. Len(rest) - 1 /\ i - 1 \in 1 .. n - 1 /\ (i - 1) + 1 = i
    BY <1>8, <1>11, <2>3, <2>4
  <2> QED
    BY <1>8, <2>3, <2>5
<1>14. Cancelling(t)
  BY <1>6, <1>9, <1>12, <1>13 DEF Cancelling
<1>15. Containing(t)
  BY <1>2, <1>6, <1>7, <1>14 DEF Containing, Inside
<1> QED
  BY <1>4, <1>6, <1>15 DEF Contained

\* Everything was canceled, or not, and the position comes next.
LEMMA ContainContained ==
  ASSUME NEW s, Base(s), Containing(s), NEW r, NEW x, Takes(s, r, x), x.op = "contain",
         NEW a, a = AfterCancelAll(r), NEW t,
         t = [a EXCEPT !.engine.pending = FALSE,
                       !.call = [NoCall EXCEPT !.mode = a.call.mode, !.raising = a.call.raising,
                                               !.canceled = Canceled(a),
                                               !.todo = <<Local("position")>>]]
  PROVE  Contained(t)
<1> DEFINE todo == s.call.todo
<1>1. /\ Inside(r) /\ ~r.call.failure
      /\ r.broker = s.broker /\ r.call.error = s.call.error /\ r.engine = s.engine
      /\ todo \in Seq(StepType) /\ todo # <<>> /\ x = todo[1]
      /\ Cancelling(s)
  BY BeginContained
<1>2. Base(r) /\ r \in SessionType
  BY <1>1 DEF Inside, Base
<1>3. /\ SameBooks(r, a) /\ a.venue = r.venue /\ a.engine = r.engine /\ a.call = r.call
      /\ a \in SessionType
  BY <1>2, AfterCancelAllFacts DEF SameBooks
<1>4. Base(a) /\ Tracked(a.broker) = Tracked(r.broker)
  BY <1>2, <1>3, SameBooksFacts
<1> DEFINE y == Local("position")
           next == <<y>>
           canceled == Canceled(a)
           e == [a.engine EXCEPT !.pending = FALSE]
           c == [NoCall EXCEPT !.mode = a.call.mode, !.raising = a.call.raising,
                               !.canceled = canceled, !.todo = next]
<1>5. t = [a EXCEPT !.engine = e, !.call = c]
  BY <1>3 DEF SessionType
<1>6. /\ y \in StepType /\ y.op = "position"
  BY DEF Local, Step, StepType, AfterSteps
<1>7. next \in Seq(StepType) /\ DOMAIN next = {1} /\ next[1] = y
  BY <1>6
<1>8. /\ a.engine \in EngineType /\ a.call \in CallType
  BY <1>3, SessionParts
<1>9. /\ a.call.mode \in {"idle", "handler", "contain", "finalize"} /\ a.call.raising \in BOOLEAN
      /\ a.call.error \in BOOLEAN /\ a.call.acks \in BOOLEAN /\ a.call.needAck \in BOOLEAN
  BY <1>8 DEF CallType
<1>10. canceled \in BOOLEAN
  BY <1>9 DEF Canceled, Pending
<1>11. canceled => ~s.call.error
  BY <1>1, <1>3, BeginContained DEF Canceled
<1> HIDE DEF y, next, canceled
<1>12. /\ c \in CallType /\ c.mode = a.call.mode /\ c.raising = a.call.raising
       /\ c.canceled = canceled /\ c.todo = next /\ ~c.failure /\ c.flat = "failed"
       /\ ~c.drained
  <2> DEFINE mode == a.call.mode
             raising == a.call.raising
  <2>1. c = [NoCall EXCEPT !.mode = mode, !.raising = raising, !.canceled = canceled,
                           !.todo = next]
    OBVIOUS
  <2>2. mode \in {"idle", "handler", "contain", "finalize"} /\ raising \in BOOLEAN
        /\ next \in Seq(StepType) /\ canceled \in BOOLEAN
    BY <1>7, <1>9, <1>10
  <2> HIDE DEF mode, raising
  <2>3. /\ c \in CallType /\ c.mode = mode /\ c.raising = raising
        /\ c.canceled = canceled /\ c.todo = next /\ c.failure = NoCall.failure
        /\ c.flat = NoCall.flat /\ c.drained = NoCall.drained
    BY <2>1, <2>2, NoCallType DEF CallType
  <2> HIDE DEF c
  <2> QED
    BY <2>3, NoCallType DEF mode, raising
<1>13. /\ e \in EngineType /\ ~e.pending /\ e.status = a.engine.status
       /\ e.confirmed = a.engine.confirmed /\ e.attempted = a.engine.attempted
  BY <1>8 DEF EngineType
<1> HIDE DEF c, e
<1>14. /\ t \in SessionType /\ t.venue = a.venue /\ t.broker = a.broker /\ t.engine = e
       /\ t.call = c
  BY <1>3, <1>5, <1>12, <1>13 DEF SessionType
<1>15. SameBooks(a, t)
  BY <1>14 DEF SameBooks
<1>16. Base(t) /\ Tracked(t.broker) = Tracked(s.broker)
  BY <1>1, <1>4, <1>15, SameBooksFacts
<1>17. canceled => Tracked(t.broker) = {}
  <2> SUFFICES ASSUME canceled PROVE Tracked(t.broker) = {}
    OBVIOUS
  <2> DEFINE n == Len(todo)
  <2>1. /\ \A i \in 1 .. n - 1 : todo[i].op = "cancel"
        /\ \A j \in Tracked(s.broker) : \E i \in 1 .. n - 1 : todo[i].id = j
    BY <1>1, <1>11 DEF Cancelling
  <2>2. n \in Nat
    BY <1>1
  <2> HIDE DEF n, todo
  <2>3. 1 \notin 1 .. n - 1
    BY <1>1, <2>1
  <2>4. 1 .. n - 1 = {}
    BY <2>2, <2>3
  <2> QED
    BY <1>16, <2>1, <2>4
<1>18. Queued(t) /\ \A i \in DOMAIN t.call.todo : t.call.todo[i].op \in AfterSteps
  BY <1>6, <1>7, <1>12, <1>14 DEF Queued, Asks, AfterSteps
<1>19. ASSUME t.call.canceled PROVE Quiet(t) /\ Flattening(t)
  <2>1. Tracked(t.broker) = {} /\ ~Live(t.venue, FlattenId)
    BY <1>12, <1>14, <1>16, <1>17, <1>19, IdKinds DEF Base
  <2>2. Quiet(t)
    BY <1>12, <1>13, <1>14, <2>1 DEF Quiet
  <2>3. Flattening(t)
    BY <1>12, <1>14, <2>1 DEF Flattening, next, y
  <2> QED
    BY <2>2, <2>3
<1>20. Containing(t)
  BY <1>1, <1>3, <1>12, <1>13, <1>14, <1>18, <1>19 DEF Containing, Inside
<1> QED
  BY <1>12, <1>14, <1>16, <1>20 DEF Contained

\* The sequences of one and of two elements, and those of at most one value.
LEMMA Ones ==
  ASSUME NEW S, NEW seq \in Seq(S), Len(seq) = 1
  PROVE  seq = <<seq[1]>>
OBVIOUS

LEMMA Twos ==
  ASSUME NEW S, NEW seq \in Seq(S), Len(seq) = 2
  PROVE  seq = <<seq[1], seq[2]>>
OBVIOUS

LEMMA OneValue ==
  ASSUME NEW S, NEW seq \in Seq(S), Distinct(seq), NEW v, Range(seq) \subseteq {v}
  PROVE  Len(seq) = 0 \/ (Len(seq) = 1 /\ seq[1] = v /\ v \in Range(seq))
<1> DEFINE n == Len(seq)
<1>1. n \in Nat /\ DOMAIN seq = 1 .. n
  OBVIOUS
<1>2. \A i \in DOMAIN seq : seq[i] = v /\ v \in Range(seq)
  BY DEF Range
<1> HIDE DEF n
<1>3. ASSUME n > 1 PROVE FALSE
  <2>1. 1 \in DOMAIN seq /\ 2 \in DOMAIN seq
    BY <1>1, <1>3
  <2> QED
    BY <1>2, <2>1 DEF Distinct
<1>4. n = 0 \/ n = 1
  BY <1>1, <1>3
<1>5. n = 1 => 1 \in DOMAIN seq
  BY <1>1
<1> QED
  BY <1>2, <1>4, <1>5 DEF n

\* After the flatten a poll looks for what it executed.
LEMMA PollContained ==
  ASSUME NEW s, Inside(s), ~s.call.failure, NoAsks(s.call.todo),
         \A i \in DOMAIN s.call.todo : s.call.todo[i].op \in AfterSteps,
         s.call.canceled => /\ Quiet(s) /\ s.call.flat # "failed" /\ ~s.call.drained
                            /\ s.call.todo = <<>>,
         NEW t \in Poll(s, "drain")
  PROVE  Contained(t)
<1> DEFINE z == Local("drain")
           rest == s.call.todo
<1>1. Base(s) /\ s \in SessionType /\ Distinct(s.broker.tracked) /\ rest \in Seq(StepType)
  BY SessionParts DEF Inside, Base
<1>2. z \in StepType /\ z.op = "drain" /\ z.op \notin Asks
  BY DEF Local, Step, StepType, AfterSteps, Asks
<1> HIDE DEF z
<1>3. /\ SameBooks(s, t) /\ t.engine = s.engine /\ t.venue = s.venue
      /\ SameLocals(s.call, t.call)
      /\ \E ids \in Seq(Ids) :
           /\ Distinct(ids) /\ Range(ids) = Tracked(s.broker)
           /\ t.call.todo = Append(Steps("query", ids), z) \o rest
  BY <1>1, <1>2, PollFacts DEF z
<1>4. PICK ids \in Seq(Ids) :
        /\ Distinct(ids) /\ Range(ids) = Tracked(s.broker)
        /\ t.call.todo = Append(Steps("query", ids), z) \o rest
  BY <1>3
<1>5. Base(t) /\ Tracked(t.broker) = Tracked(s.broker)
  BY <1>1, <1>3, SameBooksFacts
<1> DEFINE steps == Append(Steps("query", ids), z)
           todo == t.call.todo
<1>6. /\ AsksThen(steps, "query", t.broker, z) /\ Len(steps) = Len(ids) + 1
      /\ \A i \in DOMAIN ids : steps[i] = Step("query", ids[i], 0)
  <2>1. "query" \in Asks
    BY DEF Asks
  <2>2. Range(ids) = Tracked(t.broker) /\ Distinct(ids)
    BY <1>4, <1>5
  <2> DEFINE op == "query"
             list == Append(Steps(op, ids), z)
  <2>3. op \in Asks
    BY <2>1
  <2> HIDE DEF op
  <2>4. AsksThen(list, op, t.broker, z)
    BY <1>2, <2>3, <2>2, AskSteps
  <2>5. AsksFor(list, op, ids, z)
    BY <1>2, <2>3, AskList
  <2> QED
    BY <2>4, <2>5 DEF op, AsksFor
<1> HIDE DEF steps, rest
<1>7. todo = steps \o rest
  BY <1>4 DEF steps
<1>8. /\ steps \in Seq(StepType) /\ Listed(steps, t.broker) /\ DOMAIN steps = 1 .. Len(steps)
      /\ \A i \in DOMAIN steps : steps[i].op \in AfterSteps
  <2>1. /\ steps \in Seq(StepType) /\ Listed(steps, t.broker) /\ DOMAIN steps = 1 .. Len(steps)
        /\ Len(steps) \in Nat \ {0} /\ steps[Len(steps)] = z
        /\ \A i \in 1 .. Len(steps) - 1 : steps[i].op = "query"
    BY <1>6 DEF AsksThen
  <2>2. \A i \in DOMAIN steps : i \in 1 .. Len(steps) - 1 \/ i = Len(steps)
    BY <2>1
  <2>3. \A i \in DOMAIN steps : steps[i].op = "query" \/ steps[i].op = "drain"
    BY <1>2, <2>1, <2>2
  <2> QED
    BY <2>1, <2>3 DEF AfterSteps
<1>9. /\ DOMAIN todo = 1 .. Len(steps) + Len(rest) /\ Len(steps) \in Nat /\ Len(rest) \in Nat
      /\ \A i \in 1 .. Len(steps) : todo[i] = steps[i]
      /\ \A i \in Len(steps) + 1 .. Len(steps) + Len(rest) :
           todo[i] = rest[i - Len(steps)] /\ i - Len(steps) \in DOMAIN rest
  BY <1>1, <1>7, <1>8, Joined
<1>10. \A i \in DOMAIN todo :
         i \in 1 .. Len(steps) \/ i \in Len(steps) + 1 .. Len(steps) + Len(rest)
  BY <1>9
<1>11. \A i \in DOMAIN todo : todo[i].op \in AfterSteps
  BY <1>8, <1>9, <1>10 DEF rest
<1>12. Queued(t)
  <2> SUFFICES ASSUME NEW i \in DOMAIN todo, todo[i].op \in Asks
               PROVE  /\ todo[i].id \in Tracked(t.broker)
                      /\ \A j \in 1 .. i - 1 : todo[j].op \in Asks /\ todo[j].id # todo[i].id
    BY DEF Queued
  <2>1. i \in 1 .. Len(steps)
    BY <1>9, <1>10 DEF NoAsks, rest
  <2>2. todo[i] = steps[i] /\ \A j \in 1 .. i - 1 : todo[j] = steps[j]
    <3>1. \A j \in 1 .. i - 1 : j \in 1 .. Len(steps)
      BY <1>9, <2>1
    <3> QED
      BY <1>9, <2>1, <3>1
  <2> QED
    BY <1>8, <2>1, <2>2 DEF Listed
<1>13. ASSUME t.call.canceled PROVE Quiet(t) /\ Flattening(t)
  <2>1. /\ Quiet(s) /\ s.call.flat # "failed" /\ ~s.call.drained /\ s.call.todo = <<>>
    BY <1>3, <1>13 DEF SameLocals
  <2>2. Quiet(t)
    BY <1>3, <1>5, <2>1 DEF Quiet, UnseenFlatten, SameBooks, SameLocals, Live
  <2>3. Range(ids) \subseteq {FlattenId}
    BY <1>4, <2>1 DEF Quiet
  <2>4. todo = steps
    BY <1>7, <1>8, <2>1 DEF rest
  <2>5. Len(ids) = 0 \/ (Len(ids) = 1 /\ ids[1] = FlattenId /\ FlattenId \in Range(ids))
    BY <1>4, <2>3, OneValue
  <2>6. CASE Len(ids) = 0
    <3>1. Len(steps) = 1 /\ steps[1] = z
      BY <1>6, <2>6 DEF AsksThen
    <3>2. steps = <<z>>
      BY <1>8, <3>1, Ones
    <3> QED
      BY <1>3, <2>1, <2>2, <2>4, <3>2 DEF Flattening, SameLocals, z
  <2>7. CASE Len(ids) = 1 /\ ids[1] = FlattenId /\ FlattenId \in Range(ids)
    <3>1. Len(steps) = 2 /\ steps[2] = z
      BY <1>6, <2>7 DEF AsksThen
    <3>2. steps[1] = Step("query", FlattenId, 0)
      BY <1>6, <2>7
    <3>3. steps = <<Step("query", FlattenId, 0), z>>
      BY <1>8, <3>1, <3>2, Twos
    <3>4. FlattenId \in Tracked(t.broker)
      BY <1>4, <1>5, <2>7
    <3> QED
      BY <1>3, <2>1, <2>2, <2>4, <3>3, <3>4 DEF Flattening, SameLocals, z
  <2> QED
    BY <2>5, <2>6, <2>7
<1>14. Containing(t)
  BY <1>3, <1>11, <1>12, <1>13 DEF Containing, Inside, SameLocals
<1> QED
  BY <1>3, <1>5, <1>14 DEF Contained, SameLocals

\* What a containment lost on the way leaves.
LEMMA LostContained ==
  ASSUME NEW s, Inside(s),
         s.call.canceled => Quiet(s) /\ (s.call.drained => s.call.flat # "failed"),
         NEW t \in Lost({s})
  PROVE  Contained(t) /\ t.call.failure
<1>1. Base(s) /\ s \in SessionType /\ {s} \subseteq SessionType
  BY DEF Inside, Base
<1>2. /\ Requested(s, t) /\ t.call.failure
      /\ t.venue.orders = s.venue.orders /\ t.venue.position = s.venue.position
  BY <1>1, LostFacts
<1>3. SameBooks(s, t)
  BY <1>2 DEF SameBooks, Requested
<1>4. Base(t) /\ Tracked(t.broker) = Tracked(s.broker)
  BY <1>1, <1>3, SameBooksFacts
<1>5. /\ t.broker = s.broker /\ t.engine = s.engine /\ t.call.mode = s.call.mode
      /\ t.call.raising = s.call.raising /\ t.call.canceled = s.call.canceled
      /\ t.call.flat = s.call.flat /\ t.call.drained = s.call.drained
  BY <1>2 DEF Requested, SameHandler
<1>6. Quiet(s) => Quiet(t)
  BY <1>2, <1>5 DEF Quiet, UnseenFlatten, Live
<1> QED
  BY <1>2, <1>4, <1>5, <1>6 DEF Contained, Inside

\* What flatten leads to, once it is known.
LEMMA FlatFacts ==
  ASSUME NEW s \in SessionType, NEW flat \in Statuses
  PROVE  LET t == [s EXCEPT !.call.flat = flat]
         IN /\ SameBooks(s, t) /\ t.venue = s.venue /\ t.broker = s.broker /\ t.engine = s.engine
            /\ t.call.flat = flat /\ t.call.todo = s.call.todo /\ t.call.mode = s.call.mode
            /\ t.call.failure = s.call.failure /\ t.call.raising = s.call.raising
            /\ t.call.canceled = s.call.canceled /\ t.call.drained = s.call.drained
<1> DEFINE c == [s.call EXCEPT !.flat = flat]
           t == [s EXCEPT !.call.flat = flat]
<1>1. s.call \in CallType
  BY SessionParts
<1>2. t = [s EXCEPT !.call = c]
  BY DEF SessionType
<1>3. /\ c \in CallType /\ c.flat = flat /\ c.todo = s.call.todo /\ c.mode = s.call.mode
      /\ c.failure = s.call.failure /\ c.raising = s.call.raising
      /\ c.canceled = s.call.canceled /\ c.drained = s.call.drained
  BY <1>1 DEF CallType
<1> HIDE DEF c, t
<1>4. /\ SameBooks(s, t) /\ t.venue = s.venue /\ t.broker = s.broker /\ t.engine = s.engine
      /\ t.call = c
  BY <1>2, <1>3, CallFacts
<1> QED
  BY <1>3, <1>4 DEF t

\* The broker takes over the position the venue reports.
LEMMA PositionFacts ==
  ASSUME NEW s, Base(s)
  PROVE  LET t == [s EXCEPT !.broker.position = s.venue.position]
         IN /\ Base(t) /\ t.venue = s.venue /\ t.engine = s.engine /\ t.call = s.call
            /\ t.broker.position = s.venue.position /\ t.broker.tracked = s.broker.tracked
            /\ t.broker.cum = s.broker.cum
<1> DEFINE p == s.venue.position
           b == [s.broker EXCEPT !.position = p]
           t == [s EXCEPT !.broker.position = p]
<1>1. s \in SessionType /\ s.broker \in BrokerType /\ p \in Nat
  BY SessionParts DEF Base
<1>2. t = [s EXCEPT !.broker = b]
  BY <1>1 DEF SessionType
<1> HIDE DEF p
<1>3. /\ b \in BrokerType /\ b.position = p /\ b.tracked = s.broker.tracked
      /\ b.cum = s.broker.cum
  BY <1>1 DEF BrokerType
<1> HIDE DEF b, t
<1>4. /\ t \in SessionType /\ t.venue = s.venue /\ t.engine = s.engine /\ t.call = s.call
      /\ t.broker = b
  BY <1>1, <1>2, <1>3 DEF SessionType
<1>5. Tracked(t.broker) = Tracked(s.broker)
  BY <1>3, <1>4 DEF Tracked
<1>6. Base(t)
  BY <1>3, <1>4, <1>5 DEF Base
<1> QED
  BY <1>3, <1>4, <1>6 DEF t, p

\* A step of a containment that comes before those left.
OnlyAfter(todo) == NoAsks(todo) /\ \A i \in DOMAIN todo : todo[i].op \in AfterSteps

LEMMA AfterFirst ==
  ASSUME NEW y \in StepType, y.op \in AfterSteps \ Asks, NEW steps, steps = <<y>>,
         NEW rest \in Seq(StepType), OnlyAfter(rest), NEW todo, todo = steps \o rest
  PROVE  OnlyAfter(todo)
<1>1. steps \in Seq(StepType) /\ DOMAIN steps = {1} /\ steps[1] = y /\ Len(steps) = 1
  OBVIOUS
<1>2. NoAsks(steps)
  BY <1>1 DEF NoAsks
<1>3. NoAsks(todo)
  BY <1>1, <1>2, NoAsksJoined DEF OnlyAfter
<1>4. /\ DOMAIN todo = 1 .. Len(steps) + Len(rest) /\ Len(rest) \in Nat
      /\ \A i \in 1 .. Len(steps) : todo[i] = steps[i]
      /\ \A i \in Len(steps) + 1 .. Len(steps) + Len(rest) :
           todo[i] = rest[i - Len(steps)] /\ i - Len(steps) \in DOMAIN rest
  BY <1>1, Joined
<1>5. \A i \in DOMAIN todo : i = 1 \/ i \in Len(steps) + 1 .. Len(steps) + Len(rest)
  BY <1>1, <1>4
<1>6. \A i \in DOMAIN todo : todo[i].op \in AfterSteps
  BY <1>1, <1>4, <1>5 DEF OnlyAfter
<1> QED
  BY <1>3, <1>6 DEF OnlyAfter

\* The position is asked for: without one, there is nothing to flatten.
LEMMA PositionContained ==
  ASSUME NEW s, Base(s), Containing(s), NEW r, NEW x, Takes(s, r, x), x.op = "position",
         NEW u \in FetchPosition(r),
         NEW t, t \in IF u.call.failure THEN {u}
                      ELSE IF u.broker.position = 0
                           THEN Poll([u EXCEPT !.call.flat = "none"], "drain")
                           ELSE {First(u, <<Local("flatten")>>)}
  PROVE  Contained(t)
<1>1. x.op \in AfterSteps /\ x.op \notin Asks
  BY DEF AfterSteps, Asks
<1>2. /\ Inside(r) /\ ~r.call.failure /\ SameBooks(s, r)
      /\ r.call.canceled = s.call.canceled /\ r.call.flat = s.call.flat
      /\ r.call.drained = s.call.drained
      /\ r.call.todo = Tail(s.call.todo) /\ r.call.todo \in Seq(StepType)
      /\ s.call.todo \in Seq(StepType) /\ s.call.todo # <<>> /\ x = s.call.todo[1]
      /\ NoAsks(r.call.todo)
      /\ \A i \in DOMAIN r.call.todo : r.call.todo[i].op \in AfterSteps
      /\ r.call.canceled => Quiet(r) /\ Flattening(s)
  BY <1>1, BeginContained
<1>3. Base(r) /\ r \in SessionType /\ r.call.flat = s.call.flat
  BY <1>2 DEF Inside, Base
<1>4. r.call.canceled => /\ r.call.todo = <<>> /\ r.call.flat = "failed" /\ ~r.call.drained
                         /\ Tracked(r.broker) = {}
  <2> SUFFICES ASSUME r.call.canceled
               PROVE  /\ r.call.todo = <<>> /\ r.call.flat = "failed" /\ ~r.call.drained
                      /\ Tracked(r.broker) = {}
    OBVIOUS
  <2>1. Flattening(s)
    BY <1>2
  <2>2. s.call.todo[1].op = "position"
    BY <1>2
  <2>3. /\ s.call.todo = <<Local("position")>> /\ s.call.flat = "failed" /\ ~s.call.drained
        /\ Tracked(s.broker) = {}
    BY <2>1, <2>2 DEF Flattening, Local, Step
  <2>4. Tail(s.call.todo) = <<>>
    BY <2>3
  <2>5. Tracked(r.broker) = Tracked(s.broker)
    BY <1>2 DEF SameBooks, Tracked
  <2> QED
    BY <1>2, <2>3, <2>4, <2>5
<1>5. CASE u \in Lost({r})
  <2>1. Contained(u) /\ u.call.failure
    BY <1>2, <1>4, <1>5, LostContained
  <2> QED
    BY <2>1
<1>6. CASE u = [r EXCEPT !.broker.position = r.venue.position]
  <2>1. /\ Base(u) /\ u.venue = r.venue /\ u.engine = r.engine /\ u.call = r.call
        /\ u.broker.position = r.venue.position /\ u.broker.tracked = r.broker.tracked
        /\ u.broker.cum = r.broker.cum
    BY <1>3, <1>6, PositionFacts
  <2>2. Inside(u) /\ ~u.call.failure /\ u \in SessionType
    BY <1>2, <2>1 DEF Inside, Base
  <2>3. ASSUME u.call.canceled
        PROVE  /\ Tracked(u.broker) = {} /\ ~Live(u.venue, FlattenId) /\ ~u.engine.pending
               /\ UnseenFlatten(u) = 0 /\ u.call.flat = "failed" /\ ~u.call.drained
               /\ u.call.todo = <<>>
    <3>1. Tracked(u.broker) = {}
      BY <1>4, <2>1, <2>3 DEF Tracked
    <3>2. ~u.engine.pending
      BY <1>2, <2>1, <2>3 DEF Quiet
    <3> QED
      BY <1>4, <2>1, <2>3, <3>1, <3>2, IdKinds DEF Base, UnseenFlatten
  <2>4. u.venue.position \in Nat /\ u.call.todo \in Seq(StepType)
    BY <2>2, SessionParts
  <2>5. CASE u.broker.position = 0
    <3> DEFINE flat == "none"
               v == [u EXCEPT !.call.flat = flat]
    <3>1. flat \in Statuses
      BY DEF Statuses
    <3> HIDE DEF flat
    <3>2. /\ SameBooks(u, v) /\ v.venue = u.venue /\ v.broker = u.broker /\ v.engine = u.engine
          /\ v.call.flat = flat /\ v.call.todo = u.call.todo /\ v.call.mode = u.call.mode
          /\ v.call.failure = u.call.failure /\ v.call.raising = u.call.raising
          /\ v.call.canceled = u.call.canceled /\ v.call.drained = u.call.drained
      BY <2>2, <3>1, FlatFacts
    <3>3. t \in Poll(v, "drain")
      BY <2>2, <2>5 DEF flat
    <3> HIDE DEF v
    <3>4. Base(v)
      BY <2>1, <3>2, SameBooksFacts
    <3>5. Inside(v)
      BY <2>2, <3>2, <3>4 DEF Inside
    <3>6. ASSUME v.call.canceled
          PROVE  Quiet(v) /\ v.call.flat # "failed" /\ ~v.call.drained /\ v.call.todo = <<>>
      <4>1. /\ Tracked(v.broker) = {} /\ ~Live(v.venue, FlattenId) /\ ~v.engine.pending
            /\ UnseenFlatten(v) = 0 /\ ~v.call.drained /\ v.call.todo = <<>>
        BY <2>3, <3>2, <3>6 DEF UnseenFlatten
      <4>2. v.broker.position = 0 /\ v.venue.position = 0
        BY <2>1, <2>5, <3>2
      <4> QED
        BY <3>2, <4>1, <4>2 DEF Quiet, flat
    <3> QED
      BY <1>2, <2>1, <2>2, <3>2, <3>3, <3>5, <3>6, PollContained
  <2>6. CASE u.broker.position # 0
    <3> DEFINE y == Local("flatten")
               steps == <<y>>
    <3>1. t = First(u, steps)
      BY <2>2, <2>6
    <3>2. y \in StepType /\ y.op = "flatten"
      BY DEF Local, Step, StepType, AfterSteps
    <3> HIDE DEF y
    <3>3. steps \in Seq(StepType) /\ DOMAIN steps = {1} /\ steps[1] = y /\ Len(steps) = 1
      BY <3>2
    <3> HIDE DEF steps
    <3>4. /\ SameBooks(u, t) /\ t.venue = u.venue /\ t.broker = u.broker /\ t.engine = u.engine
          /\ t.call.todo = steps \o u.call.todo /\ SameLocals(u.call, t.call)
      BY <2>2, <3>1, <3>3, FirstFacts
    <3>5. Base(t)
      BY <2>1, <3>4, SameBooksFacts
    <3>6. /\ NoAsks(t.call.todo)
          /\ \A i \in DOMAIN t.call.todo : t.call.todo[i].op \in AfterSteps
      <4> DEFINE rest == u.call.todo
                 todo == t.call.todo
      <4>1. /\ todo = steps \o rest /\ rest \in Seq(StepType) /\ OnlyAfter(rest)
        BY <1>2, <2>1, <2>4, <3>4 DEF OnlyAfter
      <4>2. steps = <<y>> /\ y.op \in AfterSteps \ Asks
        BY <3>2 DEF steps, AfterSteps, Asks
      <4> HIDE DEF rest, todo
      <4>3. OnlyAfter(todo)
        BY <3>2, <4>1, <4>2, AfterFirst
      <4> QED
        BY <4>3 DEF OnlyAfter, todo
    <3>7. ASSUME t.call.canceled PROVE Quiet(t) /\ Flattening(t)
      <4>1. u.call.canceled
        BY <3>4, <3>7 DEF SameLocals
      <4>2. t.call.todo = steps
        BY <2>3, <3>3, <3>4, <4>1
      <4>3. /\ Tracked(t.broker) = {} /\ ~Live(t.venue, FlattenId) /\ ~t.engine.pending
            /\ t.call.flat = "failed" /\ ~t.call.drained
        BY <2>3, <3>4, <4>1 DEF SameLocals
      <4>4. t.broker.position = t.venue.position /\ t.broker.position > 0
        BY <2>1, <2>4, <2>6, <3>4
      <4> QED
        BY <4>2, <4>3, <4>4 DEF Quiet, Flattening, steps, y
    <3>8. Queued(t)
      BY <3>6 DEF NoAsks, Queued
    <3>9. Containing(t)
      BY <2>2, <3>4, <3>6, <3>7, <3>8 DEF Containing, Inside, SameLocals
    <3> QED
      BY <2>2, <3>4, <3>5, <3>9 DEF Contained, SameLocals
  <2> QED
    BY <2>5, <2>6
<1> QED
  BY <1>5, <1>6 DEF FetchPosition

\* The flatten goes out for all of the position the venue reported.
FlattenOut(s, t) ==
  /\ Inside(t) /\ SameHandler(s.call, t.call)
  /\ t.call.failure => Contained(t)
  /\ ~t.call.failure =>
       /\ t.call.reply \in {"open", "filled", "rejected"}
       /\ t.call.reply = t.venue.orders[FlattenId].st
       /\ t.call.canceled =>
            LET o == t.venue.orders[FlattenId]
            IN /\ ~t.engine.pending /\ Tracked(t.broker) = {FlattenId}
               /\ o.qty = t.broker.position
               /\ t.venue.position = t.broker.position - o.filled
               /\ o.st = "filled" => o.filled = o.qty
               /\ o.st = "rejected" => o.filled = 0
               /\ o.st = "open" => o.filled < o.qty

LEMMA FlattenSent ==
  ASSUME NEW s, Inside(s), ~s.call.failure, NEW qty \in Nat, qty = s.broker.position,
         s.call.canceled => /\ ~s.engine.pending /\ Tracked(s.broker) = {}
                            /\ s.call.flat = "failed" /\ ~s.call.drained
                            /\ s.broker.position = s.venue.position /\ s.broker.position > 0,
         NEW id \in Ids, id = FlattenId,
         NEW t \in SendOrder(s, id, qty, FALSE)
  PROVE  FlattenOut(s, t)
<1> DEFINE r == TrackOrder(s, id)
<1>1. /\ Base(s) /\ s \in SessionType /\ Distinct(s.broker.tracked) /\ qty \in Nat
      /\ id \in Ids /\ id.role # "entry"
  BY SessionParts, IdKinds DEF Inside, Base, FlattenId
<1>2. NowTracks(s, r, id)
  BY <1>1, TrackFacts DEF NowTracks
<1>3. t \in Post(r, id, qty, FALSE)
  BY DEF SendOrder
<1> HIDE DEF r
<1>4. r \in SessionType /\ r.call = s.call /\ r.engine = s.engine /\ r.venue = s.venue
  BY <1>2 DEF NowTracks, Booked
<1>5. Posted(r, t, id, qty, FALSE)
  BY <1>1, <1>3, <1>4, PostFacts
<1>6. /\ Touched(s, t, id) /\ NoMoreExposed(s, t, id)
      /\ Tracked(t.broker) = Tracked(s.broker) \cup {id}
  <2> DEFINE conditional == FALSE
  <2>1. conditional \in BOOLEAN /\ Posted(r, t, id, qty, conditional)
    BY <1>5
  <2> HIDE DEF conditional
  <2>2. Base(s)
    BY <1>1
  <2>3. id \in Ids /\ id.role # "entry"
    BY <1>1
  <2>4. Touched(s, t, id)
    BY <1>2, <2>1, <2>2, <2>3, PostedTouched
  <2>5. NoMoreExposed(s, t, id)
    BY <1>2, <2>1, <2>2, <2>3, PostedTouched
  <2>6. Tracked(t.broker) = Tracked(s.broker) \cup {id}
    BY <1>2, <1>5 DEF Posted, Requested, NowTracks
  <2> QED
    BY <2>4, <2>5, <2>6
<1>7. Base(t)
  BY <1>1, <1>6, TouchedBase
<1>8. /\ t.engine = s.engine /\ SameHandler(s.call, t.call)
      /\ t.broker.position = s.broker.position
  BY <1>2, <1>4, <1>5 DEF Posted, Requested, NowTracks, Booked
<1>9. Inside(t)
  BY <1>7, <1>8 DEF Inside, SameHandler
<1>10. \/ t.venue = s.venue /\ t.call.failure
       \/ \E w \in VenueType :
            /\ Places(s.venue, w, id, qty, FALSE)
            /\ t.venue.orders = w.orders /\ t.venue.position = w.position
            /\ ~t.call.failure => t.call.reply = w.orders[id].st /\ w.orders[id].st # "sent"
  BY <1>4, <1>5 DEF Posted
<1> DEFINE o == t.venue.orders[id]
<1>11. /\ o.qty \in Nat /\ o.filled \in Nat /\ s.venue.position \in Nat
       /\ t.venue.position \in Nat /\ s.broker.position \in Nat /\ t.broker.cum[id] \in Nat
  BY <1>1, <1>7, SessionParts DEF Base
<1>12. ASSUME ~(t.venue = s.venue /\ t.call.failure)
       PROVE  /\ o.qty = qty /\ o.filled <= qty
              /\ o.st \in {"sent", "open", "filled", "rejected"}
              /\ o.st = "filled" => o.filled = qty
              /\ o.st \in {"sent", "open"} => o.filled < qty \/ qty = 0
              /\ o.st = "rejected" => o.filled = 0
              /\ t.venue.position = s.venue.position - o.filled
              /\ ~t.call.failure => t.call.reply = o.st /\ o.st # "sent"
  BY <1>1, <1>10, <1>12 DEF Places
<1>13. ASSUME t.call.canceled
       PROVE  /\ ~t.engine.pending /\ Tracked(t.broker) = {id}
              /\ t.call.flat = "failed" /\ ~t.call.drained
              /\ t.broker.position = s.venue.position /\ t.broker.position = qty /\ qty > 0
              /\ ~Live(s.venue, id)
  <2>1. s.call.canceled
    BY <1>8, <1>13 DEF SameHandler
  <2> QED
    BY <1>1, <1>6, <1>8, <2>1 DEF Base, SameHandler
<1>14. ASSUME t.call.canceled PROVE Quiet(t)
  <2>1. Live(t.venue, id) => t.venue.position > 0 /\ t.venue.position = o.qty - o.filled
    <3>1. CASE t.venue = s.venue /\ t.call.failure
      BY <1>13, <1>14, <3>1
    <3>2. CASE ~(t.venue = s.venue /\ t.call.failure)
      <4>1. Live(t.venue, id) => o.st \in {"sent", "open"}
        BY DEF Live
      <4> QED
        BY <1>11, <1>12, <1>13, <1>14, <3>2, <4>1
    <3> QED
      BY <3>1, <3>2
  <2> QED
    BY <1>13, <1>14, <2>1 DEF Quiet
<1>15. ASSUME t.call.failure PROVE Contained(t)
  BY <1>9, <1>13, <1>14, <1>15 DEF Contained
<1>16. ASSUME ~t.call.failure
       PROVE  /\ t.call.reply \in {"open", "filled", "rejected"} /\ t.call.reply = o.st
              /\ t.call.canceled =>
                   /\ ~t.engine.pending /\ Tracked(t.broker) = {id}
                   /\ o.qty = t.broker.position
                   /\ t.venue.position = t.broker.position - o.filled
                   /\ o.st = "filled" => o.filled = o.qty
                   /\ o.st = "rejected" => o.filled = 0
                   /\ o.st = "open" => o.filled < o.qty
  <2>1. t.call.reply \in {"open", "filled", "rejected"} /\ t.call.reply = o.st
    BY <1>12, <1>16
  <2>2. ASSUME t.call.canceled
        PROVE  /\ ~t.engine.pending /\ Tracked(t.broker) = {id}
               /\ o.qty = t.broker.position
               /\ t.venue.position = t.broker.position - o.filled
               /\ o.st = "filled" => o.filled = o.qty
               /\ o.st = "rejected" => o.filled = 0
               /\ o.st = "open" => o.filled < o.qty
    BY <1>11, <1>12, <1>13, <1>16, <2>2
  <2> QED
    BY <2>1, <2>2
<1> QED
  BY <1>8, <1>9, <1>15, <1>16 DEF FlattenOut

\* What the reply tells of it.
FlattenHeard(s, t) ==
  /\ Inside(t) /\ t.call = s.call /\ t.venue = s.venue /\ t.engine = s.engine
  /\ IF s.call.reply = "open" THEN t = s
     ELSE Tracked(t.broker) = Tracked(s.broker) \ {FlattenId}
  /\ s.call.reply = "filled" =>
       t.broker.position
         = IF s.broker.position <= s.venue.orders[FlattenId].filled THEN 0
           ELSE s.broker.position - s.venue.orders[FlattenId].filled
  /\ s.call.reply = "rejected" => t.broker.position = s.broker.position

LEMMA FlattenTold ==
  ASSUME NEW s, Inside(s), ~s.call.failure,
         s.call.reply \in {"open", "filled", "rejected"},
         s.call.reply = s.venue.orders[FlattenId].st,
         NEW id \in Ids, id = FlattenId, NEW t, t = TakeReply(s, id)
  PROVE  FlattenHeard(s, t)
<1>1. /\ Base(s) /\ s \in SessionType /\ Distinct(s.broker.tracked)
      /\ id \in Ids /\ id.role # "entry"
  BY IdKinds DEF Inside, Base, FlattenId
<1>2. CASE s.call.reply = "open"
  <2>1. t = s
    BY <1>2 DEF TakeReply
  <2> QED
    BY <1>2, <2>1 DEF FlattenHeard
<1>3. CASE s.call.reply = "filled"
  <2>1. t = TakeReply(s, id)
    OBVIOUS
  <2> DEFINE filled == s.venue.orders[id].filled
  <2>0. s \in SessionType /\ Distinct(s.broker.tracked) /\ id \in Ids
    BY <1>1
  <2>2. /\ t \in SessionType /\ t.venue = s.venue /\ t.engine = s.engine /\ t.call = s.call
        /\ t.broker.position = IF id.role = "entry" THEN s.broker.position + filled
                               ELSE IF s.broker.position <= filled THEN 0
                                    ELSE s.broker.position - filled
        /\ Distinct(t.broker.tracked) /\ Tracked(t.broker) = Tracked(s.broker) \ {id}
        /\ t.broker.cum[id] = 0
        /\ \A j \in Ids \ {id} : t.broker.cum[j] = s.broker.cum[j]
    BY <1>3, <2>0, ReplyFilled
  <2>3. ~Live(s.venue, id)
    BY <1>3 DEF Live
  <2>4. Touched(s, t, id)
    BY <1>1, <2>2, <2>3 DEF Touched, Base
  <2>5. NoMoreExposed(s, t, id)
    <3>1. \A i \in Ids : t.venue.orders[i].filled <= t.venue.orders[i].qty
      BY <1>1, <2>2 DEF Base
    <3>2. Room(t.venue)[id] \in Nat /\ t.venue.position \in Nat
      BY <1>1, <2>2, <3>1, Summands, SessionParts
    <3> QED
      BY <2>2, <3>2 DEF NoMoreExposed
  <2>6. Base(t)
    BY <1>1, <2>4, <2>5, TouchedBase
  <2>7. Inside(t)
    BY <2>2, <2>6 DEF Inside
  <2> QED
    BY <1>1, <1>3, <2>2, <2>7 DEF FlattenHeard
<1>4. CASE s.call.reply = "rejected"
  <2>1. t = ForgetOrder(s, id)
    BY <1>4 DEF TakeReply
  <2>2. Forgets(s, t, id)
    BY <1>1, <2>1, ForgetFacts
  <2>3. ~Live(s.venue, id)
    BY <1>4 DEF Live
  <2>4. Base(t)
    BY <1>1, <2>2, <2>3, ForgottenTouched
  <2>5. /\ t.venue = s.venue /\ t.engine = s.engine /\ t.call = s.call
        /\ t.broker.position = s.broker.position
        /\ Tracked(t.broker) = Tracked(s.broker) \ {id}
    BY <2>2 DEF Forgets, Booked
  <2>6. Inside(t)
    BY <2>4, <2>5 DEF Inside
  <2> QED
    BY <1>4, <2>5, <2>6 DEF FlattenHeard
<1> QED
  BY <1>2, <1>3, <1>4

\* The flatten is sent, and polled for when its reply came.
LEMMA FlattenContained ==
  ASSUME NEW s, Base(s), Containing(s), NEW r, NEW x, Takes(s, r, x), x.op = "flatten",
         NEW u \in Flatten(r),
         NEW t, t \in IF u.call.failure THEN {u}
                      ELSE Poll([u EXCEPT !.call.flat = u.call.reply], "drain")
  PROVE  Contained(t)
<1>1. x.op \in AfterSteps /\ x.op \notin Asks
  BY DEF AfterSteps, Asks
<1>2. /\ Inside(r) /\ ~r.call.failure /\ SameBooks(s, r)
      /\ r.venue = s.venue /\ r.broker = s.broker /\ r.engine = s.engine
      /\ r.call.canceled = s.call.canceled /\ r.call.flat = s.call.flat
      /\ r.call.drained = s.call.drained
      /\ r.call.todo = Tail(s.call.todo) /\ r.call.todo \in Seq(StepType)
      /\ s.call.todo \in Seq(StepType) /\ s.call.todo # <<>> /\ x = s.call.todo[1]
      /\ NoAsks(r.call.todo)
      /\ \A i \in DOMAIN r.call.todo : r.call.todo[i].op \in AfterSteps
      /\ r.call.canceled => Quiet(r) /\ Flattening(s)
  BY <1>1, BeginContained
<1>3. r.call.canceled => /\ ~r.engine.pending /\ Tracked(r.broker) = {}
                         /\ r.call.flat = "failed" /\ ~r.call.drained /\ r.call.todo = <<>>
                         /\ r.broker.position = r.venue.position /\ r.broker.position > 0
  <2> SUFFICES ASSUME r.call.canceled
               PROVE  /\ ~r.engine.pending /\ Tracked(r.broker) = {}
                      /\ r.call.flat = "failed" /\ ~r.call.drained /\ r.call.todo = <<>>
                      /\ r.broker.position = r.venue.position /\ r.broker.position > 0
    OBVIOUS
  <2>1. Flattening(s) /\ ~r.engine.pending
    BY <1>2 DEF Quiet
  <2>2. s.call.todo[1].op = "flatten"
    BY <1>2
  <2>3. /\ s.call.todo = <<Local("flatten")>> /\ s.call.flat = "failed" /\ ~s.call.drained
        /\ Tracked(s.broker) = {}
        /\ s.broker.position = s.venue.position /\ s.broker.position > 0
    BY <2>1, <2>2 DEF Flattening, Local, Step
  <2>4. Tail(s.call.todo) = <<>>
    BY <2>3
  <2> QED
    BY <1>2, <2>1, <2>3, <2>4
<1> DEFINE id == FlattenId
           qty == r.broker.position
<1>4. PICK w \in SendOrder(r, id, qty, FALSE) :
        u = IF w.call.failure THEN w ELSE TakeReply(w, id)
  BY DEF Flatten
<1>5a. id \in Ids /\ id = FlattenId /\ qty = r.broker.position
  BY IdKinds
<1>5b. qty \in Nat
  BY <1>2, SessionParts DEF Inside, Base
<1> HIDE DEF id, qty
<1>5c. FlattenOut(r, w)
  BY <1>2, <1>3, <1>4, <1>5a, <1>5b, FlattenSent
<1>5. /\ Inside(w) /\ SameHandler(r.call, w.call)
      /\ w.call.failure => Contained(w)
      /\ ~w.call.failure =>
           /\ w.call.reply \in {"open", "filled", "rejected"}
           /\ w.call.reply = w.venue.orders[FlattenId].st
           /\ w.call.canceled =>
                LET o == w.venue.orders[FlattenId]
                IN /\ ~w.engine.pending /\ Tracked(w.broker) = {FlattenId}
                   /\ o.qty = w.broker.position
                   /\ w.venue.position = w.broker.position - o.filled
                   /\ o.st = "filled" => o.filled = o.qty
                   /\ o.st = "rejected" => o.filled = 0
                   /\ o.st = "open" => o.filled < o.qty
  BY <1>5c DEF FlattenOut
<1>6. CASE w.call.failure
  BY <1>4, <1>5, <1>6
<1>7. CASE ~w.call.failure
  <2> DEFINE o == w.venue.orders[FlattenId]
  <2>1. u = TakeReply(w, id)
    BY <1>4, <1>7
  <2>a. FlattenHeard(w, u)
    BY <1>5, <1>5a, <1>7, <2>1, FlattenTold
  <2>2. /\ Inside(u) /\ u.call = w.call /\ u.venue = w.venue /\ u.engine = w.engine
        /\ IF w.call.reply = "open" THEN u = w
           ELSE Tracked(u.broker) = Tracked(w.broker) \ {FlattenId}
        /\ w.call.reply = "filled" =>
             u.broker.position
               = IF w.broker.position <= w.venue.orders[FlattenId].filled THEN 0
                 ELSE w.broker.position - w.venue.orders[FlattenId].filled
        /\ w.call.reply = "rejected" => u.broker.position = w.broker.position
    BY <2>a DEF FlattenHeard
  <2>3. u \in SessionType /\ ~u.call.failure
    BY <1>7, <2>2 DEF Inside, Base
  <2> DEFINE flat == u.call.reply
             v == [u EXCEPT !.call.flat = flat]
  <2>4. t \in Poll(v, "drain")
    BY <2>3
  <2>5. flat \in {"open", "filled", "rejected"} /\ flat \in Statuses
    BY <1>5, <1>7, <2>2 DEF Statuses
  <2>6. flat = w.call.reply /\ flat = o.st
    BY <1>5, <1>7, <2>2
  <2> HIDE DEF flat
  <2>7. /\ SameBooks(u, v) /\ v.venue = u.venue /\ v.broker = u.broker /\ v.engine = u.engine
        /\ v.call.flat = flat /\ v.call.todo = u.call.todo /\ v.call.mode = u.call.mode
        /\ v.call.failure = u.call.failure /\ v.call.raising = u.call.raising
        /\ v.call.canceled = u.call.canceled /\ v.call.drained = u.call.drained
    BY <2>3, <2>5, FlatFacts
  <2> HIDE DEF v
  <2>8. Base(v)
    BY <2>2, <2>7, SameBooksFacts DEF Inside
  <2>9. Inside(v) /\ ~v.call.failure
    BY <2>2, <2>3, <2>7, <2>8 DEF Inside
  <2>10. /\ v.call.todo = r.call.todo /\ v.call.canceled = r.call.canceled
         /\ v.call.drained = r.call.drained
    BY <1>5, <2>2, <2>7 DEF SameHandler
  <2>11. ASSUME v.call.canceled PROVE Quiet(v)
    <3>1. /\ ~w.engine.pending /\ Tracked(w.broker) = {FlattenId}
          /\ o.qty = w.broker.position
          /\ w.venue.position = w.broker.position - o.filled
          /\ o.st = "filled" => o.filled = o.qty
          /\ o.st = "rejected" => o.filled = 0
          /\ o.st = "open" => o.filled < o.qty
      BY <1>5, <1>7, <2>2, <2>7, <2>11
    <3>2. /\ o.qty \in Nat /\ o.filled \in Nat /\ w.broker.position \in Nat
          /\ w.venue.position \in Nat /\ v.broker.cum[FlattenId] \in Nat
      BY <1>5, <2>8, SessionParts, IdKinds DEF Inside, Base
    <3>3. v.venue = w.venue /\ v.broker = u.broker /\ v.engine = w.engine
      BY <2>2, <2>7
    <3>4. /\ o.st = "open" => v.broker = w.broker
          /\ o.st # "open" => Tracked(v.broker) = {}
      BY <2>2, <2>6, <3>1, <3>3
    <3>5. Live(v.venue, FlattenId) => o.st = "open"
      BY <2>5, <2>6, <3>3 DEF Live
    <3>6. /\ o.st = "filled" => v.broker.position = 0
          /\ o.st # "filled" => v.broker.position = w.broker.position
      BY <2>2, <2>5, <2>6, <3>1, <3>2, <3>3
    <3>7. UnseenFlatten(v) = IF /\ FlattenId \in Tracked(v.broker)
                                /\ o.filled - v.broker.cum[FlattenId] > 0
                             THEN o.filled - v.broker.cum[FlattenId] ELSE 0
      BY <3>3 DEF UnseenFlatten
    <3>8. Tracked(v.broker) \subseteq {FlattenId}
      BY <3>1, <3>4
    <3>9. Live(v.venue, FlattenId) =>
            /\ v.venue.position > 0
            /\ v.venue.position
                 = v.venue.orders[FlattenId].qty - v.venue.orders[FlattenId].filled
      BY <3>1, <3>2, <3>3, <3>5
    <3>10. v.broker.position >= v.venue.position + UnseenFlatten(v)
      <4> DEFINE unseen == UnseenFlatten(v)
      <4>1. CASE o.st = "open"
        <5>1. unseen \in Nat /\ unseen <= o.filled
          BY <3>2, <3>7
        <5> HIDE DEF unseen, o
        <5> QED
          BY <3>1, <3>2, <3>3, <3>6, <4>1, <5>1 DEF unseen
      <4>2. CASE o.st # "open"
        <5>1. unseen = 0
          BY <3>4, <3>7, <4>2
        <5> HIDE DEF unseen, o
        <5>2. v.venue.position = IF o.st = "filled" THEN 0 ELSE w.broker.position
          BY <2>5, <2>6, <3>1, <3>2, <3>3, <4>2
        <5>3. v.broker.position = v.venue.position /\ v.venue.position \in Nat
          BY <3>2, <3>3, <3>6, <5>2
        <5> QED
          BY <5>1, <5>3 DEF unseen
      <4> QED
        BY <4>1, <4>2
    <3>11. v.call.flat \in {"none", "filled"} => v.venue.position = 0
      BY <2>5, <2>6, <2>7, <3>1, <3>2, <3>3
    <3> QED
      BY <3>1, <3>3, <3>8, <3>9, <3>10, <3>11 DEF Quiet
  <2>12. v.call.canceled =>
           Quiet(v) /\ v.call.flat # "failed" /\ ~v.call.drained /\ v.call.todo = <<>>
    BY <1>3, <2>5, <2>7, <2>10, <2>11
  <2>13. NoAsks(v.call.todo) /\ \A i \in DOMAIN v.call.todo : v.call.todo[i].op \in AfterSteps
    BY <1>2, <2>10
  <2> QED
    BY <2>4, <2>9, <2>12, <2>13, PollContained
<1> QED
  BY <1>6, <1>7

\* One query keeps the books.
LEMMA QueryKeeps ==
  ASSUME NEW s, Base(s), ~s.call.failure, NEW id, id \in Tracked(s.broker), NEW t \in Query(s, id)
  PROVE  /\ Base(t) /\ Queried(s, t, id)
         /\ t.call.failure => QueryFailed(s, t, id)
         /\ ~t.call.failure => QueryTold(s, t, id)
<1>1. /\ s \in SessionType /\ Distinct(s.broker.tracked)
      /\ \A i \in Ids : s.venue.orders[i].filled <= s.venue.orders[i].qty
  BY DEF Base
<1>2. id \in Ids
  BY <1>1, SessionParts
<1>3. /\ Queried(s, t, id)
      /\ t.call.failure => QueryFailed(s, t, id)
      /\ ~t.call.failure => QueryTold(s, t, id)
  BY <1>1, <1>2, QueryFacts
<1>4. CASE t.call.failure
  <2>1. Tracked(t.broker) = Tracked(s.broker)
    BY <1>3, <1>4 DEF QueryFailed, Tracked
  <2>2. Touched(s, t, id)
    BY <1>1, <1>2, <1>3, <2>1 DEF Touched, Queried, Base, Live
  <2>3. NoMoreExposed(s, t, id)
    <3>1. Room(t.venue)[id] = Room(s.venue)[id]
      BY <1>3 DEF Queried, Room, Live
    <3>2. Room(s.venue)[id] \in Nat /\ s.venue.position \in Nat
      BY <1>1, <1>2, Summands, SessionParts
    <3> QED
      BY <1>3, <3>1, <3>2 DEF Queried, NoMoreExposed
  <2> QED
    BY <1>3, <2>2, <2>3, TouchedBase
<1>5. CASE ~t.call.failure
  <2>1. Touched(s, t, id) /\ NoMoreExposed(s, t, id)
    BY <1>1, <1>2, <1>3, <1>5, TakenTouched DEF Queried, QueryTold
  <2> QED
    BY <1>3, <2>1, TouchedBase
<1> QED
  BY <1>4, <1>5

\* One query of a containment.
LEMMA QueryContained ==
  ASSUME NEW s, Base(s), Containing(s), NEW r, NEW x, Takes(s, r, x), x.op = "query",
         NEW t \in Query(r, x.id)
  PROVE  Contained(t)
<1> DEFINE id == x.id
           rest == r.call.todo
           y == Local("drain")
<1>1. "query" \in Asks /\ "query" \in AfterSteps
  BY DEF Asks, AfterSteps
<1>2. /\ Inside(r) /\ ~r.call.failure /\ Queued(r)
      /\ r.call.canceled = s.call.canceled /\ r.call.flat = s.call.flat
      /\ r.call.drained = s.call.drained /\ r.broker = s.broker
      /\ rest = Tail(s.call.todo) /\ rest \in Seq(StepType)
      /\ s.call.todo \in Seq(StepType) /\ s.call.todo # <<>> /\ x = s.call.todo[1]
      /\ id \in Tracked(r.broker)
      /\ \A i \in DOMAIN rest : rest[i].op \in Asks => rest[i].id # id
      /\ \A i \in DOMAIN rest : rest[i].op \in AfterSteps
      /\ r.call.canceled => Quiet(r) /\ Flattening(s)
  BY <1>1, BeginContained
<1>3. Base(r) /\ r \in SessionType
  BY <1>2 DEF Inside, Base
<1>4. /\ Base(t) /\ Queried(r, t, id)
      /\ t.call.failure => QueryFailed(r, t, id)
      /\ ~t.call.failure => QueryTold(r, t, id)
  BY <1>2, <1>3, QueryKeeps
<1>5. /\ t \in SessionType /\ t.engine = r.engine
      /\ t.venue.orders = r.venue.orders /\ t.venue.position = r.venue.position
      /\ t.call.mode = r.call.mode /\ t.call.todo = rest /\ t.call.raising = r.call.raising
      /\ t.call.canceled = r.call.canceled /\ t.call.flat = r.call.flat
      /\ t.call.drained = r.call.drained
      /\ \A j \in Ids \ {id} : j \in Tracked(t.broker) <=> j \in Tracked(r.broker)
  BY <1>4 DEF Queried
<1>6. Inside(t)
  BY <1>2, <1>4, <1>5 DEF Inside
<1>7. r.call.canceled =>
        /\ Quiet(r) /\ id = FlattenId /\ rest = <<y>>
        /\ r.call.flat # "failed" /\ ~r.call.drained
  <2> SUFFICES ASSUME r.call.canceled
               PROVE  /\ Quiet(r) /\ id = FlattenId /\ rest = <<y>>
                      /\ r.call.flat # "failed" /\ ~r.call.drained
    OBVIOUS
  <2>1. Flattening(s) /\ s.call.todo[1].op = "query"
    BY <1>2
  <2>2. /\ s.call.todo = <<Step("query", FlattenId, 0), Local("drain")>>
        /\ s.call.flat # "failed" /\ ~s.call.drained
    BY <2>1 DEF Flattening, Local, Step
  <2>3. id = FlattenId
    BY <1>2, <2>2 DEF Step
  <2>4. rest = <<y>>
    BY <1>2, <2>2
  <2> QED
    BY <1>2, <2>2, <2>3, <2>4
<1>8. /\ FlattenId \in Ids
      /\ r.venue.orders[FlattenId].filled \in Nat /\ r.broker.cum[FlattenId] \in Nat
      /\ t.broker.cum[FlattenId] \in Nat /\ t.broker.position \in Nat
      /\ r.venue.position \in Nat /\ r.broker.position \in Nat
  BY <1>3, <1>5, SessionParts, IdKinds
<1>9. Tracked(t.broker) \subseteq Ids /\ Tracked(r.broker) \subseteq Ids
  BY <1>3, <1>5, SessionParts
<1>10. ASSUME r.call.canceled PROVE Quiet(t)
  <2> DEFINE before == UnseenFlatten(r)
             after == UnseenFlatten(t)
  <2>1. /\ ~r.engine.pending /\ Tracked(r.broker) \subseteq {FlattenId}
        /\ Live(r.venue, FlattenId) =>
             /\ r.venue.position > 0
             /\ r.venue.position
                  = r.venue.orders[FlattenId].qty - r.venue.orders[FlattenId].filled
        /\ r.broker.position >= r.venue.position + before
        /\ r.call.flat \in {"none", "filled"} => r.venue.position = 0
    BY <1>7, <1>10 DEF Quiet
  <2>2. before = Unseen1(r, FlattenId) /\ before \in Nat
    BY <1>2, <1>7, <1>8, <1>10 DEF UnseenFlatten, Unseen1
  <2>3. Tracked(t.broker) \subseteq {FlattenId}
    BY <1>5, <1>7, <1>9, <1>10, <2>1
  <2>4. Live(t.venue, FlattenId) <=> Live(r.venue, FlattenId)
    BY <1>5 DEF Live
  <2>5. t.broker.position >= t.venue.position + after
    <3>1. CASE t.call.failure
      <4>1. /\ t.broker.position = r.broker.position /\ Tracked(t.broker) = Tracked(r.broker)
            /\ t.broker.cum[FlattenId]
                 \in {r.broker.cum[FlattenId], r.venue.orders[FlattenId].filled}
        BY <1>4, <1>7, <1>10, <3>1 DEF QueryFailed, Tracked
      <4>2. after \in Nat /\ after <= before
        BY <1>5, <1>8, <4>1 DEF UnseenFlatten
      <4> HIDE DEF before, after
      <4> QED
        BY <1>5, <1>8, <2>1, <2>2, <4>1, <4>2
    <3>2. CASE ~t.call.failure
      <4>1. /\ t.broker.position = IF r.broker.position <= before THEN 0
                                   ELSE r.broker.position - before
            /\ FlattenId \in Tracked(t.broker) =>
                 t.broker.cum[FlattenId] = r.venue.orders[FlattenId].filled
        BY <1>4, <1>7, <1>10, <2>2, <3>2 DEF QueryTold, FlattenId
      <4>2. after = 0
        BY <1>5, <1>8, <4>1 DEF UnseenFlatten
      <4> HIDE DEF before, after
      <4> QED
        BY <1>5, <1>8, <2>1, <2>2, <4>1, <4>2
    <3> QED
      BY <3>1, <3>2
  <2> HIDE DEF before
  <2> QED
    BY <1>5, <2>1, <2>3, <2>4, <2>5 DEF Quiet
<1>11. CASE t.call.failure
  BY <1>5, <1>6, <1>7, <1>10, <1>11 DEF Contained
<1>12. CASE ~t.call.failure
  <2>1. Queued(t)
    <3>1. ASSUME NEW i \in DOMAIN rest, rest[i].op \in Asks PROVE rest[i].id \in Tracked(t.broker)
      <4>1. rest[i].id \in Tracked(r.broker) /\ rest[i].id # id
        BY <1>2, <3>1 DEF Queued
      <4> QED
        BY <1>5, <1>9, <4>1
    <3> QED
      BY <1>2, <1>5, <3>1 DEF Queued
  <2>2. t.call.canceled => Quiet(t) /\ Flattening(t)
    <3> SUFFICES ASSUME t.call.canceled PROVE Quiet(t) /\ Flattening(t)
      OBVIOUS
    <3>1. t.call.todo = <<Local("drain")>> /\ t.call.flat # "failed" /\ ~t.call.drained
      BY <1>5, <1>7
    <3> QED
      BY <1>5, <1>10, <3>1 DEF Flattening
  <2>3. Containing(t)
    BY <1>2, <1>5, <1>6, <1>12, <2>1, <2>2 DEF Containing, Inside
  <2> QED
    BY <1>4, <1>12, <2>3 DEF Contained
<1> QED
  BY <1>11, <1>12

\* The drain only changes what the containment knows, and the engine's account.
LEMMA DrainFacts ==
  ASSUME NEW s \in SessionType, NEW t, t = DrainContainmentFills(s)
  PROVE  /\ SameBooks(s, t) /\ t.venue = s.venue /\ t.broker = s.broker
         /\ t.engine.status = s.engine.status /\ t.engine.confirmed = s.engine.confirmed
         /\ t.engine.attempted = s.engine.attempted /\ t.engine.pending = s.engine.pending
         /\ t.call.drained /\ t.call.todo = s.call.todo /\ t.call.mode = s.call.mode
         /\ t.call.failure = s.call.failure /\ t.call.raising = s.call.raising
         /\ t.call.canceled = s.call.canceled /\ t.call.flat = s.call.flat
<1> DEFINE closes == \E i \in DOMAIN s.call.fills :
                       s.call.fills[i].role # "entry" /\ s.call.fills[i].status = "filled"
           c == [s.call EXCEPT !.fills = <<>>, !.drained = TRUE, !.closed = closes]
           v == [s EXCEPT !.call = c]
           e == [v.engine EXCEPT !.account = 0]
           w == [v EXCEPT !.engine = e]
<1>1. s.call \in CallType /\ s.engine \in EngineType /\ <<>> \in Seq(FillType)
  BY SessionParts
<1>2. closes \in BOOLEAN
  OBVIOUS
<1>3. v = [s EXCEPT !.call.fills = <<>>, !.call.drained = TRUE, !.call.closed = closes]
  BY <1>1 DEF SessionType
<1>4. t = v \/ t = [v EXCEPT !.engine.account = 0]
  BY <1>3 DEF DrainContainmentFills, OnClose
<1> HIDE DEF closes
<1>5. /\ c \in CallType /\ c.drained /\ c.todo = s.call.todo /\ c.mode = s.call.mode
      /\ c.failure = s.call.failure /\ c.raising = s.call.raising
      /\ c.canceled = s.call.canceled /\ c.flat = s.call.flat
  BY <1>1, <1>2 DEF CallType
<1> HIDE DEF c
<1>6. /\ SameBooks(s, v) /\ v.venue = s.venue /\ v.broker = s.broker /\ v.engine = s.engine
      /\ v.call = c
  BY <1>5, CallFacts
<1>7. v \in SessionType
  BY <1>6 DEF SameBooks
<1> HIDE DEF v
<1>8. CASE t = v
  BY <1>5, <1>6, <1>8
<1>9. CASE t = [v EXCEPT !.engine.account = 0]
  <2>1. /\ e \in EngineType /\ e.status = s.engine.status /\ e.confirmed = s.engine.confirmed
        /\ e.attempted = s.engine.attempted /\ e.pending = s.engine.pending
    BY <1>1, <1>6 DEF EngineType
  <2>2. t = w
    BY <1>7, <1>9 DEF SessionType
  <2> HIDE DEF e
  <2>3. /\ SameBooks(v, w) /\ w.venue = v.venue /\ w.broker = v.broker /\ w.engine = e
        /\ w.call = v.call
    BY <1>7, <2>1, EngineFacts
  <2> HIDE DEF w
  <2>4. SameBooks(s, w)
    BY <1>6, <2>3 DEF SameBooks
  <2> QED
    BY <1>5, <1>6, <2>1, <2>2, <2>3, <2>4
<1> QED
  BY <1>4, <1>8, <1>9

\* The fills left after a flatten are drained.
LEMMA DrainContained ==
  ASSUME NEW s, Base(s), Containing(s), NEW r, NEW x, Takes(s, r, x), x.op = "drain",
         NEW t, t = First(DrainContainmentFills(r), <<Local("confirm")>>)
  PROVE  Contained(t)
<1> DEFINE d == DrainContainmentFills(r)
           y == Local("confirm")
           steps == <<y>>
<1>1. x.op \in AfterSteps /\ x.op \notin Asks
  BY DEF AfterSteps, Asks
<1>2. /\ Inside(r) /\ ~r.call.failure
      /\ r.call.canceled = s.call.canceled /\ r.call.flat = s.call.flat
      /\ r.call.todo = Tail(s.call.todo) /\ r.call.todo \in Seq(StepType)
      /\ s.call.todo \in Seq(StepType) /\ s.call.todo # <<>> /\ x = s.call.todo[1]
      /\ NoAsks(r.call.todo)
      /\ \A i \in DOMAIN r.call.todo : r.call.todo[i].op \in AfterSteps
      /\ r.call.canceled => Quiet(r) /\ Flattening(s)
  BY <1>1, BeginContained
<1>3. Base(r) /\ r \in SessionType
  BY <1>2 DEF Inside, Base
<1>4. /\ SameBooks(r, d) /\ d.venue = r.venue /\ d.broker = r.broker
      /\ d.engine.status = r.engine.status /\ d.engine.confirmed = r.engine.confirmed
      /\ d.engine.attempted = r.engine.attempted /\ d.engine.pending = r.engine.pending
      /\ d.call.drained /\ d.call.todo = r.call.todo /\ d.call.mode = r.call.mode
      /\ d.call.failure = r.call.failure /\ d.call.raising = r.call.raising
      /\ d.call.canceled = r.call.canceled /\ d.call.flat = r.call.flat
  BY <1>3, DrainFacts
<1>5. t = First(d, steps)
  OBVIOUS
<1> HIDE DEF d
<1>6. Base(d) /\ d \in SessionType
  BY <1>3, <1>4, SameBooksFacts DEF SameBooks
<1>7. y \in StepType /\ y.op = "confirm"
  BY DEF Local, Step, StepType, AfterSteps
<1> HIDE DEF y
<1>8. steps \in Seq(StepType) /\ DOMAIN steps = {1} /\ steps[1] = y /\ Len(steps) = 1
  BY <1>7
<1> HIDE DEF steps
<1>9. /\ SameBooks(d, t) /\ t.venue = d.venue /\ t.broker = d.broker /\ t.engine = d.engine
      /\ t.call.todo = steps \o d.call.todo /\ SameLocals(d.call, t.call)
  BY <1>5, <1>6, <1>8, FirstFacts
<1>10. Base(t)
  BY <1>6, <1>9, SameBooksFacts
<1>11. OnlyAfter(t.call.todo)
  <2> DEFINE rest == r.call.todo
             todo == t.call.todo
  <2>1. todo = steps \o rest /\ rest \in Seq(StepType) /\ OnlyAfter(rest)
    BY <1>2, <1>4, <1>9 DEF OnlyAfter
  <2>2. steps = <<y>> /\ y.op \in AfterSteps \ Asks
    BY <1>7 DEF steps, AfterSteps, Asks
  <2> HIDE DEF rest, todo
  <2>3. OnlyAfter(todo)
    BY <1>7, <2>1, <2>2, AfterFirst
  <2> QED
    BY <2>3 DEF todo
<1>12. ASSUME t.call.canceled PROVE Quiet(t) /\ Flattening(t)
  <2>1. r.call.canceled
    BY <1>4, <1>9, <1>12 DEF SameLocals
  <2>2. Flattening(s) /\ s.call.todo[1].op = "drain"
    BY <1>2, <2>1
  <2>3. s.call.todo = <<Local("drain")>> /\ s.call.flat # "failed"
    BY <2>2 DEF Flattening, Local, Step
  <2>4. Tail(s.call.todo) = <<>>
    BY <2>3
  <2>5. t.call.todo = steps
    <3>1. t.call.todo = steps \o <<>>
      BY <1>2, <1>4, <1>9, <2>4
    <3> QED
      BY <1>8, <3>1
  <2>6. t.call.flat = r.call.flat /\ t.call.flat # "failed"
    BY <1>2, <1>4, <1>9, <2>3 DEF SameLocals
  <2>7. Quiet(r)
    BY <1>2, <2>1
  <2>8. Quiet(t)
    BY <1>4, <1>9, <2>6, <2>7 DEF Quiet, UnseenFlatten
  <2> QED
    BY <2>5, <2>6, <2>8 DEF Flattening, steps, y
<1>13. Queued(t)
  BY <1>11 DEF OnlyAfter, NoAsks, Queued
<1>14. Containing(t) /\ ~t.call.failure
  BY <1>2, <1>4, <1>9, <1>11, <1>12, <1>13 DEF Containing, Inside, SameLocals, OnlyAfter
<1> QED
  BY <1>10, <1>14 DEF Contained

\* The end of a session.
LEMMA EndFacts ==
  ASSUME NEW s, Base(s), NEW t, t = End(s),
         s.engine.confirmed = TRUE =>
           s.venue.position = 0 /\ \A id \in Ids : ~Live(s.venue, id),
         ~s.call.raising /\ s.engine.confirmed # FALSE =>
           s.venue.position = 0 /\ \A id \in Ids : Live(s.venue, id) => id.role # "entry"
  PROVE  Base(t) /\ Ended(t)
<1> DEFINE status == IF s.call.raising \/ s.engine.confirmed = FALSE THEN "failed" ELSE "ended"
           e == [s.engine EXCEPT !.status = status]
           c == NoCall
           v == [s EXCEPT !.engine = e]
<1>1. s \in SessionType /\ s.engine \in EngineType
  BY SessionParts DEF Base
<1>2. t = [s EXCEPT !.engine = e, !.call = c]
  BY <1>1 DEF End, SessionType
<1>3. status \in {"running", "failed", "ended"} /\ status # "running"
  OBVIOUS
<1>4. status = "ended" =>
        s.venue.position = 0 /\ \A id \in Ids : Live(s.venue, id) => id.role # "entry"
  OBVIOUS
<1> HIDE DEF status
<1>5. e \in EngineType /\ e.status = status /\ e.confirmed = s.engine.confirmed
  BY <1>1, <1>3 DEF EngineType
<1>6. c \in CallType
  BY NoCallType
<1> HIDE DEF e, c
<1>7. /\ t \in SessionType /\ t.venue = s.venue /\ t.broker = s.broker /\ t.engine = e
      /\ t.call = c
  BY <1>1, <1>2, <1>5, <1>6 DEF SessionType
<1>8. SameBooks(s, t)
  BY <1>7 DEF SameBooks
<1>9. Base(t)
  BY <1>8, SameBooksFacts
<1>10. Ended(t)
  BY <1>3, <1>4, <1>5, <1>7 DEF Ended, c
<1> QED
  BY <1>9, <1>10

\* Finalization contains what may be left, and ends the session otherwise.
LEMMA FinalizeFacts ==
  ASSUME NEW s, Base(s), s.engine.status = "running", NEW t, t = Finalize(s),
         s.engine.confirmed = TRUE =>
           /\ ~NeedsContainment(s)
           /\ s.venue.position = 0 /\ \A id \in Ids : ~Live(s.venue, id),
         ~NeedsContainment(s) /\ s.engine.confirmed # FALSE =>
           s.venue.position = 0 /\ \A id \in Ids : Live(s.venue, id) => id.role # "entry"
  PROVE  Base(t) /\ (Containing(t) \/ Ended(t))
<1>1. CASE NeedsContainment(s)
  <2> DEFINE mode == "finalize"
  <2>1. mode \in {"contain", "finalize"} /\ (mode = "contain" => s.call.raising)
    OBVIOUS
  <2>2. t = ContainExposure(s, mode)
    BY <1>1 DEF Finalize
  <2>3. s.engine.confirmed # TRUE
    BY <1>1
  <2> HIDE DEF mode
  <2>4. Base(t) /\ Containing(t)
    BY <2>1, <2>2, <2>3, ContainFacts
  <2> QED
    BY <2>4
<1>2. CASE ~NeedsContainment(s)
  <2>1. t = End(s)
    BY <1>2 DEF Finalize
  <2>2. s.engine.confirmed = TRUE =>
          s.venue.position = 0 /\ \A id \in Ids : ~Live(s.venue, id)
    OBVIOUS
  <2>3. ~s.call.raising /\ s.engine.confirmed # FALSE =>
          s.venue.position = 0 /\ \A id \in Ids : Live(s.venue, id) => id.role # "entry"
    BY <1>2
  <2> QED
    BY <2>1, <2>2, <2>3, EndFacts
<1> QED
  BY <1>1, <1>2

\* The confirmation of a containment is true only when nothing is left.
LEMMA ConfirmContained ==
  ASSUME NEW s, Base(s), Containing(s), NEW r, NEW x, Takes(s, r, x), x.op = "confirm",
         NEW t, t = AfterContainment(Confirm(r))
  PROVE  Base(t) /\ (Containing(t) \/ Ended(t))
<1> DEFINE b == r.call.canceled /\ FlattenConfirmed(r) /\ ~Position(r)
           e == [r.engine EXCEPT !.confirmed = b]
           v == [r EXCEPT !.engine = e]
           flat == v.venue.position = 0 /\ \A id \in Ids : ~Live(v.venue, id)
<1>1. x.op \in AfterSteps /\ x.op \notin Asks
  BY DEF AfterSteps, Asks
<1>2. /\ Inside(r)
      /\ s.call.todo # <<>> /\ x = s.call.todo[1]
      /\ r.call.flat = s.call.flat /\ r.call.drained = s.call.drained
      /\ r.call.canceled => Quiet(r) /\ Flattening(s)
  BY <1>1, BeginContained
<1>3. /\ Base(r) /\ r \in SessionType /\ r.engine \in EngineType
      /\ r.engine.status = "running" /\ r.call.mode \in {"contain", "finalize"}
      /\ r.venue.position \in Nat /\ r.broker.position \in Nat
  BY <1>2, SessionParts DEF Inside, Base
<1>4. b \in BOOLEAN
  OBVIOUS
<1>5. Confirm(r) = v
  BY <1>3 DEF Confirm, SessionType
<1>6. ASSUME b
      PROVE  /\ r.venue.position = 0 /\ \A id \in Ids : ~Live(r.venue, id)
             /\ ~r.engine.pending /\ Tracked(r.broker) \subseteq {FlattenId}
             /\ ~Position(r)
  <2>1. Quiet(r) /\ Flattening(s) /\ FlattenConfirmed(r) /\ ~Position(r)
    BY <1>2, <1>6
  <2>2. r.call.drained => r.call.flat # "failed"
    <3>1. s.call.todo[1].op = "confirm"
      BY <1>2
    <3> QED
      BY <1>2, <2>1, <3>1 DEF Flattening, Local, Step
  <2>3. r.broker.position = 0
    BY <2>1 DEF Position
  <2>4. r.venue.position = 0
    <3>1. CASE r.call.flat = "filled"
      BY <2>1, <3>1 DEF Quiet
    <3>2. CASE r.call.drained
      <4> DEFINE unseen == UnseenFlatten(r)
      <4>1. r.broker.position >= r.venue.position + unseen
        BY <2>1, <2>2, <3>2 DEF Quiet
      <4>2. unseen \in Nat
        BY <1>3, SessionParts, IdKinds DEF UnseenFlatten
      <4> HIDE DEF unseen
      <4> QED
        BY <1>3, <2>3, <4>1, <4>2
    <3> QED
      BY <2>1, <3>1, <3>2 DEF FlattenConfirmed
  <2>5. \A id \in Ids : ~Live(r.venue, id)
    <3>1. ~Live(r.venue, FlattenId)
      BY <2>1, <2>4 DEF Quiet
    <3>2. \A id \in Ids : Live(r.venue, id) => id \in {FlattenId}
      BY <1>3, <2>1 DEF Base, Quiet
    <3> QED
      BY <3>1, <3>2
  <2> QED
    BY <2>1, <2>4, <2>5 DEF Quiet
<1>8. /\ e \in EngineType /\ e.confirmed = b /\ e.status = "running"
      /\ e.pending = r.engine.pending /\ e.account = r.engine.account
  BY <1>3, <1>4 DEF EngineType
<1> HIDE DEF b, e
<1>9. /\ SameBooks(r, v) /\ v.venue = r.venue /\ v.broker = r.broker /\ v.engine = e
      /\ v.call = r.call
  BY <1>3, <1>8, EngineFacts
<1> HIDE DEF v
<1>10. Base(v) /\ v.engine.status = "running" /\ v.engine.confirmed \in BOOLEAN
  BY <1>3, <1>4, <1>8, <1>9, SameBooksFacts
<1>11. v.engine.confirmed = TRUE => flat /\ ~NeedsContainment(v)
  <2> SUFFICES ASSUME v.engine.confirmed = TRUE PROVE flat /\ ~NeedsContainment(v)
    OBVIOUS
  <2>1. /\ r.venue.position = 0 /\ \A id \in Ids : ~Live(r.venue, id)
        /\ ~r.engine.pending /\ Tracked(r.broker) \subseteq {FlattenId}
        /\ ~Position(r)
    BY <1>4, <1>6, <1>8, <1>9
  <2>2. flat
    BY <1>9, <2>1
  <2>3. ~Position(v)
    BY <1>8, <1>9, <2>1 DEF Position
  <2>4. ~Pending(v.broker)
    BY <1>9, <2>1 DEF Pending, FlattenId
  <2>5. ~EntryPending(v)
    BY <1>8, <1>9, <2>1, <2>4 DEF EntryPending
  <2> QED
    BY <2>2, <2>3, <2>5 DEF NeedsContainment
<1>12. v.engine.confirmed # FALSE =>
         v.venue.position = 0 /\ \A id \in Ids : Live(v.venue, id) => id.role # "entry"
  BY <1>10, <1>11
<1>13. t = IF v.call.mode = "contain" THEN Finalize(v) ELSE End(v)
  BY <1>5 DEF AfterContainment
<1>14. CASE v.call.mode = "contain"
  <2>1. t = Finalize(v)
    BY <1>13, <1>14
  <2> QED
    BY <1>10, <1>11, <1>12, <2>1, FinalizeFacts
<1>15. CASE v.call.mode # "contain"
  <2>1. t = End(v)
    BY <1>13, <1>15
  <2> QED
    BY <1>10, <1>11, <1>12, <2>1, EndFacts
<1> QED
  BY <1>14, <1>15

-----------------------------------------------------------------------------
(***************************************************************************)
(* The steps of a session.                                                 *)
(***************************************************************************)
\* What a step may leave, before an exception is looked at.
Outcome(s) == Result(s) \/ Contained(s) \/ (SessionInv(s) /\ ~s.call.failure)

LEMMA Landing ==
  ASSUME NEW s, Outcome(s), NEW u, u = IF s.call.failure THEN Raise(s) ELSE s
  PROVE  SessionInv(u)
<1>1. CASE Result(s)
  BY <1>1, BrokenRaises DEF Result, Goes, SessionInv
<1>2. CASE Contained(s)
  <2>1. CASE s.call.failure
    BY <1>2, <2>1, ContainedRaises DEF SessionInv
  <2>2. CASE ~s.call.failure
    BY <1>2, <2>2 DEF Contained, SessionInv
  <2> QED
    BY <2>1, <2>2
<1>3. CASE SessionInv(s) /\ ~s.call.failure
  BY <1>3
<1> QED
  BY <1>1, <1>2, <1>3 DEF Outcome

\* A handler that has made its last step.
LEMMA HandlerEnds ==
  ASSUME NEW u, SessionInv(u), u.call.mode = "handler", u.call.todo = <<>>,
         NEW t \in SessionType, t.venue = u.venue, t.broker = u.broker, t.engine = u.engine,
         t.call = NoCall
  PROVE  SessionInv(t)
<1>1. Base(u) /\ Handling(u)
  BY NoCallType DEF SessionInv, Containing, Ended
<1>2. SameBooks(u, t)
  BY DEF SameBooks
<1>3. Base(t) /\ Accounted(t) /\ Working(t) = Working(u)
  BY <1>1, <1>2, SameBooksFacts DEF Handling
<1>4. t.call.todo = <<>> /\ t.call.fills = <<>> /\ ~t.call.failure /\ ~t.call.raising
      /\ t.call.mode = "idle"
  BY NoCallType
<1>5. Submitting(t) = 0
  BY <1>4 DEF Submitting
<1>6. Opened(t.call.fills) = 0
  BY <1>4, NothingOpened
<1>7. Numbered(t)
  <2>1. Used(u) + Submitting(u) <= u.engine.entries
    BY <1>1 DEF Handling, Numbered
  <2>2. /\ Used(u) \in Nat /\ Submitting(u) \in {0, 1} /\ u.engine.trades \in Nat
        /\ u.engine.entries \in Nat
        /\ Opened(u.broker.queue) \in Nat /\ Opened(u.call.fills) \in Nat
        /\ SumFunctionOnSet(Working(u), Ids) \in Nat
    BY <1>1, UsedType
  <2> DEFINE a == u.engine.trades
             b == Opened(u.broker.queue)
             c == Opened(u.call.fills)
             d == SumFunctionOnSet(Working(u), Ids)
  <2>3. Used(u) = a + b + c + d
    BY DEF Used
  <2>4. Used(t) = a + b + 0 + d
    BY <1>3, <1>6 DEF Used
  <2>5. a \in Nat /\ b \in Nat /\ c \in Nat /\ d \in Nat
    BY <2>2
  <2> HIDE DEF a, b, c, d
  <2>6. Used(t) <= Used(u)
    BY <2>3, <2>4, <2>5
  <2>7. Used(t) \in Nat
    BY <2>4, <2>5
  <2> QED
    BY <1>5, <2>1, <2>2, <2>6, <2>7 DEF Numbered
<1>8. Handling(t)
  BY <1>1, <1>3, <1>4, <1>7 DEF Handling, Queued
<1> QED
  BY <1>3, <1>8 DEF SessionInv

\* The session becomes what a step left.
LEMMA Becoming ==
  ASSUME NEW u, SessionInv(u), NEW f, Become(u, f)
  PROVE  SessionInv(Session')
<1> DEFINE t == Session'
<1>1. u \in SessionType
  BY DEF SessionInv, Base
<1>2. CASE u.call.mode = "handler" /\ u.call.todo = <<>>
  <2>1. /\ t.venue = u.venue /\ t.broker = u.broker /\ t.engine = u.engine /\ t.call = NoCall
        /\ t = [venue |-> u.venue, broker |-> u.broker, engine |-> u.engine, call |-> NoCall]
    BY <1>2 DEF Become, Session
  <2>2. t \in SessionType
    BY <1>1, <2>1, NoCallType DEF SessionType
  <2> HIDE DEF t
  <2>3. SessionInv(t)
    BY <1>2, <2>1, <2>2, HandlerEnds
  <2> QED
    BY <2>3 DEF t
<1>3. CASE ~(u.call.mode = "handler" /\ u.call.todo = <<>>)
  <2>1. t = [venue |-> u.venue, broker |-> u.broker, engine |-> u.engine, call |-> u.call]
    BY <1>3 DEF Become, Session
  <2>2. t = u
    BY <1>1, <2>1 DEF SessionType
  <2> HIDE DEF t
  <2>3. SessionInv(t)
    BY <2>2
  <2> QED
    BY <2>3 DEF t
<1> QED
  BY <1>2, <1>3

LEMMA LeadsOn ==
  ASSUME NEW S, NEW f, Leads(S, f), \A s \in S : Outcome(s)
  PROVE  SessionInv(Session')
<1>1. PICK s \in S : Become(IF s.call.failure THEN Raise(s) ELSE s, f)
  BY DEF Leads
<1> DEFINE u == IF s.call.failure THEN Raise(s) ELSE s
<1>2. Become(u, f) /\ Outcome(s)
  BY <1>1
<1>3. SessionInv(u)
  BY <1>2, Landing
<1> HIDE DEF u
<1> QED
  BY <1>2, <1>3, Becoming

\* The first steps of a handler and of a containment.
LEMMA FirstStep ==
  ASSUME SessionInv(Session), call.todo # <<>>
  PROVE  /\ Takes(Session, Rest, Arg) /\ Base(Session)
         /\ Handling(Session) \/ Containing(Session)
<1>1. Session.call = call
  BY DEF Session
<1>2. ~Ended(Session)
  BY <1>1, NoCallType DEF Ended
<1> QED
  BY <1>1, <1>2 DEF SessionInv, Takes, Rest, Arg

LEMMA HandlerOnly ==
  ASSUME NEW s, Base(s), Containing(s), NEW r, NEW x, Takes(s, r, x)
  PROVE  x.op \in {"cancel", "contain"} \cup AfterSteps
<1>1. /\ s.call.todo \in Seq(StepType) /\ s.call.todo # <<>> /\ x = s.call.todo[1]
  BY BeginContained
<1>2. 1 \in DOMAIN s.call.todo /\ Len(s.call.todo) \in Nat
      /\ DOMAIN s.call.todo = 1 .. Len(s.call.todo)
  BY <1>1, HeadAndTail
<1>3. CASE Cancelling(s)
  <2> DEFINE n == Len(s.call.todo)
  <2>1. n \in Nat /\ 1 \in 1 .. n
    BY <1>2
  <2> HIDE DEF n
  <2>2. n = 1 \/ 1 \in 1 .. n - 1
    BY <2>1
  <2> QED
    BY <1>1, <1>3, <2>2 DEF Cancelling, n
<1>4. CASE \A i \in DOMAIN s.call.todo : s.call.todo[i].op \in AfterSteps
  BY <1>1, <1>2, <1>4
<1> QED
  BY <1>3, <1>4 DEF Containing

\* A step of a handler that only handlers make.
LEMMA HandlerBegins ==
  ASSUME SessionInv(Session), call.todo # <<>>,
         Arg.op \notin {"cancel", "contain"} \cup AfterSteps
  PROVE  /\ Under(Rest) /\ HandlerStepOK(Arg) /\ Arg \in StepType
         /\ Arg.op \notin Asks /\ NoAsks(Rest.call.todo)
         /\ Arg.op \in EntrySteps \cup {"decide"} => Rest.call.todo = <<>>
         /\ Arg.op \in EntrySteps => Used(Rest) + 1 <= Rest.engine.entries
         /\ Arg.op = "restop" => Rest.broker.active # None
<1> DEFINE s == Session
           r == Rest
           x == Arg
<1>1. Takes(s, r, x) /\ Base(s) /\ (Handling(s) \/ Containing(s))
  BY FirstStep
<1>2. x.op \notin {"cancel", "contain"} \cup AfterSteps
  OBVIOUS
<1>3. x.op \notin Asks
  BY <1>2 DEF Asks, AfterSteps
<1> HIDE DEF s, r, x
<1>4. Handling(s)
  BY <1>1, <1>2, HandlerOnly
<1>5. /\ Under(r) /\ HandlerStepOK(x) /\ x \in StepType /\ NoAsks(r.call.todo)
      /\ x.op \in EntrySteps \cup {"decide"} => r.call.todo = <<>>
      /\ x.op \in EntrySteps => Used(r) + 1 <= r.engine.entries
      /\ x.op = "restop" => r.broker.active # None
  BY <1>1, <1>3, <1>4, Begin
<1> QED
  BY <1>3, <1>5 DEF r, x

LEMMA QuerySteps ==
  ASSUME SessionInv(Session), QueryOrder
  PROVE  SessionInv(Session')
<1> DEFINE s == Session
           r == Rest
           x == Arg
           id == x.id
           S == Query(r, id)
<1>0. call.todo # <<>> /\ x.op = "query" /\ x.op \in Asks
  BY DEF QueryOrder, At, Arg, Asks
<1>1. Takes(s, r, x) /\ Base(s) /\ (Handling(s) \/ Containing(s))
  BY <1>0, FirstStep
<1>2. Leads(S, feed)
  BY DEF QueryOrder, Continue
<1> HIDE DEF s, r, x
<1>3. ASSUME NEW t \in S PROVE Outcome(t)
  <2>1. CASE Handling(s)
    <3>1. /\ Under(r) /\ id \in Tracked(r.broker)
          /\ \A i \in DOMAIN r.call.todo :
               r.call.todo[i].op \in Asks => r.call.todo[i].id # id
      BY <1>0, <1>1, <2>1, Begin
    <3> HIDE DEF id
    <3>2. Result(t)
      BY <1>3, <3>1, QueryHandled
    <3> QED
      BY <3>2 DEF Outcome
  <2>2. CASE Containing(s)
    <3>1. t \in Query(r, x.id)
      BY <1>3
    <3>2. Contained(t)
      BY <1>0, <1>1, <2>2, <3>1, QueryContained
    <3> QED
      BY <3>2 DEF Outcome
  <2> QED
    BY <1>1, <2>1, <2>2
<1> HIDE DEF S
<1> QED
  BY <1>2, <1>3, LeadsOn

LEMMA CancelSteps ==
  ASSUME SessionInv(Session), CancelOrder
  PROVE  SessionInv(Session')
<1> DEFINE s == Session
           r == Rest
           x == Arg
           id == x.id
           S == CancelOne(r, id)
<1>0. call.todo # <<>> /\ x.op = "cancel" /\ x.op \in Asks
  BY DEF CancelOrder, At, Arg, Asks
<1>1. Takes(s, r, x) /\ Base(s) /\ (Handling(s) \/ Containing(s))
  BY <1>0, FirstStep
<1>2. Leads(S, feed)
  BY DEF CancelOrder, Continue
<1> HIDE DEF s, r, x
<1>3. ASSUME NEW t \in S PROVE Outcome(t)
  <2>1. CASE Handling(s)
    <3>1. /\ Under(r) /\ id \in Tracked(r.broker)
          /\ \A i \in DOMAIN r.call.todo :
               r.call.todo[i].op \in Asks => r.call.todo[i].id # id
      BY <1>0, <1>1, <2>1, Begin
    <3> HIDE DEF id
    <3>2. Under(t)
      BY <1>3, <3>1, CancelHandled
    <3> QED
      BY <3>2, UnderResult DEF Outcome
  <2>2. CASE Containing(s)
    <3>1. t \in CancelOne(r, x.id)
      BY <1>3
    <3>2. Contained(t)
      BY <1>0, <1>1, <2>2, <3>1, CancelContained
    <3> QED
      BY <3>2 DEF Outcome
  <2> QED
    BY <1>1, <2>1, <2>2
<1> HIDE DEF S
<1> QED
  BY <1>2, <1>3, LeadsOn

\* The local steps of a handler.
LEMMA LocalSteps1 ==
  ASSUME SessionInv(Session), Process \/ DecideBar \/ CancelEntry \/ Close \/ FilledEntry
  PROVE  SessionInv(Session')
<1> DEFINE r == Rest
<1>1. /\ call.todo # <<>>
      /\ Arg.op \in {"process", "decide", "entryCanceled", "close", "entered"}
  BY DEF Process, DecideBar, CancelEntry, Close, FilledEntry, At, Arg
<1>2. Arg.op \notin {"cancel", "contain"} \cup AfterSteps
  BY <1>1 DEF AfterSteps
<1>3. /\ Under(r) /\ NoAsks(r.call.todo)
      /\ Arg.op = "decide" => r.call.todo = <<>>
  BY <1>1, <1>2, HandlerBegins
<1>4. CASE Process
  <2> DEFINE S == ProcessFills(r)
  <2>1. Leads(S, feed)
    BY <1>4 DEF Process, Continue
  <2> HIDE DEF r
  <2>2. \A t \in S : Outcome(t)
    BY <1>3, ProcessHandled DEF Outcome
  <2> HIDE DEF S
  <2> QED
    BY <2>1, <2>2, LeadsOn
<1>5. CASE DecideBar
  <2> DEFINE S == Decide(r)
  <2>1. Leads(S, feed) /\ Arg.op = "decide"
    BY <1>5 DEF DecideBar, Continue, At, Arg
  <2> HIDE DEF r
  <2>2. \A t \in S : Outcome(t)
    BY <1>3, <2>1, DecideHandled DEF Outcome
  <2> HIDE DEF S
  <2> QED
    BY <2>1, <2>2, LeadsOn
<1>6. CASE CancelEntry
  <2> DEFINE S == EntryCanceled(AfterCancelAll(r))
  <2>1. Leads(S, feed)
    BY <1>6 DEF CancelEntry, Continue
  <2> HIDE DEF r
  <2>2. \A t \in S : Outcome(t)
    BY <1>3, EntryCanceledHandled DEF Outcome
  <2> HIDE DEF S
  <2> QED
    BY <2>1, <2>2, LeadsOn
<1>7. CASE Close
  <2> DEFINE t == OnClose(AfterCancelAll(r))
             S == {t}
  <2>1. Leads(S, feed)
    BY <1>7 DEF Close, Continue
  <2> HIDE DEF r
  <2>2. Result(t)
    BY <1>3, CloseHandled
  <2> HIDE DEF t
  <2>3. \A u \in S : Outcome(u)
    BY <2>2 DEF Outcome
  <2> HIDE DEF S
  <2> QED
    BY <2>1, <2>3, LeadsOn
<1>8. CASE FilledEntry
  <2> DEFINE S == {IF engine.account = 0 THEN Fail(r) ELSE r}
  <2>1. Leads(S, feed)
    BY <1>8 DEF FilledEntry, Continue
  <2> HIDE DEF r
  <2>2. Result(Fail(r)) /\ Result(r)
    BY <1>3, UnderFails, UnderResult
  <2>3. \A t \in S : Outcome(t)
    BY <2>2 DEF Outcome
  <2> HIDE DEF S
  <2> QED
    BY <2>1, <2>3, LeadsOn
<1> QED
  BY <1>4, <1>5, <1>6, <1>7, <1>8

\* An entry is submitted.
LEMMA SubmitSteps ==
  ASSUME SessionInv(Session), Submit
  PROVE  SessionInv(Session')
<1> DEFINE r == Rest
           id == Arg.id
           conditional == Arg.op = "submitStop"
           After(u) == IF u.call.failure THEN {u} ELSE Entered(u)
           S == UNION {After(u) : u \in SubmitEntry(r, id, conditional)}
<1>1. call.todo # <<>> /\ Arg.op \in {"submit", "submitStop"}
  BY DEF Submit, At, Arg
<1>2. Arg.op \notin {"cancel", "contain"} \cup AfterSteps /\ Arg.op \in EntrySteps
  BY <1>1 DEF AfterSteps, EntrySteps
<1>3. /\ Under(r) /\ r.call.todo = <<>> /\ Used(r) + 1 <= r.engine.entries
      /\ id \in Entries
  BY <1>1, <1>2, HandlerBegins DEF HandlerStepOK
<1>4. conditional \in BOOLEAN
  OBVIOUS
<1>5. Leads(S, feed)
  BY DEF Submit, Continue
<1> HIDE DEF r, id, conditional
<1>6. ASSUME NEW t \in S PROVE Outcome(t)
  <2>1. PICK u \in SubmitEntry(r, id, conditional) : t \in After(u)
    BY <1>6
  <2>2. t \in IF u.call.failure THEN {u} ELSE Entered(u)
    BY <2>1
  <2>3. Result(t)
    BY <1>3, <1>4, <2>1, <2>2, SubmitHandled
  <2> QED
    BY <2>3 DEF Outcome
<1> HIDE DEF S
<1> QED
  BY <1>5, <1>6, LeadsOn

\* Protection is placed and replaced.
LEMMA ProtectionSteps ==
  ASSUME SessionInv(Session), PlaceProtection \/ NewStop \/ CancelReplaced
  PROVE  SessionInv(Session')
<1> DEFINE r == Rest
           id == Arg.id
           qty == Arg.qty
<1>1. call.todo # <<>> /\ Arg.op \in {"leg", "restop", "replaced"}
  BY DEF PlaceProtection, NewStop, CancelReplaced, At, Arg
<1>2. Arg.op \notin {"cancel", "contain"} \cup AfterSteps /\ Arg.op \in ExitSteps
  BY <1>1 DEF AfterSteps, ExitSteps
<1>3. /\ Under(r) /\ NoAsks(r.call.todo) /\ id \in Exits /\ qty \in Nat
      /\ Arg.op = "restop" => r.broker.active # None
  BY <1>1, <1>2, HandlerBegins DEF HandlerStepOK, StepType
<1>4. CASE PlaceProtection
  <2> DEFINE S == PlaceLeg(r, id, qty)
  <2>1. Leads(S, feed)
    BY <1>4 DEF PlaceProtection, Continue
  <2> HIDE DEF r, id, qty
  <2>2. \A t \in S : Outcome(t)
    BY <1>3, LegHandled DEF Outcome
  <2> HIDE DEF S
  <2> QED
    BY <2>1, <2>2, LeadsOn
<1>5. CASE NewStop
  <2> DEFINE S == ReplaceStop(r, id)
  <2>1. Leads(S, feed) /\ r.broker.active # None
    BY <1>3, <1>5 DEF NewStop, Continue, At, Arg
  <2> HIDE DEF r, id
  <2>2. \A t \in S : Outcome(t)
    BY <1>3, <2>1, ReplaceHandled DEF Outcome
  <2> HIDE DEF S
  <2> QED
    BY <2>1, <2>2, LeadsOn
<1>6. CASE CancelReplaced
  <2> DEFINE S == DeleteReplaced(r, id)
  <2>1. Leads(S, feed)
    BY <1>6 DEF CancelReplaced, Continue
  <2> HIDE DEF r, id
  <2>2. \A t \in S : Outcome(t)
    BY <1>3, ReplacedHandled DEF Outcome
  <2> HIDE DEF S
  <2> QED
    BY <2>1, <2>2, LeadsOn
<1> QED
  BY <1>4, <1>5, <1>6

\* The steps that only containments make.
LEMMA ContainmentBegins ==
  ASSUME SessionInv(Session), call.todo # <<>>,
         Arg.op \in {"contain", "position", "flatten", "drain", "confirm"}
  PROVE  Takes(Session, Rest, Arg) /\ Base(Session) /\ Containing(Session)
<1> DEFINE s == Session
           r == Rest
           x == Arg
<1>1. Takes(s, r, x) /\ Base(s) /\ (Handling(s) \/ Containing(s))
  BY FirstStep
<1>2. x.op \in {"contain", "position", "flatten", "drain", "confirm"}
  OBVIOUS
<1> HIDE DEF s, r, x
<1>3. ~Handling(s)
  <2> SUFFICES ASSUME Handling(s) PROVE FALSE
    OBVIOUS
  <2>1. HandlerStepOK(x)
    BY <1>1, Begin
  <2> QED
    BY <1>2, <2>1 DEF HandlerStepOK, Asks, EntrySteps, ExitSteps, HandlerLocals
<1>4. Takes(s, r, x) /\ Base(s) /\ Containing(s)
  BY <1>1, <1>3
<1> QED
  BY <1>4 DEF s, r, x

LEMMA ContainmentSteps ==
  ASSUME SessionInv(Session),
         Contain \/ FlattenPosition \/ SendFlatten \/ Drain \/ ConfirmContainment
  PROVE  SessionInv(Session')
<1> DEFINE s == Session
           r == Rest
           x == Arg
<1>1. /\ call.todo # <<>>
      /\ Arg.op \in {"contain", "position", "flatten", "drain", "confirm"}
  BY DEF Contain, FlattenPosition, SendFlatten, Drain, ConfirmContainment, At, Arg
<1>2. Takes(s, r, x) /\ Base(s) /\ Containing(s)
  BY <1>1, ContainmentBegins
<1>3. CASE Contain
  <2> DEFINE a == AfterCancelAll(r)
             t == [a EXCEPT !.engine.pending = FALSE,
                            !.call = [NoCall EXCEPT !.mode = a.call.mode,
                                                    !.raising = a.call.raising,
                                                    !.canceled = Canceled(a),
                                                    !.todo = <<Local("position")>>]]
             S == {t}
  <2>1. Leads(S, feed) /\ x.op = "contain"
    BY <1>3 DEF Contain, Continue, At, Arg
  <2> HIDE DEF s, r, x
  <2> HIDE DEF a
  <2>2. a = AfterCancelAll(r)
    BY DEF a
  <2>3. Contained(t)
    BY <1>2, <2>1, <2>2, ContainContained
  <2> HIDE DEF t
  <2>4. \A u \in S : Outcome(u)
    BY <2>3 DEF Outcome
  <2> HIDE DEF S
  <2> QED
    BY <2>1, <2>4, LeadsOn
<1>4. CASE FlattenPosition
  <2> DEFINE After(u) == IF u.call.failure THEN {u}
                         ELSE IF u.broker.position = 0
                              THEN Poll([u EXCEPT !.call.flat = "none"], "drain")
                              ELSE {First(u, <<Local("flatten")>>)}
             S == UNION {After(u) : u \in FetchPosition(r)}
  <2>1. Leads(S, feed) /\ x.op = "position"
    BY <1>4 DEF FlattenPosition, Continue, At, Arg
  <2> HIDE DEF s, r, x
  <2>2. ASSUME NEW t \in S PROVE Outcome(t)
    <3>1. PICK u \in FetchPosition(r) : t \in After(u)
      BY <2>2
    <3>2. t \in IF u.call.failure THEN {u}
                ELSE IF u.broker.position = 0
                     THEN Poll([u EXCEPT !.call.flat = "none"], "drain")
                     ELSE {First(u, <<Local("flatten")>>)}
      BY <3>1
    <3>3. Contained(t)
      BY <1>2, <2>1, <3>1, <3>2, PositionContained
    <3> QED
      BY <3>3 DEF Outcome
  <2> HIDE DEF S
  <2> QED
    BY <2>1, <2>2, LeadsOn
<1>5. CASE SendFlatten
  <2> DEFINE After(u) == IF u.call.failure THEN {u}
                         ELSE Poll([u EXCEPT !.call.flat = u.call.reply], "drain")
             S == UNION {After(u) : u \in Flatten(r)}
  <2>1. Leads(S, feed) /\ x.op = "flatten"
    BY <1>5 DEF SendFlatten, Continue, At, Arg
  <2> HIDE DEF s, r, x
  <2>2. ASSUME NEW t \in S PROVE Outcome(t)
    <3>1. PICK u \in Flatten(r) : t \in After(u)
      BY <2>2
    <3>2. t \in IF u.call.failure THEN {u}
                ELSE Poll([u EXCEPT !.call.flat = u.call.reply], "drain")
      BY <3>1
    <3>3. Contained(t)
      BY <1>2, <2>1, <3>1, <3>2, FlattenContained
    <3> QED
      BY <3>3 DEF Outcome
  <2> HIDE DEF S
  <2> QED
    BY <2>1, <2>2, LeadsOn
<1>6. CASE Drain
  <2> DEFINE t == First(DrainContainmentFills(r), <<Local("confirm")>>)
             S == {t}
  <2>1. Leads(S, feed) /\ x.op = "drain"
    BY <1>6 DEF Drain, Continue, At, Arg
  <2> HIDE DEF s, r, x
  <2>2. Contained(t)
    BY <1>2, <2>1, DrainContained
  <2> HIDE DEF t
  <2>3. \A u \in S : Outcome(u)
    BY <2>2 DEF Outcome
  <2> HIDE DEF S
  <2> QED
    BY <2>1, <2>3, LeadsOn
<1>7. CASE ConfirmContainment
  <2> DEFINE t == AfterContainment(Confirm(r))
             S == {t}
  <2>1. Leads(S, feed) /\ x.op = "confirm"
    BY <1>7 DEF ConfirmContainment, Continue, At, Arg
  <2> HIDE DEF s, r, x
  <2>2. Base(t) /\ (Containing(t) \/ Ended(t))
    BY <1>2, <2>1, ConfirmContained
  <2> HIDE DEF t
  <2>3. ~t.call.failure
    BY <2>2, NoCallType DEF Containing, Ended
  <2>4. \A u \in S : Outcome(u)
    BY <2>2, <2>3 DEF Outcome, SessionInv
  <2> HIDE DEF S
  <2> QED
    BY <2>1, <2>4, LeadsOn
<1> QED
  BY <1>3, <1>4, <1>5, <1>6, <1>7

LEMMA HandlerSteps ==
  ASSUME SessionInv(Session), HandlerStep
  PROVE  SessionInv(Session')
BY QuerySteps, CancelSteps, LocalSteps1, SubmitSteps, ProtectionSteps, ContainmentSteps
   DEF HandlerStep

\* Idle, nothing is under way, and a handler may begin.
LEMMA IdleSession ==
  ASSUME SessionInv(Session), Idle
  PROVE  /\ Base(Session) /\ Handling(Session) /\ Session.call = NoCall
         /\ Under(Handler) /\ Handler.call.todo = <<>>
<1> DEFINE s == Session
           mode == "handler"
           c == [NoCall EXCEPT !.mode = mode]
           h == [s EXCEPT !.call = c]
<1>1. Base(s) /\ Handling(s) /\ s.call = NoCall
  BY NoCallType DEF SessionInv, Containing, Ended, Handling, Idle, Running, Session
<1>2. s \in SessionType
  BY <1>1 DEF Base
<1>3. Handler = h
  BY <1>1, <1>2 DEF Handler, SessionType
<1>4. mode \in {"idle", "handler", "contain", "finalize"}
  OBVIOUS
<1>5. /\ c \in CallType /\ c.mode = mode /\ c.todo = NoCall.todo /\ c.fills = NoCall.fills
      /\ c.failure = NoCall.failure /\ c.raising = NoCall.raising
  BY <1>4, NoCallType DEF CallType
<1> HIDE DEF s, c, mode
<1>6. /\ SameBooks(s, h) /\ h.venue = s.venue /\ h.broker = s.broker /\ h.engine = s.engine
      /\ h.call = c
  BY <1>2, <1>5, CallFacts
<1> HIDE DEF h
<1>7. Base(h) /\ Accounted(h) /\ Working(h) = Working(s)
  BY <1>1, <1>6, SameBooksFacts DEF Handling
<1>8. /\ h.call.mode = "handler" /\ h.call.todo = <<>> /\ ~h.call.failure /\ ~h.call.raising
      /\ h.engine.status = "running" /\ h.engine.confirmed = None
      /\ h.call.fills = s.call.fills
  BY <1>1, <1>5, <1>6, NoCallType DEF mode, Handling
<1>9. Used(h) <= h.engine.entries
  <2>1. Used(s) + Submitting(s) <= s.engine.entries
    BY <1>1 DEF Handling, Numbered
  <2>2. Used(h) = Used(s)
    BY <1>6, <1>7, <1>8 DEF Used
  <2>3. Used(s) \in Nat /\ Submitting(s) \in {0, 1} /\ s.engine.entries \in Nat
    BY <1>1, UsedType
  <2> QED
    BY <1>6, <2>1, <2>2, <2>3
<1>10. Under(h)
  BY <1>7, <1>8, <1>9, Done
<1> QED
  BY <1>1, <1>3, <1>8, <1>10 DEF s

LEMMA WatchSteps ==
  ASSUME SessionInv(Session), WatchOrders
  PROVE  SessionInv(Session')
<1> DEFINE h == Handler
           then == "process"
           S == Poll(h, then)
<1>1. Under(h) /\ h.call.todo = <<>>
  BY IdleSession DEF WatchOrders
<1>2. Leads(S, feed)
  BY DEF WatchOrders, Continue
<1>3. then \in HandlerLocals \ {"decide"}
  BY DEF HandlerLocals
<1> HIDE DEF h, then
<1>4. NoAsks(h.call.todo)
  BY <1>1 DEF NoAsks
<1>5. \A t \in S : Outcome(t)
  BY <1>1, <1>3, <1>4, PollGoes, UnderResult DEF Outcome
<1> HIDE DEF S
<1> QED
  BY <1>2, <1>5, LeadsOn

LEMMA FailSteps ==
  ASSUME SessionInv(Session), FetchFails
  PROVE  SessionInv(Session')
<1> DEFINE h == Handler
           s == Session
           failures == feed.failures + 1
           f == [feed EXCEPT !.failures = failures]
           S == {IF Exhausted(failures) THEN Fail(h) ELSE s}
<1>1. Under(h) /\ SessionInv(s) /\ s.call = NoCall
  BY IdleSession DEF FetchFails
<1>2. Leads(S, f)
  BY DEF FetchFails
<1> HIDE DEF h, s, failures, f
<1>3. Result(Fail(h))
  BY <1>1, UnderFails
<1>4. \A t \in S : Outcome(t)
  BY <1>1, <1>3, NoCallType DEF Outcome
<1> HIDE DEF S
<1> QED
  BY <1>2, <1>4, LeadsOn

LEMMA RowSteps ==
  ASSUME SessionInv(Session), NextRow
  PROVE  SessionInv(Session')
<1> DEFINE h == Handler
           s == Session
           ts == Head(feed.rows)
           rest == [feed EXCEPT !.rows = Tail(@)]
           delivered == [rest EXCEPT !.last = ts]
<1>1. Under(h) /\ h.call.todo = <<>> /\ SessionInv(s) /\ s.call = NoCall
  BY IdleSession DEF NextRow
<1>2. \/ Leads({s}, rest)
      \/ Leads({Fail(h)}, rest)
      \/ Leads(Poll(First(h, <<Local("decide")>>), "process"), delivered)
  BY DEF NextRow
<1> HIDE DEF h, s, rest, delivered
<1>3. CASE Leads({s}, rest)
  <2> DEFINE S == {s}
  <2>1. Leads(S, rest)
    BY <1>3
  <2>2. \A t \in S : Outcome(t)
    BY <1>1, NoCallType DEF Outcome
  <2> HIDE DEF S
  <2> QED
    BY <2>1, <2>2, LeadsOn
<1>4. CASE Leads({Fail(h)}, rest)
  <2> DEFINE S == {Fail(h)}
  <2>1. Leads(S, rest)
    BY <1>4
  <2>2. \A t \in S : Outcome(t)
    BY <1>1, UnderFails DEF Outcome
  <2> HIDE DEF S
  <2> QED
    BY <2>1, <2>2, LeadsOn
<1>5. CASE Leads(Poll(First(h, <<Local("decide")>>), "process"), delivered)
  <2> DEFINE op == "decide"
             then == "process"
             u == First(h, <<Local(op)>>)
             S == Poll(u, then)
  <2>1. Leads(S, delivered)
    BY <1>5
  <2>2. op \in HandlerLocals /\ then \in HandlerLocals \ {"decide"}
    BY DEF HandlerLocals
  <2> HIDE DEF op, then
  <2>3. u = First(h, <<Local(op)>>)
    OBVIOUS
  <2> HIDE DEF u
  <2>4. NoAsks(h.call.todo)
    BY <1>1 DEF NoAsks
  <2>5. Under(u) /\ NoAsks(u.call.todo)
    BY <1>1, <2>2, <2>3, <2>4, LocalFirst
  <2>6. \A t \in S : Outcome(t)
    BY <2>2, <2>5, PollGoes, UnderResult DEF Outcome
  <2> HIDE DEF S
  <2> QED
    BY <2>1, <2>6, LeadsOn
<1> QED
  BY <1>2, <1>3, <1>4, <1>5

LEMMA StopSteps ==
  ASSUME SessionInv(Session), StopSession
  PROVE  SessionInv(Session')
<1> DEFINE s == Session
           t == Finalize(s)
           S == {t}
<1>1. Base(s) /\ Handling(s)
  BY IdleSession DEF StopSession
<1>2. Leads(S, feed)
  BY DEF StopSession, Continue
<1>3. t = Finalize(s)
  OBVIOUS
<1> HIDE DEF s, t
<1>4. /\ s.engine.status = "running" /\ s.engine.confirmed = None /\ Accounted(s)
      /\ s.engine.confirmed # TRUE
  BY <1>1, SandboxAssumption DEF Handling
<1>5. ASSUME ~NeedsContainment(s)
      PROVE  s.venue.position = 0 /\ \A id \in Ids : Live(s.venue, id) => id.role # "entry"
  <2>1. s.broker.position = 0
    BY <1>5 DEF NeedsContainment, Position
  <2>2. \A id \in Tracked(s.broker) : id.role # "entry"
    BY <1>5 DEF NeedsContainment, EntryPending, Pending
  <2> QED
    BY <1>1, <1>4, <2>1, <2>2, NoEntryNoPosition
<1>6. Base(t) /\ (Containing(t) \/ Ended(t))
  BY <1>1, <1>3, <1>4, <1>5, FinalizeFacts
<1>7. ~t.call.failure
  BY <1>6, NoCallType DEF Containing, Ended
<1>8. \A u \in S : Outcome(u)
  BY <1>6, <1>7 DEF Outcome, SessionInv
<1> HIDE DEF S
<1> QED
  BY <1>2, <1>8, LeadsOn

\* The steps of a session that does nothing.
LEMMA SameSession ==
  ASSUME SessionInv(Session), UNCHANGED <<venue, broker, engine, call>>
  PROVE  SessionInv(Session')
<1>1. Session' = Session
  BY DEF Session
<1> QED
  BY <1>1

\* The session starts without orders.
LEMMA InitSession ==
  ASSUME Init
  PROVE  SessionInv(Session)
<1> DEFINE s == Session
<1>1. /\ s.venue = [orders |-> [id \in Ids |-> NoOrder], position |-> 0, faults |-> 0]
      /\ s.broker = NewBroker /\ s.call = NoCall
      /\ s.engine = [status |-> "running", pending |-> FALSE, setup |-> FALSE, account |-> 0,
                     entries |-> 0, trades |-> 0, halted |-> FALSE, attempted |-> FALSE,
                     confirmed |-> None]
      /\ s = [venue |-> s.venue, broker |-> s.broker, engine |-> s.engine, call |-> s.call]
  BY DEF Init, Session
<1> HIDE DEF s
<1>2. s.venue \in VenueType
  BY <1>1, NoOrderType DEF VenueType
<1>3. s.broker \in BrokerType
  BY <1>1, SandboxAssumption DEF NewBroker, BrokerType
<1>4. s.engine \in EngineType
  BY <1>1, SandboxAssumption DEF EngineType
<1>5. s \in SessionType
  BY <1>1, <1>2, <1>3, <1>4, NoCallType DEF SessionType
<1>6. Tracked(s.broker) = {} /\ Distinct(s.broker.tracked) /\ s.broker.tracked = <<>>
  BY <1>1 DEF NewBroker, Tracked, Range, Distinct
<1>7. \A id \in Ids : /\ s.venue.orders[id] = NoOrder /\ s.broker.cum[id] = 0
  BY <1>1 DEF NewBroker
<1>8. \A id \in Ids : ~Live(s.venue, id) /\ s.venue.orders[id].filled = 0
                      /\ s.venue.orders[id].qty = 0
  BY <1>7 DEF Live, NoOrder
<1>9. /\ SumFunctionOnSet(Room(s.venue), Ids) = 0
      /\ SumFunctionOnSet(NotSeen(s), Ids) = 0
      /\ SumFunctionOnSet(Working(s), Ids) = 0
  <2>1. /\ \A id \in Ids : Room(s.venue)[id] = 0
        /\ \A id \in Ids : NotSeen(s)[id] = 0
        /\ \A id \in Ids : Working(s)[id] = 0
    BY <1>6, <1>8 DEF Room, NotSeen, Working
  <2> QED
    BY <2>1, IdsFinite, SumZero
<1>10. s.venue.position = 0 /\ s.broker.position = 0 /\ s.broker.queue = <<>>
  BY <1>1 DEF NewBroker
<1>11. Exposed(s.venue)
  BY <1>9, <1>10, SandboxAssumption DEF Exposed
<1>12. Base(s)
  BY <1>5, <1>6, <1>7, <1>8, <1>11, IdKinds DEF Base
<1>13. Accounted(s)
  BY <1>9, <1>10 DEF Accounted
<1>14. s.call.todo = <<>> /\ s.call.fills = <<>> /\ ~s.call.failure /\ ~s.call.raising
       /\ s.call.mode = "idle"
  BY <1>1, NoCallType
<1>15. Submitting(s) = 0 /\ Opened(s.call.fills) = 0 /\ Opened(s.broker.queue) = 0
  BY <1>10, <1>14, NothingOpened DEF Submitting
<1>16. Numbered(s)
  <2>1. s.engine.trades = 0 /\ s.engine.entries = 0
    BY <1>1
  <2> QED
    BY <1>9, <1>15, <2>1 DEF Numbered, Used
<1>17. Handling(s)
  BY <1>1, <1>13, <1>14, <1>16 DEF Handling, Queued
<1> QED
  BY <1>12, <1>17 DEF SessionInv, s

-----------------------------------------------------------------------------
(***************************************************************************)
(* The venue goes on.                                                      *)
(***************************************************************************)
\* w is v after a live order moved and executed k, or nothing.
Moved(v, w, id, k) ==
  /\ w \in VenueType /\ id \in Ids /\ k \in Nat /\ Live(v, id)
  /\ \A j \in Ids \ {id} : w.orders[j] = v.orders[j]
  /\ w.orders[id].qty = v.orders[id].qty
  /\ w.orders[id].filled = v.orders[id].filled + k /\ w.orders[id].filled <= w.orders[id].qty
  /\ IF id.role = "entry" THEN w.position = v.position + k
     ELSE k <= v.position /\ w.position = v.position - k
  /\ k > 0 /\ Live(w, id) => w.orders[id].filled # w.orders[id].qty

LEMMA MoveFacts ==
  ASSUME NEW v \in VenueType, \A id \in Ids : v.orders[id].filled <= v.orders[id].qty,
         NEW w \in Moves(v)
  PROVE  \E id, k : Moved(v, w, id, k)
<1>1. /\ v.orders \in [Ids -> OrderType] /\ v.position \in Nat /\ v.faults \in Nat
      /\ \A id \in Ids : /\ v.orders[id] \in OrderType
                         /\ v.orders[id].filled \in Nat /\ v.orders[id].qty \in Nat
  BY DEF VenueType, OrderType
<1>2. \/ \E id \in Ids : v.orders[id].st = "sent" /\ w = [v EXCEPT !.orders[id].st = "open"]
      \/ \E id \in Ids : /\ v.orders[id].st = "open"
                         /\ \E k \in 1 .. Executable(v, id) : w = Executed(v, id, k)
      \/ \E id \in Ids : /\ v.orders[id].st = "open"
                         /\ w = [v EXCEPT !.orders[id].st = "expired", !.faults = @ + 1]
  <2> DEFINE In(st) == {id \in Ids : v.orders[id].st = st}
             Sent == {[v EXCEPT !.orders[id].st = "open"] : id \in In("sent")}
             Execs(id) == {Executed(v, id, k) : k \in 1 .. Executable(v, id)}
             Exec == UNION {Execs(id) : id \in In("open")}
             Ends == {[v EXCEPT !.orders[id].st = "expired", !.faults = @ + 1] : id \in In("open")}
  <2>0. Moves(v) = Sent \cup Exec \cup IF v.faults = MaxFaults THEN {} ELSE Ends
    BY DEF Moves
  <2>1. w \in Sent \/ w \in Exec \/ w \in Ends
    <3> HIDE DEF Sent, Exec, Ends
    <3> QED
      BY <2>0
  <2>2. CASE w \in Sent
    BY <2>2
  <2>3. CASE w \in Exec
    <3>1. PICK id \in In("open") : w \in Execs(id)
      BY <2>3
    <3> QED
      BY <3>1
  <2>4. CASE w \in Ends
    BY <2>4
  <2> QED
    BY <2>1, <2>2, <2>3, <2>4
<1>3. ASSUME NEW id \in Ids, v.orders[id].st = "sent", w = [v EXCEPT !.orders[id].st = "open"]
      PROVE  Moved(v, w, id, 0)
  <2> DEFINE o == [v.orders[id] EXCEPT !.st = "open"]
             orders == [v.orders EXCEPT ![id] = o]
  <2>1. o \in OrderType /\ o.qty = v.orders[id].qty /\ o.filled = v.orders[id].filled
    BY <1>1, <1>3 DEF OrderType, Statuses
  <2>2. w = [v EXCEPT !.orders = orders]
    BY <1>1, <1>3 DEF VenueType
  <2> HIDE DEF o
  <2>3. /\ orders \in [Ids -> OrderType] /\ orders[id] = o
        /\ \A j \in Ids \ {id} : orders[j] = v.orders[j]
    BY <1>1, <1>3, <2>1
  <2> HIDE DEF orders
  <2>4. w \in VenueType /\ w.orders = orders /\ w.position = v.position
    BY <1>1, <2>2, <2>3 DEF VenueType
  <2>5. Live(v, id)
    BY <1>3 DEF Live
  <2>6. /\ w.orders[id].filled = v.orders[id].filled + 0
        /\ w.orders[id].filled <= w.orders[id].qty
    BY <1>1, <1>3, <2>1, <2>3, <2>4
  <2>7. /\ w.orders[id].qty = v.orders[id].qty
        /\ \A j \in Ids \ {id} : w.orders[j] = v.orders[j]
    BY <2>1, <2>3, <2>4
  <2>8. w.position = v.position + 0 /\ w.position = v.position - 0 /\ 0 <= v.position
    BY <1>1, <2>4
  <2> QED
    BY <1>3, <2>4, <2>5, <2>6, <2>7, <2>8 DEF Moved
<1>4. ASSUME NEW id \in Ids, v.orders[id].st = "open", NEW k \in 1 .. Executable(v, id),
             w = Executed(v, id, k)
      PROVE  Moved(v, w, id, k)
  <2>1. v.orders[id].filled <= v.orders[id].qty
    BY <1>4
  <2>2. Executes(v, w, id, k)
    BY <1>4, <2>1, ExecutedFacts
  <2>3. Live(v, id)
    BY <1>4 DEF Live
  <2>4. Live(w, id) => w.orders[id].filled # w.orders[id].qty
    BY <2>2 DEF Executes, Live
  <2> QED
    BY <1>4, <2>2, <2>3, <2>4 DEF Moved, Executes
<1>5. ASSUME NEW id \in Ids, v.orders[id].st = "open",
             w = [v EXCEPT !.orders[id].st = "expired", !.faults = @ + 1]
      PROVE  Moved(v, w, id, 0)
  <2> DEFINE o == [v.orders[id] EXCEPT !.st = "expired"]
             orders == [v.orders EXCEPT ![id] = o]
             faults == v.faults + 1
  <2>1. o \in OrderType /\ o.qty = v.orders[id].qty /\ o.filled = v.orders[id].filled
    BY <1>1, <1>5 DEF OrderType, Statuses
  <2>2. w = [v EXCEPT !.orders = orders, !.faults = faults]
    BY <1>1, <1>5 DEF VenueType
  <2> HIDE DEF o
  <2>3. /\ orders \in [Ids -> OrderType] /\ orders[id] = o /\ faults \in Nat
        /\ \A j \in Ids \ {id} : orders[j] = v.orders[j]
    BY <1>1, <1>5, <2>1
  <2> HIDE DEF orders, faults
  <2>4. w \in VenueType /\ w.orders = orders /\ w.position = v.position
    BY <1>1, <2>2, <2>3 DEF VenueType
  <2>5. Live(v, id)
    BY <1>5 DEF Live
  <2>6. /\ w.orders[id].filled = v.orders[id].filled + 0
        /\ w.orders[id].filled <= w.orders[id].qty
    BY <1>1, <1>5, <2>1, <2>3, <2>4
  <2>7. /\ w.orders[id].qty = v.orders[id].qty
        /\ \A j \in Ids \ {id} : w.orders[j] = v.orders[j]
    BY <2>1, <2>3, <2>4
  <2>8. w.position = v.position + 0 /\ w.position = v.position - 0 /\ 0 <= v.position
    BY <1>1, <2>4
  <2> QED
    BY <1>5, <2>4, <2>5, <2>6, <2>7, <2>8 DEF Moved
<1> QED
  BY <1>2, <1>3, <1>4, <1>5

\* What only the broker, the engine and the handler tell.
LEMMA MoveTouched ==
  ASSUME NEW s, Base(s), NEW t \in SessionType, t.broker = s.broker,
         NEW id, NEW k, Moved(s.venue, t.venue, id, k)
  PROVE  Touched(s, t, id) /\ NoMoreExposed(s, t, id) /\ NoMoreHidden(s, t, id)
<1> DEFINE f == s.venue.orders[id].filled
           q == s.venue.orders[id].qty
           c == s.broker.cum[id]
           p == s.venue.position
           b == s.broker.position
           g == t.venue.orders[id].filled
           n == t.venue.position
<1>1. /\ s \in SessionType /\ id \in Ids /\ Live(s.venue, id) /\ id \in Tracked(s.broker)
      /\ k \in Nat
  BY DEF Base, Moved
<1>2. /\ f \in Nat /\ q \in Nat /\ c \in Nat /\ p \in Nat /\ b \in Nat
  BY <1>1, SessionParts
<1>3. /\ g = f + k /\ g <= q /\ t.venue.orders[id].qty = q
      /\ IF id.role = "entry" THEN n = p + k ELSE k <= p /\ n = p - k
  BY DEF Moved
<1>4. Touched(s, t, id)
  BY <1>1 DEF Touched, Moved, Base
<1>5. NoMoreExposed(s, t, id)
  <2>1. Room(s.venue)[id] = IF id.role = "entry" THEN q - f ELSE 0
    BY <1>1 DEF Room
  <2>2. Room(t.venue)[id] = IF id.role = "entry" /\ Live(t.venue, id) THEN q - g ELSE 0
    BY <1>1, <1>3 DEF Room
  <2> DEFINE before == Room(s.venue)[id]
             after == Room(t.venue)[id]
  <2> HIDE DEF f, q, p, g, n
  <2>3. n + after <= p + before
    BY <1>1, <1>2, <1>3, <2>1, <2>2 DEF before, after
  <2> QED
    BY <2>3 DEF NoMoreExposed, n, p, before, after
<1>6. NoMoreHidden(s, t, id)
  <2>1. NotSeen(s)[id] = IF id.role = "entry" THEN f - c ELSE IF f - c > 0 THEN -(f - c) ELSE 0
    BY <1>1 DEF NotSeen
  <2>2. NotSeen(t)[id] = IF id.role = "entry" THEN g - c ELSE IF g - c > 0 THEN -(g - c) ELSE 0
    BY <1>1 DEF NotSeen
  <2> DEFINE before == NotSeen(s)[id]
             after == NotSeen(t)[id]
  <2> HIDE DEF f, c, p, b, g, n
  <2>3. n - b - after <= p - b - before
    BY <1>1, <1>2, <1>3, <2>1, <2>2 DEF before, after
  <2> QED
    BY <2>3 DEF NoMoreHidden, n, p, b, before, after
<1> QED
  BY <1>4, <1>5, <1>6

LEMMA MoveHandling ==
  ASSUME NEW s, Base(s), Handling(s), NEW t \in SessionType, t.broker = s.broker,
         t.engine = s.engine, t.call = s.call, Accounted(t)
  PROVE  Handling(t)
<1>1. Queued(t) /\ Numbered(t)
  BY DEF Handling, Queued, Numbered, Used, Submitting, Working
<1> QED
  BY <1>1 DEF Handling

LEMMA MoveContaining ==
  ASSUME NEW s, Base(s), Containing(s), NEW t \in SessionType, t.broker = s.broker,
         t.engine = s.engine, t.call = s.call, NEW id, NEW k, Moved(s.venue, t.venue, id, k)
  PROVE  Containing(t)
<1>1. Queued(t) /\ (Cancelling(s) => Cancelling(t))
  BY DEF Containing, Queued, Cancelling
<1>2. ASSUME Quiet(s), Flattening(s) PROVE Quiet(t) /\ Flattening(t)
  <2> DEFINE f == s.venue.orders[FlattenId].filled
             q == s.venue.orders[FlattenId].qty
             c == s.broker.cum[FlattenId]
             p == s.venue.position
             b == s.broker.position
             g == t.venue.orders[FlattenId].filled
             n == t.venue.position
  <2>1. id \in Tracked(s.broker) /\ id = FlattenId /\ Live(s.venue, FlattenId)
        /\ id.role # "entry"
    BY <1>2 DEF Base, Moved, Quiet, FlattenId
  <2>2. f \in Nat /\ q \in Nat /\ c \in Nat /\ p \in Nat /\ b \in Nat /\ k \in Nat
    BY SessionParts, IdKinds DEF Base, Moved
  <2>3. /\ g = f + k /\ g <= q /\ t.venue.orders[FlattenId].qty = q /\ k <= p /\ n = p - k
        /\ k > 0 /\ Live(t.venue, FlattenId) => g # q
    BY <2>1 DEF Moved
  <2>4. p > 0 /\ p = q - f
    BY <1>2, <2>1 DEF Quiet
  <2>5. s.call.flat \notin {"none", "filled"}
    BY <1>2, <2>4 DEF Quiet
  <2>6. /\ UnseenFlatten(s) = IF f - c > 0 THEN f - c ELSE 0
        /\ UnseenFlatten(t) = IF g - c > 0 THEN g - c ELSE 0
    BY <2>1 DEF UnseenFlatten
  <2> DEFINE before == UnseenFlatten(s)
             after == UnseenFlatten(t)
  <2>7. s.call.flat # "failed" => b >= p + before
    BY <1>2 DEF Quiet
  <2>8. ~s.engine.pending /\ Tracked(s.broker) \subseteq {FlattenId}
    BY <1>2 DEF Quiet
  <2> HIDE DEF f, q, c, p, b, g, n
  <2>9. Live(t.venue, FlattenId) => n > 0 /\ n = q - g
    BY <2>2, <2>3, <2>4
  <2>10. s.call.flat # "failed" => b >= n + after
    BY <2>2, <2>3, <2>6, <2>7 DEF before, after
  <2>11. Quiet(t)
    BY <2>3, <2>5, <2>8, <2>9, <2>10 DEF Quiet, n, q, g, b, after
  <2>12. Flattening(t)
    BY <1>2, <2>1 DEF Flattening
  <2> QED
    BY <2>11, <2>12
<1> QED
  BY <1>1, <1>2 DEF Containing

LEMMA MoveSteps ==
  ASSUME SessionInv(Session), VenueMoves
  PROVE  SessionInv(Session')
<1> DEFINE s == Session
           t == Session'
<1>1. /\ s.engine.status = "running" /\ t.venue \in Moves(s.venue)
      /\ t.broker = s.broker /\ t.engine = s.engine /\ t.call = s.call
      /\ t = [venue |-> t.venue, broker |-> s.broker, engine |-> s.engine, call |-> s.call]
  BY DEF VenueMoves, Running, Session
<1> HIDE DEF s, t
<1>2. Base(s) /\ (Handling(s) \/ Containing(s))
  BY <1>1 DEF SessionInv, Ended, s
<1>3. s \in SessionType /\ \A i \in Ids : s.venue.orders[i].filled <= s.venue.orders[i].qty
  BY <1>2 DEF Base
<1>4. s.venue \in VenueType
  BY <1>3, SessionParts
<1>5. PICK id, k : Moved(s.venue, t.venue, id, k)
  BY <1>1, <1>3, <1>4, MoveFacts
<1>6. t \in SessionType
  BY <1>1, <1>3, <1>5 DEF Moved, SessionType
<1>7. Touched(s, t, id) /\ NoMoreExposed(s, t, id) /\ NoMoreHidden(s, t, id)
  BY <1>1, <1>2, <1>5, <1>6, MoveTouched
<1>8. Base(t)
  BY <1>2, <1>7, TouchedBase
<1>9. CASE Handling(s)
  <2>1. Accounted(t)
    BY <1>2, <1>7, <1>9, TouchedAccounted DEF Handling
  <2>2. Handling(t)
    BY <1>1, <1>2, <1>6, <1>9, <2>1, MoveHandling
  <2> QED
    BY <1>8, <2>2 DEF SessionInv, t
<1>10. CASE Containing(s)
  <2>1. Containing(t)
    BY <1>1, <1>2, <1>5, <1>6, <1>10, MoveContaining
  <2> QED
    BY <1>8, <2>1 DEF SessionInv, t
<1> QED
  BY <1>2, <1>9, <1>10

-----------------------------------------------------------------------------
(***************************************************************************)
(* The theorems.                                                           *)
(***************************************************************************)
\* The inductive invariant holds throughout a session.
THEOREM SessionInvariant == Spec => []SessionInv(Session)
<1>1. Init => SessionInv(Session)
  BY InitSession
<1>2. SessionInv(Session) /\ [Next]_vars => SessionInv(Session)'
  <2> SUFFICES ASSUME SessionInv(Session), [Next]_vars PROVE SessionInv(Session')
    OBVIOUS
  <2>1. CASE HandlerStep
    BY <2>1, HandlerSteps
  <2>2. CASE WatchOrders
    BY <2>2, WatchSteps
  <2>3. CASE Fetch
    BY <2>3, SameSession DEF Fetch
  <2>4. CASE FetchFails
    BY <2>4, FailSteps
  <2>5. CASE NextRow
    BY <2>5, RowSteps
  <2>6. CASE StopSession
    BY <2>6, StopSteps
  <2>7. CASE VenueMoves
    BY <2>7, MoveSteps
  <2>8. CASE Over \/ UNCHANGED vars
    BY <2>8, SameSession DEF Over, vars
  <2> QED
    BY <2>1, <2>2, <2>3, <2>4, <2>5, <2>6, <2>7, <2>8 DEF Next
<1> QED
  BY <1>1, <1>2, PTL DEF Spec

\* Every order the venue may still execute is tracked, requests without a reply included.
THEOREM LiveOrdersAreTracked == Spec => []LiveIsTracked
<1>1. SessionInv(Session) => LiveIsTracked
  BY DEF SessionInv, Base, LiveIsTracked, Session
<1> QED
  BY <1>1, SessionInvariant, PTL

\* A confirmed containment left nothing, and a session that ended without an error left no
\* position and no entry.
THEOREM SessionsEndFlat == Spec => []EndsFlat
<1>1. SessionInv(Session) => EndsFlat
  <2> SUFFICES ASSUME SessionInv(Session) PROVE EndsFlat
    OBVIOUS
  <2>1. CASE Handling(Session) \/ Containing(Session)
    <3>1. engine.status = "running" /\ engine.confirmed # TRUE
      BY <2>1, SandboxAssumption DEF Handling, Containing, Session
    <3> QED
      BY <3>1 DEF EndsFlat
  <2>2. CASE Ended(Session)
    BY <2>2 DEF Ended, EndsFlat, Session
  <2> QED
    BY <2>1, <2>2 DEF SessionInv
<1> QED
  BY <1>1, SessionInvariant, PTL

\* The position with all that live entries may add never exceeds one setup's quantity.
THEOREM ExposureIsOneSetup == Spec => []OneExposure
<1>1. SessionInv(Session) => OneExposure
  <2> SUFFICES ASSUME SessionInv(Session) PROVE OneExposure
    OBVIOUS
  <2> DEFINE s == Session
             room == Room(venue)
             left == [id \in Ids |-> Left(id)]
             working == {id \in Ids : id.role = "entry" /\ Live(venue, id)}
  <2>1. /\ s \in SessionType /\ s.venue = venue
        /\ \A id \in Ids : s.venue.orders[id].filled <= s.venue.orders[id].qty
        /\ Exposed(venue)
    BY DEF SessionInv, Base, Session
  <2> HIDE DEF s
  <2>2. \A id \in Ids : room[id] \in Nat
    BY <2>1, Summands
  <2>3. working \in SUBSET Ids /\ IsFiniteSet(working)
    BY IdsFinite, FS_Subset
  <2>4. \A id \in working : left[id] = room[id] /\ left[id] \in Int
    BY <2>2 DEF Left, Room
  <2>5. \A id \in Ids \ working : room[id] = 0
    BY DEF Room
  <2> HIDE DEF room, left, working
  <2>6. SumFunctionOnSet(room, Ids) = SumFunctionOnSet(room, working)
    BY <2>2, <2>3, <2>5, IdsFinite, SumZeroOutside
  <2>7. SumFunctionOnSet(left, working) = SumFunctionOnSet(room, working)
    BY <2>3, <2>4, SumEqual
  <2>8. venue.position + SumFunctionOnSet(left, working) <= Qty
    BY <2>1, <2>6, <2>7 DEF Exposed, room
  <2> QED
    BY <2>8 DEF OneExposure, left, working
<1> QED
  BY <1>1, SessionInvariant, PTL

\* The feed's fields, and what a step makes of them.
IsFeed(f) == f = [last |-> f.last, now |-> f.now, rows |-> f.rows, failures |-> f.failures]

LEMMA LeadsFeed ==
  ASSUME NEW S, NEW f, Leads(S, f), IsFeed(f)
  PROVE  IsFeed(feed') /\ feed'.last = f.last
<1>1. PICK s \in S : Become(IF s.call.failure THEN Raise(s) ELSE s, f)
  BY DEF Leads
<1>2. feed' = f \/ feed' = Stopped(f)
  BY <1>1 DEF Become
<1> QED
  BY <1>2 DEF IsFeed, Stopped

LEMMA FeedStep ==
  ASSUME IsFeed(feed), [Next]_vars
  PROVE  /\ IsFeed(feed')
         /\ feed'.last # feed.last => feed'.last = feed.last + 1 /\ feed'.last <= feed.now
<1>1. CASE HandlerStep \/ WatchOrders \/ StopSession
  <2>1. \E S : Leads(S, feed)
    BY <1>1 DEF HandlerStep, QueryOrder, Process, DecideBar, Submit, FilledEntry,
                PlaceProtection, NewStop, CancelReplaced, CancelOrder, CancelEntry, Close,
                Contain, FlattenPosition, SendFlatten, Drain, ConfirmContainment,
                WatchOrders, StopSession, Continue
  <2> QED
    BY <2>1, LeadsFeed
<1>2. CASE Fetch
  <2>1. \E now, rows : feed' = [feed EXCEPT !.now = now, !.rows = rows, !.failures = 0]
    BY <1>2 DEF Fetch
  <2> QED
    BY <2>1 DEF IsFeed
<1>3. CASE FetchFails
  <2> DEFINE failures == feed.failures + 1
             f == [feed EXCEPT !.failures = failures]
  <2>1. \E S : Leads(S, f)
    BY <1>3 DEF FetchFails
  <2> HIDE DEF failures
  <2>2. IsFeed(f) /\ f.last = feed.last
    BY DEF IsFeed
  <2> HIDE DEF f
  <2> QED
    BY <2>1, <2>2, LeadsFeed
<1>4. CASE NextRow
  <2> DEFINE ts == Head(feed.rows)
             rows == Tail(feed.rows)
             rest == [feed EXCEPT !.rows = rows]
             next == [rest EXCEPT !.last = ts]
  <2>1. \/ \E S : Leads(S, rest)
        \/ (\E S : Leads(S, next)) /\ Closed(ts) /\ ts = feed.last + 1
    BY <1>4 DEF NextRow
  <2> HIDE DEF ts, rows
  <2>2. IsFeed(rest) /\ rest.last = feed.last
    BY DEF IsFeed
  <2> HIDE DEF rest
  <2>3. IsFeed(next) /\ next.last = ts
    BY <2>2 DEF IsFeed
  <2> HIDE DEF next
  <2>4. CASE \E S : Leads(S, rest)
    BY <2>2, <2>4, LeadsFeed
  <2>5. CASE (\E S : Leads(S, next)) /\ Closed(ts) /\ ts = feed.last + 1
    <3>1. IsFeed(feed') /\ feed'.last = ts
      BY <2>3, <2>5, LeadsFeed
    <3> QED
      BY <2>5, <3>1 DEF Closed
  <2> QED
    BY <2>1, <2>4, <2>5
<1>5. CASE VenueMoves \/ Over \/ UNCHANGED vars
  BY <1>5 DEF VenueMoves, Over, vars
<1> QED
  BY <1>1, <1>2, <1>3, <1>4, <1>5 DEF Next

\* Every closed candle is delivered once and in order, and never the forming one.
THEOREM CandlesInOrder == Spec => EveryCandleOnce
<1>1. Init => IsFeed(feed)
  BY DEF Init, IsFeed
<1>2. IsFeed(feed) /\ [Next]_vars => IsFeed(feed)'
  BY FeedStep
<1>3. IsFeed(feed) /\ [Next]_vars =>
        [feed'.last # feed.last => feed'.last = feed.last + 1 /\ feed'.last <= feed.now]_vars
  BY FeedStep
<1> QED
  BY <1>1, <1>2, <1>3, PTL DEF Spec, EveryCandleOnce
=============================================================================
