----------------------------- MODULE OhlcvCache -----------------------------
(***************************************************************************)
(* The candle cache on disk: processes that ask for overlapping ranges of  *)
(* one series, the file and its lock, the file of an older version that    *)
(* the first of them adopts, and the venue they fetch from while time goes *)
(* on.                                                                     *)
(*                                                                         *)
(* A slot is one bar interval.  A row is a slot and whether its candle was *)
(* final when it was fetched; the venue may return any part of a range.    *)
(***************************************************************************)
EXTENDS Integers, FiniteSets, FiniteSetsExt

CONSTANTS
  Procs,     \* processes sharing the cache
  Requests,  \* ranges <<start, end>> they ask for, the end excluded
  Files,     \* initial contents <<file, older file>>, sets of slots
  Start,     \* the forming slot at first
  MaxNow,    \* bound: the last forming slot
  MaxCalls,  \* bound: calls
  None

ASSUME CacheAssumption ==
  /\ {Start, MaxNow, MaxCalls} \subseteq Nat
  /\ Requests \subseteq Nat \X Nat /\ \A r \in Requests : r[1] < r[2]
  /\ \A f \in Files : \A k \in {1, 2} : f[k] \subseteq 0 .. Start - 1
  /\ None \notin Procs

VARIABLES
  now,     \* the slot that is forming
  file,    \* rows on disk; no file is written without any, so none stands for no file
  legacy,  \* rows of the older file
  lock,    \* the process that holds the file's lock
  calls,   \* calls so far
  call     \* for each process, the call it is in

vars == <<now, file, legacy, lock, calls, call>>

Row(slot, final) == [slot |-> slot, final |-> final]
Slots(rows) == {r.slot : r \in rows}

\* What a fetch of the slots a .. b - 1 may return: rows up to the forming one.
Responses(a, b) == SUBSET {Row(s, s < now) : s \in {x \in 0 .. now : a <= x /\ x < b}}

-----------------------------------------------------------------------------
\* Ranges.

\* The holes between two rows, as ranges.
InternalGaps(slots) ==
  LET Hole(x) == x[2] > x[1] + 1 /\ \A s \in slots : s <= x[1] \/ s >= x[2]
  IN {<<x[1] + 1, x[2]>> : x \in {y \in slots \X slots : Hole(y)}}

Touched(gaps, start, end) == {x \in gaps : x[1] < end /\ x[2] > start}

\* The ranges to fetch for a request whose closed part ends at end.
Gaps(slots, start, end) ==
  LET all ==
        IF slots = {} THEN {<<start, end>>}
        ELSE Touched(InternalGaps(slots), start, end)
               \cup {<<start, Min(slots)>>, <<Max(slots) + 1, end>>}
  IN {x \in all : x[1] < x[2]}

\* The first row of a slot wins.
Merge(rows, chunk) == rows \cup {r \in chunk : r.slot \notin Slots(rows)}

Closed(rows, forming) == {r \in rows : r.slot < forming}

-----------------------------------------------------------------------------
\* One call.

Idle == [pc |-> "idle", start |-> 0, end |-> 0, forming |-> 0, rows |-> {}, gaps |-> {},
         dirty |-> FALSE, answer |-> {}]

At(p, pc) == call[p].pc = pc
Goto(p, c) == call' = [call EXCEPT ![p] = c]

\* A call that ends, by an error too, leaves the lock.
Ends(p, c) ==
  /\ Goto(p, [c EXCEPT !.pc = "idle"])
  /\ lock' = IF lock = p THEN None ELSE lock

\* Adoption looks for the two files before the lock is taken.
Get(p) ==
  /\ At(p, "idle")
  /\ calls < MaxCalls
  /\ calls' = calls + 1
  /\ \E r \in Requests :
       Goto(p, [Idle EXCEPT !.pc = IF file = {} /\ legacy # {} THEN "adopt" ELSE "lock",
                            !.start = r[1], !.end = r[2]])
  /\ UNCHANGED <<now, file, legacy, lock>>

AdoptByCopy(p) ==   \* mutant: the older file stays where it was
  /\ At(p, "adopt")
  /\ file' = legacy
  /\ Goto(p, [call[p] EXCEPT !.pc = "lock"])
  /\ UNCHANGED <<now, legacy, lock, calls>>

\* The older file is moved; the process that comes second finds none and fails.
Adopt(p) ==
  /\ At(p, "adopt")
  /\ IF legacy = {}
     THEN Ends(p, Idle) /\ UNCHANGED <<file, legacy>>
     ELSE /\ file' = legacy
          /\ legacy' = {}
          /\ Goto(p, [call[p] EXCEPT !.pc = "lock"])
          /\ UNCHANGED lock
  /\ UNCHANGED <<now, calls>>

\* Under the lock the file is read, trimmed to closed bars, and its gaps are listed.
Read(p) ==
  LET c == call[p]
      rows == Closed(file, now)
  IN /\ At(p, "lock")
     /\ lock = None
     /\ lock' = p
     /\ Goto(p, [c EXCEPT !.pc = "fetch", !.forming = now, !.rows = rows,
                          !.gaps = Gaps(Slots(rows), c.start, Min({c.end, now})),
                          !.dirty = rows # file])
     /\ UNCHANGED <<now, file, legacy, calls>>

LockTimeout(p) ==
  /\ At(p, "lock")
  /\ lock # None
  /\ Ends(p, Idle)
  /\ UNCHANGED <<now, file, legacy, calls>>

\* The gaps are fetched one after the other, in an order that does not matter, while time
\* goes on.
Fetch(p) ==
  LET c == call[p]
  IN /\ At(p, "fetch")
     /\ \E x \in c.gaps :
          \E chunk \in Responses(x[1], x[2]) :
            Goto(p, [c EXCEPT !.gaps = c.gaps \ {x}, !.rows = Merge(c.rows, chunk),
                              !.dirty = c.dirty \/ chunk # {}])
     /\ UNCHANGED <<now, file, legacy, lock, calls>>

WriteUnchecked(p) ==   \* mutant: a hole in the requested range is not looked for
  LET c == call[p]
      rows == Closed(c.rows, c.forming)
  IN /\ At(p, "fetch")
     /\ c.gaps = {}
     /\ Goto(p, [c EXCEPT !.pc = "tail", !.rows = rows])
     /\ file' = IF c.dirty /\ rows # {} THEN rows ELSE file
     /\ UNCHANGED <<now, legacy, lock, calls>>

\* A hole left in the requested range is an error; otherwise a new file replaces the old.
Write(p) ==
  LET c == call[p]
      rows == Closed(c.rows, c.forming)
      left == Touched(InternalGaps(Slots(rows)), c.start, Min({c.end, c.forming}))
  IN /\ At(p, "fetch")
     /\ c.gaps = {}
     /\ IF left # {}
        THEN Ends(p, Idle) /\ UNCHANGED file
        ELSE /\ Goto(p, [c EXCEPT !.pc = "tail", !.rows = rows])
             /\ file' = IF c.dirty /\ rows # {} THEN rows ELSE file
             /\ UNCHANGED lock
     /\ UNCHANGED <<now, legacy, calls>>

Requested(c, rows) == {r \in rows : c.start <= r.slot /\ r.slot < c.end}

TailStored(p) ==   \* mutant: what the tail returned is stored too
  LET c == call[p]
  IN /\ At(p, "tail")
     /\ \E tail \in IF c.end > c.forming THEN Responses(c.forming, c.end) ELSE {{}} :
          /\ Ends(p, [c EXCEPT !.answer = Requested(c, c.rows \cup tail)])
          /\ file' = IF tail = {} THEN file ELSE Merge(file, tail)
     /\ UNCHANGED <<now, legacy, calls>>

\* The forming bar and what closed since the call began are fetched and not stored.
Tail(p) ==
  LET c == call[p]
  IN /\ At(p, "tail")
     /\ \E tail \in IF c.end > c.forming THEN Responses(c.forming, c.end) ELSE {{}} :
          Ends(p, [c EXCEPT !.answer = Requested(c, c.rows \cup tail)])
     /\ UNCHANGED <<now, file, legacy, calls>>

\* A request raises, or the process ends: the lock goes, the file is what it was.
Fails(p) ==
  /\ ~At(p, "idle")
  /\ Ends(p, Idle)
  /\ UNCHANGED <<now, file, legacy, calls>>

Tick ==
  /\ now < MaxNow
  /\ now' = now + 1
  /\ UNCHANGED <<file, legacy, lock, calls, call>>

Init ==
  /\ now = Start
  /\ \E f \in Files :
       /\ file = {Row(s, TRUE) : s \in f[1]}
       /\ legacy = {Row(s, TRUE) : s \in f[2]}
  /\ lock = None
  /\ calls = 0
  /\ call = [p \in Procs |-> Idle]

Step(p) ==
  Get(p) \/ Adopt(p) \/ Read(p) \/ LockTimeout(p) \/ Fetch(p) \/ Write(p) \/ Tail(p) \/ Fails(p)

Next == Tick \/ \E p \in Procs : Step(p)

Spec == Init /\ [][Next]_vars

-----------------------------------------------------------------------------
\* The file holds closed bars only, with their final values, whatever time passed between
\* the moment a call looked at the clock and its last fetch (ohlcv_cache.py, _get_locked).
ClosedBarsOnly == \A r \in file : r.final /\ r.slot < now

\* No row that is on disk, in the file or in the older one, is ever lost or changed: not by
\* two calls at once, not by an adoption that comes late, not by a call that fails
\* (ohlcv_cache.py, get, _adopt_legacy_file and _write).
NothingLost == [][file \cup legacy \subseteq file' \cup legacy']_vars

\* The closed bars of an answer are consecutive, and every one of them is on disk.
AnswerIsWhole ==
  \A p \in Procs :
    LET closed == Closed(call[p].answer, call[p].forming)
    IN /\ InternalGaps(Slots(closed)) = {}
       /\ closed \subseteq file
-----------------------------------------------------------------------------
\* The invariant behind them.

\* Whoever fetches or answers holds the lock.
OneAtATime == \A p \in Procs : call[p].pc \in {"fetch", "tail"} => lock = p

\* A late adoption finds nothing to move, or nobody has come past it.
AdoptionFirst ==
  /\ \A p \in Procs : At(p, "adopt") => file = {} \/ legacy = {}
  /\ file = {} /\ legacy # {} => \A p \in Procs : call[p].pc \in {"idle", "adopt"}

\* The rows of a call under way contain the file, and those that count as closed are final.
Holds(c) ==
  /\ c.forming \in 0 .. now
  /\ file \subseteq Closed(c.rows, c.forming)
  /\ \A r \in c.rows : r.slot \in Nat /\ (r.slot < c.forming => r.final)

CallHolds == \A p \in Procs : At(p, "fetch") => Holds(call[p])

Stored(content) == \A r \in content : r.final /\ r.slot \in 0 .. now - 1

CacheInv ==
  /\ now \in Nat
  /\ DOMAIN call = Procs /\ \A p \in Procs : DOMAIN call[p] = DOMAIN Idle
  /\ Stored(file)
  /\ Stored(legacy)
  /\ OneAtATime
  /\ AdoptionFirst
  /\ CallHolds
=============================================================================
