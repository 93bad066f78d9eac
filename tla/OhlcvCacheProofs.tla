-------------------------- MODULE OhlcvCacheProofs --------------------------
(***************************************************************************)
(* The cache's file, for any number of processes and any requests.         *)
(***************************************************************************)
EXTENDS OhlcvCache, TLAPS

\* The file and the older one hold final, closed rows at first.
LEMMA InitCache == Init => CacheInv
<1> SUFFICES ASSUME Init PROVE CacheInv
  OBVIOUS
<1> PICK f \in Files : /\ file = {Row(s, TRUE) : s \in f[1]}
                       /\ legacy = {Row(s, TRUE) : s \in f[2]}
  BY DEF Init
<1>1. Start \in Nat /\ \A k \in {1, 2} : f[k] \subseteq 0 .. Start - 1
  BY CacheAssumption
<1>2. Stored(file) /\ Stored(legacy)
  BY <1>1 DEF Init, Stored, Row
<1>3. \A p \in Procs : call[p] = Idle /\ call[p].pc = "idle"
  BY DEF Init, Idle
<1>4. OneAtATime /\ AdoptionFirst /\ CallHolds
  BY <1>3 DEF OneAtATime, AdoptionFirst, CallHolds, At
<1> QED
  BY <1>1, <1>2, <1>3, <1>4 DEF Init, CacheInv

\* Time makes a stored row older.
LEMMA TickCache == CacheInv /\ Tick => CacheInv'
<1> SUFFICES ASSUME CacheInv, Tick PROVE CacheInv'
  OBVIOUS
<1> USE DEF Tick
<1>1. now' \in Nat /\ Stored(file)' /\ Stored(legacy)'
  BY DEF CacheInv, Stored
<1>2. CallHolds'
  BY DEF CacheInv, CallHolds, Holds, Closed, At
<1>3. OneAtATime' /\ AdoptionFirst'
  BY DEF CacheInv, OneAtATime, AdoptionFirst, At
<1> QED
  BY <1>1, <1>2, <1>3 DEF CacheInv

\* A process that leaves the files alone and is not fetching afterwards.
LEMMA QuietCache ==
  ASSUME CacheInv, NEW p \in Procs, NEW c, DOMAIN c = DOMAIN Idle,
         call' = [call EXCEPT ![p] = c],
         UNCHANGED <<now, file, legacy>>,
         \/ c.pc = "idle" /\ lock' = IF lock = p THEN None ELSE lock
         \/ c.pc = "lock" /\ lock' = lock /\ (file # {} \/ legacy = {})
         \/ c.pc = "adopt" /\ lock' = lock /\ file = {} /\ call[p].pc = "idle"
  PROVE  CacheInv'
<1>1. call'[p] = c /\ \A q \in Procs : q # p => call'[q] = call[q]
  BY DEF CacheInv
<1>2. OneAtATime'
  BY <1>1 DEF CacheInv, OneAtATime
<1>3. AdoptionFirst'
  BY <1>1 DEF CacheInv, AdoptionFirst, At
<1>4. CallHolds'
  BY <1>1 DEF CacheInv, CallHolds, Holds, Closed, At
<1>5. Stored(file)' /\ Stored(legacy)'
  BY DEF CacheInv, Stored
<1> QED
  BY <1>1, <1>2, <1>3, <1>4, <1>5 DEF CacheInv

\* The steps that touch no file.
LEMMA StillCache ==
  ASSUME CacheInv, NEW p \in Procs, Get(p) \/ LockTimeout(p) \/ Tail(p) \/ Fails(p)
  PROVE  CacheInv' /\ UNCHANGED <<file, legacy>>
<1> DOMAIN call[p] = DOMAIN Idle
  BY DEF CacheInv
<1>1. CASE Get(p)
  <2> PICK r \in Requests :
        call' = [call EXCEPT ![p] =
          [Idle EXCEPT !.pc = IF file = {} /\ legacy # {} THEN "adopt" ELSE "lock",
                       !.start = r[1], !.end = r[2]]]
    BY <1>1 DEF Get, Goto
  <2> DEFINE c == [Idle EXCEPT !.pc = IF file = {} /\ legacy # {} THEN "adopt" ELSE "lock",
                               !.start = r[1], !.end = r[2]]
  <2>1. /\ DOMAIN c = DOMAIN Idle
        /\ c.pc = IF file = {} /\ legacy # {} THEN "adopt" ELSE "lock"
    BY DEF Idle
  <2>2. call' = [call EXCEPT ![p] = c] /\ lock' = lock /\ UNCHANGED <<now, file, legacy>>
    BY <1>1 DEF Get
  <2>3. call[p].pc = "idle"
    BY <1>1 DEF Get, At
  <2> HIDE DEF c
  <2> QED
    BY <2>1, <2>2, <2>3, QuietCache
<1>2. ASSUME NEW c, DOMAIN c = DOMAIN Idle, Ends(p, c), UNCHANGED <<now, file, legacy>>
      PROVE  CacheInv'
  <2> DEFINE d == [c EXCEPT !.pc = "idle"]
  <2>1. DOMAIN d = DOMAIN Idle /\ d.pc = "idle"
    BY <1>2 DEF Idle
  <2>2. call' = [call EXCEPT ![p] = d] /\ lock' = IF lock = p THEN None ELSE lock
    BY <1>2 DEF Ends, Goto
  <2> HIDE DEF d
  <2> QED
    BY <1>2, <2>1, <2>2, QuietCache
<1>3. CASE LockTimeout(p) \/ Fails(p)
  BY <1>2, <1>3 DEF LockTimeout, Fails
<1>4. CASE Tail(p)
  <2> PICK answer : Ends(p, [call[p] EXCEPT !.answer = answer])
    BY <1>4 DEF Tail
  <2>1. DOMAIN [call[p] EXCEPT !.answer = answer] = DOMAIN Idle
    OBVIOUS
  <2> QED
    BY <1>2, <1>4, <2>1 DEF Tail
<1> QED
  BY <1>1, <1>3, <1>4 DEF Get, LockTimeout, Tail, Fails

\* An adoption moves the older file to where there was none, before anybody reads.
LEMMA AdoptCache ==
  ASSUME CacheInv, NEW p \in Procs, Adopt(p)
  PROVE  CacheInv' /\ file \cup legacy \subseteq file' \cup legacy'
<1> DOMAIN call[p] = DOMAIN Idle /\ call[p].pc = "adopt"
  BY DEF CacheInv, Adopt, At
<1>1. CASE legacy = {}
  <2> DEFINE d == [Idle EXCEPT !.pc = "idle"]
  <2>1. DOMAIN d = DOMAIN Idle /\ d.pc = "idle"
    BY DEF Idle
  <2>2. /\ call' = [call EXCEPT ![p] = d] /\ lock' = IF lock = p THEN None ELSE lock
        /\ UNCHANGED <<now, file, legacy>>
    BY <1>1 DEF Adopt, Ends, Goto
  <2> HIDE DEF d
  <2> QED
    BY <2>1, <2>2, QuietCache
<1>2. CASE legacy # {}
  <2> DEFINE c == [call[p] EXCEPT !.pc = "lock"]
  <2>1. DOMAIN c = DOMAIN Idle /\ c.pc = "lock"
    BY DEF Idle
  <2>2. /\ call' = [call EXCEPT ![p] = c]
        /\ lock' = lock /\ now' = now /\ file' = legacy /\ legacy' = {}
    BY <1>2 DEF Adopt, Goto
  <2>3. file = {} /\ \A q \in Procs : call[q].pc \in {"idle", "adopt"}
    BY <1>2 DEF CacheInv, AdoptionFirst, At
  <2> HIDE DEF c
  <2>4. call'[p] = c /\ \A q \in Procs : q # p => call'[q] = call[q]
    BY <2>2 DEF CacheInv
  <2>5. OneAtATime' /\ AdoptionFirst' /\ CallHolds'
    BY <2>1, <2>2, <2>3, <2>4 DEF OneAtATime, AdoptionFirst, CallHolds, At
  <2>6. Stored(file)' /\ Stored(legacy)'
    BY <2>2 DEF CacheInv, Stored
  <2>7. file \cup legacy \subseteq file' \cup legacy'
    BY <2>2, <2>3
  <2> QED
    BY <2>1, <2>2, <2>4, <2>5, <2>6, <2>7 DEF CacheInv
<1> QED
  BY <1>1, <1>2

\* The reader takes the lock, and the whole file with it.
LEMMA ReadCache ==
  ASSUME CacheInv, NEW p \in Procs, Read(p)
  PROVE  CacheInv' /\ UNCHANGED <<file, legacy>>
<1> DEFINE rows == Closed(file, now)
<1> PICK gaps, dirty :
      call' = [call EXCEPT ![p] = [call[p] EXCEPT !.pc = "fetch", !.forming = now, !.rows = rows,
                                                  !.gaps = gaps, !.dirty = dirty]]
  BY DEF Read, Goto
<1> DEFINE c == [call[p] EXCEPT !.pc = "fetch", !.forming = now, !.rows = rows,
                                !.gaps = gaps, !.dirty = dirty]
<1>1. /\ DOMAIN call[p] = DOMAIN Idle
      /\ DOMAIN c = DOMAIN Idle
      /\ c.pc = "fetch" /\ c.forming = now /\ c.rows = rows
  BY DEF CacheInv, Idle
<1>2. /\ call' = [call EXCEPT ![p] = c]
      /\ call[p].pc = "lock" /\ lock = None /\ lock' = p /\ UNCHANGED <<now, file, legacy>>
  BY DEF Read, At
<1> HIDE DEF c
<1>3. call'[p] = c /\ \A q \in Procs : q # p => call'[q] = call[q]
  BY <1>2 DEF CacheInv
<1>4. \A q \in Procs : call[q].pc \notin {"fetch", "tail"}
  BY <1>2, CacheAssumption DEF CacheInv, OneAtATime
<1>5. OneAtATime' /\ AdoptionFirst'
  BY <1>1, <1>2, <1>3, <1>4 DEF CacheInv, OneAtATime, AdoptionFirst, At
<1>6. file = rows
  BY DEF CacheInv, Stored, Closed
<1>7. /\ now' \in Nat /\ c.forming \in 0 .. now'
      /\ file' \subseteq Closed(c.rows, c.forming)
      /\ \A r \in c.rows : r.slot \in Nat /\ (r.slot < c.forming => r.final)
  BY <1>1, <1>2, <1>6 DEF CacheInv, Stored, Closed
<1>8. CallHolds'
  BY <1>3, <1>4, <1>7 DEF CallHolds, Holds, At
<1>9. Stored(file)' /\ Stored(legacy)'
  BY <1>2 DEF CacheInv, Stored
<1> QED
  BY <1>1, <1>2, <1>3, <1>5, <1>8, <1>9 DEF CacheInv

\* A fetch adds rows, each of them final if it closed before the call began.
LEMMA FetchCache ==
  ASSUME CacheInv, NEW p \in Procs, Fetch(p)
  PROVE  CacheInv' /\ UNCHANGED <<file, legacy>>
<1> PICK x \in call[p].gaps : \E chunk \in Responses(x[1], x[2]) :
      call' = [call EXCEPT ![p] = [call[p] EXCEPT !.gaps = call[p].gaps \ {x},
                                                  !.rows = Merge(call[p].rows, chunk),
                                                  !.dirty = call[p].dirty \/ chunk # {}]]
  BY DEF Fetch, Goto
<1> PICK chunk \in Responses(x[1], x[2]) :
      call' = [call EXCEPT ![p] = [call[p] EXCEPT !.gaps = call[p].gaps \ {x},
                                                  !.rows = Merge(call[p].rows, chunk),
                                                  !.dirty = call[p].dirty \/ chunk # {}]]
  OBVIOUS
<1> DEFINE c == [call[p] EXCEPT !.gaps = call[p].gaps \ {x},
                                !.rows = Merge(call[p].rows, chunk),
                                !.dirty = call[p].dirty \/ chunk # {}]
<1>1. /\ DOMAIN call[p] = DOMAIN Idle
      /\ DOMAIN c = DOMAIN Idle
      /\ c.pc = call[p].pc /\ c.forming = call[p].forming
      /\ c.rows = Merge(call[p].rows, chunk)
  BY DEF CacheInv, Idle
<1>2. /\ call' = [call EXCEPT ![p] = c]
      /\ call[p].pc = "fetch" /\ UNCHANGED <<now, file, legacy, lock>>
  BY DEF Fetch, At
<1> HIDE DEF c
<1>3. call'[p] = c /\ \A q \in Procs : q # p => call'[q] = call[q]
  BY <1>2 DEF CacheInv
<1>4. OneAtATime' /\ AdoptionFirst'
  BY <1>1, <1>2, <1>3 DEF CacheInv, OneAtATime, AdoptionFirst, At
<1>5. Holds(call[p])
  BY <1>2 DEF CacheInv, CallHolds, At
<1>6. now \in Nat /\ \A r \in chunk : r.slot \in 0 .. now /\ (r.slot < now => r.final)
  <2> SUFFICES ASSUME NEW r \in chunk
               PROVE  r.slot \in 0 .. now /\ (r.slot < now => r.final)
    BY DEF CacheInv
  <2> PICK s \in 0 .. now : r = Row(s, s < now)
    BY DEF Responses
  <2>1. r.slot = s /\ r.final = (s < now)
    BY Zenon DEF Row
  <2> QED
    BY <2>1
<1>7. Holds(c)
  BY <1>1, <1>5, <1>6 DEF Holds, Merge, Closed
<1>8. CallHolds'
  BY <1>2, <1>3, <1>7 DEF CacheInv, CallHolds, Holds, At
<1>9. Stored(file)' /\ Stored(legacy)'
  BY <1>2 DEF CacheInv, Stored
<1> QED
  BY <1>1, <1>2, <1>3, <1>4, <1>8, <1>9 DEF CacheInv

\* The new file contains the old one, and closed, final rows only.
LEMMA WriteCache ==
  ASSUME CacheInv, NEW p \in Procs, Write(p)
  PROVE  CacheInv' /\ file \cup legacy \subseteq file' \cup legacy'
<1> DEFINE rows == Closed(call[p].rows, call[p].forming)
<1>1. /\ DOMAIN call[p] = DOMAIN Idle
      /\ call[p].pc = "fetch" /\ Holds(call[p]) /\ lock = p
  BY DEF CacheInv, Write, CallHolds, OneAtATime, At
<1>2. CASE Ends(p, Idle) /\ UNCHANGED <<now, file, legacy>>
  <2> DEFINE d == [Idle EXCEPT !.pc = "idle"]
  <2>1. DOMAIN d = DOMAIN Idle /\ d.pc = "idle"
    BY DEF Idle
  <2>2. call' = [call EXCEPT ![p] = d] /\ lock' = IF lock = p THEN None ELSE lock
    BY <1>2 DEF Ends, Goto
  <2> HIDE DEF d
  <2> QED
    BY <1>2, <2>1, <2>2, QuietCache
<1>3. CASE /\ call' = [call EXCEPT ![p] = [call[p] EXCEPT !.pc = "tail", !.rows = rows]]
           /\ \/ file' = rows /\ rows # {}
              \/ file' = file
           /\ UNCHANGED <<now, legacy, lock>>
  <2> DEFINE c == [call[p] EXCEPT !.pc = "tail", !.rows = rows]
  <2>1. DOMAIN c = DOMAIN Idle /\ c.pc = "tail" /\ call' = [call EXCEPT ![p] = c]
    BY <1>1, <1>3 DEF Idle
  <2> HIDE DEF c
  <2>2. call'[p] = c /\ \A q \in Procs : q # p => call'[q] = call[q]
    BY <2>1 DEF CacheInv
  <2>3. \A q \in Procs : q # p => call[q].pc \notin {"fetch", "tail"}
    BY <1>1 DEF CacheInv, OneAtATime
  <2>4. file \subseteq rows /\ \A r \in rows : r.final /\ r.slot \in 0 .. now - 1
    BY <1>1 DEF CacheInv, Holds, Closed
  <2>5. file \subseteq file' /\ Stored(file)' /\ Stored(legacy)'
    BY <1>3, <2>4 DEF CacheInv, Stored
  <2>6. OneAtATime' /\ CallHolds'
    BY <1>1, <1>3, <2>1, <2>2, <2>3 DEF CacheInv, OneAtATime, CallHolds, At
  <2>7. AdoptionFirst'
    BY <1>1, <1>3, <2>1, <2>2, <2>5 DEF CacheInv, AdoptionFirst, At
  <2> QED
    BY <1>3, <2>1, <2>2, <2>5, <2>6, <2>7 DEF CacheInv
<1> QED
  BY <1>2, <1>3 DEF Write, Goto

\* Every step keeps the invariant and every row.
LEMMA StepCache ==
  CacheInv /\ [Next]_vars => CacheInv' /\ file \cup legacy \subseteq file' \cup legacy'
<1> SUFFICES ASSUME CacheInv, [Next]_vars
             PROVE  CacheInv' /\ file \cup legacy \subseteq file' \cup legacy'
  OBVIOUS
<1>1. CASE Tick
  BY <1>1, TickCache DEF Tick
<1>2. ASSUME NEW p \in Procs, Step(p)
      PROVE  CacheInv' /\ file \cup legacy \subseteq file' \cup legacy'
  BY <1>2, StillCache, AdoptCache, ReadCache, FetchCache, WriteCache DEF Step
<1>3. CASE UNCHANGED vars
  BY <1>3 DEF vars, CacheInv, Stored, OneAtATime, AdoptionFirst, CallHolds, Holds, At
<1> QED
  BY <1>1, <1>2, <1>3 DEF Next

-----------------------------------------------------------------------------
(***************************************************************************)
(* What a call answers.                                                    *)
(***************************************************************************)

\* The rows of a call that is about to answer are on disk, closed, and have no hole in the
\* requested range.
WholeRows(c, content) ==
  /\ c.rows \subseteq content
  /\ \A r \in c.rows : r.slot \in Nat /\ r.slot < c.forming
  /\ Touched(InternalGaps(Slots(c.rows)), c.start, Min({c.end, c.forming})) = {}

WholeAnswer(c, content) ==
  LET closed == Closed(c.answer, c.forming)
  IN InternalGaps(Slots(closed)) = {} /\ closed \subseteq content

\* A call that fetched nothing new has the rows of the file, and one that answered has ended.
Answers(c, content) ==
  /\ c.start \in Nat /\ c.end \in Nat /\ c.forming \in Nat
  /\ c.pc # "idle" => c.answer = {}
  /\ c.pc = "fetch" /\ ~c.dirty => c.rows = content
  /\ c.pc = "tail" => WholeRows(c, content)
  /\ WholeAnswer(c, content)

AnswerInv == \A p \in Procs : Answers(call[p], file)

LEMMA NoHoles == InternalGaps({}) = {}
BY DEF InternalGaps

\* No answer yet, or the one before with the file grown since.
LEMMA EmptyAnswer ==
  ASSUME NEW c, c.answer = {}, NEW content
  PROVE  WholeAnswer(c, content)
<1>1. Closed(c.answer, c.forming) = {} /\ Slots({}) = {}
  BY DEF Closed, Slots
<1> QED
  BY <1>1, NoHoles DEF WholeAnswer

LEMMA GrownAnswer ==
  ASSUME NEW c, NEW d, NEW content, NEW more, content \subseteq more,
         WholeAnswer(c, content), d.answer = c.answer, d.forming = c.forming
  PROVE  WholeAnswer(d, more)
BY DEF WholeAnswer

\* A process moves and the file grows, while no other one is fetching if it changes.
LEMMA KeepAnswers ==
  ASSUME CacheInv, AnswerInv, NEW p \in Procs, NEW c, call' = [call EXCEPT ![p] = c],
         file \subseteq file',
         \A q \in Procs : q # p /\ call[q].pc = "fetch" => file' = file,
         Answers(c, file')
  PROVE  AnswerInv'
<1>1. DOMAIN call = Procs
  BY DEF CacheInv
<1>2. ASSUME NEW q \in Procs, q # p PROVE Answers(call[q], file')
  <2>1. Answers(call[q], file)
    BY DEF AnswerInv
  <2>2. WholeAnswer(call[q], file')
    BY <2>1, GrownAnswer DEF Answers
  <2>3. call[q].pc = "fetch" => file' = file
    BY <1>2
  <2>4. call[q].pc = "tail" => WholeRows(call[q], file')
    BY <2>1 DEF Answers, WholeRows
  <2> QED
    BY <2>1, <2>2, <2>3, <2>4 DEF Answers
<1>3. call'[p] = c /\ \A q \in Procs : q # p => call'[q] = call[q]
  BY <1>1
<1> QED
  BY <1>2, <1>3 DEF AnswerInv

LEMMA InitAnswers == Init => AnswerInv
<1> SUFFICES ASSUME Init, NEW p \in Procs PROVE Answers(call[p], file)
  BY DEF AnswerInv
<1>1. call[p] = Idle
  BY DEF Init
<1>2. WholeAnswer(Idle, file)
  BY EmptyAnswer DEF Idle
<1> QED
  BY <1>1, <1>2 DEF Answers, Idle

\* A call that has ended without an answer.
LEMMA IdleAnswers ==
  ASSUME NEW content
  PROVE  Answers(Idle, content) /\ [Idle EXCEPT !.pc = "idle"] = Idle
<1>1. WholeAnswer(Idle, content)
  BY EmptyAnswer DEF Idle
<1> QED
  BY <1>1 DEF Answers, Idle

LEMMA IdleStep ==
  ASSUME CacheInv, AnswerInv, NEW p \in Procs, Ends(p, Idle), UNCHANGED file
  PROVE  AnswerInv'
<1>1. call' = [call EXCEPT ![p] = Idle]
  BY IdleAnswers DEF Ends, Goto
<1> QED
  BY <1>1, IdleAnswers, KeepAnswers

LEMMA GetAnswers ==
  ASSUME CacheInv, AnswerInv, NEW p \in Procs, Get(p)
  PROVE  AnswerInv'
<1> PICK r \in Requests :
      call' = [call EXCEPT ![p] =
        [Idle EXCEPT !.pc = IF file = {} /\ legacy # {} THEN "adopt" ELSE "lock",
                     !.start = r[1], !.end = r[2]]]
  BY DEF Get, Goto
<1> DEFINE c == [Idle EXCEPT !.pc = IF file = {} /\ legacy # {} THEN "adopt" ELSE "lock",
                             !.start = r[1], !.end = r[2]]
<1>1. /\ c.pc \in {"adopt", "lock"} /\ c.start = r[1] /\ c.end = r[2] /\ c.forming = 0
      /\ c.answer = {}
  BY DEF Idle
<1>2. r[1] \in Nat /\ r[2] \in Nat
  BY CacheAssumption
<1>3. call' = [call EXCEPT ![p] = c] /\ file' = file
  BY DEF Get
<1> HIDE DEF c
<1>4. Answers(c, file')
  BY <1>1, <1>2, EmptyAnswer DEF Answers
<1> QED
  BY <1>3, <1>4, KeepAnswers

LEMMA AdoptAnswers ==
  ASSUME CacheInv, AnswerInv, NEW p \in Procs, Adopt(p)
  PROVE  AnswerInv'
<1>1. CASE legacy = {}
  BY <1>1, IdleStep DEF Adopt
<1>2. CASE legacy # {}
  <2> DEFINE c == [call[p] EXCEPT !.pc = "lock"]
  <2>1. call' = [call EXCEPT ![p] = c]
    BY <1>2 DEF Adopt, Goto
  <2>2. /\ c.pc = "lock" /\ c.start = call[p].start /\ c.end = call[p].end
        /\ c.forming = call[p].forming /\ c.answer = call[p].answer
    BY DEF CacheInv, Idle
  <2>3. file = {} /\ \A q \in Procs : call[q].pc \in {"idle", "adopt"}
    BY <1>2 DEF CacheInv, AdoptionFirst, Adopt, At
  <2> HIDE DEF c
  <2>4. Answers(call[p], file) /\ call[p].pc = "adopt"
    BY DEF AnswerInv, Adopt, At
  <2>5. WholeAnswer(c, file')
    BY <2>2, <2>3, <2>4, GrownAnswer DEF Answers
  <2>6. Answers(c, file')
    BY <2>2, <2>4, <2>5 DEF Answers
  <2> QED
    BY <2>1, <2>3, <2>6, KeepAnswers
<1> QED
  BY <1>1, <1>2

LEMMA ReadAnswers ==
  ASSUME CacheInv, AnswerInv, NEW p \in Procs, Read(p)
  PROVE  AnswerInv'
<1> DEFINE rows == Closed(file, now)
<1> PICK gaps :
      call' = [call EXCEPT ![p] = [call[p] EXCEPT !.pc = "fetch", !.forming = now, !.rows = rows,
                                                  !.gaps = gaps, !.dirty = rows # file]]
  BY DEF Read, Goto
<1> DEFINE c == [call[p] EXCEPT !.pc = "fetch", !.forming = now, !.rows = rows,
                                !.gaps = gaps, !.dirty = rows # file]
<1>1. /\ c.pc = "fetch" /\ c.forming = now /\ c.rows = rows /\ c.start = call[p].start
      /\ c.end = call[p].end /\ c.answer = call[p].answer /\ c.dirty = (rows # file)
  BY DEF CacheInv, Idle
<1>2. call' = [call EXCEPT ![p] = c] /\ file' = file /\ now \in Nat
  BY DEF Read, CacheInv
<1>3. rows = file
  BY DEF CacheInv, Stored, Closed
<1>4. At(p, "lock") /\ Answers(call[p], file)
  BY DEF Read, AnswerInv
<1>5. c.answer = {}
  BY <1>1, <1>4 DEF At, Answers
<1> HIDE DEF c, rows
<1>6. Answers(c, file')
  <2>1. c.dirty = FALSE /\ c.rows = file'
    BY <1>1, <1>2, <1>3
  <2> QED
    BY <1>1, <1>2, <1>4, <1>5, <2>1, EmptyAnswer DEF Answers
<1> QED
  BY <1>2, <1>6, KeepAnswers

LEMMA FetchAnswers ==
  ASSUME CacheInv, AnswerInv, NEW p \in Procs, Fetch(p)
  PROVE  AnswerInv'
<1> PICK x, chunk :
      call' = [call EXCEPT ![p] = [call[p] EXCEPT !.gaps = call[p].gaps \ {x},
                                                  !.rows = Merge(call[p].rows, chunk),
                                                  !.dirty = call[p].dirty \/ chunk # {}]]
  BY DEF Fetch, Goto
<1> DEFINE c == [call[p] EXCEPT !.gaps = call[p].gaps \ {x},
                                !.rows = Merge(call[p].rows, chunk),
                                !.dirty = call[p].dirty \/ chunk # {}]
<1>1. /\ c.pc = "fetch" /\ c.forming = call[p].forming /\ c.start = call[p].start
      /\ c.end = call[p].end /\ c.answer = call[p].answer
      /\ c.rows = Merge(call[p].rows, chunk)
  BY DEF CacheInv, Idle, Fetch, At
<1>2. c.dirty = (call[p].dirty \/ chunk # {})
  BY DEF CacheInv, Idle
<1>3. call' = [call EXCEPT ![p] = c] /\ file' = file
  BY DEF Fetch
<1>4. call[p].pc = "fetch" /\ Answers(call[p], file)
  BY DEF Fetch, At, AnswerInv
<1> HIDE DEF c
<1>5. ~c.dirty => c.rows = file'
  <2> SUFFICES ASSUME ~c.dirty PROVE c.rows = file'
    OBVIOUS
  <2>1. ~call[p].dirty /\ chunk = {}
    BY <1>2
  <2>2. call[p].rows = file
    BY <1>4, <2>1 DEF Answers
  <2> QED
    BY <1>1, <1>3, <2>1, <2>2 DEF Merge
<1>6. c.answer = {}
  BY <1>1, <1>4 DEF Answers
<1>7. Answers(c, file')
  BY <1>1, <1>4, <1>5, <1>6, EmptyAnswer DEF Answers
<1> QED
  BY <1>3, <1>7, KeepAnswers

LEMMA WriteAnswers ==
  ASSUME CacheInv, AnswerInv, NEW p \in Procs, Write(p)
  PROVE  AnswerInv'
<1> DEFINE rows == Closed(call[p].rows, call[p].forming)
           left == Touched(InternalGaps(Slots(rows)), call[p].start,
                           Min({call[p].end, call[p].forming}))
<1>1. call[p].pc = "fetch" /\ Answers(call[p], file) /\ Holds(call[p]) /\ lock = p
  BY DEF CacheInv, Write, CallHolds, OneAtATime, At, AnswerInv
<1>2. CASE left # {}
  BY <1>2, IdleStep DEF Write
<1>3. CASE left = {}
  <2> DEFINE c == [call[p] EXCEPT !.pc = "tail", !.rows = rows]
  <2>1. /\ call' = [call EXCEPT ![p] = c]
        /\ file' = IF call[p].dirty /\ rows # {} THEN rows ELSE file
    BY <1>3 DEF Write, Goto
  <2>2. /\ c.pc = "tail" /\ c.forming = call[p].forming /\ c.start = call[p].start
        /\ c.end = call[p].end /\ c.answer = call[p].answer /\ c.rows = rows
    BY DEF CacheInv, Idle
  <2>3. file \subseteq rows /\ rows \subseteq call[p].rows
    BY <1>1 DEF Holds, Closed
  <2>4. \A r \in rows : r.slot \in Nat /\ r.slot < call[p].forming
    BY <1>1 DEF Holds, Closed
  <2>5. Touched(InternalGaps(Slots(rows)), call[p].start,
                Min({call[p].end, call[p].forming})) = {}
    BY <1>3
  <2> HIDE DEF c, rows, left
  <2>6. ~call[p].dirty => rows \subseteq file
    BY <1>1, <2>3 DEF Answers
  <2>7. file \subseteq file' /\ rows \subseteq file'
    <3>1. CASE call[p].dirty /\ rows # {}
      BY <2>1, <2>3, <3>1
    <3>2. CASE ~(call[p].dirty /\ rows # {})
      BY <2>1, <2>6, <3>2
    <3> QED
      BY <3>1, <3>2
  <2>8. WholeRows(c, file')
    BY <2>2, <2>4, <2>5, <2>7 DEF WholeRows
  <2>9. c.answer = {}
    BY <1>1, <2>2 DEF Answers
  <2>10. Answers(c, file')
    BY <1>1, <2>2, <2>8, <2>9, EmptyAnswer DEF Answers
  <2>11. \A q \in Procs : q # p /\ call[q].pc = "fetch" => file' = file
    BY <1>1 DEF CacheInv, OneAtATime
  <2> QED
    BY <2>1, <2>7, <2>10, <2>11, KeepAnswers
<1> QED
  BY <1>2, <1>3

\* What is cut out of rows without a hole in the requested range has no hole.
LEMMA CutOut ==
  ASSUME NEW slots, slots \subseteq Nat, NEW start \in Nat, NEW end \in Nat,
         Touched(InternalGaps(slots), start, end) = {},
         NEW part, part = {s \in slots : start <= s /\ s < end}
  PROVE  InternalGaps(part) = {}
<1> SUFFICES ASSUME NEW x \in part \X part, x[2] > x[1] + 1,
                    \A s \in part : s <= x[1] \/ s >= x[2]
             PROVE  FALSE
  BY DEF InternalGaps
<1> DEFINE gap == <<x[1] + 1, x[2]>>
<1>1. /\ x[1] \in Nat /\ x[2] \in Nat /\ x \in slots \X slots
      /\ start <= x[1] /\ x[2] < end
  OBVIOUS
<1>2. \A s \in slots : s <= x[1] \/ s >= x[2]
  BY <1>1
<1>3. gap \in InternalGaps(slots)
  BY <1>1, <1>2 DEF InternalGaps
<1>4. gap[1] < end /\ gap[2] > start
  BY <1>1
<1> HIDE DEF gap
<1>5. gap \in Touched(InternalGaps(slots), start, end)
  BY <1>3, <1>4 DEF Touched
<1> QED
  BY <1>5

LEMMA TailAnswers ==
  ASSUME CacheInv, AnswerInv, NEW p \in Procs, Tail(p)
  PROVE  AnswerInv'
<1> DEFINE rows == call[p].rows
           forming == call[p].forming
           end == Min({call[p].end, forming})
<1>1. PICK tail :
        /\ \A r \in tail : r.slot \in Int /\ r.slot >= forming
        /\ Ends(p, [call[p] EXCEPT !.answer = Requested(call[p], rows \cup tail)])
  <2>1. PICK tail \in (IF call[p].end > forming THEN Responses(forming, call[p].end) ELSE {{}}) :
          Ends(p, [call[p] EXCEPT !.answer = Requested(call[p], rows \cup tail)])
    BY DEF Tail
  <2>2. ASSUME NEW r \in tail PROVE r.slot \in Int /\ r.slot >= forming
    <3>1. tail \in Responses(forming, call[p].end)
      BY <2>1
    <3>2. PICK s \in 0 .. now : r = Row(s, s < now) /\ forming <= s
      BY <3>1 DEF Responses
    <3>3. r.slot = s
      BY <3>2 DEF Row
    <3>4. now \in Nat /\ forming \in Nat
      BY DEF CacheInv, AnswerInv, Answers
    <3> QED
      BY <3>2, <3>3, <3>4
  <2> QED
    BY <2>1, <2>2
<1> DEFINE answer == Requested(call[p], rows \cup tail)
           c == [call[p] EXCEPT !.answer = answer, !.pc = "idle"]
<1>2. call' = [call EXCEPT ![p] = c] /\ file' = file
  BY <1>1 DEF Ends, Goto, Tail
<1>3. /\ c.pc = "idle" /\ c.forming = forming /\ c.start = call[p].start
      /\ c.end = call[p].end /\ c.answer = answer
  BY DEF CacheInv, Idle
<1>4. Answers(call[p], file) /\ WholeRows(call[p], file)
  BY DEF Tail, AnswerInv, Answers, At
<1>5. /\ forming \in Nat /\ call[p].start \in Nat /\ call[p].end \in Nat
      /\ \A r \in rows : r.slot \in Nat /\ r.slot < forming
  BY <1>4 DEF Answers, WholeRows
<1>6. end = IF call[p].end <= forming THEN call[p].end ELSE forming
  BY <1>5 DEF Min
<1> DEFINE closed == Closed(answer, forming)
<1>7. closed = {r \in rows : call[p].start <= r.slot /\ r.slot < end}
  BY <1>1, <1>5, <1>6 DEF Closed, Requested
<1>8. /\ Touched(InternalGaps(Slots(rows)), call[p].start, end) = {}
      /\ rows \subseteq file
  BY <1>4 DEF WholeRows
<1>9. Slots(rows) \subseteq Nat /\ end \in Nat
  BY <1>5, <1>6 DEF Slots
<1>10. Slots(closed) = {s \in Slots(rows) : call[p].start <= s /\ s < end}
  BY <1>7 DEF Slots
<1> HIDE DEF rows, end, closed
<1>11. InternalGaps(Slots(closed)) = {}
  BY <1>5, <1>8, <1>9, <1>10, CutOut
<1>12. closed \subseteq file
  BY <1>7, <1>8
<1>13. WholeAnswer(c, file')
  BY <1>2, <1>3, <1>11, <1>12 DEF WholeAnswer, closed
<1> HIDE DEF c, answer
<1>14. Answers(c, file')
  BY <1>3, <1>5, <1>13 DEF Answers
<1> QED
  BY <1>2, <1>14, KeepAnswers

LEMMA StepAnswers ==
  CacheInv /\ AnswerInv /\ [Next]_vars => AnswerInv'
<1> SUFFICES ASSUME CacheInv, AnswerInv, [Next]_vars PROVE AnswerInv'
  OBVIOUS
<1>1. CASE Tick \/ UNCHANGED vars
  BY <1>1 DEF Tick, vars, AnswerInv
<1>2. ASSUME NEW p \in Procs, Step(p) PROVE AnswerInv'
  <2>1. LockTimeout(p) \/ Fails(p) => AnswerInv'
    BY IdleStep DEF LockTimeout, Fails
  <2> QED
    BY <1>2, <2>1, GetAnswers, AdoptAnswers, ReadAnswers, FetchAnswers, WriteAnswers, TailAnswers
    DEF Step
<1> QED
  BY <1>1, <1>2 DEF Next

-----------------------------------------------------------------------------
\* The file holds closed bars only, with their final values, for any number of processes.
THEOREM CacheClosed == Spec => []ClosedBarsOnly
<1>1. CacheInv => ClosedBarsOnly
  BY DEF CacheInv, Stored, ClosedBarsOnly
<1> QED
  BY <1>1, InitCache, StepCache, PTL DEF Spec

\* No row on disk is ever lost, whatever calls overlap, fail or adopt the older file late.
THEOREM CacheKeeps == Spec => NothingLost
<1> QED
  BY InitCache, StepCache, PTL DEF Spec, NothingLost

\* A call answers closed bars without a hole, all of them on disk, for any requests, venue
\* answers, failures and processes between its fetches and its answer.
THEOREM AnswersWhole == Spec => []AnswerIsWhole
<1>1. AnswerInv => AnswerIsWhole
  BY DEF AnswerInv, Answers, WholeAnswer, AnswerIsWhole
<1> QED
  BY <1>1, InitCache, StepCache, InitAnswers, StepAnswers, PTL DEF Spec
=============================================================================
