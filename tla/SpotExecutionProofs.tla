------------------------ MODULE SpotExecutionProofs ------------------------
(***************************************************************************)
(* The safety properties of SpotExecution, for every value of its          *)
(* constants.  First type correctness and inventory; then write-ahead      *)
(* recording, custody, protection and the end of a trade: each broker call *)
(* is on record before it is made and made once, also across restarts;     *)
(* inventory without a working protection halts entries; the trade record  *)
(* of a cycle is written when the cycle is over.                           *)
(***************************************************************************)
EXTENDS SpotExecution, TLAPS

-----------------------------------------------------------------------------
(***************************************************************************)
(* The inductive invariant.                                                *)
(***************************************************************************)
\* An operation under way is one of a sound engine, and a poisoned engine is
\* halted; a sound engine's memory is what the archive records.
Storage ==
  /\ pc # "idle" => ~persistence_failed
  /\ persistence_failed => halted
  /\ ~persistence_failed => mem = log

\* Every order the venue has heard of is on record.
Recorded == \A o \in Orders : st[o] # "none" => o \in log

Clear == Live = {} /\ seen = Len(events)

\* Where the next step places an order, nothing is live at the venue and the
\* ledger is current; an engine about to end an authorized control is halted.
ClearToPlace ==
  /\ pc \in {"protect", "close_sell", "retry_send"} => Clear /\ ~flat_confirmed
  /\ pc \in {"retry_send", "finish_write"} => halted
  /\ pc = "idle" /\ ~halted /\ ready /\ ~pending /\ quantity = 0 => Clear

SafeInv == TypeOK /\ Storage /\ Recorded /\ ClearToPlace /\ FlatIsFlat /\ NoOversell

-----------------------------------------------------------------------------
(***************************************************************************)
(* Type correctness.                                                       *)
(***************************************************************************)
LEMMA FactTypes ==
  /\ \A k \in FactKinds, n \in Numbers : Fact(k, n) \in Facts
  /\ \A k \in OrderKinds, n \in Numbers : Fact(k, n) \in Orders
  /\ Orders \subseteq Facts
  /\ 0 .. MaxCycles \subseteq Numbers /\ 1 .. MaxAttempts \subseteq Numbers
  /\ \A n \in 0 .. MaxCycles : n + 1 \in Numbers
BY BoundsAssumption DEF Fact, Facts, Orders, FactKinds, OrderKinds, Numbers

LEMMA Balances ==
  ASSUME TypeOK
  PROVE  /\ \A k \in 0 .. Len(events) : QtyAt(k) \in Nat
         /\ Base \in Nat /\ quantity \in Nat
<1>1. events \in Seq(Execution) /\ seen \in 0 .. Len(events)
  BY DEF TypeOK
<1>2. \A k \in 1 .. Len(events) : events[k].base \in Nat
  <2>1. \A k \in 1 .. Len(events) : events[k] \in Execution
    BY <1>1
  <2>2. \A e \in Execution : e.base \in Nat
    BY DEF Execution
  <2> QED BY <2>1, <2>2
<1>3. \A k \in 0 .. Len(events) : QtyAt(k) \in Nat
  BY <1>1, <1>2 DEF QtyAt
<1>4. Len(events) \in Nat
  BY <1>1
<1> QED BY <1>1, <1>3, <1>4 DEF Base, quantity

LEMMA VenueTypes ==
  ASSUME TypeOK, Venue
  PROVE  TypeOK'
<1> USE DEF engineVars, logVars, memVars, identityVars, flagVars
<1>1. PICK o \in Orders : \/ VenueArrive(o) \/ VenueEnd(o)
                          \/ \E q \in 1 .. MaxQty, note \in Notes : VenueFill(o, q, note)
  BY DEF Venue
<1>2. CASE VenueArrive(o)
  BY <1>2 DEF VenueArrive, TakenList, TypeOK, Statuses, Grades
<1>3. CASE VenueEnd(o)
  BY <1>3 DEF VenueEnd, TypeOK, Statuses
<1>4. ASSUME NEW q \in 1 .. MaxQty, NEW note \in Notes, VenueFill(o, q, note)
      PROVE  TypeOK'
  <2>1. st' \in [Orders -> Statuses] /\ rem' \in [Orders -> Nat]
    BY <1>4, BoundsAssumption DEF VenueFill, TypeOK, Statuses
  <2>2. events' \in Seq(Execution) /\ Len(events') = Len(events) + 1
    BY <1>4, Balances, BoundsAssumption DEF VenueFill, TypeOK, Execution
  <2> QED BY <1>4, <2>1, <2>2 DEF VenueFill, TypeOK
<1> QED BY <1>1, <1>2, <1>3, <1>4

\* TypeOK in two parts: what a report or a broker call changes, and how the
\* operation goes on from there.
DataOK ==
  /\ st \in [Orders -> Statuses]
  /\ rem \in [Orders -> Nat]
  /\ grade \in Grades
  /\ events \in Seq(Execution)
  /\ calls \in [Facts -> 0 .. 2]
  /\ log \in SUBSET Facts /\ mem \in SUBSET Facts
  /\ logged \in 0 .. Len(events) /\ seen \in 0 .. Len(events)
  /\ logStart \in Nat /\ baseline \in Nat
  /\ entry_id \in 0 .. MaxCycles /\ close_id \in Numbers
  /\ close_attempted \in BOOLEAN /\ pending \in BOOLEAN
  /\ outside_bracket \in BOOLEAN /\ restored \in BOOLEAN
  /\ persistence_failed \in BOOLEAN

ControlOK ==
  /\ ready \in BOOLEAN /\ halted \in BOOLEAN /\ uncertain \in BOOLEAN
  /\ flat_confirmed \in BOOLEAN /\ protection \in BOOLEAN
  /\ saved \in [pending : BOOLEAN, protection : BOOLEAN]
  /\ pc \in Labels /\ ret \in {"none", "host", "poll", "raise"}

LEMMA TypeParts == (TypeOK <=> DataOK /\ ControlOK) /\ (TypeOK' <=> DataOK' /\ ControlOK')
BY DEF TypeOK, DataOK, ControlOK

LEMMA ReportTypes ==
  ASSUME TypeOK, NEW unk \in BOOLEAN, Report(unk)
  PROVE  DataOK' /\ pending' \in BOOLEAN
<1>1. CompleteTrade(FlatNow(unk)) \subseteq Facts
  BY FactTypes DEF CompleteTrade, TypeOK, FactKinds
<1>2. log' \in SUBSET Facts /\ mem' \in SUBSET Facts
  BY <1>1 DEF Report, TypeOK
<1>3. seen' = Len(events) /\ logged' = Len(events) /\ events' = events
  BY DEF Report, Consume, Now, venueVars
<1>4. pending' \in BOOLEAN /\ outside_bracket' \in BOOLEAN
  BY DEF Report, Consume, EntryOpen, OutsideBy
<1>5. Len(events) \in 0 .. Len(events)
  BY DEF TypeOK
<1> QED BY <1>2, <1>3, <1>4, <1>5 DEF Report, venueVars, identityVars, DataOK, TypeOK

LEMMA ContinuationTypes ==
  ASSUME TypeOK, pending' \in BOOLEAN
  PROVE  /\ Raise => ControlOK'
         /\ \A r \in {"host", "poll", "raise"}, f \in BOOLEAN : CallClose(r, f) => ControlOK'
         /\ CloseReturn => ControlOK'
         /\ \A h, u \in BOOLEAN : protection' \in BOOLEAN /\ PollReturn(h, u) => ControlOK'
         /\ \A h, u \in BOOLEAN : PollDecide(h, u) => ControlOK'
<1> USE DEF ControlOK, TypeOK, Labels
<1>1. Raise => ControlOK'
  BY DEF Raise, Halt, Done
<1>2. ASSUME NEW r \in {"host", "poll", "raise"}, NEW f \in BOOLEAN, CallClose(r, f)
      PROVE  ControlOK'
  BY <1>2 DEF CallClose, AfterFirstReport
<1>3. ASSUME CloseReturn PROVE ControlOK'
  <2>1. (ret = "raise") \in BOOLEAN /\ (ret # "raise") \in BOOLEAN
    OBVIOUS
  <2>2. protection' \in BOOLEAN
    BY <1>3 DEF CloseReturn
  <2>3. saved' \in [pending : BOOLEAN, protection : BOOLEAN]
    BY <1>3, <2>2 DEF CloseReturn, Save
  <2> QED BY <1>3, <2>1, <2>2, <2>3 DEF CloseReturn, Done
<1>4. ASSUME NEW h \in BOOLEAN, NEW u \in BOOLEAN, protection' \in BOOLEAN, PollReturn(h, u)
      PROVE  ControlOK'
  <2>1. FlatNow(u) \in BOOLEAN
    BY DEF FlatNow
  <2> QED BY <1>4, <2>1 DEF PollReturn, Done, Save
<1>5. ASSUME NEW h \in BOOLEAN, NEW u \in BOOLEAN, PollDecide(h, u)
      PROVE  ControlOK'
  <2>1. (h \/ grade = "dust") \in BOOLEAN
    OBVIOUS
  <2> HIDE DEF ControlOK
  <2> QED BY <1>1, <1>2, <1>4, <1>5, <2>1 DEF PollDecide, ControlOK
<1> QED BY <1>1, <1>2, <1>3, <1>4, <1>5

LEMMA Verdicts ==
  /\ \A k : HaltedBy(k) \in BOOLEAN
  /\ \A u : FlatNow(u) \in BOOLEAN
  /\ \A u : ExposureUnsafe(u) \in BOOLEAN
  /\ ProtectedNow \in BOOLEAN /\ EntryOpen \in BOOLEAN
BY DEF HaltedBy, FlatNow, ExposureUnsafe, ProtectedNow, EntryOpen

LEMMA ObservationTypes ==
  ASSUME TypeOK, NEW unk \in BOOLEAN, NEW h \in BOOLEAN, Observation(unk, h)
  PROVE  /\ DataOK'
         /\ ready' \in BOOLEAN /\ halted' \in BOOLEAN /\ uncertain' \in BOOLEAN
         /\ flat_confirmed' \in BOOLEAN /\ protection' \in BOOLEAN
         /\ saved' \in [pending : BOOLEAN, protection : BOOLEAN]
<1>1. Report(unk)
  BY DEF Observation
<1>2. DataOK' /\ pending' \in BOOLEAN
  BY <1>1, ReportTypes
<1>3. protection' \in BOOLEAN
  BY Verdicts DEF Observation
<1>4. ready' \in BOOLEAN /\ halted' \in BOOLEAN /\ uncertain' \in BOOLEAN
      /\ flat_confirmed' \in BOOLEAN
  BY Verdicts DEF Observation
<1> QED BY <1>2, <1>3, <1>4 DEF Observation, Save

LEMMA ReportStepTypes ==
  ASSUME TypeOK,
         Poll \/ PollReport \/ ProtectReport \/ CloseStart \/ CloseReport \/ CloseConfirm
           \/ Observe \/ Reconcile \/ RetryClose
           \/ \E d \in {"closed_flat", "custody_transferred"} : Finish(d)
  PROVE  TypeOK'
<1> SUFFICES DataOK' /\ ControlOK'
  BY TypeParts
<1>1. ASSUME NEW unk \in BOOLEAN, Report(unk),
             \/ Raise \/ CloseReturn
             \/ \E r \in {"host", "poll", "raise"}, f \in BOOLEAN : CallClose(r, f)
             \/ \E h, u \in BOOLEAN : PollDecide(h, u)
             \/ \E h, u \in BOOLEAN : protection' \in BOOLEAN /\ PollReturn(h, u)
      PROVE  DataOK' /\ ControlOK'
  BY <1>1, ReportTypes, ContinuationTypes
<1>2. ASSUME NEW unk \in BOOLEAN, Report(unk), halted' \in BOOLEAN,
             flat_confirmed' \in BOOLEAN, pc' \in Labels,
             ret' \in {"none", ret}, ready' = ready, uncertain' = uncertain,
             protection' = protection, saved' = saved \/ Save
      PROVE  DataOK' /\ ControlOK'
  <2>1. DataOK' /\ pending' \in BOOLEAN
    BY <1>2, ReportTypes
  <2>2. saved' \in [pending : BOOLEAN, protection : BOOLEAN]
    BY <1>2, <2>1 DEF Save, TypeOK
  <2> QED BY <1>2, <2>1, <2>2 DEF ControlOK, TypeOK
<1>3. CASE Poll
  <2>1. PICK unk \in BOOLEAN : Poll!2!(unk)
    BY <1>3 DEF Poll
  <2> QED BY <1>1, <1>2, <2>1, Verdicts DEF Labels, Done
<1>4. CASE PollReport
  BY <1>1, <1>4, Verdicts DEF PollReport
<1>5. CASE ProtectReport
  <2>1. PICK unk \in BOOLEAN : ProtectReport!2!(unk)
    BY <1>5 DEF ProtectReport
  <2>2. CASE Production /\ unk /\ CallClose("raise", FALSE)
    BY <1>1, <2>1, <2>2
  <2>3. CASE protection' = FALSE /\ PollReturn(HaltedBy(Now), unk)
    BY <1>1, <2>1, <2>3, Verdicts
  <2>4. CASE protection' = TRUE /\ PollReturn(HaltedBy(Now) \/ grade = "dust", unk)
    <3>1. (HaltedBy(Now) \/ grade = "dust") \in BOOLEAN /\ protection' \in BOOLEAN
      BY <2>4
    <3> QED BY <1>1, <2>1, <2>4, <3>1
  <2>5. CASE CallClose("raise", FALSE)
    BY <1>1, <2>1, <2>5
  <2> QED BY <2>1, <2>2, <2>3, <2>4, <2>5
<1>6. CASE CloseStart
  <2>1. PICK unk \in BOOLEAN : CloseStart!2!(unk)
    BY <1>6 DEF CloseStart
  <2>2. AfterFirstReport \in Labels
    BY DEF AfterFirstReport, Labels
  <2> QED BY <1>1, <1>2, <2>1, <2>2, Verdicts
<1>7. CASE CloseReport
  <2>1. PICK unk \in BOOLEAN : CloseReport!2!(unk)
    BY <1>7 DEF CloseReport
  <2> QED BY <1>1, <1>2, <2>1 DEF Labels
<1>8. CASE CloseConfirm
  BY <1>1, <1>8 DEF CloseConfirm
<1>9. CASE Observe
  BY <1>9, ObservationTypes DEF Observe, Done, ControlOK, Labels
<1>10. CASE Reconcile
  <2>1. PICK unk \in BOOLEAN : Reconcile!2!(unk)
    BY <1>10 DEF Reconcile
  <2>2. CASE Raise
    BY <1>1, <2>1, <2>2
  <2>3. CASE ~Raise
    <3>1. DataOK' /\ pending' \in BOOLEAN
      BY <2>1, ReportTypes
    <3>2. protection' \in BOOLEAN /\ halted' \in BOOLEAN /\ flat_confirmed' \in BOOLEAN
      BY <2>1, <2>3, Verdicts
    <3>3. saved' \in [pending : BOOLEAN, protection : BOOLEAN]
      BY <2>1, <2>3, <3>1, <3>2 DEF Save
    <3> QED BY <2>1, <2>3, <3>1, <3>2, <3>3 DEF Done, ControlOK, Labels
  <2> QED BY <2>2, <2>3
<1>11. CASE RetryClose
  BY <1>11, ObservationTypes DEF RetryClose, ControlOK, Labels, TypeOK
<1>12. ASSUME NEW d \in {"closed_flat", "custody_transferred"}, Finish(d)
       PROVE  DataOK' /\ ControlOK'
  BY <1>12, ObservationTypes DEF Finish, ControlOK, Labels, TypeOK
<1> QED BY <1>3, <1>4, <1>5, <1>6, <1>7, <1>8, <1>9, <1>10, <1>11, <1>12

LEMMA PlaceTypes ==
  ASSUME TypeOK, NEW o \in Orders, NEW q \in Nat, NEW outcome \in Outcomes
  PROVE  /\ Sent(o, outcome) => /\ st' \in [Orders -> Statuses] /\ events' = events
                                /\ calls' \in [Facts -> 0 .. 2]
         /\ Place(o, q, outcome) => /\ st' \in [Orders -> Statuses] /\ events' = events
                                    /\ calls' \in [Facts -> 0 .. 2]
                                    /\ rem' \in [Orders -> Nat] /\ grade' = grade
         /\ TakenList(o, q) => rem' \in [Orders -> Nat] /\ grade' \in Grades
<1>1. \A f \in Facts : Counted(f) \in [Facts -> 0 .. 2]
  BY DEF Counted, TypeOK
<1>2. Sent(o, outcome) => /\ st' \in [Orders -> Statuses] /\ events' = events
                          /\ calls' \in [Facts -> 0 .. 2]
  BY <1>1, FactTypes DEF Sent, Outcomes, Statuses, TypeOK
<1>3. TakenList(o, q) => rem' \in [Orders -> Nat] /\ grade' \in Grades
  BY DEF TakenList, TypeOK
<1> QED BY <1>2, <1>3 DEF Place, TypeOK

LEMMA WriteTypes ==
  ASSUME TypeOK, NEW f \in Facts, Write(f)
  PROVE  log' \in SUBSET Facts /\ mem' \in SUBSET Facts
BY DEF Write, TypeOK

LEMMA CallStepTypes ==
  ASSUME TypeOK,
         \/ \E q \in 1 .. MaxQty, outcome \in Outcomes : Submit(q, outcome)
         \/ \E cancelled, raised \in BOOLEAN : CancelEntry(cancelled, raised)
         \/ \E outcome \in Outcomes : Protect(outcome)
         \/ \E gone \in SUBSET Open, raised \in BOOLEAN : CloseCancel(gone, raised)
         \/ \E n \in CloseNumbers, outcome \in Outcomes : CloseSell(n, outcome)
         \/ \E a \in 1 .. MaxAttempts, q \in 1 .. MaxQty, outcome \in Outcomes :
              RetrySend(a, q, outcome)
  PROVE  TypeOK'
<1> SUFFICES DataOK' /\ ControlOK'
  BY TypeParts
<1> USE DEF identityVars, flagVars
<1>0. pending' = pending => pending' \in BOOLEAN
  BY DEF TypeOK
<1>1. ASSUME NEW q \in 1 .. MaxQty, NEW outcome \in Outcomes, Submit(q, outcome)
      PROVE  DataOK' /\ ControlOK'
  <2>1. Fact("entry", entry_id + 1) \in Orders /\ Fact("entry", entry_id + 1) \in Facts
    BY FactTypes DEF OrderKinds, TypeOK
  <2>2. q \in Nat
    BY BoundsAssumption
  <2>3. /\ st' \in [Orders -> Statuses] /\ events' = events /\ calls' \in [Facts -> 0 .. 2]
        /\ rem' \in [Orders -> Nat] /\ grade' = grade
    BY <1>1, <2>1, <2>2, PlaceTypes DEF Submit
  <2>4. log' \in SUBSET Facts /\ mem' \in SUBSET Facts
    BY <1>1, <2>1, WriteTypes DEF Submit
  <2>5. entry_id' \in 0 .. MaxCycles /\ close_id' \in Numbers
    BY <1>1, BoundsAssumption DEF Submit, CanSubmit, TypeOK, Numbers
  <2>6. baseline' \in Nat /\ logStart' \in Nat
    BY <1>1 DEF Submit, TypeOK
  <2>7. pending' \in BOOLEAN /\ close_attempted' \in BOOLEAN /\ outside_bracket' \in BOOLEAN
    BY <1>1 DEF Submit
  <2>8. DataOK'
    BY <1>1, <2>3, <2>4, <2>5, <2>6, <2>7 DEF Submit, DataOK, TypeOK
  <2>9. saved' \in [pending : BOOLEAN, protection : BOOLEAN]
    <3>1. protection' \in BOOLEAN
      BY <1>1 DEF Submit, TypeOK
    <3>2. saved' = saved \/ saved' = [pending |-> pending', protection |-> protection']
      BY <1>1 DEF Submit, Save
    <3>3. saved \in [pending : BOOLEAN, protection : BOOLEAN]
      BY DEF TypeOK
    <3> QED BY <2>7, <3>1, <3>2, <3>3
  <2> QED BY <1>1, <2>8, <2>9 DEF Submit, Halt, Done, ControlOK, TypeOK, Labels
<1>2. ASSUME NEW cancelled \in BOOLEAN, NEW raised \in BOOLEAN, CancelEntry(cancelled, raised)
      PROVE  DataOK' /\ ControlOK'
  <2>1. Fact("cancel_entry", entry_id) \in Facts
    BY FactTypes DEF FactKinds, TypeOK
  <2>2. st' \in [Orders -> Statuses] /\ calls' \in [Facts -> 0 .. 2]
    <3>1. st' \in {st, [st EXCEPT ![Fact("entry", entry_id)] = "done"]}
      BY <1>2 DEF CancelEntry
    <3>2. calls' = Counted(Fact("cancel_entry", entry_id))
      BY <1>2 DEF CancelEntry
    <3>3. calls' \in [Facts -> 0 .. 2]
      BY <2>1, <3>2 DEF Counted, TypeOK
    <3>4. st' \in [Orders -> Statuses]
      BY <3>1 DEF Statuses, TypeOK
    <3> QED BY <3>3, <3>4
  <2>3. DataOK'
    BY <1>2, <2>1, <2>2, WriteTypes DEF CancelEntry, DataOK, TypeOK
  <2> QED BY <1>0, <1>2, <2>3, ContinuationTypes DEF CancelEntry, ControlOK, TypeOK, Labels
<1>3. ASSUME NEW outcome \in Outcomes, Protect(outcome)
      PROVE  DataOK' /\ ControlOK'
  <2>1. Fact("oco", entry_id) \in Orders /\ Fact("oco", entry_id) \in Facts
    BY FactTypes DEF OrderKinds, TypeOK
  <2>2. quantity \in Nat
    BY Balances
  <2>3. rem' \in [Orders -> Nat] /\ grade' \in Grades
    BY <1>3, <2>1, <2>2, PlaceTypes DEF Protect, TypeOK
  <2>4. DataOK'
    BY <1>3, <2>1, <2>2, <2>3, PlaceTypes, WriteTypes DEF Protect, DataOK, TypeOK
  <2>5. CASE outcome = "accepted" /\ grade' # "bad"
    BY <1>3, <2>4, <2>5 DEF Protect, ControlOK, TypeOK, Labels
  <2>6. CASE ~(outcome = "accepted" /\ grade' # "bad")
    <3>1. CallClose("raise", flat_confirmed) /\ flat_confirmed \in BOOLEAN
      BY <1>3, <2>6 DEF Protect, TypeOK
    <3> QED BY <1>0, <1>3, <2>4, <3>1, ContinuationTypes DEF Protect
  <2> QED BY <2>5, <2>6
<1>4. ASSUME NEW gone \in SUBSET Open, NEW raised \in BOOLEAN, CloseCancel(gone, raised)
      PROVE  DataOK' /\ ControlOK'
  <2>1. Fact("cancel_all", 0) \in Facts
    BY FactTypes, BoundsAssumption DEF FactKinds, Numbers
  <2>2. st' \in [Orders -> Statuses] /\ calls' \in [Facts -> 0 .. 2]
    BY <1>4, <2>1 DEF CloseCancel, Counted, Statuses, TypeOK
  <2>3. DataOK'
    BY <1>4, <2>1, <2>2, WriteTypes DEF CloseCancel, DataOK, TypeOK
  <2> QED BY <1>0, <1>4, <2>3, ContinuationTypes DEF CloseCancel, ControlOK, TypeOK, Labels
<1>5. ASSUME NEW n \in CloseNumbers, NEW outcome \in Outcomes, CloseSell(n, outcome)
      PROVE  DataOK' /\ ControlOK'
  <2>1. Fact("close", n) \in Orders /\ Fact("close", n) \in Facts /\ n \in Numbers
    BY FactTypes DEF OrderKinds, CloseNumbers
  <2>2. quantity \in Nat
    BY Balances
  <2>3. DataOK'
    BY <1>5, <2>1, <2>2, PlaceTypes, WriteTypes DEF CloseSell, DataOK, TypeOK
  <2> QED BY <1>0, <1>5, <2>3, ContinuationTypes DEF CloseSell, ControlOK, TypeOK, Labels
<1>6. ASSUME NEW a \in 1 .. MaxAttempts, NEW q \in 1 .. MaxQty, NEW outcome \in Outcomes,
             RetrySend(a, q, outcome)
      PROVE  DataOK' /\ ControlOK'
  <2>1. /\ Fact("disposal", a) \in Orders /\ Fact("disposal", a) \in Facts
        /\ Fact("reserve", a) \in Facts /\ q \in Nat
    BY FactTypes, BoundsAssumption DEF OrderKinds, FactKinds
  <2>2. DataOK'
    BY <1>6, <2>1, PlaceTypes DEF RetrySend, DataOK, TypeOK
  <2>3. saved' \in [pending : BOOLEAN, protection : BOOLEAN]
    BY <1>6, <2>2 DEF RetrySend, Save, Raise, DataOK, TypeOK
  <2> QED BY <1>0, <1>6, <2>2, <2>3, ContinuationTypes
      DEF RetrySend, Done, ControlOK, TypeOK, Labels
<1> QED BY <1>1, <1>2, <1>3, <1>4, <1>5, <1>6

LEMMA NextFactsTypes ==
  ASSUME TypeOK, NEW facts \in NextFacts
  PROVE  facts \subseteq Facts /\ pc # "idle"
<1> USE FactTypes DEF FactKinds, OrderKinds
<1>1. CASE pc \in {"cancel_entry", "protect"}
  BY <1>1 DEF NextFacts, TypeOK
<1>2. CASE pc \in {"close_cancel", "finish_write"}
  BY <1>2, BoundsAssumption DEF NextFacts, Numbers
<1>3. CASE pc = "close_sell"
  BY <1>3 DEF NextFacts, CloseNumbers
<1>4. CASE pc = "retry_send"
  BY <1>4 DEF NextFacts
<1>5. CASE pc \notin {"cancel_entry", "protect", "close_cancel", "finish_write", "close_sell",
                     "retry_send"}
  BY <1>5 DEF NextFacts
<1> QED BY <1>1, <1>2, <1>3, <1>4, <1>5

LEMMA OtherStepTypes ==
  ASSUME TypeOK,
         \/ Close \/ HaltEntries \/ ContainExposure \/ FinishWrite
         \/ \E k \in seen .. Now : ReadFails(k)
         \/ Failure
  PROVE  TypeOK'
<1> SUFFICES DataOK' /\ ControlOK'
  BY TypeParts
<1> USE DEF venueVars, logVars, readVars, identityVars, flagVars
<1>0. pending' = pending => pending' \in BOOLEAN
  BY DEF TypeOK
<1>1. CASE Close
  <2>1. DataOK' /\ pending' = pending
    BY <1>1 DEF Close, DataOK, TypeOK
  <2>2. CASE terminal
    BY <1>1, <2>1, <2>2 DEF Close, ControlOK, TypeOK
  <2>3. CASE ~terminal
    <3>1. CallClose("host", flat_confirmed) /\ flat_confirmed \in BOOLEAN
      BY <1>1, <2>3 DEF Close, TypeOK
    <3> QED BY <1>0, <2>1, <3>1, ContinuationTypes
  <2> QED BY <2>2, <2>3
<1>2. CASE HaltEntries
  <2>1. saved' \in [pending : BOOLEAN, protection : BOOLEAN]
    BY <1>2 DEF HaltEntries, Save, TypeOK
  <2> QED BY <1>2, <2>1 DEF HaltEntries, DataOK, ControlOK, TypeOK
<1>3. CASE ContainExposure
  BY <1>3 DEF ContainExposure, DataOK, ControlOK, TypeOK
<1>4. CASE FinishWrite
  <2>1. Fact("finish", 0) \in Facts
    BY FactTypes, BoundsAssumption DEF FactKinds, Numbers
  <2>2. DataOK'
    BY <1>4, <2>1, WriteTypes DEF FinishWrite, DataOK, TypeOK
  <2>3. saved' \in [pending : BOOLEAN, protection : BOOLEAN]
    BY <1>4 DEF FinishWrite, Save, TypeOK
  <2> QED BY <1>4, <2>2, <2>3 DEF FinishWrite, Done, ControlOK, TypeOK, Labels
<1>5. ASSUME NEW k \in seen .. Now, ReadFails(k)
      PROVE  DataOK' /\ ControlOK'
  <2>1. k \in 0 .. Len(events) /\ seen' = k /\ logged' = k
    BY <1>5 DEF ReadFails, Consume, Now, TypeOK
  <2>2. outside_bracket' \in BOOLEAN
    BY <1>5 DEF ReadFails, Consume, OutsideBy
  <2>3. DataOK' /\ pending' = pending
    BY <1>5, <2>1, <2>2 DEF ReadFails, DataOK, TypeOK
  <2>4. Raise \/ CallClose("raise", flat_confirmed)
    BY <1>5 DEF ReadFails
  <2>5. flat_confirmed \in BOOLEAN
    BY DEF TypeOK
  <2> QED BY <1>0, <2>3, <2>4, <2>5, ContinuationTypes
<1>6. ASSUME NEW k \in seen .. Now, NEW j \in {k, k + 1}, RecordFails(k, j)
      PROVE  DataOK' /\ ControlOK'
  <2>1. /\ k \in 0 .. Len(events) /\ j \in 0 .. Len(events)
        /\ seen' = k /\ logged' = j
    BY <1>6 DEF RecordFails, Consume, Now, TypeOK
  <2>2. outside_bracket' \in BOOLEAN /\ persistence_failed' \in BOOLEAN
    BY <1>6 DEF RecordFails, Consume, OutsideBy
  <2>3. CompleteTrade(FlatNow(FALSE)) \subseteq Facts
    BY FactTypes DEF CompleteTrade, TypeOK, FactKinds
  <2>4. log' \in SUBSET Facts
    BY <1>6, <2>3 DEF RecordFails, TypeOK
  <2>5. DataOK' /\ pending' = pending
    BY <1>6, <2>1, <2>2, <2>4 DEF RecordFails, DataOK, TypeOK
  <2> QED BY <1>0, <1>6, <2>5, ContinuationTypes DEF RecordFails
<1>7. ASSUME NEW facts \in NextFacts, NEW f \in {{}, facts}, WriteFails(f)
      PROVE  DataOK' /\ ControlOK'
  <2>1. facts \subseteq Facts
    BY <1>7, NextFactsTypes
  <2>2. DataOK' /\ pending' = pending
    BY <1>7, <2>1 DEF WriteFails, DataOK, TypeOK
  <2> QED BY <1>0, <1>7, <2>2, ContinuationTypes DEF WriteFails
<1>8. ASSUME NEW committed \in BOOLEAN, SubmitWriteFails(committed)
      PROVE  DataOK' /\ ControlOK'
  <2>1. Fact("entry", entry_id + 1) \in Facts
    BY FactTypes DEF FactKinds, OrderKinds, TypeOK
  <2>2. log' \in SUBSET Facts /\ logStart' \in Nat
    BY <1>8, <2>1 DEF SubmitWriteFails, TypeOK
  <2>3. close_id' \in Numbers /\ baseline' \in Nat
    BY <1>8, BoundsAssumption DEF SubmitWriteFails, TypeOK, Numbers
  <2>4. DataOK' /\ pending' = pending
    BY <1>8, <2>2, <2>3 DEF SubmitWriteFails, DataOK, TypeOK
  <2> QED BY <1>0, <1>8, <2>4, ContinuationTypes DEF SubmitWriteFails
<1>9. CASE Restart
  <2>1. entry_id' \in 0 .. MaxCycles /\ close_id' \in Numbers
    BY <1>9 DEF Restart
  <2>2. /\ close_attempted' \in BOOLEAN /\ outside_bracket' \in BOOLEAN
        /\ pending' \in BOOLEAN /\ protection' \in BOOLEAN
    BY <1>9 DEF Restart, RestoredCancellation
  <2>3. DataOK'
    BY <1>9, <2>1, <2>2 DEF Restart, DataOK, TypeOK
  <2>4. saved' \in [pending : BOOLEAN, protection : BOOLEAN]
    BY <1>9, <2>2 DEF Restart, Save, TypeOK
  <2> QED BY <1>9, <2>2, <2>3, <2>4 DEF Restart, Halt, Done, ControlOK, Labels
<1> QED BY <1>1, <1>2, <1>3, <1>4, <1>5, <1>6, <1>7, <1>8, <1>9 DEF Failure

LEMMA TypeInit == Init => TypeOK
<1> SUFFICES ASSUME Init PROVE TypeOK
  OBVIOUS
<1>1. /\ st \in [Orders -> Statuses] /\ rem \in [Orders -> Nat] /\ grade \in Grades
      /\ calls \in [Facts -> 0 .. 2]
  BY DEF Init, Statuses, Grades
<1>2. events \in Seq(Execution) /\ Len(events) = 0
  BY DEF Init
<1>3. saved \in [pending : BOOLEAN, protection : BOOLEAN]
  BY DEF Init
<1>4. entry_id \in 0 .. MaxCycles /\ close_id \in Numbers
  BY BoundsAssumption DEF Init, Numbers
<1>5. ControlOK
  BY <1>3 DEF Init, ControlOK, Labels
<1>6. /\ logged \in 0 .. Len(events) /\ seen \in 0 .. Len(events)
      /\ logStart \in Nat /\ baseline \in Nat
  BY <1>2 DEF Init
<1>7. log \in SUBSET Facts /\ mem \in SUBSET Facts
  BY DEF Init
<1>8. /\ close_attempted \in BOOLEAN /\ pending \in BOOLEAN /\ outside_bracket \in BOOLEAN
      /\ restored \in BOOLEAN /\ persistence_failed \in BOOLEAN
  BY DEF Init
<1> QED BY <1>1, <1>2, <1>4, <1>5, <1>6, <1>7, <1>8, TypeParts DEF DataOK

LEMMA TypeStep ==
  ASSUME TypeOK, [Next]_vars
  PROVE  TypeOK'
<1>1. CASE Venue
  BY <1>1, VenueTypes
<1>2. CASE Resume
  BY <1>2, ReportStepTypes, CallStepTypes, OtherStepTypes DEF Resume
<1>3. CASE HostCall
  BY <1>3, ReportStepTypes, CallStepTypes, OtherStepTypes DEF HostCall
<1>4. CASE Failure
  BY <1>4, OtherStepTypes
<1>5. CASE UNCHANGED vars
  BY <1>5 DEF vars, venueVars, logVars, memVars, identityVars, flagVars, TypeOK
<1> QED BY <1>1, <1>2, <1>3, <1>4, <1>5 DEF Next

\* The variables stay in their types, and with it seen and logged within the
\* executions of the venue, whatever is lost, refused or restarted.
THEOREM TypeCorrect == Spec => []TypeOK
<1> QED BY TypeInit, TypeStep, PTL DEF Spec

-----------------------------------------------------------------------------
(***************************************************************************)
(* Inventory safety.                                                       *)
(***************************************************************************)
\* Evidence that leaves nothing unresolved and shows no order: none is live.
LEMMA NothingLive ==
  ASSUME TypeOK, Storage, Recorded, ~persistence_failed, NEW unk \in BOOLEAN,
         Reported(unk), ~(Production /\ unk), Open = {}
  PROVE  Live = {}
<1> SUFFICES ASSUME NEW o \in Orders, st[o] \in {"flying", "working", "triggered"}
             PROVE  FALSE
  BY DEF Live
<1>1. st[o] = "flying"
  BY DEF Open
<1>2. o \in mem
  BY <1>1 DEF Recorded, Storage
<1>3. CASE Production
  BY <1>1, <1>2, <1>3 DEF Reported, Unresolved, Settled
<1>4. CASE ~Production
  BY <1>1, <1>4 DEF Reported
<1> QED BY <1>3, <1>4

LEMMA VenueSafe ==
  ASSUME SafeInv, Venue
  PROVE  Storage' /\ Recorded' /\ ClearToPlace' /\ FlatIsFlat' /\ NoOversell'
<1> USE DEF engineVars, logVars, memVars, identityVars, flagVars
<1>1. PICK o \in Orders : \/ VenueArrive(o) \/ VenueEnd(o)
                          \/ \E q \in 1 .. MaxQty, note \in Notes : VenueFill(o, q, note)
  BY DEF Venue
<1>2. /\ o \in Live
      /\ UNCHANGED engineVars
      /\ \E s \in Statuses \ {"none"} : st' = [st EXCEPT ![o] = s]
  BY <1>1 DEF VenueArrive, VenueEnd, VenueFill, Live, Statuses
<1>3. Storage'
  BY <1>2 DEF SafeInv, Storage
<1>4. Recorded'
  BY <1>2 DEF SafeInv, Recorded, TypeOK, Live
<1>5. Live' \subseteq Live
  BY <1>2 DEF SafeInv, TypeOK, Live
<1>6. quantity' = quantity
  <2>1. events' = events => quantity' = quantity
    BY <1>2 DEF quantity, QtyAt
  <2>2. ASSUME NEW q \in 1 .. MaxQty, NEW note \in Notes, VenueFill(o, q, note)
        PROVE  quantity' = quantity
    <3>1. \A k \in 1 .. Len(events) : events'[k] = events[k]
      BY <2>2 DEF VenueFill, SafeInv, TypeOK
    <3> QED BY <1>2, <3>1 DEF quantity, QtyAt, SafeInv, TypeOK
  <2> QED BY <1>1, <2>1, <2>2 DEF VenueArrive, VenueEnd
<1>7. ClearToPlace' /\ FlatIsFlat'
  BY <1>2, <1>6 DEF SafeInv, ClearToPlace, Clear, FlatIsFlat
<1>8. NoOversell'
  <2>1. Live' \subseteq {o}
    BY <1>2, <1>5 DEF SafeInv, NoOversell
  <2>2. ASSUME o \in Live', o.kind # "entry" PROVE rem'[o] <= Base'
    <3>1. rem[o] <= Base /\ rem[o] \in Nat /\ Base \in Nat
      BY <1>2, <2>2, Balances DEF SafeInv, NoOversell, TypeOK
    <3>2. CASE VenueArrive(o)
      <4>1. Base' = Base
        BY <3>2 DEF VenueArrive, Base, QtyAt
      <4> QED BY <2>2, <3>1, <3>2, <4>1 DEF VenueArrive, TakenList, SafeInv, TypeOK
    <3>3. CASE VenueEnd(o)
      BY <3>1, <3>3 DEF VenueEnd, Base, QtyAt
    <3>4. ASSUME NEW q \in 1 .. MaxQty, NEW note \in Notes, VenueFill(o, q, note)
          PROVE  rem'[o] <= Base'
      <4>1. rem'[o] = rem[o] - q /\ q \in Nat
        BY <3>4, BoundsAssumption DEF VenueFill, SafeInv, TypeOK
      <4>2. Base' = Base - q
        BY <2>2, <3>4 DEF VenueFill, Base, QtyAt, SafeInv, TypeOK
      <4> QED BY <3>1, <4>1, <4>2
    <3> QED BY <1>1, <3>2, <3>3, <3>4
  <2> QED BY <2>1, <2>2 DEF NoOversell
<1> QED BY <1>3, <1>4, <1>7, <1>8

Safe == Storage /\ Recorded /\ ClearToPlace /\ FlatIsFlat /\ NoOversell

\* A report moves the ledger to the venue's present and changes nothing there.
LEMMA ReportCurrent ==
  ASSUME SafeInv, ~persistence_failed, NEW unk \in BOOLEAN, Report(unk)
  PROVE  /\ mem' = log' /\ ~persistence_failed' /\ log \subseteq log'
         /\ st' = st /\ rem' = rem /\ events' = events /\ Live' = Live
         /\ seen' = Len(events) /\ quantity' = QtyAt(Now) /\ Base' = QtyAt(Now)
         /\ Base = QtyAt(Now)
         /\ Open = {} /\ ~(Production /\ unk) => Live = {}
<1>1. /\ mem' = log' /\ ~persistence_failed' /\ log \subseteq log'
      /\ st' = st /\ rem' = rem /\ events' = events /\ seen' = Len(events)
  BY DEF SafeInv, Storage, Report, venueVars, Consume, Now
<1>2. Live' = Live
  BY <1>1 DEF Live
<1>3. quantity' = QtyAt(Now) /\ Base' = QtyAt(Now) /\ Base = QtyAt(Now)
  BY <1>1 DEF quantity, Base, QtyAt, Now
<1>4. Open = {} /\ ~(Production /\ unk) => Live = {}
  BY NothingLive DEF SafeInv, Report
<1> QED BY <1>1, <1>2, <1>3, <1>4

\* What the continuation of a report has to respect.
LEMMA ReportSafe ==
  ASSUME SafeInv, ~persistence_failed, NEW unk \in BOOLEAN, Report(unk),
         pc' \in {"protect", "close_sell", "retry_send"}
           => Open = {} /\ ~(Production /\ unk) /\ ~flat_confirmed',
         flat_confirmed' => FlatNow(unk),
         pc' \in {"retry_send", "finish_write"} => halted',
         pc' = "idle" /\ ~halted' /\ ready' /\ ~pending' /\ QtyAt(Now) = 0
           => Open = {} /\ ~(Production /\ unk)
  PROVE  Safe'
<1>1. /\ mem' = log' /\ ~persistence_failed' /\ log \subseteq log'
      /\ st' = st /\ rem' = rem /\ events' = events /\ Live' = Live
      /\ seen' = Len(events) /\ quantity' = QtyAt(Now) /\ Base' = QtyAt(Now)
      /\ Base = QtyAt(Now)
      /\ Open = {} /\ ~(Production /\ unk) => Live = {}
  BY ReportCurrent
<1>2. Storage' /\ Recorded'
  BY <1>1 DEF SafeInv, Storage, Recorded
<1>3. NoOversell'
  BY <1>1 DEF SafeInv, NoOversell
<1>4. FlatIsFlat'
  BY <1>1 DEF FlatIsFlat, FlatNow
<1>5. ClearToPlace'
  BY <1>1 DEF ClearToPlace, Clear
<1> QED BY <1>2, <1>3, <1>4, <1>5 DEF Safe

LEMMA ContinuationSafe ==
  ASSUME SafeInv, ~persistence_failed, NEW unk \in BOOLEAN, Report(unk)
  PROVE  /\ Raise => Safe'
         /\ \A r \in {"host", "poll", "raise"} : CallClose(r, FALSE) => Safe'
         /\ FlatNow(unk) /\ CloseReturn => Safe'
         /\ \A h \in BOOLEAN :
              /\ PollReturn(h, unk) /\ ~(Production /\ unk) /\ (QtyAt(Now) = 0 => Open = {})
                   => Safe'
              /\ PollDecide(h, unk) /\ ~(Production /\ unk) => Safe'
<1>1. Raise => Safe'
  BY ReportSafe DEF Raise, Halt, Done
<1>2. ASSUME NEW r \in {"host", "poll", "raise"}, CallClose(r, FALSE) PROVE Safe'
  BY <1>2, ReportSafe DEF CallClose, AfterFirstReport
<1>3. FlatNow(unk) /\ CloseReturn => Safe'
  BY ReportSafe DEF CloseReturn, Done
<1>4. ASSUME NEW h \in BOOLEAN, PollReturn(h, unk), ~(Production /\ unk),
             QtyAt(Now) = 0 => Open = {}
      PROVE  Safe'
  BY <1>4, ReportSafe DEF PollReturn, Done
<1>5. ASSUME NEW h \in BOOLEAN, PollDecide(h, unk), ~(Production /\ unk)
      PROVE  Safe'
  <2>1. CASE QtyAt(Now) = 0 /\ Open = {} /\ PollReturn(h, unk)
    BY <1>4, <1>5, <2>1
  <2>2. CASE ~(QtyAt(Now) = 0) /\ PollReturn(h \/ grade = "dust", unk)
    <3>1. (h \/ grade = "dust") \in BOOLEAN
      OBVIOUS
    <3> QED BY <1>4, <1>5, <2>2, <3>1
  <2>3. CASE Open = {} /\ flat_confirmed' = FALSE /\ pc' = "protect"
    BY <1>5, <2>3, ReportSafe
  <2>4. CASE Raise \/ CallClose("poll", FALSE) \/ CallClose("raise", FALSE)
    BY <1>1, <1>2, <2>4
  <2>5. QtyAt(Now) > 0 => ~(QtyAt(Now) = 0)
    OBVIOUS
  <2> QED BY <1>5, <2>1, <2>2, <2>3, <2>4, <2>5 DEF PollDecide
<1> QED BY <1>1, <1>2, <1>3, <1>4, <1>5

LEMMA ReportStepSafe ==
  ASSUME SafeInv,
         Poll \/ PollReport \/ ProtectReport \/ CloseStart \/ CloseReport \/ CloseConfirm
           \/ Observe \/ Reconcile \/ RetryClose
           \/ \E d \in {"closed_flat", "custody_transferred"} : Finish(d)
  PROVE  Safe'
<1>0. pc # "idle" => ~persistence_failed
  BY DEF SafeInv, Storage
<1>1. CASE Poll
  <2>1. PICK unk \in BOOLEAN : Poll!2!(unk)
    BY <1>1 DEF Poll
  <2>2. ~persistence_failed
    BY <1>1 DEF Poll, Supervised
  <2>3. Report(unk)
    BY <2>1
  <2>4. CASE Raise
    BY <2>2, <2>3, <2>4, ContinuationSafe
  <2>5. CASE /\ flat_confirmed' = FALSE
             /\ pc' = IF Fact("cancel_entry", entry_id) \in mem
                        THEN "poll_report" ELSE "cancel_entry"
    BY <2>2, <2>3, <2>5, ReportSafe
  <2>6. CASE EntryOpen /\ flat_confirmed' = FALSE /\ Done
    <3>1. pending'
      BY <2>3, <2>6 DEF Report
    <3> QED BY <2>2, <2>3, <2>6, <3>1, ReportSafe DEF Done
  <2>7. CASE ~(Production /\ unk) /\ PollDecide(HaltedBy(Now), unk)
    BY <2>2, <2>3, <2>7, ContinuationSafe, Verdicts
  <2> QED BY <2>1, <2>4, <2>5, <2>6, <2>7
<1>2. CASE PollReport
  BY <1>0, <1>2, ContinuationSafe, Verdicts DEF PollReport
<1>3. CASE ProtectReport
  <2>1. PICK unk \in BOOLEAN : ProtectReport!2!(unk)
    BY <1>3 DEF ProtectReport
  <2>2. ~persistence_failed /\ Report(unk)
    BY <1>0, <1>3, <2>1 DEF ProtectReport
  <2>3. CASE CallClose("raise", FALSE)
    BY <2>2, <2>3, ContinuationSafe
  <2>4. CASE ~(Production /\ unk) /\ FlatNow(unk) /\ PollReturn(HaltedBy(Now), unk)
    BY <2>2, <2>4, ContinuationSafe, Verdicts DEF FlatNow
  <2>5. CASE /\ ~(Production /\ unk) /\ ValidProtection
             /\ PollReturn(HaltedBy(Now) \/ grade = "dust", unk)
    <3>1. (HaltedBy(Now) \/ grade = "dust") \in BOOLEAN
      OBVIOUS
    <3>2. ~(QtyAt(Now) = 0)
      <4>1. rem[Fact("oco", entry_id)] \in Nat
        BY FactTypes DEF SafeInv, TypeOK, OrderKinds
      <4>2. Dust \in Nat
        BY DEF Dust
      <4> QED BY <2>5, <4>1, <4>2 DEF ValidProtection
    <3> QED BY <2>2, <2>5, <3>1, <3>2, ContinuationSafe
  <2> QED BY <2>1, <2>3, <2>4, <2>5
<1>4. CASE CloseStart
  <2>1. PICK unk \in BOOLEAN : CloseStart!2!(unk)
    BY <1>4 DEF CloseStart
  <2>2. ~persistence_failed /\ Report(unk)
    BY <1>0, <1>4, <2>1 DEF CloseStart
  <2>3. CASE Raise
    BY <2>2, <2>3, ContinuationSafe
  <2>4. CASE flat_confirmed' = FlatNow(unk) /\ pc' = AfterFirstReport
    BY <2>2, <2>4, ReportSafe DEF AfterFirstReport
  <2> QED BY <2>1, <2>3, <2>4
<1>5. CASE CloseReport
  <2>1. PICK unk \in BOOLEAN : CloseReport!2!(unk)
    BY <1>5 DEF CloseReport
  <2>2. ~persistence_failed /\ Report(unk)
    BY <1>0, <1>5, <2>1 DEF CloseReport
  <2>3. CASE Raise \/ (FlatNow(unk) /\ CloseReturn)
    BY <2>2, <2>3, ContinuationSafe
  <2>4. CASE /\ ~CancellationUnproved(unk) /\ flat_confirmed' = FALSE
             /\ pc' = IF close_id = 0 THEN "close_sell" ELSE "close_confirm"
    BY <2>2, <2>4, ReportSafe DEF CancellationUnproved
  <2> QED BY <2>1, <2>3, <2>4
<1>6. CASE CloseConfirm
  BY <1>0, <1>6, ContinuationSafe DEF CloseConfirm
<1>7. CASE Observe
  BY <1>7, ReportSafe DEF Observe, Observation, Done, FlatNow
<1>8. CASE Reconcile
  <2>1. PICK unk \in BOOLEAN : Reconcile!2!(unk)
    BY <1>8 DEF Reconcile
  <2>2. ~persistence_failed /\ Report(unk)
    BY <1>8, <2>1 DEF Reconcile
  <2>3. CASE Raise
    BY <2>2, <2>3, ContinuationSafe
  <2>4. CASE ~Raise
    <3>1. QtyAt(Now) = 0 => ~(QtyAt(Now) > 0)
      OBVIOUS
    <3> QED BY <2>1, <2>2, <2>4, <3>1, ReportSafe DEF Done
  <2> QED BY <2>3, <2>4
<1>9. CASE RetryClose
  <2>1. /\ ~persistence_failed /\ Report(FALSE) /\ flat_confirmed' = FlatNow(FALSE)
        /\ halted' /\ Open = {} /\ QtyAt(Now) > 0 /\ pc' = "retry_send"
    BY <1>9 DEF RetryClose, Observation
  <2>2. ~FlatNow(FALSE)
    BY <2>1 DEF FlatNow
  <2> QED BY <2>1, <2>2, ReportSafe
<1>10. ASSUME NEW d \in {"closed_flat", "custody_transferred"}, Finish(d)
       PROVE  Safe'
  BY <1>10, ReportSafe DEF Finish, Observation
<1> QED BY <1>1, <1>2, <1>3, <1>4, <1>5, <1>6, <1>7, <1>8, <1>9, <1>10

\* A step that sends nothing new: orders may end, the archive may grow, and
\* the operation does not reach a point from which an order is placed.
LEMMA QuietSafe ==
  ASSUME SafeInv, events' = events, rem' = rem, Live' \subseteq Live, log \subseteq log',
         \A o \in Orders : st'[o] # "none" => st[o] # "none",
         Storage',
         pc' \notin {"protect", "close_sell", "retry_send", "finish_write"},
         pc' = "idle" => halted',
         flat_confirmed' => flat_confirmed /\ seen' \in seen .. Len(events)
  PROVE  Safe'
<1>1. Recorded'
  BY DEF SafeInv, Recorded
<1>2. Base' = Base
  BY DEF Base, QtyAt
<1>3. NoOversell'
  BY <1>2 DEF SafeInv, NoOversell
<1>4. FlatIsFlat'
  <2>1. seen \in Nat /\ Len(events) \in Nat
    BY DEF SafeInv, TypeOK
  <2> SUFFICES ASSUME flat_confirmed' PROVE Base' = 0 /\ Live' = {} /\ seen' = Len(events')
    BY DEF FlatIsFlat
  <2>2. Base = 0 /\ Live = {} /\ seen = Len(events)
    BY DEF SafeInv, FlatIsFlat
  <2>3. seen' = Len(events)
    <3>1. seen' \in Len(events) .. Len(events)
      BY <2>2
    <3> QED BY <2>1, <3>1
  <2> QED BY <1>2, <2>2, <2>3
<1>5. ClearToPlace'
  BY DEF ClearToPlace
<1> QED BY <1>1, <1>3, <1>4, <1>5 DEF Safe

\* A step that sends one order, when nothing is live and the ledger is current.
LEMMA PlaceSafe ==
  ASSUME SafeInv, Clear, NEW o \in Orders, NEW s \in Statuses,
         st' = [st EXCEPT ![o] = s], events' = events, o \in log', log \subseteq log',
         o.kind # "entry" => rem'[o] <= quantity,
         Storage', ~flat_confirmed',
         pc' \notin {"protect", "close_sell", "retry_send", "finish_write"},
         pc' = "idle" => halted'
  PROVE  Safe'
<1>1. Recorded'
  BY DEF SafeInv, Recorded, TypeOK
<1>2. Base' = quantity
  BY DEF Clear, Base, quantity, QtyAt
<1>3. Live' \subseteq {o}
  <2>1. \A p \in Orders : p # o => st'[p] = st[p]
    BY DEF SafeInv, TypeOK
  <2> QED BY <2>1 DEF Clear, Live
<1>4. NoOversell'
  BY <1>2, <1>3 DEF NoOversell
<1> QED BY <1>1, <1>4 DEF Safe, FlatIsFlat, ClearToPlace

LEMMA CallStepSafe ==
  ASSUME SafeInv,
         \/ \E q \in 1 .. MaxQty, outcome \in Outcomes : Submit(q, outcome)
         \/ \E cancelled, raised \in BOOLEAN : CancelEntry(cancelled, raised)
         \/ \E outcome \in Outcomes : Protect(outcome)
         \/ \E gone \in SUBSET Open, raised \in BOOLEAN : CloseCancel(gone, raised)
         \/ \E n \in CloseNumbers, outcome \in Outcomes : CloseSell(n, outcome)
         \/ \E a \in 1 .. MaxAttempts, q \in 1 .. MaxQty, outcome \in Outcomes :
              RetrySend(a, q, outcome)
  PROVE  Safe'
<1> USE DEF flagVars
<1>0. pc # "idle" => ~persistence_failed /\ mem = log
  BY DEF SafeInv, Storage
<1>1. ASSUME NEW o \in Orders, NEW outcome \in Outcomes, Sent(o, outcome)
      PROVE  /\ events' = events
             /\ \E s \in Statuses : st' = [st EXCEPT ![o] = s]
  BY <1>1 DEF Sent, Outcomes, Statuses
<1>2. ASSUME NEW q \in 1 .. MaxQty, NEW outcome \in Outcomes, Submit(q, outcome)
      PROVE  Safe'
  <2> DEFINE entry == Fact("entry", entry_id + 1)
  <2>1. entry \in Orders /\ entry.kind = "entry"
    BY FactTypes DEF OrderKinds, SafeInv, TypeOK, Fact
  <2>2. ~persistence_failed /\ mem = log /\ Clear
    BY <1>2 DEF Submit, CanSubmit, SafeInv, Storage, ClearToPlace
  <2>3. entry \in log' /\ log \subseteq log' /\ mem' = log' /\ ~persistence_failed'
    BY <1>2, <2>2 DEF Submit, Write
  <2>4. ~flat_confirmed' /\ pc' \in {"idle", "poll"} /\ (pc' = "idle" => halted')
    BY <1>2 DEF Submit, Halt, Done
  <2>5. Sent(entry, outcome)
    BY <1>2 DEF Submit, Place
  <2>6. Storage'
    BY <2>3 DEF Storage
  <2> HIDE DEF entry
  <2> QED BY <1>1, <2>1, <2>2, <2>3, <2>4, <2>5, <2>6, PlaceSafe
<1>3. ASSUME NEW cancelled \in BOOLEAN, NEW raised \in BOOLEAN, CancelEntry(cancelled, raised)
      PROVE  Safe'
  <2>1. st' \in {st, [st EXCEPT ![Fact("entry", entry_id)] = "done"]}
        /\ (st' # st => Fact("entry", entry_id) \in Open)
    BY <1>3 DEF CancelEntry
  <2>2. Live' \subseteq Live /\ \A o \in Orders : st'[o] # "none" => st[o] # "none"
    BY <2>1 DEF Live, Open, SafeInv, TypeOK
  <2>3. mem' = log' /\ log \subseteq log' /\ ~persistence_failed' /\ seen' = seen
    BY <1>0, <1>3 DEF CancelEntry, Write
  <2>4. /\ pc' \in {"idle", "poll_report"} /\ (pc' = "idle" => halted')
        /\ (flat_confirmed' => flat_confirmed)
    BY <1>3 DEF CancelEntry, Raise, Halt, Done
  <2>5. Storage'
    BY <2>3 DEF Storage
  <2>6. seen' \in seen .. Len(events)
    BY <2>3 DEF SafeInv, TypeOK
  <2> QED BY <1>3, <2>2, <2>3, <2>4, <2>5, <2>6, QuietSafe DEF CancelEntry
<1>4. ASSUME NEW outcome \in Outcomes, Protect(outcome)
      PROVE  Safe'
  <2> DEFINE list == Fact("oco", entry_id)
  <2>1. list \in Orders /\ quantity \in Nat
    BY FactTypes, Balances DEF OrderKinds, SafeInv, TypeOK
  <2>2. ~persistence_failed /\ mem = log /\ Clear /\ ~flat_confirmed
    BY <1>0, <1>4 DEF Protect, SafeInv, ClearToPlace
  <2>3. list \in log' /\ log \subseteq log' /\ mem' = log' /\ ~persistence_failed'
    BY <1>4, <2>2 DEF Protect, Write
  <2>4. ~flat_confirmed' /\ pc' \in {"protect_report", "close", "close_cancel", "close_report"}
    BY <1>4, <2>2 DEF Protect, CallClose, AfterFirstReport
  <2>5. Sent(list, outcome)
    BY <1>4 DEF Protect
  <2>6. rem'[list] <= quantity
    BY <1>4, <2>1 DEF Protect, TakenList, SafeInv, TypeOK
  <2>7. Storage'
    BY <2>3 DEF Storage
  <2> HIDE DEF list
  <2> QED BY <1>1, <2>1, <2>2, <2>3, <2>4, <2>5, <2>6, <2>7, PlaceSafe
<1>5. ASSUME NEW gone \in SUBSET Open, NEW raised \in BOOLEAN, CloseCancel(gone, raised)
      PROVE  Safe'
  <2>1. Live' \subseteq Live /\ \A o \in Orders : st'[o] # "none" => st[o] # "none"
    BY <1>5 DEF CloseCancel, Live, Open, SafeInv, TypeOK
  <2>2. mem' = log' /\ log \subseteq log' /\ ~persistence_failed' /\ seen' = seen
    BY <1>0, <1>5 DEF CloseCancel, Write
  <2>3. /\ pc' \in {"idle", "close_report"} /\ (pc' = "idle" => halted')
        /\ (flat_confirmed' => flat_confirmed)
    BY <1>5 DEF CloseCancel, Raise, Halt, Done
  <2>4. Storage'
    BY <2>2 DEF Storage
  <2>5. seen' \in seen .. Len(events)
    BY <2>2 DEF SafeInv, TypeOK
  <2> QED BY <1>5, <2>1, <2>2, <2>3, <2>4, <2>5, QuietSafe DEF CloseCancel
<1>6. ASSUME NEW n \in CloseNumbers, NEW outcome \in Outcomes, CloseSell(n, outcome)
      PROVE  Safe'
  <2> DEFINE sell == Fact("close", n)
  <2>1. sell \in Orders /\ quantity \in Nat
    BY FactTypes, Balances DEF OrderKinds, CloseNumbers, SafeInv
  <2>2. ~persistence_failed /\ mem = log /\ Clear /\ ~flat_confirmed
    BY <1>0, <1>6 DEF CloseSell, SafeInv, ClearToPlace
  <2>3. sell \in log' /\ log \subseteq log' /\ mem' = log' /\ ~persistence_failed'
    BY <1>6, <2>2 DEF CloseSell, Write
  <2>4. ~flat_confirmed' /\ pc' \in {"idle", "close_confirm"} /\ (pc' = "idle" => halted')
    BY <1>6, <2>2 DEF CloseSell, Raise, Halt, Done
  <2>5. Sent(sell, outcome)
    BY <1>6 DEF CloseSell, Place
  <2>6. rem'[sell] <= quantity
    BY <1>6, <2>1 DEF CloseSell, Place, SafeInv, TypeOK
  <2>7. Storage'
    BY <2>3 DEF Storage
  <2> HIDE DEF sell
  <2> QED BY <1>1, <2>1, <2>2, <2>3, <2>4, <2>5, <2>6, <2>7, PlaceSafe
<1>7. ASSUME NEW a \in 1 .. MaxAttempts, NEW q \in 1 .. MaxQty, NEW outcome \in Outcomes,
             RetrySend(a, q, outcome)
      PROVE  Safe'
  <2> DEFINE sell == Fact("disposal", a)
  <2>1. sell \in Orders
    BY FactTypes DEF OrderKinds
  <2>2. ~persistence_failed /\ mem = log /\ Clear /\ ~flat_confirmed /\ halted
    BY <1>0, <1>7 DEF RetrySend, SafeInv, ClearToPlace
  <2>3. sell \in log' /\ log \subseteq log' /\ mem' = log' /\ ~persistence_failed'
    BY <1>7, <2>2 DEF RetrySend
  <2>4. ~flat_confirmed' /\ pc' = "idle" /\ halted'
    <3>1. Raise \/ (Done /\ UNCHANGED <<flagVars, protection>>)
      BY <1>7 DEF RetrySend
    <3>2. CASE Raise
      BY <3>2 DEF Raise, Halt, Done
    <3>3. CASE Done /\ UNCHANGED <<flagVars, protection>>
      <4>1. UNCHANGED <<halted, flat_confirmed>>
        BY <3>3
      <4> QED BY <2>2, <3>3, <4>1 DEF Done
    <3> QED BY <3>1, <3>2, <3>3
  <2>5. Sent(sell, outcome)
    BY <1>7 DEF RetrySend, Place
  <2>6. rem'[sell] <= quantity
    BY <1>7, <2>1 DEF RetrySend, Place, SafeInv, TypeOK
  <2>7. Storage'
    BY <2>3 DEF Storage
  <2> HIDE DEF sell
  <2> QED BY <1>1, <2>1, <2>2, <2>3, <2>4, <2>5, <2>6, <2>7, PlaceSafe
<1> QED BY <1>2, <1>3, <1>4, <1>5, <1>6, <1>7

LEMMA OtherStepSafe ==
  ASSUME SafeInv,
         \/ Close \/ HaltEntries \/ ContainExposure \/ FinishWrite
         \/ \E k \in seen .. Now : ReadFails(k)
         \/ Failure
  PROVE  Safe'
<1> USE DEF venueVars, logVars, readVars, identityVars, flagVars
<1>1. ASSUME st' = st PROVE Live' = Live
  BY <1>1 DEF Live
<1>2. ASSUME UNCHANGED <<st, rem, events>>, log \subseteq log', Storage',
             pc' \in {"idle", "close", "close_cancel", "close_report"},
             pc' = "idle" => halted',
             flat_confirmed' => flat_confirmed /\ seen' \in seen .. Len(events)
      PROVE  Safe'
  BY <1>1, <1>2, QuietSafe
<1>3. seen \in Nat /\ Len(events) \in Nat /\ seen <= Len(events)
  BY DEF SafeInv, TypeOK
<1>4. CASE Close
  <2>1. /\ UNCHANGED <<st, rem, events>> /\ log \subseteq log' /\ seen' = seen
        /\ (flat_confirmed' => flat_confirmed)
        /\ pc' \in {"idle", "close", "close_cancel", "close_report"} /\ halted'
    BY <1>4 DEF Close, CallClose, AfterFirstReport
  <2>2. Storage'
    BY <1>4 DEF Close, SafeInv, Storage
  <2> QED BY <1>2, <1>3, <2>1, <2>2
<1>5. CASE HaltEntries \/ ContainExposure
  <2>1. /\ UNCHANGED <<st, rem, events, log, seen, flat_confirmed, pc>> /\ halted' /\ pc = "idle"
        /\ UNCHANGED <<mem, persistence_failed>>
    BY <1>5 DEF HaltEntries, ContainExposure
  <2>2. Storage'
    BY <2>1 DEF SafeInv, Storage
  <2> QED BY <1>2, <1>3, <2>1, <2>2
<1>6. CASE FinishWrite
  <2>1. /\ UNCHANGED <<st, rem, events, seen, flat_confirmed, persistence_failed>>
        /\ log \subseteq log' /\ halted' /\ pc' = "idle"
    BY <1>6 DEF FinishWrite, Write, Done, SafeInv, ClearToPlace
  <2>2. Storage'
    BY <1>6, <2>1 DEF FinishWrite, Write, SafeInv, Storage
  <2> QED BY <1>2, <1>3, <2>1, <2>2
<1>7. ASSUME NEW k \in seen .. Now, ReadFails(k)
      PROVE  Safe'
  <2>1. seen' \in seen .. Len(events)
    BY <1>3, <1>7 DEF ReadFails, Consume, Now
  <2>2. UNCHANGED <<st, rem, events, log, mem, persistence_failed>> /\ ~persistence_failed
    BY <1>7 DEF ReadFails
  <2>3. /\ halted' /\ (flat_confirmed' => flat_confirmed)
        /\ pc' \in {"idle", "close", "close_cancel", "close_report"}
    BY <1>7 DEF ReadFails, Raise, Halt, Done, CallClose, AfterFirstReport
  <2>4. Storage'
    BY <2>2 DEF SafeInv, Storage
  <2> QED BY <1>2, <2>1, <2>2, <2>3, <2>4
<1>8. ASSUME UNCHANGED <<st, rem, events>>, log \subseteq log', Halt, Done,
             persistence_failed' \/ mem' = log'
      PROVE  Safe'
  BY <1>2, <1>8 DEF Halt, Done, Storage
<1>9. CASE Failure
  <2>1. ASSUME NEW k \in seen .. Now, NEW j \in {k, k + 1}, RecordFails(k, j)
        PROVE  Safe'
    BY <1>8, <2>1 DEF RecordFails, Raise
  <2>2. ASSUME NEW f, WriteFails(f) PROVE Safe'
    BY <1>8, <2>2 DEF WriteFails, Raise
  <2>3. ASSUME NEW committed \in BOOLEAN, SubmitWriteFails(committed) PROVE Safe'
    BY <1>8, <2>3 DEF SubmitWriteFails, Raise
  <2>4. CASE Restart
    BY <1>8, <2>4 DEF Restart
  <2> QED BY <1>9, <2>1, <2>2, <2>3, <2>4 DEF Failure
<1> QED BY <1>4, <1>5, <1>6, <1>7, <1>9

LEMMA SafeStep ==
  ASSUME SafeInv, [Next]_vars
  PROVE  SafeInv'
<1> SUFFICES Safe'
  BY TypeStep DEF SafeInv, Safe
<1>1. CASE Venue
  BY <1>1, VenueSafe DEF Safe
<1>2. CASE Resume
  BY <1>2, ReportStepSafe, CallStepSafe, OtherStepSafe DEF Resume
<1>3. CASE HostCall
  BY <1>3, ReportStepSafe, CallStepSafe, OtherStepSafe DEF HostCall
<1>4. CASE Failure
  BY <1>4, OtherStepSafe
<1>5. CASE UNCHANGED vars
  <2>1. UNCHANGED <<st, rem, events, log, mem, seen, pending, ready, halted, flat_confirmed,
                    persistence_failed, pc>>
    BY <1>5 DEF vars, venueVars, logVars, memVars, flagVars
  <2> QED BY <2>1 DEF Safe, SafeInv, Storage, Recorded, ClearToPlace, Clear, FlatIsFlat, NoOversell,
                      Live, Base, quantity, QtyAt
<1> QED BY <1>1, <1>2, <1>3, <1>4, <1>5 DEF Next

LEMMA SafeInvariant == Spec => []SafeInv
<1>1. Init => SafeInv
  <2> SUFFICES ASSUME Init PROVE SafeInv
    OBVIOUS
  <2>1. Live = {} /\ Len(events) = 0
    BY DEF Init, Live
  <2>2. Storage /\ Recorded
    BY DEF Init, Storage, Recorded
  <2>3. ClearToPlace /\ FlatIsFlat /\ NoOversell
    BY <2>1 DEF Init, ClearToPlace, Clear, FlatIsFlat, NoOversell
  <2> QED BY <2>2, <2>3, TypeInit DEF SafeInv
<1> QED BY <1>1, SafeStep, PTL DEF Spec

\* The mutating broker calls are the six steps that count one.
LEMMA CallsChange ==
  ASSUME [Next]_vars, calls' # calls
  PROVE  \/ \E q \in 1 .. MaxQty, outcome \in Outcomes : Submit(q, outcome)
         \/ \E cancelled, raised \in BOOLEAN : CancelEntry(cancelled, raised)
         \/ \E outcome \in Outcomes : Protect(outcome)
         \/ \E gone \in SUBSET Open, raised \in BOOLEAN : CloseCancel(gone, raised)
         \/ \E n \in CloseNumbers, outcome \in Outcomes : CloseSell(n, outcome)
         \/ \E a \in 1 .. MaxAttempts, q \in 1 .. MaxQty, outcome \in Outcomes :
              RetrySend(a, q, outcome)
<1> USE DEF venueVars
<1>1. ~Venue
  BY DEF Venue, VenueArrive, VenueEnd, VenueFill, engineVars
<1>2. ~(\E unk \in BOOLEAN : Report(unk))
  BY DEF Report
<1>3. ~(Poll \/ PollReport \/ ProtectReport \/ CloseStart \/ CloseReport \/ CloseConfirm
        \/ Observe \/ Reconcile \/ RetryClose
        \/ \E d \in {"closed_flat", "custody_transferred"} : Finish(d))
  BY <1>2 DEF Poll, PollReport, ProtectReport, CloseStart, CloseReport, CloseConfirm,
              Observe, Reconcile, RetryClose, Finish, Observation
<1>4. ~(Close \/ HaltEntries \/ ContainExposure \/ FinishWrite)
  BY DEF Close, HaltEntries, ContainExposure, FinishWrite
<1>5. ~(\E k \in seen .. Now : ReadFails(k))
  BY DEF ReadFails, readVars
<1>6. ~Failure
  BY DEF Failure, RecordFails, readVars, WriteFails, SubmitWriteFails, Restart
<1>7. ~UNCHANGED vars
  BY DEF vars
<1> QED BY <1>1, <1>3, <1>4, <1>5, <1>6, <1>7 DEF Next, Resume, HostCall

\* Whatever the venue fills, loses or delays, and wherever the engine stops and
\* is restored, at most one order of the session is live, and a SELL among them
\* never exceeds the base held.
THEOREM InventorySafe == Spec => []NoOversell
<1>1. SafeInv => NoOversell
  BY DEF SafeInv
<1> QED BY <1>1, SafeInvariant, PTL

\* A position confirmed flat is flat at the venue: no base, no live order and
\* no execution the ledger has not applied.
THEOREM FlatConfirmedSound == Spec => []FlatIsFlat
<1>1. SafeInv => FlatIsFlat
  BY DEF SafeInv
<1> QED BY <1>1, SafeInvariant, PTL

\* An entry leaves the engine only from a flat, settled venue.
THEOREM EntriesFromFlat == Spec => EntryFromFlat
<1> DEFINE A == \A c \in Numbers : calls'[Fact("entry", c)] > calls[Fact("entry", c)]
                  => Base = 0 /\ Live = {} /\ seen = Len(events)
<1>1. ASSUME SafeInv, [Next]_vars PROVE [A]_vars
  <2>0. /\ \A c \in Numbers : Fact("entry", c) \in Facts /\ calls[Fact("entry", c)] \in 0 .. 2
        /\ \A f \in Facts, c \in Numbers : f.kind # "entry" /\ calls' = Counted(f)
             => calls'[Fact("entry", c)] = calls[Fact("entry", c)]
    <3>1. \A c \in Numbers : Fact("entry", c) \in Facts /\ Fact("entry", c).kind = "entry"
      BY FactTypes DEF FactKinds, OrderKinds, Fact
    <3>2. calls \in [Facts -> 0 .. 2]
      BY <1>1 DEF SafeInv, TypeOK
    <3> QED BY <3>1, <3>2 DEF Counted
  <2>1. ASSUME calls' = calls PROVE A
    BY <2>0, <2>1
  <2>2. ASSUME NEW f \in Facts, f.kind # "entry", calls' = Counted(f) PROVE A
    BY <2>0, <2>2
  <2>3. ASSUME NEW q \in 1 .. MaxQty, NEW outcome \in Outcomes, Submit(q, outcome) PROVE A
    BY <1>1, <2>3 DEF Submit, CanSubmit, SafeInv, ClearToPlace, Clear, Base, quantity
  <2>4. ASSUME \/ \E cancelled, raised \in BOOLEAN : CancelEntry(cancelled, raised)
               \/ \E outcome \in Outcomes : Protect(outcome)
               \/ \E gone \in SUBSET Open, raised \in BOOLEAN : CloseCancel(gone, raised)
               \/ \E n \in CloseNumbers, outcome \in Outcomes : CloseSell(n, outcome)
               \/ \E a \in 1 .. MaxAttempts, q \in 1 .. MaxQty, outcome \in Outcomes :
                    RetrySend(a, q, outcome)
        PROVE  A
    <3>1. \A n \in Numbers : /\ \A k \in FactKinds : Fact(k, n) \in Facts
                             /\ \A k \in FactKinds : Fact(k, n).kind = k
      BY FactTypes DEF Fact
    <3>2. entry_id \in Numbers /\ 0 \in Numbers /\ CloseNumbers \subseteq Numbers
          /\ 1 .. MaxAttempts \subseteq Numbers
      BY <1>1, FactTypes, BoundsAssumption DEF SafeInv, TypeOK, CloseNumbers, Numbers
    <3>3. \E f \in Facts : f.kind # "entry" /\ calls' = Counted(f)
      BY <2>4, <3>1, <3>2 DEF CancelEntry, Protect, CloseCancel, CloseSell, RetrySend, Place, Sent,
                              FactKinds, OrderKinds
    <3> QED BY <2>2, <3>3
  <2>5. CASE calls' = calls
    BY <2>1, <2>5
  <2>6. CASE calls' # calls
    <3>1. CASE \E q \in 1 .. MaxQty, outcome \in Outcomes : Submit(q, outcome)
      BY <2>3, <3>1
    <3>2. CASE ~(\E q \in 1 .. MaxQty, outcome \in Outcomes : Submit(q, outcome))
      <4>1. A
        BY <1>1, <2>4, <2>6, <3>2, CallsChange
      <4> QED BY <4>1
    <3> QED BY <3>1, <3>2
  <2> QED BY <2>5, <2>6
<1> QED BY <1>1, SafeInvariant, PTL DEF EntryFromFlat, Spec

-----------------------------------------------------------------------------
(***************************************************************************)
(* The inductive invariant, on top of SafeInv.                             *)
(***************************************************************************)
\* What the archive says of the identities in memory.
Identities ==
  /\ ~persistence_failed =>
       /\ \A n \in Numbers : Fact("entry", n) \in log => n <= entry_id
       /\ \A n \in Numbers : Fact("close", n) \in log => close_id # 0
       /\ Fact("cancel_all", 0) \in log => close_attempted
  /\ \A n \in Numbers : Fact("close", n) \in log => n # 0 /\ halted
  /\ Fact("cancel_all", 0) \in log => halted
  /\ \A n \in Numbers : Fact("disposal", n) \in log => Fact("reserve", n) \in log

\* The record that the next step makes is a new one.
Fresh ==
  /\ pc = "cancel_entry" => Fact("cancel_entry", entry_id) \notin log
  /\ pc = "protect" => Fact("oco", entry_id) \notin log
  /\ pc = "close_cancel" => ~close_attempted
  /\ pc = "close_sell" => close_id = 0
  /\ pc \in {"cancel_entry", "close_cancel", "close_sell", "close", "close_report",
             "close_confirm", "retry_send", "finish_write"} => halted

OneCloseRecorded ==
  \A m, n \in Numbers : Fact("close", m) \in log /\ Fact("close", n) \in log => m = n

\* Custody ends every operation.
Custody ==
  \A n \in Numbers : Fact("finish", n) \in log => halted /\ pc = "idle"

OnceInv == Identities /\ Fresh /\ OneCloseRecorded /\ Custody /\ RecordedOnce

-----------------------------------------------------------------------------
(***************************************************************************)
(* Halting.                                                                *)
(***************************************************************************)
LEMMA HaltedStays ==
  ASSUME TypeOK, [Next]_vars, halted
  PROVE  halted'
<1> USE DEF flagVars
<1>0. HaltedBy(Now)
  BY DEF HaltedBy
<1>1. /\ Raise => halted'
      /\ \A r, f : CallClose(r, f) => halted'
      /\ CloseReturn => halted'
      /\ \A h, u : h /\ PollReturn(h, u) => halted'
      /\ \A h, u : h /\ PollDecide(h, u) => halted'
  <2>1. Raise => halted'
    BY DEF Raise, Halt
  <2>2. \A r, f : CallClose(r, f) => halted'
    BY DEF CallClose
  <2>3. CloseReturn => halted'
    BY DEF CloseReturn
  <2>4. ASSUME NEW h, NEW u, h, PollReturn(h, u) PROVE halted'
    <3>1. halted' = h
      BY <2>4 DEF PollReturn
    <3> QED BY <2>4, <3>1
  <2>5. ASSUME NEW h, NEW u, h, PollDecide(h, u) PROVE halted'
    <3>1. \/ Raise \/ (\E r, f : CallClose(r, f)) \/ PollReturn(h, u)
          \/ PollReturn(h \/ grade = "dust", u) \/ halted' = h
      BY <2>5 DEF PollDecide
    <3>2. CASE halted' = h
      BY <2>5, <3>2
    <3> QED BY <2>1, <2>2, <2>4, <2>5, <3>1, <3>2
  <2> QED BY <2>1, <2>2, <2>3, <2>4, <2>5
<1>2. CASE Venue
  BY <1>2 DEF Venue, VenueArrive, VenueEnd, VenueFill, engineVars, memVars
<1>3. CASE Poll \/ PollReport \/ ProtectReport \/ CloseStart \/ CloseReport \/ CloseConfirm
  BY <1>0, <1>1, <1>3 DEF Poll, PollReport, ProtectReport, CloseStart, CloseReport, CloseConfirm
<1>4. CASE Observe \/ Reconcile \/ RetryClose
             \/ \E d \in {"closed_flat", "custody_transferred"} : Finish(d)
  BY <1>0, <1>1, <1>4 DEF Observe, Reconcile, RetryClose, Finish, Observation
<1>5. CASE \/ \E q \in 1 .. MaxQty, outcome \in Outcomes : Submit(q, outcome)
           \/ \E cancelled, raised \in BOOLEAN : CancelEntry(cancelled, raised)
           \/ \E outcome \in Outcomes : Protect(outcome)
           \/ \E gone \in SUBSET Open, raised \in BOOLEAN : CloseCancel(gone, raised)
           \/ \E n \in CloseNumbers, outcome \in Outcomes : CloseSell(n, outcome)
           \/ \E a \in 1 .. MaxAttempts, q \in 1 .. MaxQty, outcome \in Outcomes :
                RetrySend(a, q, outcome)
  BY <1>1, <1>5 DEF Submit, CanSubmit, CancelEntry, Protect, CloseCancel, CloseSell, RetrySend
<1>6. CASE Close \/ HaltEntries \/ ContainExposure \/ FinishWrite
             \/ \E k \in seen .. Now : ReadFails(k)
  BY <1>1, <1>6 DEF Close, HaltEntries, ContainExposure, FinishWrite, ReadFails
<1>7. CASE Failure
  BY <1>1, <1>7 DEF Failure, RecordFails, WriteFails, SubmitWriteFails, Restart, Halt
<1>8. CASE UNCHANGED vars
  BY <1>8 DEF vars, memVars
<1> QED BY <1>2, <1>3, <1>4, <1>5, <1>6, <1>7, <1>8 DEF Next, Resume, HostCall

\* Nothing re-admits entries: no observation, reconciliation, close or restart.
THEOREM HaltedForGood == Spec => HaltIsFinal
<1>1. TypeOK /\ [Next]_vars => [halted => halted']_vars
  BY HaltedStays
<1> QED BY <1>1, TypeCorrect, PTL DEF HaltIsFinal, Spec

-----------------------------------------------------------------------------
(***************************************************************************)
(* Recording.                                                              *)
(***************************************************************************)
\* A step that makes no call and records at most the end of a trade.
LEMMA SameFacts ==
  ASSUME SafeInv, OnceInv, calls' = calls, log \subseteq log',
         \A f \in Facts : f \in log' => f \in log \/ f.kind = "trade",
         UNCHANGED <<entry_id, close_id, close_attempted, persistence_failed>>,
         halted => halted',
         Fresh',
         \A n \in Numbers : Fact("finish", n) \in log => pc' = "idle"
  PROVE  OnceInv'
<1>1. \A k \in FactKinds \ {"trade"}, n \in Numbers : Fact(k, n) \in log' <=> Fact(k, n) \in log
  BY FactTypes DEF Fact
<1>2. 0 \in Numbers
  BY BoundsAssumption DEF Numbers
<1>3. Identities'
  BY <1>1, <1>2 DEF OnceInv, Identities, FactKinds, OrderKinds
<1>4. OneCloseRecorded' /\ Custody'
  BY <1>1 DEF OnceInv, OneCloseRecorded, Custody, FactKinds, OrderKinds
<1>5. RecordedOnce'
  BY DEF OnceInv, RecordedOnce
<1> QED BY <1>3, <1>4, <1>5 DEF OnceInv

LEMMA ReportFacts ==
  ASSUME NEW unk \in BOOLEAN, Report(unk)
  PROVE  /\ calls' = calls /\ log \subseteq log'
         /\ \A f : f \in log' => f \in log \/ f.kind = "trade"
         /\ UNCHANGED <<entry_id, close_id, close_attempted, persistence_failed>>
BY DEF Report, CompleteTrade, Fact, venueVars, identityVars

\* The step that follows a report finds its record new.
LEMMA ReportFresh ==
  ASSUME SafeInv, OnceInv, ~persistence_failed, NEW unk \in BOOLEAN, Report(unk),
         pc' = "cancel_entry" => Fact("cancel_entry", entry_id) \notin mem,
         pc' = "protect" => Fact("oco", entry_id) \notin mem,
         pc' = "close_cancel" => ~close_attempted,
         pc' = "close_sell" => close_id = 0,
         pc' \in {"cancel_entry", "close_cancel", "close_sell", "close", "close_report",
                  "close_confirm", "retry_send", "finish_write"} => halted'
  PROVE  Fresh'
<1>1. mem = log
  BY DEF SafeInv, Storage
<1>2. /\ \A f : f \in log' => f \in log \/ f.kind = "trade"
      /\ UNCHANGED <<entry_id, close_id, close_attempted>>
  BY ReportFacts
<1>3. \A k, n : Fact(k, n).kind = k
  BY DEF Fact
<1>4. /\ Fact("cancel_entry", entry_id) \in log' => Fact("cancel_entry", entry_id) \in log
      /\ Fact("oco", entry_id) \in log' => Fact("oco", entry_id) \in log
  BY <1>2, <1>3
<1> QED BY <1>1, <1>2, <1>4 DEF Fresh

LEMMA ContinuationFresh ==
  ASSUME SafeInv, OnceInv, ~persistence_failed, NEW unk \in BOOLEAN, Report(unk)
  PROVE  /\ Raise => Fresh'
         /\ \A r \in {"host", "poll", "raise"}, f \in BOOLEAN : CallClose(r, f) => Fresh'
         /\ CloseReturn => Fresh'
         /\ \A h, u \in BOOLEAN : PollReturn(h, u) => Fresh'
         /\ \A h, u \in BOOLEAN : PollDecide(h, u) => Fresh'
<1>1. Raise => Fresh'
  BY ReportFresh DEF Raise, Done
<1>2. \A r \in {"host", "poll", "raise"}, f \in BOOLEAN : CallClose(r, f) => Fresh'
  BY ReportFresh DEF CallClose, AfterFirstReport
<1>3. CloseReturn => Fresh'
  BY ReportFresh DEF CloseReturn, Done
<1>4. \A h, u : PollReturn(h, u) => Fresh'
  BY ReportFresh DEF PollReturn, Done
<1>5. ASSUME Fact("oco", entry_id) \notin mem, pc' = "protect" PROVE Fresh'
  BY <1>5, ReportFresh
<1>6. ASSUME NEW h \in BOOLEAN, NEW u \in BOOLEAN, PollDecide(h, u) PROVE Fresh'
  BY <1>1, <1>2, <1>4, <1>5, <1>6 DEF PollDecide
<1> QED BY <1>1, <1>2, <1>3, <1>4, <1>6

LEMMA ReportStepOnce ==
  ASSUME SafeInv, OnceInv, halted => halted',
         Poll \/ PollReport \/ ProtectReport \/ CloseStart \/ CloseReport \/ CloseConfirm
           \/ Observe \/ Reconcile \/ RetryClose
           \/ \E d \in {"closed_flat", "custody_transferred"} : Finish(d)
  PROVE  OnceInv'
<1>0. pc # "idle" => ~persistence_failed /\ \A n \in Numbers : Fact("finish", n) \notin log
  BY DEF SafeInv, Storage, OnceInv, Custody
<1>1. ASSUME ~terminal, ~persistence_failed PROVE \A n \in Numbers : Fact("finish", n) \notin log
  BY <1>1 DEF SafeInv, Storage, terminal
<1>2. ASSUME NEW unk \in BOOLEAN, Report(unk), Fresh',
             pc' = "idle" \/ \A n \in Numbers : Fact("finish", n) \notin log
      PROVE  OnceInv'
  BY <1>2, ReportFacts, SameFacts
<1>3. CASE Poll
  <2>1. PICK unk \in BOOLEAN : Poll!2!(unk)
    BY <1>3 DEF Poll
  <2>2. ~persistence_failed /\ ~terminal
    BY <1>3 DEF Poll, Supervised
  <2>3. Report(unk)
    BY <2>1
  <2>4. CASE Raise
    BY <1>1, <1>2, <2>2, <2>3, <2>4, ContinuationFresh
  <2>5. CASE /\ halted' = TRUE
             /\ pc' = IF Fact("cancel_entry", entry_id) \in mem
                        THEN "poll_report" ELSE "cancel_entry"
    <3>1. Fresh'
      BY <2>2, <2>3, <2>5, ReportFresh
    <3> QED BY <1>1, <1>2, <2>2, <2>3, <3>1
  <2>6. CASE Done
    <3>1. Fresh'
      BY <2>2, <2>3, <2>6, ReportFresh DEF Done
    <3> QED BY <1>1, <1>2, <2>2, <2>3, <3>1
  <2>7. CASE PollDecide(HaltedBy(Now), unk)
    <3>1. Fresh'
      BY <2>2, <2>3, <2>7, ContinuationFresh, Verdicts
    <3> QED BY <1>1, <1>2, <2>2, <2>3, <3>1
  <2> QED BY <2>1, <2>4, <2>5, <2>6, <2>7
<1>4. CASE PollReport
  <2>1. PICK unk \in BOOLEAN : PollReport!2!(unk)
    BY <1>4 DEF PollReport
  <2>2. pc # "idle" /\ Report(unk)
    BY <1>4, <2>1 DEF PollReport
  <2>3. Fresh'
    BY <1>0, <2>1, <2>2, ContinuationFresh, Verdicts
  <2> QED BY <1>0, <1>2, <2>2, <2>3
<1>5. CASE ProtectReport
  <2>1. PICK unk \in BOOLEAN : ProtectReport!2!(unk)
    BY <1>5 DEF ProtectReport
  <2>2. pc # "idle" /\ Report(unk)
    BY <1>5, <2>1 DEF ProtectReport
  <2>3. (HaltedBy(Now) \/ grade = "dust") \in BOOLEAN
    OBVIOUS
  <2>4. CallClose("raise", FALSE) \/ \E h, u \in BOOLEAN : PollReturn(h, u)
    BY <2>1, <2>3, Verdicts
  <2>5. Fresh'
    BY <1>0, <2>2, <2>4, ContinuationFresh
  <2> QED BY <1>0, <1>2, <2>2, <2>5
<1>6. CASE CloseStart
  <2>1. PICK unk \in BOOLEAN : CloseStart!2!(unk)
    BY <1>6 DEF CloseStart
  <2>2. pc # "idle" /\ Report(unk)
    BY <1>6, <2>1 DEF CloseStart
  <2>3. CASE Raise
    BY <1>0, <1>2, <2>2, <2>3, ContinuationFresh
  <2>4. CASE halted' = TRUE /\ pc' = AfterFirstReport
    <3>1. Fresh'
      BY <1>0, <2>2, <2>4, ReportFresh DEF AfterFirstReport
    <3> QED BY <1>0, <1>2, <2>2, <3>1
  <2> QED BY <2>1, <2>3, <2>4
<1>7. CASE CloseReport
  <2>1. PICK unk \in BOOLEAN : CloseReport!2!(unk)
    BY <1>7 DEF CloseReport
  <2>2. pc # "idle" /\ Report(unk)
    BY <1>7, <2>1 DEF CloseReport
  <2>3. CASE Raise \/ CloseReturn
    BY <1>0, <1>2, <2>2, <2>3, ContinuationFresh
  <2>4. CASE halted' = TRUE /\ pc' = IF close_id = 0 THEN "close_sell" ELSE "close_confirm"
    <3>1. Fresh'
      BY <1>0, <2>2, <2>4, ReportFresh
    <3> QED BY <1>0, <1>2, <2>2, <3>1
  <2> QED BY <2>1, <2>3, <2>4
<1>8. CASE CloseConfirm
  <2>1. PICK unk \in BOOLEAN : CloseConfirm!2!(unk)
    BY <1>8 DEF CloseConfirm
  <2>2. pc # "idle" /\ Report(unk) /\ (Raise \/ CloseReturn)
    BY <1>8, <2>1 DEF CloseConfirm
  <2> QED BY <1>0, <1>2, <2>2, ContinuationFresh
<1>9. CASE Observe \/ Reconcile
  <2>1. PICK unk \in BOOLEAN : Report(unk)
    BY <1>9 DEF Observe, Reconcile, Observation
  <2>2. ~persistence_failed /\ pc' = "idle"
    BY <1>9 DEF Observe, Reconcile, Raise, Done
  <2>3. Fresh'
    BY <2>1, <2>2, ReportFresh
  <2> QED BY <1>2, <2>1, <2>2, <2>3
<1>10. CASE RetryClose \/ \E d \in {"closed_flat", "custody_transferred"} : Finish(d)
  <2>1. /\ Report(FALSE) /\ ~persistence_failed /\ ~terminal /\ halted'
        /\ pc' \in {"retry_send", "finish_write"}
    BY <1>10 DEF RetryClose, Finish, Observation
  <2>2. Fresh'
    BY <2>1, ReportFresh
  <2> QED BY <1>1, <1>2, <2>1, <2>2
<1> QED BY <1>3, <1>4, <1>5, <1>6, <1>7, <1>8, <1>9, <1>10

\* A broker call for a record that is made with it, and was not there before.
LEMMA CountedOnce ==
  ASSUME SafeInv, OnceInv, NEW f \in Facts, f \notin log, calls' = Counted(f),
         f \in log', log \subseteq log'
  PROVE  RecordedOnce'
<1>1. calls \in [Facts -> 0 .. 2] /\ calls[f] = 0
  BY DEF SafeInv, TypeOK, OnceInv, RecordedOnce
<1>2. calls' = [calls EXCEPT ![f] = 1]
  BY <1>1 DEF Counted
<1>3. \A g \in Facts : calls'[g] = IF g = f THEN 1 ELSE calls[g]
  BY <1>1, <1>2
<1> QED BY <1>3 DEF OnceInv, RecordedOnce

LEMMA FactNames ==
  /\ \A j, k, m, n : Fact(j, m) = Fact(k, n) => j = k /\ m = n
  /\ \A k, n : Fact(k, n).kind = k
  /\ 0 \in Numbers
BY BoundsAssumption DEF Fact, Numbers

LEMMA CallStepOnce ==
  ASSUME SafeInv, OnceInv, halted => halted',
         \/ \E q \in 1 .. MaxQty, outcome \in Outcomes : Submit(q, outcome)
         \/ \E cancelled, raised \in BOOLEAN : CancelEntry(cancelled, raised)
         \/ \E outcome \in Outcomes : Protect(outcome)
         \/ \E gone \in SUBSET Open, raised \in BOOLEAN : CloseCancel(gone, raised)
         \/ \E n \in CloseNumbers, outcome \in Outcomes : CloseSell(n, outcome)
         \/ \E a \in 1 .. MaxAttempts, q \in 1 .. MaxQty, outcome \in Outcomes :
              RetrySend(a, q, outcome)
  PROVE  OnceInv'
<1> USE DEF flagVars, identityVars
<1>0. pc # "idle" =>
        /\ ~persistence_failed /\ mem = log
        /\ \A n \in Numbers : Fact("finish", n) \notin log
  BY DEF SafeInv, Storage, OnceInv, Custody
<1>1. ASSUME NEW q \in 1 .. MaxQty, NEW outcome \in Outcomes, Submit(q, outcome)
      PROVE  OnceInv'
  <2> DEFINE entry == Fact("entry", entry_id + 1)
  <2>1. /\ ~halted /\ ~persistence_failed /\ mem = log /\ entry_id < MaxCycles
        /\ entry_id \in Nat /\ MaxCycles \in Nat /\ ~persistence_failed'
    BY <1>1, BoundsAssumption DEF Submit, CanSubmit, SafeInv, Storage, TypeOK
  <2>2. entry \in Facts
    BY FactTypes DEF FactKinds, OrderKinds, SafeInv, TypeOK
  <2>3. entry \notin log
    BY <2>1, FactTypes DEF OnceInv, Identities, SafeInv, TypeOK
  <2>4. log' = log \cup {entry} /\ calls' = Counted(entry)
    BY <1>1 DEF Submit, Write, Place, Sent
  <2>5. RecordedOnce'
    BY <2>2, <2>3, <2>4, CountedOnce
  <2>6. /\ \A n \in Numbers : Fact("close", n) \notin log' /\ Fact("finish", n) \notin log'
        /\ Fact("cancel_all", 0) \notin log'
        /\ \A n \in Numbers : Fact("disposal", n) \in log' => Fact("reserve", n) \in log'
    BY <2>1, <2>4, FactNames DEF OnceInv, Identities, Custody
  <2>7. \A n \in Numbers : Fact("entry", n) \in log' => n <= entry_id'
    <3>1. entry_id' = entry_id + 1
      BY <1>1 DEF Submit
    <3>2. \A n \in Numbers : Fact("entry", n) \in log => n <= entry_id
      BY <2>1 DEF OnceInv, Identities
    <3>3. \A n \in Numbers : n \in Nat
      BY BoundsAssumption DEF Numbers
    <3>4. ASSUME NEW n \in Numbers, Fact("entry", n) \in log' PROVE n <= entry_id'
      <4>1. n = entry_id + 1 \/ n <= entry_id
        BY <2>4, <3>2, <3>4, FactNames
      <4> QED BY <2>1, <3>1, <3>3, <4>1
    <3> QED BY <3>4
  <2>8. Identities' /\ OneCloseRecorded' /\ Custody'
    BY <2>6, <2>7 DEF Identities, OneCloseRecorded, Custody
  <2>9. Fresh'
    BY <1>1 DEF Submit, Done, Fresh
  <2> QED BY <2>5, <2>8, <2>9 DEF OnceInv
<1>2. ASSUME NEW f \in Facts, f \notin log, f.kind \in {"cancel_entry", "oco"},
             log' = log \cup {f}, calls' = Counted(f),
             UNCHANGED <<entry_id, close_id, close_attempted, persistence_failed>>,
             pc # "idle", Fresh'
      PROVE  OnceInv'
  <2>1. RecordedOnce'
    BY <1>2, CountedOnce
  <2>2. \A k, n : k \notin {"cancel_entry", "oco"} => (Fact(k, n) \in log' <=> Fact(k, n) \in log)
    BY <1>2, FactNames
  <2>3. Identities' /\ OneCloseRecorded' /\ Custody'
    BY <1>0, <1>2, <2>2 DEF OnceInv, Identities, OneCloseRecorded, Custody
  <2> QED BY <1>2, <2>1, <2>3 DEF OnceInv
<1>3. ASSUME NEW cancelled \in BOOLEAN, NEW raised \in BOOLEAN, CancelEntry(cancelled, raised)
      PROVE  OnceInv'
  <2>1. Fact("cancel_entry", entry_id) \in Facts
    BY FactTypes DEF FactKinds, SafeInv, TypeOK
  <2>2. Fact("cancel_entry", entry_id) \notin log
    BY <1>3 DEF CancelEntry, OnceInv, Fresh
  <2>3. Fresh'
    BY <1>3 DEF CancelEntry, Raise, Done, Fresh
  <2> QED BY <1>2, <1>3, <2>1, <2>2, <2>3, FactNames DEF CancelEntry, Write
<1>4. ASSUME NEW outcome \in Outcomes, Protect(outcome)
      PROVE  OnceInv'
  <2>1. Fact("oco", entry_id) \in Facts
    BY FactTypes DEF FactKinds, OrderKinds, SafeInv, TypeOK
  <2>2. Fact("oco", entry_id) \notin log
    BY <1>4 DEF Protect, OnceInv, Fresh
  <2>3. Fresh'
    BY <1>4 DEF Protect, CallClose, AfterFirstReport, Fresh
  <2> QED BY <1>2, <1>4, <2>1, <2>2, <2>3, FactNames DEF Protect, Write, Sent
<1>5. ASSUME NEW gone \in SUBSET Open, NEW raised \in BOOLEAN, CloseCancel(gone, raised)
      PROVE  OnceInv'
  <2> DEFINE f == Fact("cancel_all", 0)
  <2>1. f \in Facts
    BY FactTypes, FactNames DEF FactKinds
  <2>2. f \notin log /\ halted /\ ~persistence_failed
    BY <1>0, <1>5 DEF CloseCancel, OnceInv, Fresh, Identities
  <2>3. log' = log \cup {f} /\ calls' = Counted(f) /\ close_attempted'
    BY <1>5 DEF CloseCancel, Write
  <2>4. RecordedOnce'
    BY <2>1, <2>2, <2>3, CountedOnce
  <2>5. \A k, n : k # "cancel_all" => (Fact(k, n) \in log' <=> Fact(k, n) \in log)
    BY <2>3, FactNames
  <2>6. halted' /\ UNCHANGED <<entry_id, close_id, persistence_failed>>
    BY <1>5, <2>2 DEF CloseCancel
  <2>7. Identities' /\ OneCloseRecorded' /\ Custody'
    BY <1>0, <1>5, <2>3, <2>5, <2>6
       DEF CloseCancel, OnceInv, Identities, OneCloseRecorded, Custody
  <2>8. Fresh'
    BY <1>5, <2>6 DEF CloseCancel, Raise, Done, Fresh
  <2> QED BY <2>4, <2>7, <2>8 DEF OnceInv
<1>6. ASSUME NEW n \in CloseNumbers, NEW outcome \in Outcomes, CloseSell(n, outcome)
      PROVE  OnceInv'
  <2> DEFINE f == Fact("close", n)
  <2>1. f \in Facts /\ n \in Numbers /\ n # 0
    BY FactTypes DEF FactKinds, OrderKinds, CloseNumbers
  <2>2. halted /\ ~persistence_failed /\ \A m \in Numbers : Fact("close", m) \notin log
    BY <1>0, <1>6 DEF CloseSell, OnceInv, Fresh, Identities
  <2>3. log' = log \cup {f} /\ calls' = Counted(f) /\ close_id' = n
    BY <1>6 DEF CloseSell, Write, Place, Sent
  <2>4. RecordedOnce'
    BY <2>1, <2>2, <2>3, CountedOnce
  <2>5. /\ \A k, m : k # "close" => (Fact(k, m) \in log' <=> Fact(k, m) \in log)
        /\ \A m \in Numbers : Fact("close", m) \in log' <=> m = n
    BY <2>2, <2>3, FactNames
  <2>6. halted' /\ UNCHANGED <<entry_id, close_attempted, persistence_failed>>
    BY <1>6, <2>2 DEF CloseSell
  <2>7. Identities' /\ OneCloseRecorded' /\ Custody'
    BY <1>0, <1>6, <2>1, <2>3, <2>5, <2>6
       DEF CloseSell, OnceInv, Identities, OneCloseRecorded, Custody
  <2>8. Fresh'
    BY <1>6, <2>6 DEF CloseSell, Raise, Done, Fresh
  <2> QED BY <2>4, <2>7, <2>8 DEF OnceInv
<1>7. ASSUME NEW a \in 1 .. MaxAttempts, NEW q \in 1 .. MaxQty, NEW outcome \in Outcomes,
             RetrySend(a, q, outcome)
      PROVE  OnceInv'
  <2> DEFINE f == Fact("disposal", a)
  <2>1. f \in Facts /\ a \in Numbers
    BY FactTypes DEF FactKinds, OrderKinds
  <2>2. ~persistence_failed /\ mem = log /\ f \notin log
    BY <1>0, <1>7, <2>1 DEF RetrySend, OnceInv, Identities
  <2>3. log' = log \cup {Fact("reserve", a), f} /\ calls' = Counted(f) /\ pc' = "idle"
    BY <1>7 DEF RetrySend, Place, Sent, Raise, Done
  <2>4. RecordedOnce'
    BY <2>1, <2>2, <2>3, CountedOnce
  <2>5. /\ \A k, m : k \notin {"reserve", "disposal"} => (Fact(k, m) \in log' <=> Fact(k, m) \in log)
        /\ \A m \in Numbers : Fact("disposal", m) \in log' => Fact("reserve", m) \in log'
    BY <2>3, FactNames DEF OnceInv, Identities
  <2>6. UNCHANGED <<entry_id, close_id, close_attempted, persistence_failed>>
    BY <1>7 DEF RetrySend
  <2>7. Identities' /\ OneCloseRecorded' /\ Custody'
    BY <1>0, <1>7, <2>5, <2>6
       DEF RetrySend, OnceInv, Identities, OneCloseRecorded, Custody
  <2>8. Fresh'
    BY <2>3 DEF Fresh
  <2> QED BY <2>4, <2>7, <2>8 DEF OnceInv
<1> QED BY <1>1, <1>3, <1>4, <1>5, <1>6, <1>7

\* A failed durable write poisons the engine, whatever it left on record.
LEMMA FailedWriteOnce ==
  ASSUME SafeInv, OnceInv, calls' = calls, log \subseteq log', persistence_failed', halted',
         pc' = "idle",
         \A n \in Numbers : Fact("close", n) \in log' =>
           n # 0 /\ \A m \in Numbers : Fact("close", m) \in log' => m = n,
         \A n \in Numbers : Fact("disposal", n) \in log' => Fact("reserve", n) \in log'
  PROVE  OnceInv'
<1>1. Identities' /\ OneCloseRecorded' /\ Custody'
  BY DEF Identities, OneCloseRecorded, Custody
<1>2. Fresh'
  BY DEF Fresh
<1>3. RecordedOnce'
  BY DEF OnceInv, RecordedOnce
<1> QED BY <1>1, <1>2, <1>3 DEF OnceInv

LEMMA OtherStepOnce ==
  ASSUME SafeInv, OnceInv, halted => halted',
         \/ Close \/ HaltEntries \/ ContainExposure \/ FinishWrite
         \/ \E k \in seen .. Now : ReadFails(k)
         \/ Failure
  PROVE  OnceInv'
<1> USE DEF venueVars, logVars, readVars, identityVars, flagVars
<1>0. pc # "idle" =>
        /\ ~persistence_failed /\ mem = log
        /\ \A n \in Numbers : Fact("finish", n) \notin log
  BY DEF SafeInv, Storage, OnceInv, Custody
<1>1. ASSUME UNCHANGED <<calls, log, entry_id, close_id, close_attempted, persistence_failed>>,
             Fresh', pc' = "idle" \/ \A n \in Numbers : Fact("finish", n) \notin log
      PROVE  OnceInv'
  BY <1>1, SameFacts
<1>2. ASSUME pc' = "idle" PROVE Fresh'
  BY <1>2 DEF Fresh
<1>3. ASSUME NEW r, NEW f, CallClose(r, f), close_attempted' = close_attempted PROVE Fresh'
  BY <1>3 DEF CallClose, AfterFirstReport, Fresh
<1>4. CASE Close
  <2>1. CASE terminal
    BY <1>1, <1>2, <1>4, <2>1 DEF Close
  <2>2. CASE ~terminal
    <3>1. CallClose("host", flat_confirmed) /\ ~persistence_failed
      BY <1>4, <2>2 DEF Close
    <3>2. \A n \in Numbers : Fact("finish", n) \notin log
      BY <2>2, <3>1 DEF terminal, SafeInv, Storage
    <3>3. UNCHANGED <<calls, log, entry_id, close_id, close_attempted, persistence_failed>>
      BY <1>4 DEF Close
    <3> QED BY <1>1, <1>3, <3>1, <3>2, <3>3
  <2> QED BY <2>1, <2>2
<1>5. CASE HaltEntries \/ ContainExposure
  BY <1>1, <1>2, <1>5 DEF HaltEntries, ContainExposure
<1>6. CASE FinishWrite
  <2>1. /\ log' = log \cup {Fact("finish", 0)} /\ pc' = "idle" /\ halted'
        /\ UNCHANGED <<calls, entry_id, close_id, close_attempted, persistence_failed>>
    BY <1>6 DEF FinishWrite, Write, Done, OnceInv, Fresh
  <2>2. \A k, n : k # "finish" => (Fact(k, n) \in log' <=> Fact(k, n) \in log)
    BY <2>1, FactNames
  <2>3. Identities' /\ OneCloseRecorded' /\ Custody'
    BY <2>1, <2>2 DEF OnceInv, Identities, OneCloseRecorded, Custody
  <2>4. RecordedOnce'
    BY <2>1 DEF OnceInv, RecordedOnce
  <2> QED BY <1>2, <2>1, <2>3, <2>4 DEF OnceInv
<1>7. ASSUME NEW k \in seen .. Now, ReadFails(k)
      PROVE  OnceInv'
  <2>1. UNCHANGED <<calls, log, entry_id, close_id, close_attempted, persistence_failed>>
    BY <1>7 DEF ReadFails
  <2>2. CASE pc = "protect_report"
    BY <1>0, <1>1, <1>3, <1>7, <2>1, <2>2 DEF ReadFails
  <2>3. CASE pc # "protect_report"
    BY <1>1, <1>2, <1>7, <2>1, <2>3 DEF ReadFails, Raise, Done
  <2> QED BY <2>2, <2>3
<1>8. /\ \A n \in Numbers : Fact("close", n) \in log =>
           n # 0 /\ \A m \in Numbers : Fact("close", m) \in log => m = n
      /\ \A n \in Numbers : Fact("disposal", n) \in log => Fact("reserve", n) \in log
  BY DEF OnceInv, Identities, OneCloseRecorded
<1>9. ASSUME Raise, persistence_failed', calls' = calls, log \subseteq log',
             \A k, n : k \in {"close", "disposal", "reserve"} =>
               (Fact(k, n) \in log' <=> Fact(k, n) \in log)
      PROVE  OnceInv'
  BY <1>8, <1>9, FailedWriteOnce DEF Raise, Halt, Done
<1>10. ASSUME NEW k \in seen .. Now, NEW j \in {k, k + 1}, RecordFails(k, j)
       PROVE  OnceInv'
  <2>1. log' = log \/ log' = log \cup CompleteTrade(FlatNow(FALSE))
    BY <1>10 DEF RecordFails
  <2>2. \A i, n : i # "trade" => (Fact(i, n) \in log' <=> Fact(i, n) \in log)
    <3>1. \A f \in CompleteTrade(FlatNow(FALSE)) : f = Fact("trade", entry_id)
      BY DEF CompleteTrade
    <3> QED BY <2>1, <3>1, FactNames
  <2> QED BY <1>9, <1>10, <2>1, <2>2 DEF RecordFails
<1>11. ASSUME NEW facts \in NextFacts, NEW f \in {{}, facts}, WriteFails(f)
       PROVE  OnceInv'
  <2>1. Raise /\ persistence_failed' /\ calls' = calls /\ log' = log \cup f
    BY <1>11 DEF WriteFails
  <2>2. CASE f = {} \/ pc \notin {"close_sell", "retry_send"}
    <3>1. \A g \in f : g.kind \notin {"close", "disposal", "reserve"}
      BY <1>11, <2>2, FactNames DEF NextFacts
    <3> QED BY <1>9, <2>1, <3>1, FactNames
  <2>3. CASE f # {} /\ pc = "close_sell"
    <3>1. PICK n \in CloseNumbers : f = {Fact("close", n)}
      BY <1>11, <2>3 DEF NextFacts
    <3>2. \A m \in Numbers : Fact("close", m) \notin log
      BY <1>0, <2>3 DEF OnceInv, Fresh, Identities
    <3>3. n \in Numbers /\ n # 0
      BY DEF CloseNumbers
    <3>4. /\ \A m \in Numbers : Fact("close", m) \in log' <=> m = n
          /\ \A k, m : k # "close" => (Fact(k, m) \in log' <=> Fact(k, m) \in log)
      BY <2>1, <3>1, <3>2, FactNames
    <3> QED BY <1>8, <2>1, <3>3, <3>4, FailedWriteOnce DEF Raise, Halt, Done
  <2>4. CASE f # {} /\ pc = "retry_send"
    <3>1. PICK a \in 1 .. MaxAttempts : f \subseteq {Fact("reserve", a), Fact("disposal", a)}
                                        /\ Fact("reserve", a) \in f
      BY <1>11, <2>4 DEF NextFacts
    <3>2. /\ \A n \in Numbers : Fact("disposal", n) \in log' => Fact("reserve", n) \in log'
          /\ \A n : Fact("close", n) \in log' <=> Fact("close", n) \in log
      BY <1>8, <2>1, <3>1, FactNames
    <3> QED BY <1>8, <2>1, <3>2, FailedWriteOnce DEF Raise, Halt, Done
  <2> QED BY <2>2, <2>3, <2>4
<1>12. ASSUME NEW committed \in BOOLEAN, SubmitWriteFails(committed)
       PROVE  OnceInv'
  <2>1. log' = log \/ log' = log \cup {Fact("entry", entry_id + 1)}
    BY <1>12 DEF SubmitWriteFails
  <2> QED BY <1>9, <1>12, <2>1, FactNames DEF SubmitWriteFails
<1>13. CASE Restart
  <2>1. /\ calls' = calls /\ log' = log /\ pc' = "idle" /\ halted'
        /\ IsLast(entry_id', "entry") /\ IsLast(close_id', "close")
        /\ (Fact("cancel_all", 0) \in log => close_attempted')
    BY <1>13 DEF Restart, Halt, Done, RestoredClose, RestoredCancellation
  <2>2. entry_id' \in Nat /\ close_id' \in Nat /\ \A n \in Numbers : n \in Nat
    BY <1>13, BoundsAssumption DEF Restart, Numbers
  <2>3. /\ \A n \in Numbers : Fact("entry", n) \in log => n <= entry_id'
        /\ \A n \in Numbers : Fact("close", n) \in log => close_id' # 0
    <3>1. ASSUME NEW n \in Numbers, Fact("entry", n) \in log PROVE n <= entry_id'
      <4>1. ~(n > entry_id')
        BY <2>1, <3>1 DEF IsLast
      <4> QED BY <2>2, <4>1
    <3>2. ASSUME NEW n \in Numbers, Fact("close", n) \in log PROVE close_id' # 0
      <4>1. ~(n > close_id') /\ n # 0
        BY <1>8, <2>1, <3>2 DEF IsLast
      <4> QED BY <2>2, <4>1
    <3> QED BY <3>1, <3>2
  <2>4. Identities' /\ OneCloseRecorded' /\ Custody'
    BY <1>8, <2>1, <2>3 DEF OnceInv, Identities, OneCloseRecorded, Custody
  <2>5. RecordedOnce'
    BY <2>1 DEF OnceInv, RecordedOnce
  <2> QED BY <1>2, <2>1, <2>4, <2>5 DEF OnceInv
<1> QED BY <1>4, <1>5, <1>6, <1>7, <1>10, <1>11, <1>12, <1>13 DEF Failure

LEMMA OnceStep ==
  ASSUME SafeInv, OnceInv, [Next]_vars
  PROVE  OnceInv'
<1>0. halted => halted'
  BY HaltedStays DEF SafeInv
<1>1. ASSUME UNCHANGED <<calls, log, entry_id, close_id, close_attempted, persistence_failed,
                         halted, pc>>
      PROVE  OnceInv'
  BY <1>1 DEF OnceInv, Identities, Fresh, OneCloseRecorded, Custody, RecordedOnce
<1>2. CASE Venue
  BY <1>1, <1>2 DEF Venue, VenueArrive, VenueEnd, VenueFill, engineVars, logVars, memVars,
                    identityVars, flagVars
<1>3. CASE Resume
  BY <1>0, <1>3, ReportStepOnce, CallStepOnce, OtherStepOnce DEF Resume
<1>4. CASE HostCall
  BY <1>0, <1>4, ReportStepOnce, CallStepOnce, OtherStepOnce DEF HostCall
<1>5. CASE Failure
  BY <1>0, <1>5, OtherStepOnce
<1>6. CASE UNCHANGED vars
  BY <1>1, <1>6 DEF vars, venueVars, logVars, memVars, identityVars, flagVars
<1> QED BY <1>2, <1>3, <1>4, <1>5, <1>6 DEF Next

LEMMA OnceInvariant == Spec => [](SafeInv /\ OnceInv)
<1>1. Init => OnceInv
  <2> SUFFICES ASSUME Init PROVE OnceInv
    OBVIOUS
  <2>1. log = {} /\ pc = "idle" /\ \A f \in Facts : calls[f] = 0
    BY DEF Init
  <2> QED BY <2>1 DEF OnceInv, Identities, Fresh, OneCloseRecorded, Custody, RecordedOnce
<1>2. SafeInv /\ OnceInv /\ [Next]_vars => OnceInv'
  BY OnceStep
<1> QED BY <1>1, <1>2, SafeInvariant, PTL DEF Spec

\* Every mutating broker call is on record before it is made, and is made once
\* for its record, wherever the engine stops and is restored.
THEOREM CallsRecordedOnce == Spec => []RecordedOnce
<1>1. OnceInv => RecordedOnce
  BY DEF OnceInv
<1> QED BY <1>1, OnceInvariant, PTL

\* A session sends one emergency SELL at most, under whatever client id.
THEOREM OneCloseEver == Spec => []OneClose
<1>1. SafeInv /\ OnceInv => OneClose
  <2>1. \A n \in Numbers : Fact("close", n) \in Facts
    BY FactTypes DEF FactKinds, OrderKinds
  <2> QED BY <2>1 DEF OnceInv, RecordedOnce, OneCloseRecorded, OneClose
<1> QED BY <1>1, OnceInvariant, PTL

\* After the custody record the engine never calls the venue again.
THEOREM CustodyEndsCalls == Spec => CustodyFinal
<1>1. SafeInv /\ OnceInv /\ [Next]_vars
        => [\A n \in Numbers : Fact("finish", n) \in log => calls' = calls]_vars
  <2> SUFFICES ASSUME SafeInv, OnceInv, [Next]_vars,
                      NEW n \in Numbers, Fact("finish", n) \in log, calls' # calls
               PROVE  FALSE
    OBVIOUS
  <2>1. halted /\ pc = "idle"
    BY DEF OnceInv, Custody
  <2> QED BY <2>1, CallsChange DEF Submit, CanSubmit, CancelEntry, Protect, CloseCancel, CloseSell,
                                   RetrySend
<1> QED BY <1>1, OnceInvariant, PTL DEF CustodyFinal, Spec

-----------------------------------------------------------------------------
(***************************************************************************)
(* Naked inventory.                                                        *)
(***************************************************************************)
LEMMA ContinuationHalts ==
  /\ Raise => halted'
  /\ \A r, f : CallClose(r, f) => halted'
  /\ CloseReturn => halted'
BY DEF Raise, Halt, CallClose, CloseReturn

\* An operation that ends on a report without halting entries saw the position
\* flat or its protection working.
LEMMA ReportProtected ==
  ASSUME SafeInv, ~persistence_failed, NEW unk \in BOOLEAN, Report(unk),
         pc' = "idle" /\ ~halted' /\ QtyAt(Now) > 0 => protection' /\ ValidProtection
  PROVE  NakedHalts'
<1>1. /\ quantity' = QtyAt(Now) /\ st' = st /\ entry_id' = entry_id
  BY ReportCurrent, ReportFacts
<1>2. ValidProtection => st[Fact("oco", entry_id)] = "working"
  BY DEF ValidProtection
<1> QED BY <1>1, <1>2 DEF NakedHalts

LEMMA DecisionProtected ==
  ASSUME SafeInv, ~persistence_failed, NEW unk \in BOOLEAN, Report(unk),
         NEW h \in BOOLEAN, PollDecide(h, unk)
  PROVE  NakedHalts'
<1>1. CASE halted' \/ pc' = "protect"
  BY <1>1, ReportProtected
<1>2. CASE QtyAt(Now) = 0
  BY <1>2, ReportProtected
<1>3. CASE protection' = TRUE /\ ValidProtection
  BY <1>3, ReportProtected
<1> QED BY <1>1, <1>2, <1>3, ContinuationHalts DEF PollDecide

LEMMA ReportStepNaked ==
  ASSUME SafeInv,
         Poll \/ PollReport \/ ProtectReport \/ CloseStart \/ CloseReport \/ CloseConfirm
           \/ Observe \/ Reconcile \/ RetryClose
           \/ \E d \in {"closed_flat", "custody_transferred"} : Finish(d)
  PROVE  NakedHalts'
<1>0. pc # "idle" => ~persistence_failed
  BY DEF SafeInv, Storage
<1>1. ASSUME NEW unk \in BOOLEAN, Report(unk), ~persistence_failed, halted' \/ pc' # "idle"
      PROVE  NakedHalts'
  BY <1>1, ReportProtected
<1>2. CASE Poll
  <2>1. PICK unk \in BOOLEAN : Poll!2!(unk)
    BY <1>2 DEF Poll
  <2>2. ~persistence_failed /\ Report(unk)
    BY <1>2, <2>1 DEF Poll, Supervised
  <2>3. CASE Raise \/ halted' = TRUE
    BY <1>1, <2>2, <2>3, ContinuationHalts
  <2>4. CASE QtyAt(Now) = 0
    BY <2>2, <2>4, ReportProtected
  <2>5. CASE PollDecide(HaltedBy(Now), unk)
    BY <2>2, <2>5, DecisionProtected, Verdicts
  <2> QED BY <2>1, <2>3, <2>4, <2>5
<1>3. CASE PollReport
  BY <1>0, <1>1, <1>3, ContinuationHalts, DecisionProtected, Verdicts DEF PollReport
<1>4. CASE ProtectReport
  <2>1. PICK unk \in BOOLEAN : ProtectReport!2!(unk)
    BY <1>4 DEF ProtectReport
  <2>2. ~persistence_failed /\ Report(unk)
    BY <1>0, <1>4, <2>1 DEF ProtectReport
  <2>3. CASE CallClose("raise", FALSE)
    BY <1>1, <2>2, <2>3, ContinuationHalts
  <2>4. CASE FlatNow(unk)
    BY <2>2, <2>4, ReportProtected DEF FlatNow
  <2>5. CASE protection' = TRUE /\ ValidProtection
    BY <2>2, <2>5, ReportProtected
  <2> QED BY <2>1, <2>3, <2>4, <2>5
<1>5. CASE CloseStart \/ CloseReport \/ CloseConfirm
  BY <1>0, <1>1, <1>5, ContinuationHalts DEF CloseStart, CloseReport, CloseConfirm
<1>6. CASE Observe
  <2>1. PICK unk \in BOOLEAN : Observation(unk, FALSE)
    BY <1>6 DEF Observe
  <2>2. ~persistence_failed /\ Report(unk)
    BY <1>6, <2>1 DEF Observe, Observation
  <2>3. ~halted' => ~ExposureUnsafe(unk)
    BY <2>1 DEF Observation
  <2>4. ~halted' /\ QtyAt(Now) > 0 => protection' /\ ValidProtection
    BY <2>1, <2>3 DEF Observation, ExposureUnsafe, ProtectedNow
  <2> QED BY <2>2, <2>4, ReportProtected
<1>7. CASE Reconcile
  <2>1. PICK unk \in BOOLEAN : Reconcile!2!(unk)
    BY <1>7 DEF Reconcile
  <2>2. ~persistence_failed /\ Report(unk)
    BY <1>7, <2>1 DEF Reconcile
  <2>3. ~halted' /\ QtyAt(Now) > 0 => protection' /\ ValidProtection
    BY <2>1, ContinuationHalts DEF ProtectedNow
  <2> QED BY <2>2, <2>3, ReportProtected
<1>8. CASE RetryClose \/ \E d \in {"closed_flat", "custody_transferred"} : Finish(d)
  BY <1>1, <1>8 DEF RetryClose, Finish, Observation
<1> QED BY <1>2, <1>3, <1>4, <1>5, <1>6, <1>7, <1>8

\* The venue moves on without the ledger.
LEMMA VenueQuantity ==
  ASSUME TypeOK, Venue
  PROVE  quantity' = quantity
<1>1. PICK o \in Orders : \/ VenueArrive(o) \/ VenueEnd(o)
                          \/ \E q \in 1 .. MaxQty, note \in Notes : VenueFill(o, q, note)
  BY DEF Venue
<1>2. seen' = seen
  BY <1>1 DEF VenueArrive, VenueEnd, VenueFill, engineVars, memVars
<1>3. events' = events => quantity' = quantity
  BY <1>2 DEF quantity, QtyAt
<1>4. ASSUME NEW q \in 1 .. MaxQty, NEW note \in Notes, VenueFill(o, q, note)
      PROVE  quantity' = quantity
  <2>1. \A k \in 1 .. Len(events) : events'[k] = events[k]
    BY <1>4 DEF VenueFill, TypeOK
  <2> QED BY <1>2, <2>1 DEF quantity, QtyAt, TypeOK
<1> QED BY <1>1, <1>3, <1>4 DEF VenueArrive, VenueEnd

LEMMA NakedStep ==
  ASSUME SafeInv, NakedHalts, [Next]_vars
  PROVE  NakedHalts'
<1> USE DEF flagVars
<1>1. ASSUME halted' \/ pc' # "idle" PROVE NakedHalts'
  BY <1>1 DEF NakedHalts
<1>2. CASE Venue
  <2>1. PICK o \in Orders : \/ VenueArrive(o) \/ VenueEnd(o)
                            \/ \E q \in 1 .. MaxQty, note \in Notes : VenueFill(o, q, note)
    BY <1>2 DEF Venue
  <2>2. /\ UNCHANGED <<pc, halted, protection, entry_id, seen>>
        /\ \E s \in Statuses \ {"none", "flying"} : st' = [st EXCEPT ![o] = s]
    BY <2>1 DEF VenueArrive, VenueEnd, VenueFill, engineVars, memVars, identityVars, Statuses
  <2>3. quantity' = quantity
    BY <1>2, VenueQuantity DEF SafeInv
  <2>4. \A p \in Orders : st[p] \notin {"none", "flying"} => st'[p] \notin {"none", "flying"}
    BY <2>2 DEF SafeInv, TypeOK
  <2>5. Fact("oco", entry_id) \in Orders
    BY FactTypes DEF SafeInv, TypeOK, OrderKinds
  <2> QED BY <2>2, <2>3, <2>4, <2>5 DEF NakedHalts
<1>3. CASE \/ \E q \in 1 .. MaxQty, outcome \in Outcomes : Submit(q, outcome)
           \/ \E cancelled, raised \in BOOLEAN : CancelEntry(cancelled, raised)
           \/ \E outcome \in Outcomes : Protect(outcome)
           \/ \E gone \in SUBSET Open, raised \in BOOLEAN : CloseCancel(gone, raised)
           \/ \E n \in CloseNumbers, outcome \in Outcomes : CloseSell(n, outcome)
  BY <1>1, <1>3, ContinuationHalts
     DEF Submit, Halt, CancelEntry, Protect, CloseCancel, CloseSell
<1>4. CASE \E a \in 1 .. MaxAttempts, q \in 1 .. MaxQty, outcome \in Outcomes :
             RetrySend(a, q, outcome)
  <2>1. halted
    BY <1>4 DEF RetrySend, SafeInv, ClearToPlace
  <2> QED BY <1>1, <2>1, HaltedStays DEF SafeInv
<1>5. CASE FinishWrite
  <2>1. halted
    BY <1>5 DEF FinishWrite, SafeInv, ClearToPlace
  <2> QED BY <1>1, <2>1, HaltedStays DEF SafeInv
<1>6. CASE \/ Close \/ HaltEntries \/ ContainExposure
           \/ \E k \in seen .. Now : ReadFails(k)
           \/ Failure
  BY <1>1, <1>6, ContinuationHalts DEF Close, HaltEntries, ContainExposure, ReadFails, Failure,
     RecordFails, WriteFails, SubmitWriteFails, Restart, Halt
<1>7. CASE UNCHANGED vars
  <2>1. UNCHANGED <<pc, halted, protection, entry_id, seen, st, events>>
    BY <1>7 DEF vars, venueVars, memVars, identityVars
  <2> QED BY <2>1 DEF NakedHalts, quantity, QtyAt
<1> QED BY <1>2, <1>3, <1>4, <1>5, <1>6, <1>7, ReportStepNaked DEF Next, Resume, HostCall

\* An engine between operations that still admits entries holds no inventory,
\* or holds it under a protection it saw accepted.
THEOREM NakedInventoryHalts == Spec => []NakedHalts
<1>1. Init => NakedHalts
  BY DEF Init, NakedHalts, quantity, QtyAt
<1> QED BY <1>1, NakedStep, SafeInvariant, PTL DEF Spec

-----------------------------------------------------------------------------
(***************************************************************************)
(* The end of a trade: the inductive invariant, on top of the others.      *)
(***************************************************************************)
\* An order is only placed, and a disposal only authorized, for inventory.
Held == pc \in {"protect", "close_sell", "retry_send"} => quantity > 0

\* The trade record of the current cycle finds the venue empty and leaves it so.
TradeDone == Fact("trade", entry_id) \in log => Live = {} /\ Base = 0

\* The archive names the current entry and no trade of a later one.
TradesPast ==
  /\ entry_id # 0 => Fact("entry", entry_id) \in log
  /\ \A n \in Numbers : Fact("trade", n) \in log => n <= entry_id

TradeInv == Held /\ TradeDone /\ TradesPast

\* A step that ends no trade and places no order.
LEMMA SameTrades ==
  ASSUME TradeInv, events' = events, entry_id' = entry_id, log \subseteq log',
         \A n : Fact("trade", n) \in log' => Fact("trade", n) \in log,
         Fact("trade", entry_id) \in log => Live' \subseteq Live,
         Held'
  PROVE  TradeInv'
<1>1. TradeDone'
  BY DEF TradeInv, TradeDone, Base, QtyAt
<1>2. TradesPast'
  BY DEF TradeInv, TradesPast
<1> QED BY <1>1, <1>2 DEF TradeInv

LEMMA NewTrade ==
  ASSUME NEW flat
  PROVE  /\ CompleteTrade(flat) \subseteq {Fact("trade", entry_id)}
         /\ CompleteTrade(flat) # {} => flat
BY DEF CompleteTrade

\* A step that may record the end of the current trade, on evidence that shows
\* the venue flat and leaves no request unresolved.
LEMMA TradeRecorded ==
  ASSUME SafeInv, TradeInv, NEW unk \in BOOLEAN, ~persistence_failed, Reported(unk),
         st' = st, events' = events, entry_id' = entry_id,
         log' = log \cup CompleteTrade(FlatNow(unk)), Held'
  PROVE  TradeInv'
<1>1. Live' = Live /\ Base' = Base
  BY DEF Live, Base, QtyAt
<1>2. TradeDone'
  <2> SUFFICES ASSUME Fact("trade", entry_id) \in log' PROVE Live = {} /\ Base = 0
    BY <1>1 DEF TradeDone
  <2>1. CASE Fact("trade", entry_id) \in log
    BY <2>1 DEF TradeInv, TradeDone
  <2>2. CASE Fact("trade", entry_id) \notin log
    <3>1. FlatNow(unk)
      BY <2>2, NewTrade
    <3> QED BY <3>1, NothingLive DEF FlatNow, SafeInv, Base, Now
  <2> QED BY <2>1, <2>2
<1>3. TradesPast'
  <2>1. \A n \in Numbers : Fact("trade", n) \in log' => Fact("trade", n) \in log \/ n = entry_id
    BY NewTrade, FactNames
  <2>2. entry_id <= entry_id
    BY DEF SafeInv, TypeOK
  <2> QED BY <2>1, <2>2 DEF TradeInv, TradesPast
<1> QED BY <1>2, <1>3 DEF TradeInv

LEMMA ReportStepTrade ==
  ASSUME SafeInv, TradeInv,
         Poll \/ PollReport \/ ProtectReport \/ CloseStart \/ CloseReport \/ CloseConfirm
           \/ Observe \/ Reconcile \/ RetryClose
           \/ \E d \in {"closed_flat", "custody_transferred"} : Finish(d)
  PROVE  TradeInv'
<1>0. pc # "idle" => ~persistence_failed
  BY DEF SafeInv, Storage
<1>1. ASSUME NEW unk \in BOOLEAN, Report(unk), ~persistence_failed,
             pc' \in {"protect", "close_sell", "retry_send"} => QtyAt(Now) > 0
      PROVE  TradeInv'
  <2>1. Held'
    BY <1>1, ReportCurrent DEF Held
  <2> QED BY <1>1, <2>1, TradeRecorded DEF Report, venueVars, identityVars
<1>2. /\ \A u : PollDecide(HaltedBy(Now), u) /\ pc' \in {"protect", "close_sell", "retry_send"}
           => QtyAt(Now) > 0
      /\ Raise \/ CloseReturn \/ Done => pc' = "idle"
      /\ \A r, f : CallClose(r, f) => pc' \in {"close", "close_cancel", "close_report"}
      /\ \A h, u : PollReturn(h, u) => pc' = "idle"
  BY DEF PollDecide, Raise, CloseReturn, CallClose, AfterFirstReport, PollReturn, Done
<1>3. CASE Poll
  <2>1. PICK unk \in BOOLEAN : Poll!2!(unk)
    BY <1>3 DEF Poll
  <2>2. ~persistence_failed
    BY <1>3 DEF Poll, Supervised
  <2> QED BY <1>1, <1>2, <2>1, <2>2
<1>4. CASE PollReport
  BY <1>0, <1>1, <1>2, <1>4 DEF PollReport
<1>5. CASE ProtectReport
  <2>1. PICK unk \in BOOLEAN : ProtectReport!2!(unk)
    BY <1>5 DEF ProtectReport
  <2> QED BY <1>0, <1>1, <1>2, <1>5, <2>1 DEF ProtectReport
<1>6. CASE CloseStart \/ CloseConfirm
  BY <1>0, <1>1, <1>2, <1>6 DEF CloseStart, CloseConfirm, AfterFirstReport
<1>7. CASE CloseReport
  <2>1. PICK unk \in BOOLEAN : CloseReport!2!(unk)
    BY <1>7 DEF CloseReport
  <2>2. ~CancellationUnproved(unk) /\ ~FlatNow(unk) => QtyAt(Now) > 0
    <3>1. unk => Production
      BY <2>1 DEF Report, Reported
    <3>2. QtyAt(Now) \in Nat
      BY Balances DEF SafeInv, Base, Now
    <3> QED BY <3>1, <3>2 DEF CancellationUnproved, FlatNow
  <2> QED BY <1>0, <1>1, <1>2, <1>7, <2>1, <2>2 DEF CloseReport
<1>8. CASE Observe \/ Reconcile
  BY <1>1, <1>2, <1>8 DEF Observe, Observation, Reconcile
<1>9. CASE RetryClose \/ \E d \in {"closed_flat", "custody_transferred"} : Finish(d)
  BY <1>1, <1>9 DEF RetryClose, Finish, Observation
<1> QED BY <1>3, <1>4, <1>5, <1>6, <1>7, <1>8, <1>9

LEMMA CallStepTrade ==
  ASSUME SafeInv, TradeInv,
         \/ \E q \in 1 .. MaxQty, outcome \in Outcomes : Submit(q, outcome)
         \/ \E cancelled, raised \in BOOLEAN : CancelEntry(cancelled, raised)
         \/ \E outcome \in Outcomes : Protect(outcome)
         \/ \E gone \in SUBSET Open, raised \in BOOLEAN : CloseCancel(gone, raised)
         \/ \E n \in CloseNumbers, outcome \in Outcomes : CloseSell(n, outcome)
         \/ \E a \in 1 .. MaxAttempts, q \in 1 .. MaxQty, outcome \in Outcomes :
              RetrySend(a, q, outcome)
  PROVE  TradeInv'
<1> USE DEF identityVars
<1>1. pc \in {"protect", "close_sell", "retry_send"} => Fact("trade", entry_id) \notin log
  <2> SUFFICES ASSUME pc \in {"protect", "close_sell", "retry_send"} PROVE Base > 0
    BY DEF TradeInv, TradeDone
  <2> QED BY DEF SafeInv, ClearToPlace, Clear, TradeInv, Held, quantity, Base
<1>2. ASSUME pc' \notin {"protect", "close_sell", "retry_send"} PROVE Held'
  BY <1>2 DEF Held
<1>3. ASSUME NEW q \in 1 .. MaxQty, NEW outcome \in Outcomes, Submit(q, outcome)
      PROVE  TradeInv'
  <2>1. /\ log' = log \cup {Fact("entry", entry_id + 1)} /\ entry_id' = entry_id + 1
        /\ entry_id \in Nat
    BY <1>3, BoundsAssumption DEF Submit, Write, SafeInv, TypeOK
  <2>2. \A n \in Numbers : Fact("trade", n) \in log' => n <= entry_id /\ n \in Nat
    BY <2>1, FactNames DEF TradeInv, TradesPast, Numbers
  <2>3. TradesPast'
    BY <2>1, <2>2 DEF TradesPast
  <2>4. entry_id' \in Numbers
    BY <2>1, FactTypes DEF SafeInv, TypeOK
  <2>5. TradeDone'
    BY <2>1, <2>2, <2>4 DEF TradeDone
  <2>6. Held'
    BY <1>2, <1>3 DEF Submit, Done
  <2> QED BY <2>3, <2>5, <2>6 DEF TradeInv
<1>4. ASSUME NEW cancelled \in BOOLEAN, NEW raised \in BOOLEAN, CancelEntry(cancelled, raised)
      PROVE  TradeInv'
  <2>1. Live' \subseteq Live
    BY <1>4 DEF CancelEntry, Live, Open, SafeInv, TypeOK
  <2> QED BY <1>2, <1>4, <2>1, SameTrades, FactNames DEF CancelEntry, Write, Raise, Done
<1>5. ASSUME NEW outcome \in Outcomes, Protect(outcome)
      PROVE  TradeInv'
  <2>1. Held'
    BY <1>2, <1>5 DEF Protect, CallClose, AfterFirstReport
  <2> QED BY <1>1, <1>5, <2>1, SameTrades, FactNames DEF Protect, Write, Sent
<1>6. ASSUME NEW gone \in SUBSET Open, NEW raised \in BOOLEAN, CloseCancel(gone, raised)
      PROVE  TradeInv'
  <2>1. Live' \subseteq Live
    BY <1>6 DEF CloseCancel, Live, Open, SafeInv, TypeOK
  <2> QED BY <1>2, <1>6, <2>1, SameTrades, FactNames DEF CloseCancel, Write, Raise, Done
<1>7. ASSUME NEW n \in CloseNumbers, NEW outcome \in Outcomes, CloseSell(n, outcome)
      PROVE  TradeInv'
  <2>1. Held'
    BY <1>2, <1>7 DEF CloseSell, Raise, Done
  <2> QED BY <1>1, <1>7, <2>1, SameTrades, FactNames DEF CloseSell, Write, Place, Sent
<1>8. ASSUME NEW a \in 1 .. MaxAttempts, NEW q \in 1 .. MaxQty, NEW outcome \in Outcomes,
             RetrySend(a, q, outcome)
      PROVE  TradeInv'
  <2>1. Held'
    BY <1>2, <1>8 DEF RetrySend, Raise, Done
  <2> QED BY <1>1, <1>8, <2>1, SameTrades, FactNames DEF RetrySend, Place, Sent
<1> QED BY <1>3, <1>4, <1>5, <1>6, <1>7, <1>8

LEMMA OtherStepTrade ==
  ASSUME SafeInv, OnceInv, TradeInv,
         \/ Close \/ HaltEntries \/ ContainExposure \/ FinishWrite
         \/ \E k \in seen .. Now : ReadFails(k)
         \/ Failure
  PROVE  TradeInv'
<1> USE DEF venueVars, logVars, readVars, identityVars
<1>1. ASSUME pc' \notin {"protect", "close_sell", "retry_send"} PROVE Held'
  BY <1>1 DEF Held
<1>2. ASSUME UNCHANGED <<st, events, entry_id>>, log \subseteq log', Held',
             \A n : Fact("trade", n) \in log' => Fact("trade", n) \in log
      PROVE  TradeInv'
  BY <1>2, SameTrades DEF Live
<1>3. CASE Close \/ HaltEntries \/ ContainExposure
  BY <1>1, <1>2, <1>3 DEF Close, CallClose, AfterFirstReport, HaltEntries, ContainExposure
<1>4. CASE FinishWrite
  BY <1>1, <1>2, <1>4, FactNames DEF FinishWrite, Write, Done
<1>5. ASSUME NEW k \in seen .. Now, ReadFails(k) PROVE TradeInv'
  BY <1>1, <1>2, <1>5 DEF ReadFails, CallClose, AfterFirstReport, Raise, Done
<1>6. ASSUME NEW k \in seen .. Now, NEW j \in {k, k + 1}, RecordFails(k, j) PROVE TradeInv'
  <2>1. /\ UNCHANGED <<st, events, entry_id>> /\ ~persistence_failed
        /\ \/ log' = log
           \/ Reported(FALSE) /\ log' = log \cup CompleteTrade(FlatNow(FALSE))
    BY <1>6 DEF RecordFails
  <2>2. Held'
    BY <1>1, <1>6 DEF RecordFails, Raise, Done
  <2> QED BY <1>2, <2>1, <2>2, TradeRecorded
<1>7. ASSUME NEW facts \in NextFacts, NEW f \in {{}, facts}, WriteFails(f) PROVE TradeInv'
  <2>1. \A n : Fact("trade", n) \notin f
    BY <1>7, FactNames DEF NextFacts
  <2>2. Held'
    BY <1>1, <1>7 DEF WriteFails, Raise, Done
  <2> QED BY <1>2, <1>7, <2>1, <2>2 DEF WriteFails
<1>8. ASSUME NEW committed \in BOOLEAN, SubmitWriteFails(committed) PROVE TradeInv'
  <2>1. Held'
    BY <1>1, <1>8 DEF SubmitWriteFails, Raise, Done
  <2> QED BY <1>2, <1>8, <2>1, FactNames DEF SubmitWriteFails
<1>9. CASE Restart
  <2>1. /\ UNCHANGED <<st, events, log>> /\ IsLast(entry_id', "entry")
        /\ entry_id \in Nat /\ entry_id' \in Nat
        /\ entry_id \in Numbers /\ entry_id' \in Numbers
    BY <1>9, FactTypes, BoundsAssumption DEF Restart, SafeInv, TypeOK
  <2>2. entry_id <= entry_id'
    <3>1. CASE entry_id = 0
      BY <2>1, <3>1
    <3>2. CASE entry_id # 0
      <4>1. ~(entry_id > entry_id')
        BY <2>1, <3>2 DEF IsLast, TradeInv, TradesPast
      <4> QED BY <2>1, <4>1
    <3> QED BY <3>1, <3>2
  <2>3. \A n \in Numbers : Fact("trade", n) \in log => n <= entry_id /\ n \in Nat
    BY DEF TradeInv, TradesPast, Numbers
  <2>4. TradesPast'
    BY <2>1, <2>2, <2>3 DEF IsLast, TradesPast
  <2>5. Fact("trade", entry_id') \in log => entry_id' = entry_id
    BY <2>1, <2>2, <2>3
  <2>6. TradeDone'
    BY <2>1, <2>5 DEF TradeInv, TradeDone, Live, Base, QtyAt
  <2>7. Held'
    BY <1>1, <1>9 DEF Restart, Done
  <2> QED BY <2>4, <2>6, <2>7 DEF TradeInv
<1> QED BY <1>3, <1>4, <1>5, <1>6, <1>7, <1>8, <1>9 DEF Failure

LEMMA TradeStep ==
  ASSUME SafeInv, OnceInv, TradeInv, [Next]_vars
  PROVE  TradeInv'
<1>1. CASE Venue
  <2>1. PICK o \in Orders : \/ VenueArrive(o) \/ VenueEnd(o)
                            \/ \E q \in 1 .. MaxQty, note \in Notes : VenueFill(o, q, note)
    BY <1>1 DEF Venue
  <2>2. UNCHANGED <<log, entry_id, pc>>
    BY <2>1 DEF VenueArrive, VenueEnd, VenueFill, engineVars, logVars, memVars, identityVars
  <2>3. o \in Live
    BY <2>1 DEF VenueArrive, VenueEnd, VenueFill, Live
  <2>4. Held'
    BY <1>1, <2>2, VenueQuantity DEF SafeInv, TradeInv, Held
  <2> QED BY <2>2, <2>3, <2>4 DEF TradeInv, TradeDone, TradesPast
<1>2. CASE Resume
  BY <1>2, ReportStepTrade, CallStepTrade, OtherStepTrade DEF Resume
<1>3. CASE HostCall
  BY <1>3, ReportStepTrade, CallStepTrade, OtherStepTrade DEF HostCall
<1>4. CASE Failure
  BY <1>4, OtherStepTrade
<1>5. CASE UNCHANGED vars
  <2>1. UNCHANGED <<st, events, log, seen, entry_id, pc>>
    BY <1>5 DEF vars, venueVars, logVars, memVars, identityVars
  <2> QED BY <2>1 DEF TradeInv, Held, TradeDone, TradesPast, Live, Base, quantity, QtyAt
<1> QED BY <1>1, <1>2, <1>3, <1>4, <1>5 DEF Next

LEMMA TradeInvariant == Spec => [](SafeInv /\ OnceInv /\ TradeInv)
<1>1. Init => TradeInv
  BY DEF Init, TradeInv, Held, TradeDone, TradesPast
<1> QED BY <1>1, TradeStep, OnceInvariant, PTL DEF Spec

\* Only the venue executes orders.
LEMMA EventsChange ==
  ASSUME [Next]_vars, events' # events
  PROVE  \E o \in Orders, q \in 1 .. MaxQty, note \in Notes : VenueFill(o, q, note)
<1> USE DEF venueVars
<1>1. CASE Venue
  BY <1>1 DEF Venue, VenueArrive, VenueEnd
<1>2. ~(\E unk \in BOOLEAN : Report(unk))
  BY DEF Report
<1>3. ~(Poll \/ PollReport \/ ProtectReport \/ CloseStart \/ CloseReport \/ CloseConfirm
        \/ Observe \/ Reconcile \/ RetryClose
        \/ \E d \in {"closed_flat", "custody_transferred"} : Finish(d))
  BY <1>2 DEF Poll, PollReport, ProtectReport, CloseStart, CloseReport, CloseConfirm,
              Observe, Reconcile, RetryClose, Finish, Observation
<1>4. /\ \A q, outcome : ~Submit(q, outcome)
      /\ \A cancelled, raised : ~CancelEntry(cancelled, raised)
      /\ \A outcome : ~Protect(outcome)
      /\ \A gone, raised : ~CloseCancel(gone, raised)
      /\ \A n, outcome : ~CloseSell(n, outcome)
      /\ \A a, q, outcome : ~RetrySend(a, q, outcome)
  BY DEF Submit, CancelEntry, Protect, CloseCancel, CloseSell, RetrySend, Place, Sent
<1>5. ~(Close \/ HaltEntries \/ ContainExposure \/ FinishWrite)
  BY DEF Close, HaltEntries, ContainExposure, FinishWrite
<1>6. ~(\E k \in seen .. Now : ReadFails(k)) /\ ~Failure
  BY DEF ReadFails, Failure, RecordFails, readVars, WriteFails, SubmitWriteFails, Restart
<1>7. ~UNCHANGED vars
  BY DEF vars
<1> QED BY <1>1, <1>3, <1>4, <1>5, <1>6, <1>7 DEF Next, Resume, HostCall

\* The trade record of a cycle is the last word on it: no execution reaches the
\* venue between it and the next entry, also when the engine restarts.
THEOREM TradeRecordIsFinal == Spec => TradeIsFinal
<1>1. SafeInv /\ OnceInv /\ TradeInv /\ [Next]_vars
        => [Fact("trade", entry_id) \in log => events' = events]_vars
  <2> SUFFICES ASSUME TradeInv, [Next]_vars, Fact("trade", entry_id) \in log, events' # events
               PROVE  FALSE
    OBVIOUS
  <2>1. Live = {}
    BY DEF TradeInv, TradeDone
  <2> QED BY <2>1, EventsChange DEF VenueFill, Live
<1> QED BY <1>1, TradeInvariant, PTL DEF TradeIsFinal, Spec
=============================================================================
