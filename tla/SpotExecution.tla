--------------------------- MODULE SpotExecution ---------------------------
(***************************************************************************)
(* The injected Spot execution lifecycle of the engine: the coordinator    *)
(* SpotExecution with its SpotControls, the venue it drives through a      *)
(* SpotBroker, the durable archive it writes through LiveEngine, and the   *)
(* restart of the engine from that archive.                                *)
(*                                                                         *)
(* Calls into the coordinator are serialized (spot_serialization.py), so   *)
(* one operation runs at a time; pc says between which two broker calls it *)
(* is.  Everything an operation does between two broker calls is one step: *)
(* the durable writes, the ledger and the decision on the evidence.  The   *)
(* venue moves between any two steps.                                      *)
(*                                                                         *)
(* Assumed of the host, as its protocol in spot_control.py and             *)
(* spot_contract.py demands: a reconciliation is a fresh snapshot with     *)
(* every execution up to it, an order is reported terminal only when it is,*)
(* and a restart hands back every committed record.  A Testnet (v1) host   *)
(* calls a report complete only when no request of the session is in       *)
(* flight; a production (v2) host lists what is terminal and the engine    *)
(* takes the rest for unresolved.                                          *)
(***************************************************************************)
EXTENDS Integers, Sequences, FiniteSets

CONSTANTS
  Production,   \* TRUE: contract v2 (production), FALSE: v1 (Testnet)
  MaxCycles,    \* bound: entries submitted in the session
  MaxQty,       \* bound: quantity of one entry
  MaxAttempts,  \* bound: host-authorized disposal attempts
  Notes         \* what an execution may carry besides its quantity

ASSUME ProductionAssumption == Production \in BOOLEAN
ASSUME BoundsAssumption ==
  /\ MaxCycles \in Nat \ {0}
  /\ MaxQty \in Nat \ {0}
  /\ MaxAttempts \in Nat
ASSUME NotesAssumption ==
  "plain" \in Notes /\ Notes \subseteq {"plain", "outside", "thirdAsset"}

(***************************************************************************)
(* A durable fact is one journal record an operation leaves; the facts of  *)
(* the first four kinds are the intents of orders, and name them.  The     *)
(* stop and target of one protection are one order here, the linked list.  *)
(***************************************************************************)
OrderKinds == {"entry", "oco", "close", "disposal"}
FactKinds == OrderKinds \cup {"cancel_entry", "cancel_all", "reserve", "trade", "finish"}
Numbers == 0 .. (MaxCycles + MaxAttempts + 1)
Facts == [kind : FactKinds, n : Numbers]
Orders == [kind : OrderKinds, n : Numbers]
Fact(kind, n) == [kind |-> kind, n |-> n]

VARIABLES
  \* the venue (and, in calls, what the engine asked of it)
  st,       \* order -> "none", "flying", "working", "triggered", "done"
  rem,      \* order -> quantity not yet executed
  grade,    \* how the venue took the latest linked list
  events,   \* executions, in the venue's order
  calls,    \* fact -> number of mutating broker calls made for it
  \* the durable archive
  log,      \* facts recorded
  logged,   \* number of executions recorded
  logStart, \* number of executions recorded before the latest entry intent
  saved,    \* the pending and protection fields of the last spot_state
  \* the coordinator's memory
  mem, seen, baseline, entry_id, close_id, close_attempted, pending, ready,
  halted, uncertain, flat_confirmed, protection, outside_bracket, restored,
  persistence_failed,
  \* the operation under way, and what follows a close() called inside it
  pc, ret

venueVars == <<st, rem, grade, events, calls>>
logVars == <<log, logged, logStart>>
identityVars == <<baseline, entry_id, close_id, restored>>
flagVars == <<ready, halted, uncertain, flat_confirmed>>
memVars == <<mem, seen, identityVars, close_attempted, pending, flagVars,
             protection, outside_bracket, persistence_failed>>
vars == <<venueVars, logVars, saved, memVars, pc, ret>>

Statuses == {"none", "flying", "working", "triggered", "done"}
Grades == {"exact", "dust", "bad"}
Labels == {"idle", "poll", "cancel_entry", "poll_report", "protect", "protect_report",
           "close", "close_cancel", "close_report", "close_sell", "close_confirm",
           "retry_send", "finish_write"}
Execution == [order : Orders, qty : Nat \ {0}, full : BOOLEAN, note : Notes, base : Nat]

TypeOK ==
  /\ st \in [Orders -> Statuses]
  /\ rem \in [Orders -> Nat]
  /\ grade \in Grades
  /\ events \in Seq(Execution)
  /\ calls \in [Facts -> 0 .. 2]
  /\ log \in SUBSET Facts /\ mem \in SUBSET Facts
  /\ logged \in 0 .. Len(events) /\ seen \in 0 .. Len(events)
  /\ logStart \in Nat /\ baseline \in Nat
  /\ saved \in [pending : BOOLEAN, protection : BOOLEAN]
  /\ entry_id \in 0 .. MaxCycles /\ close_id \in Numbers
  /\ close_attempted \in BOOLEAN /\ pending \in BOOLEAN /\ ready \in BOOLEAN
  /\ halted \in BOOLEAN /\ uncertain \in BOOLEAN /\ flat_confirmed \in BOOLEAN
  /\ protection \in BOOLEAN /\ outside_bracket \in BOOLEAN
  /\ restored \in BOOLEAN /\ persistence_failed \in BOOLEAN
  /\ pc \in Labels /\ ret \in {"none", "host", "poll", "raise"}

(***************************************************************************)
(* Balances.  An execution carries the base held after it, so the ledger's *)
(* quantity is that of the last execution it applied.                      *)
(***************************************************************************)
QtyAt(k) == IF k = 0 THEN 0 ELSE events[k].base
quantity == QtyAt(seen)
Base == QtyAt(Len(events))

Live == {o \in Orders : st[o] \in {"flying", "working", "triggered"}}
Open == {o \in Orders : st[o] \in {"working", "triggered"}}
terminal == \E n \in Numbers : Fact("finish", n) \in mem

Init ==
  /\ st = [o \in Orders |-> "none"]
  /\ rem = [o \in Orders |-> 0]
  /\ grade = "exact"
  /\ events = <<>>
  /\ calls = [f \in Facts |-> 0]
  /\ log = {} /\ logged = 0 /\ logStart = 0
  /\ saved = [pending |-> FALSE, protection |-> FALSE]
  /\ mem = {} /\ seen = 0 /\ baseline = 0
  /\ entry_id = 0 /\ close_id = 0
  /\ close_attempted = FALSE /\ pending = FALSE /\ ready = FALSE
  /\ halted = FALSE /\ uncertain = FALSE /\ flat_confirmed = FALSE
  /\ protection = FALSE /\ outside_bracket = FALSE
  /\ restored = FALSE /\ persistence_failed = FALSE
  /\ pc = "idle" /\ ret = "none"

-----------------------------------------------------------------------------
(***************************************************************************)
(* The venue.                                                              *)
(***************************************************************************)
engineVars == <<calls, logVars, saved, memVars, pc, ret>>

\* How the venue takes a linked list for quantity q: as asked, short of an
\* untradeable remainder, or at prices the request does not allow.
TakenList(o, q) ==
  \E g \in Grades :
    /\ g = "dust" => q > 1
    /\ grade' = g
    /\ rem' = [rem EXCEPT ![o] = IF g = "dust" THEN q - 1 ELSE q]

\* A request whose reply was lost reaches the venue after all ...
VenueArrive(o) ==
  /\ st[o] = "flying"
  /\ st' = [st EXCEPT ![o] = "working"]
  /\ \/ o.kind # "oco" /\ UNCHANGED <<rem, grade>>
     \/ o.kind = "oco" /\ TakenList(o, rem[o])
  /\ UNCHANGED <<events, engineVars>>

\* ... or never does, or an order the venue holds expires or is cancelled.
VenueEnd(o) ==
  /\ st[o] \in {"flying", "working", "triggered"}
  /\ st' = [st EXCEPT ![o] = "done"]
  /\ UNCHANGED <<rem, grade, events, engineVars>>

\* An order executes in part or in full.  A partial leg of a linked list may
\* leave the list as it is or cancel the sibling leg.
VenueFill(o, q, note) ==
  /\ st[o] \in {"working", "triggered"}
  /\ q <= rem[o]
  /\ o.kind # "entry" => q <= Base /\ note # "outside"
  /\ rem' = [rem EXCEPT ![o] = @ - q]
  /\ \E s \in IF q = rem[o] THEN {"done"}
               ELSE IF o.kind = "oco" THEN {st[o], "triggered"} ELSE {st[o]} :
       st' = [st EXCEPT ![o] = s]
  /\ events' = Append(events,
       [order |-> o, qty |-> q, full |-> (q = rem[o]), note |-> note,
        base |-> IF o.kind = "entry" THEN Base + q ELSE Base - q])
  /\ UNCHANGED <<grade, engineVars>>

\* What a mutating broker call does at the venue: the order is accepted, is
\* rejected, or the reply is lost with the request in flight.
Outcomes == {"accepted", "rejected", "lost"}
Counted(f) == [calls EXCEPT ![f] = IF @ = 2 THEN 2 ELSE @ + 1]
Sent(o, outcome) ==
  /\ st' = [st EXCEPT ![o] = CASE outcome = "accepted" -> "working"
                               [] outcome = "rejected" -> "done"
                               [] outcome = "lost" -> "flying"]
  /\ calls' = Counted(o)
  /\ events' = events
Place(o, q, outcome) ==
  /\ Sent(o, outcome)
  /\ rem' = [rem EXCEPT ![o] = q]
  /\ grade' = grade

-----------------------------------------------------------------------------
(***************************************************************************)
(* Outcomes of an operation.                                               *)
(***************************************************************************)
Halt == halted' = TRUE /\ uncertain' = TRUE /\ ready' = FALSE /\ flat_confirmed' = FALSE

Done == pc' = "idle" /\ ret' = "none"

\* An exception leaves the operation through its handler.
Raise == Halt /\ Done /\ UNCHANGED <<protection, saved>>

\* _save: the pending and protection fields of the spot_state record.
Save == saved' = [pending |-> pending', protection |-> protection']

\* Durable write of the fact f, then its entry in memory.
Write(f) == log' = log \cup {f} /\ mem' = mem \cup {f}

\* close() up to its first broker call; r is what follows it.
AfterFirstReport == IF close_attempted THEN "close_report" ELSE "close_cancel"
CallClose(r, flat) ==
  /\ halted' = TRUE /\ ready' = FALSE
  /\ flat_confirmed' = flat
  /\ pc' = IF Production THEN "close" ELSE AfterFirstReport
  /\ ret' = r
  /\ UNCHANGED <<uncertain, protection, saved>>

-----------------------------------------------------------------------------
(***************************************************************************)
(* _consume and _report.                                                   *)
(***************************************************************************)
NewExecutions(k) == {events[i] : i \in (seen + 1) .. k}

CurrentOrders ==
  {Fact("entry", entry_id), Fact("close", close_id), Fact("oco", entry_id)}
    \cup {Fact("disposal", n) : n \in {m \in Numbers : Fact("reserve", m) \in mem}}

HaltedBy(k) ==
  \/ halted
  \/ \E e \in NewExecutions(k) :
       \/ ~e.full /\ (Production \/ e.order.kind = "entry")
       \/ e.note = "thirdAsset"

OutsideBy(k) ==
  \/ outside_bracket
  \/ \E e \in NewExecutions(k) : e.order.kind = "entry" /\ e.note = "outside"

\* Every execution up to k is of an order of the current cycle.
Attributed(k) == \A e \in NewExecutions(k) : e.order \in mem \cap CurrentOrders

ConsumeOneTooMany(k) ==   \* mutant: an execution counted twice
  Attributed(k) /\ seen' = k + 1 /\ outside_bracket' = OutsideBy(k)

Consume(k) ==
  /\ Attributed(k)
  /\ seen' = k
  /\ outside_bracket' = OutsideBy(k)

SettledByAbsence(o) == st[o] # "triggered"   \* mutant: a request not found is taken as gone

\* Whether the evidence settles an order: an intent that was never sent is
\* settled by the host's dispatch record, an active list by both its legs.
Settled(o) == st[o] \in {"none", "working", "done"}
Unresolved == {o \in mem \cap Orders : ~Settled(o)}

\* A snapshot that raises no error in _report; unk: unknown_request_ids is
\* not empty: an intent the evidence leaves unresolved or, by the host's own word,
\* a request or fees it cannot account for (v2 only).
Now == Len(events)
Reported(unk) ==
  /\ ~Production => \A o \in Orders : st[o] # "flying"
  /\ Open \subseteq mem \cap CurrentOrders
  /\ unk => Production
  /\ Production /\ Unresolved # {} => unk

EntryOpen == \E o \in Open : o.kind = "entry"
FlatByBalance(unk) == QtyAt(Now) = 0 /\ Open = {}   \* mutant: unknown requests ignored
FlatNow(unk) == QtyAt(Now) = 0 /\ Open = {} /\ ~unk

\* mutant: the first exit completes the trade
CompleteTradeEarly(flat) ==
  IF /\ entry_id # 0 /\ Fact("trade", entry_id) \notin mem
     /\ \E i \in (baseline + 1) .. Now : events[i].order.kind # "entry"
  THEN {Fact("trade", entry_id)} ELSE {}

\* _complete_trade: the record of the finished cycle, once.
CompleteTrade(flat) ==
  LET cycle == {events[i] : i \in (baseline + 1) .. Now}
  IN  IF /\ flat /\ entry_id # 0
         /\ \E e \in cycle : e.order.kind = "entry"
         /\ \E e \in cycle : e.order.kind # "entry"
         /\ Fact("trade", entry_id) \notin mem
      THEN {Fact("trade", entry_id)} ELSE {}

Report(unk) ==
  /\ Reported(unk)
  /\ Consume(Now)
  /\ logged' = Now
  /\ pending' = EntryOpen
  /\ LET trade == CompleteTrade(FlatNow(unk))
     IN  log' = log \cup trade /\ mem' = mem \cup trade
  /\ UNCHANGED <<venueVars, logStart, identityVars, close_attempted, persistence_failed>>

\* _validate_protection against the snapshot.
Dust == IF grade = "dust" THEN 1 ELSE 0
ValidProtection ==
  LET list == Fact("oco", entry_id)
  IN  /\ list \in mem
      /\ Open = {list} /\ st[list] = "working"
      /\ grade # "bad"
      /\ rem[list] > 0 /\ rem[list] + Dust = QtyAt(Now)

ListReported == \E o \in Orders : o.kind = "oco" /\ st[o] = "working"

-----------------------------------------------------------------------------
(***************************************************************************)
(* submit, run by LiveEngine._try_enter, which polls at once.              *)
(***************************************************************************)
CanSubmitPending ==   \* mutant: a pending entry does not block the next
  /\ pc = "idle" /\ ~halted /\ ready /\ quantity = 0
  /\ entry_id < MaxCycles

CanSubmit ==
  /\ pc = "idle" /\ ~halted /\ ready /\ ~pending /\ quantity = 0
  /\ entry_id < MaxCycles

Submit(q, outcome) ==
  LET entry == Fact("entry", entry_id + 1)
  IN  /\ CanSubmit
      /\ Write(entry)
      /\ Place(entry, q, outcome)
      /\ entry_id' = entry_id + 1 /\ close_id' = 0 /\ close_attempted' = FALSE
      /\ baseline' = seen /\ logStart' = logged
      /\ outside_bracket' = FALSE /\ pending' = TRUE
      /\ IF outcome = "accepted"
           THEN UNCHANGED <<halted, uncertain, ready>> /\ flat_confirmed' = FALSE
           ELSE Halt
      /\ UNCHANGED <<logged, seen, restored, protection, persistence_failed>>
      /\ IF outcome = "lost" THEN Done /\ saved' = saved
                             ELSE pc' = "poll" /\ ret' = "none" /\ Save

(***************************************************************************)
(* poll, from the host's supervision or right after submit.                *)
(***************************************************************************)
SupervisedForever == ~persistence_failed   \* mutant: custody does not stop supervision
Supervised == ~persistence_failed /\ ~terminal

\* The end of poll on the evidence of the last report, h: entries halted.
PollReturnRearmed(h, unk) ==   \* mutant: a flat position clears the halt
  /\ halted' = (h /\ ~FlatNow(unk)) /\ uncertain' = FALSE /\ ready' = ready
  /\ flat_confirmed' = FlatNow(unk)
  /\ Done /\ Save

PollReturn(h, unk) ==
  /\ halted' = h /\ uncertain' = FALSE /\ ready' = ready
  /\ flat_confirmed' = FlatNow(unk)
  /\ Done /\ Save

PollDecide(h, unk) ==
  \/ /\ QtyAt(Now) = 0
     /\ \/ Open # {} /\ Raise
        \/ Open = {} /\ protection' = FALSE /\ PollReturn(h, unk)
  \/ /\ QtyAt(Now) > 0
     /\ \/ OutsideBy(Now) /\ CallClose("poll", FALSE)
        \/ /\ ~OutsideBy(Now) /\ ListReported
           /\ \/ /\ ValidProtection
                 /\ protection' = TRUE
                 /\ PollReturn(h \/ grade = "dust", unk)
              \/ ~ValidProtection /\ CallClose("raise", FALSE)
        \/ /\ ~OutsideBy(Now) /\ ~ListReported
           /\ \/ /\ protection \/ close_attempted \/ restored
                    \/ Fact("oco", entry_id) \in mem
                 /\ CallClose("poll", FALSE)
              \/ /\ ~(protection \/ close_attempted \/ restored)
                 /\ Fact("oco", entry_id) \notin mem
                 /\ \/ (Open # {} \/ entry_id = 0) /\ Raise
                    \/ /\ Open = {} /\ entry_id # 0
                       /\ halted' = h /\ flat_confirmed' = FALSE /\ pc' = "protect"
                       /\ UNCHANGED <<uncertain, ready, protection, saved, ret>>

Poll ==
  /\ pc \in {"idle", "poll"} /\ Supervised
  /\ \E unk \in BOOLEAN :
       /\ Report(unk)
       /\ \/ Production /\ unk /\ Raise
          \/ /\ ~(Production /\ unk)
             /\ EntryOpen /\ (QtyAt(Now) > 0 \/ (Production /\ HaltedBy(Now)))
             /\ halted' = TRUE /\ flat_confirmed' = FALSE
             /\ pc' = IF Fact("cancel_entry", entry_id) \in mem
                        THEN "poll_report" ELSE "cancel_entry"
             /\ UNCHANGED <<uncertain, ready, protection, saved, ret>>
          \/ /\ ~(Production /\ unk)
             /\ EntryOpen /\ QtyAt(Now) = 0 /\ ~(Production /\ HaltedBy(Now))
             /\ halted' = HaltedBy(Now) /\ flat_confirmed' = FALSE
             /\ Done /\ UNCHANGED <<uncertain, ready, protection>> /\ Save
          \/ ~(Production /\ unk) /\ ~EntryOpen /\ PollDecide(HaltedBy(Now), unk)

\* Cancellation of the pending entry, asked once; a return is no proof, and
\* the call may raise.
CancelEntry(cancelled, raised) ==
  LET entry == Fact("entry", entry_id)
  IN  /\ pc = "cancel_entry"
      /\ Write(Fact("cancel_entry", entry_id))
      /\ calls' = Counted(Fact("cancel_entry", entry_id))
      /\ st' = IF cancelled /\ entry \in Open THEN [st EXCEPT ![entry] = "done"] ELSE st
      /\ \/ raised /\ Raise
         \/ ~raised /\ pc' = "poll_report" /\ UNCHANGED <<flagVars, protection, saved, ret>>
      /\ UNCHANGED <<rem, grade, events, logged, logStart, seen, identityVars,
                     close_attempted, pending, outside_bracket, persistence_failed>>

PollReport ==
  /\ pc = "poll_report"
  /\ \E unk \in BOOLEAN :
       /\ Report(unk)
       /\ \/ ((Production /\ unk) \/ EntryOpen) /\ Raise
          \/ ~(Production /\ unk) /\ ~EntryOpen /\ PollDecide(HaltedBy(Now), unk)

(***************************************************************************)
(* _protect: one linked list for the confirmed inventory.  Any exception   *)
(* after the intent turns into close(), and is raised again after it.      *)
(***************************************************************************)
Protect(outcome) ==
  LET list == Fact("oco", entry_id)
  IN  /\ pc = "protect"
      /\ Write(list)
      /\ Sent(list, outcome)
      /\ IF outcome = "accepted" THEN TakenList(list, quantity)
           ELSE rem' = [rem EXCEPT ![list] = quantity] /\ grade' = grade
      /\ IF outcome = "accepted" /\ grade' # "bad"
           THEN /\ halted' = (halted \/ grade' = "dust")
                /\ pc' = "protect_report"
                /\ UNCHANGED <<ready, uncertain, flat_confirmed, protection, saved, ret>>
           ELSE CallClose("raise", flat_confirmed)
      /\ UNCHANGED <<logged, logStart, seen, identityVars, close_attempted, pending,
                     outside_bracket, persistence_failed>>

ProtectReport ==
  /\ pc = "protect_report"
  /\ \E unk \in BOOLEAN :
       /\ Report(unk)
       /\ \/ Production /\ unk /\ CallClose("raise", FALSE)
          \/ /\ ~(Production /\ unk)
             /\ \/ /\ FlatNow(unk)
                   /\ protection' = FALSE /\ PollReturn(HaltedBy(Now), unk)
                \/ /\ ~FlatNow(unk) /\ ListReported /\ ValidProtection
                   /\ protection' = TRUE
                   /\ PollReturn(HaltedBy(Now) \/ grade = "dust", unk)
                \/ /\ ~FlatNow(unk) /\ ~(ListReported /\ ValidProtection)
                   /\ CallClose("raise", FALSE)

(***************************************************************************)
(* close: cancel everything once, prove it, sell once, prove flat.         *)
(***************************************************************************)
Close ==
  /\ pc = "idle" /\ ~persistence_failed
  /\ IF terminal
       THEN halted' = TRUE /\ ready' = FALSE
            /\ UNCHANGED <<uncertain, flat_confirmed, protection, saved, pc, ret>>
       ELSE CallClose("host", flat_confirmed)
  /\ UNCHANGED <<venueVars, logVars, mem, seen, identityVars, close_attempted, pending,
                 outside_bracket, persistence_failed>>

\* close() returns, flat, to the host, to poll or to a handler that raises.
CloseReturn ==
  /\ protection' = FALSE
  /\ halted' = TRUE /\ ready' = FALSE
  /\ uncertain' = (ret = "raise") /\ flat_confirmed' = (ret # "raise")
  /\ Done /\ Save

CloseStart ==
  /\ pc = "close"
  /\ \E unk \in BOOLEAN :
       /\ Report(unk)
       /\ \/ unk /\ Raise
          \/ /\ ~unk
             /\ halted' = TRUE /\ flat_confirmed' = FlatNow(unk)
             /\ pc' = AfterFirstReport
             /\ UNCHANGED <<ready, uncertain, protection, saved, ret>>

\* cancel_all: of the orders the venue holds, gone ones are cancelled now.
CloseCancel(gone, raised) ==
  /\ pc = "close_cancel"
  /\ Write(Fact("cancel_all", 0))
  /\ close_attempted' = TRUE
  /\ calls' = Counted(Fact("cancel_all", 0))
  /\ st' = [o \in Orders |-> IF o \in gone THEN "done" ELSE st[o]]
  /\ \/ raised /\ Raise
     \/ ~raised /\ pc' = "close_report" /\ UNCHANGED <<flagVars, protection, saved, ret>>
  /\ UNCHANGED <<rem, grade, events, logged, logStart, seen, identityVars, pending,
                 outside_bracket, persistence_failed>>

\* The cancellation left an order, or a request nobody can account for.
CancellationUnproved(unk) == Open # {} \/ (Production /\ unk)

CloseReport ==
  /\ pc = "close_report"
  /\ \E unk \in BOOLEAN :
       /\ Report(unk)
       /\ \/ CancellationUnproved(unk) /\ Raise
          \/ /\ ~CancellationUnproved(unk)
             /\ \/ FlatNow(unk) /\ CloseReturn
                \/ /\ ~FlatNow(unk)
                   /\ halted' = TRUE /\ flat_confirmed' = FALSE
                   /\ pc' = IF close_id = 0 THEN "close_sell" ELSE "close_confirm"
                   /\ UNCHANGED <<ready, uncertain, protection, saved, ret>>

\* The SELL is numbered by the intents before it, of which the entry is one.
CloseNumbers == Numbers \ {0}
Intents == {f \in mem : f.kind \in {"entry", "close", "disposal"}}
CloseSell(n, outcome) ==
  LET sell == Fact("close", n)
  IN  /\ pc = "close_sell"
      /\ n = Cardinality(Intents)
      /\ Write(sell)
      /\ Place(sell, quantity, outcome)
      /\ close_id' = n
      /\ \/ outcome = "lost" /\ Raise
         \/ /\ outcome # "lost" /\ pc' = "close_confirm"
            /\ UNCHANGED <<flagVars, protection, saved, ret>>
      /\ UNCHANGED <<logged, logStart, seen, baseline, entry_id, restored, close_attempted,
                     pending, outside_bracket, persistence_failed>>

CloseConfirmAgain ==   \* mutant: an unconfirmed closure is reported on again
  /\ pc = "close_confirm"
  /\ \E unk \in BOOLEAN :
       /\ Report(unk)
       /\ \/ /\ ~FlatNow(unk) /\ pc' = "close_report"
             /\ UNCHANGED <<flagVars, protection, saved, ret>>
          \/ FlatNow(unk) /\ CloseReturn

CloseConfirm ==
  /\ pc = "close_confirm"
  /\ \E unk \in BOOLEAN :
       /\ Report(unk)
       /\ \/ ~FlatNow(unk) /\ Raise
          \/ FlatNow(unk) /\ CloseReturn

(***************************************************************************)
(* observe, reconcile and halt_entries: evidence only, no broker mutation. *)
(***************************************************************************)
ProtectedNow == ListReported /\ ValidProtection
ExposureIgnored(unk) == EntryOpen \/ unk   \* mutant: naked inventory is only looked at

\* What an observation halts entries for.
ExposureUnsafe(unk) ==
  EntryOpen \/ unk \/ (QtyAt(Now) > 0 /\ (~ProtectedNow \/ grade = "dust"))

\* observe() up to its save, with entries already halted if h.
Observation(unk, h) ==
  /\ Report(unk)
  /\ protection' = (~EntryOpen /\ ~unk /\ QtyAt(Now) > 0 /\ ProtectedNow)
  /\ ready' = FlatNow(unk)
  /\ uncertain' = unk
  /\ flat_confirmed' = FlatNow(unk)
  /\ halted' = (h \/ HaltedBy(Now) \/ ExposureUnsafe(unk))
  /\ Save

Observe ==
  /\ pc = "idle" /\ ~persistence_failed
  /\ \E unk \in BOOLEAN : Observation(unk, FALSE)
  /\ Done

Reconcile ==
  /\ pc = "idle" /\ ~persistence_failed
  /\ \E unk \in BOOLEAN :
       LET ok == /\ ~unk /\ ~EntryOpen
                 /\ IF QtyAt(Now) > 0 THEN ProtectedNow ELSE Open = {}
       IN  /\ Report(unk)
           /\ \/ ~ok /\ Raise
              \/ /\ ok
                 /\ protection' = (QtyAt(Now) > 0)
                 /\ halted' = (HaltedBy(Now) \/ (QtyAt(Now) > 0 /\ grade = "dust"))
                 /\ uncertain' = FALSE /\ ready' = TRUE
                 /\ flat_confirmed' = FlatNow(unk)
                 /\ Done /\ Save

HaltEntries ==
  /\ pc = "idle" /\ ~persistence_failed
  /\ halted' = TRUE
  /\ UNCHANGED <<venueVars, logVars, mem, seen, identityVars, close_attempted, pending, ready,
                 uncertain, flat_confirmed, protection, outside_bracket, persistence_failed,
                 pc, ret>>
  /\ Save

\* LiveEngine._contain_exposure, after a failed bar, poll or callback.
ContainExposure ==
  /\ pc = "idle" /\ ~terminal
  /\ halted' = TRUE /\ uncertain' = TRUE /\ ready' = FALSE
  /\ UNCHANGED <<venueVars, logVars, saved, mem, seen, identityVars, close_attempted, pending,
                 flat_confirmed, protection, outside_bracket, persistence_failed, pc, ret>>

(***************************************************************************)
(* SpotControls: an authorized disposal of a remainder, and the terminal   *)
(* custody record.  Both observe first; a refusal after that leaves what   *)
(* Observe leaves.                                                         *)
(***************************************************************************)
RetryClose ==
  /\ Production
  /\ pc = "idle" /\ ~persistence_failed /\ ~terminal
  /\ \E a \in 1 .. MaxAttempts : Fact("reserve", a) \notin mem
  /\ Observation(FALSE, FALSE)
  /\ halted' /\ Open = {} /\ QtyAt(Now) > 0
  /\ \E i \in (baseline + 1) .. Now : events[i].order.kind # "entry"
  /\ pc' = "retry_send" /\ ret' = ret

RetrySend(a, q, outcome) ==
  LET sell == Fact("disposal", a)
      reservation == Fact("reserve", a)
  IN  /\ pc = "retry_send"
      /\ reservation \notin mem
      /\ q <= quantity
      /\ log' = log \cup {reservation, sell} /\ mem' = mem \cup {reservation, sell}
      /\ Place(sell, q, outcome)
      /\ UNCHANGED <<logged, logStart, seen, identityVars, close_attempted, pending,
                     outside_bracket, persistence_failed>>
      /\ \/ outcome = "lost" /\ Raise
         \/ outcome # "lost" /\ Done /\ UNCHANGED <<flagVars, protection>> /\ Save

Finish(disposition) ==
  /\ Production
  /\ pc = "idle" /\ ~persistence_failed /\ ~terminal
  /\ Observation(FALSE, TRUE)
  /\ ~EntryOpen
  /\ IF disposition = "closed_flat" THEN FlatNow(FALSE)
       ELSE Open = {} \/ ProtectedNow
  /\ pc' = "finish_write" /\ ret' = ret

FinishWrite ==
  /\ pc = "finish_write"
  /\ Write(Fact("finish", 0))
  /\ Done
  /\ UNCHANGED <<venueVars, logged, logStart, seen, identityVars, close_attempted, pending,
                 flagVars, protection, outside_bracket, persistence_failed>>
  /\ Save

-----------------------------------------------------------------------------
(***************************************************************************)
(* Failures.                                                               *)
(***************************************************************************)
ReportLabels == {"idle", "poll", "poll_report", "protect_report", "close", "close_report",
                 "close_confirm"}
readVars == <<venueVars, logStart, mem, identityVars, close_attempted, pending>>

\* A read fails, or its evidence is refused, after some of its executions
\* were applied: poll, observe, reconcile, close and _protect all halt.
ReadFails(k) ==
  /\ pc \in ReportLabels /\ ~persistence_failed
  /\ Consume(k) /\ logged' = k
  /\ IF pc = "protect_report" THEN CallClose("raise", flat_confirmed) ELSE Raise
  /\ UNCHANGED <<readVars, log, persistence_failed>>

\* A durable write of a report fails: of an execution, which may have been
\* committed all the same, or of a record after the executions.
RecordFails(k, j) ==
  /\ pc \in ReportLabels /\ ~persistence_failed
  /\ Consume(k)
  /\ j \in {k, k + 1} /\ j <= Now /\ logged' = j
  /\ (j > k => Attributed(j))
  /\ \/ log' = log
     \/ k = Now /\ Reported(FALSE) /\ log' = log \cup CompleteTrade(FlatNow(FALSE))
  /\ persistence_failed' = TRUE /\ Raise
  /\ UNCHANGED readVars

\* The durable write ahead of a mutating broker call fails, committed or not.
NextFacts ==
  CASE pc = "cancel_entry" -> {{Fact("cancel_entry", entry_id)}}
    [] pc = "protect" -> {{Fact("oco", entry_id)}}
    [] pc = "close_cancel" -> {{Fact("cancel_all", 0)}}
    [] pc = "close_sell" -> {{Fact("close", n)} : n \in {Cardinality(Intents)} \cap CloseNumbers}
    [] pc = "retry_send" ->
         UNION {{{Fact("reserve", a)}, {Fact("reserve", a), Fact("disposal", a)}} :
                  a \in {b \in 1 .. MaxAttempts : Fact("reserve", b) \notin mem}}
    [] pc = "finish_write" -> {{Fact("finish", 0)}}
    [] OTHER -> {}

WriteFails(facts) ==
  /\ log' = log \cup facts
  /\ persistence_failed' = TRUE /\ Raise
  /\ UNCHANGED <<venueVars, logged, logStart, mem, seen, identityVars, close_attempted, pending,
                 outside_bracket>>

SubmitWriteFails(committed) ==
  /\ CanSubmit
  /\ IF committed THEN log' = log \cup {Fact("entry", entry_id + 1)} /\ logStart' = logged
                  ELSE UNCHANGED <<log, logStart>>
  /\ close_id' = 0 /\ close_attempted' = FALSE /\ baseline' = seen
  /\ outside_bracket' = FALSE
  /\ persistence_failed' = TRUE /\ Raise
  /\ UNCHANGED <<venueVars, logged, mem, seen, entry_id, restored, pending>>

\* The latest fact of a kind on record, 0 if there is none.
IsLast(n, kind) ==
  /\ n = 0 \/ Fact(kind, n) \in log
  /\ \A m \in Numbers : m > n => Fact(kind, m) \notin log

\* The restored close facts: the last emergency SELL and the cancellation.
CloseForgotten(n) == n = 0   \* mutant: the close id is not restored
RestoredClose(n) == IsLast(n, "close")
CancellationForgotten == FALSE   \* mutant: close_attempted is not restored
RestoredCancellation == Fact("cancel_all", 0) \in log

\* The engine stops anywhere, or is poisoned, and a fresh one is restored.
Restart ==
  /\ mem' = log /\ seen' = logged /\ baseline' = logStart
  /\ \E e \in 0 .. MaxCycles : IsLast(e, "entry") /\ entry_id' = e
  /\ \E n \in Numbers : RestoredClose(n) /\ close_id' = n
  /\ close_attempted' = RestoredCancellation
  /\ pending' = (Production /\ saved.pending)
  /\ protection' = (Production /\ saved.protection)
  /\ outside_bracket' = (/\ Production
                         /\ \E i \in 1 .. logged : /\ events[i].order = Fact("entry", entry_id')
                                                   /\ events[i].note = "outside")
  /\ restored' = TRUE /\ persistence_failed' = FALSE
  /\ Halt /\ Done
  /\ UNCHANGED <<venueVars, logVars>>
  /\ IF Production THEN Save ELSE saved' = saved

-----------------------------------------------------------------------------
Venue ==
  \E o \in Orders :
    \/ VenueArrive(o)
    \/ VenueEnd(o)
    \/ \E q \in 1 .. MaxQty, note \in Notes : VenueFill(o, q, note)

\* Steps of the operation under way.
Resume ==
  \/ pc = "poll" /\ Poll
  \/ \E cancelled, raised \in BOOLEAN : CancelEntry(cancelled, raised)
  \/ PollReport
  \/ \E outcome \in Outcomes : Protect(outcome)
  \/ ProtectReport
  \/ CloseStart
  \/ \E gone \in SUBSET Open, raised \in BOOLEAN : CloseCancel(gone, raised)
  \/ CloseReport
  \/ \E n \in CloseNumbers, outcome \in Outcomes : CloseSell(n, outcome)
  \/ CloseConfirm
  \/ \E a \in 1 .. MaxAttempts, q \in 1 .. MaxQty, outcome \in Outcomes :
       RetrySend(a, q, outcome)
  \/ FinishWrite
  \/ pc # "idle" /\ \E k \in seen .. Now : ReadFails(k)

\* Calls of the host, one at a time.
HostCall ==
  \/ \E q \in 1 .. MaxQty, outcome \in Outcomes : Submit(q, outcome)
  \/ pc = "idle" /\ Poll
  \/ Close
  \/ Observe
  \/ Reconcile
  \/ HaltEntries
  \/ ContainExposure
  \/ RetryClose
  \/ \E disposition \in {"closed_flat", "custody_transferred"} : Finish(disposition)
  \/ pc = "idle" /\ \E k \in seen .. Now : ReadFails(k)

Failure ==
  \/ \E k \in seen .. Now : \E j \in {k, k + 1} : RecordFails(k, j)
  \/ \E facts \in NextFacts : \E f \in {{}, facts} : WriteFails(f)
  \/ \E committed \in BOOLEAN : SubmitWriteFails(committed)
  \/ Restart

Next == Venue \/ Resume \/ HostCall \/ Failure

Spec == Init /\ [][Next]_vars

\* A synchronous call runs to its end: the engine's own steps are fair.
FairSpec == Spec /\ WF_vars(Resume)

-----------------------------------------------------------------------------
(***************************************************************************)
(* Safety.                                                                 *)
(***************************************************************************)
\* At most one order of the session is in flight or working at the venue, and
\* a SELL among them is for no more than the base held there: a protection, an
\* emergency SELL and a disposal never compete for the same inventory, and none
\* is placed against an unresolved BUY, whatever reply was lost (close,
\* _protect, retry_close).
NoOversell ==
  /\ \A o, p \in Live : o = p
  /\ \A o \in Live : o.kind # "entry" => rem[o] <= Base

\* Every mutating broker call was on record before it was made, and none is
\* made twice for the same record, restarts included: a stopped engine leaves
\* no order the archive does not name, and a lost reply is never answered by
\* sending again (_write, submit, _protect, close, poll, retry_close, restore).
RecordedOnce ==
  \A f \in Facts : (calls[f] > 0 => f \in log) /\ calls[f] <= 1

\* The emergency SELL has a new client id every time it is built, so sending
\* it once is more than RecordedOnce says: one close per session, ever, also
\* when the engine restarts between the intent and the reply (close, restore).
OneClose ==
  \A m, n \in Numbers : calls[Fact("close", m)] > 0 /\ calls[Fact("close", n)] > 0 => m = n

\* flat_confirmed means flat: the venue holds no base and no order, in flight
\* or working, and the ledger has every execution (_report, submit).
FlatIsFlat == flat_confirmed => Base = 0 /\ Live = {} /\ seen = Len(events)

\* Between operations an engine that still admits entries holds no inventory
\* without a protection that it saw accepted: whatever leaves inventory naked
\* halts entries (poll, observe, reconcile, _protect).
NakedHalts ==
  pc = "idle" /\ ~halted /\ quantity > 0
    => protection /\ st[Fact("oco", entry_id)] \notin {"none", "flying"}

\* An entry is sent only from a flat venue that owes the engine nothing: no
\* base, no order in flight or working, no execution it has not applied
\* (submit's guard on halted, ready, pending and quantity).
EntryFromFlat ==
  [][\A c \in Numbers : calls'[Fact("entry", c)] > calls[Fact("entry", c)]
       => Base = 0 /\ Live = {} /\ seen = Len(events)]_vars

\* Once the custody record is committed no broker call mutates the venue any
\* more, in this engine or a restored one, even when the commit was reported
\* as a failure (finish, poll, close, restore).
CustodyFinal ==
  [][\A n \in Numbers : Fact("finish", n) \in log => calls' = calls]_vars

\* Halting is for good: no observation, reconciliation, close or restart
\* re-admits entries (halt_entries, _halt, restore).
HaltIsFinal == [][halted => halted']_vars

\* The trade record of a cycle closes it: no execution follows it before the
\* next entry (_complete_trade, _report).
TradeIsFinal ==
  [][Fact("trade", entry_id) \in log => events' = events]_vars

-----------------------------------------------------------------------------
(***************************************************************************)
(* Liveness.                                                               *)
(***************************************************************************)
\* Every operation ends: the chain of poll, cancellation, protection and close
\* it may run through has no cycle (poll, _protect, close).
OperationEnds == pc # "idle" ~> pc = "idle"
=============================================================================
