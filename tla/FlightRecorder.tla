---------------------------- MODULE FlightRecorder ----------------------------
(***************************************************************************)
(* PacketFlightRecorder: a ring of records that several realtime threads   *)
(* write without a lock and that the control thread snapshots once the     *)
(* stream has stopped.                                                     *)
(*                                                                         *)
(* A record's payload stands for the record() call that wrote it, in two   *)
(* halves, so that a torn record can be told from a whole one.  stop()     *)
(* joins the event thread; the adapter's submitQuantum() leaves the gate   *)
(* that stop() waits on before it records its outcome, so the render       *)
(* thread may still be inside record() when the control thread goes on to  *)
(* read or to re-enable the recorder.                                      *)
(***************************************************************************)
EXTENDS Integers, Sequences, FiniteSets

CONSTANTS
  Joined,            \* producers that stop() waits for: the event thread
  Stragglers,        \* producers it does not wait for: the render thread
  Events,            \* event types
  Unknown,           \* Event::Unknown
  RequestedCapacity, \* the constructor's argument
  Filters,           \* event masks, as sets; {} records everything
  Triggers,          \* freeze triggers; Unknown for none
  OutCapacities,     \* sizes of the buffers snapshot() may be given
  MaxRecords,        \* bound: records claimed in one session
  MaxSessions        \* bound: calls of setEnabled(true)

ASSUME RecorderAssumption ==
  /\ IsFiniteSet(Joined \cup Stragglers) /\ Joined \cap Stragglers = {}
  /\ Unknown \notin Events
  /\ RequestedCapacity \in Nat /\ MaxRecords \in Nat /\ MaxSessions \in Nat
  /\ Filters \subseteq SUBSET Events
  /\ Triggers \subseteq Events \cup {Unknown}
  /\ OutCapacities \subseteq Nat \ {0}

Producers == Joined \cup Stragglers

\* The least power of two that holds the request.
Capacity ==
  LET Fits(n) == \E k \in 0..20 : n = 2^k /\ (n >= RequestedCapacity \/ k = 20)
  IN  CHOOSE n \in 1..2^20 : Fits(n) /\ \A m \in 1..(n - 1) : ~Fits(m)
Indices == 0..(Capacity - 1)

VARIABLES
  enabled, frozen, mask, trigger,
  next,       \* nextSequence_
  records,    \* records_
  pc, event, sequence,  \* each producer inside record(), and its locals
  running,    \* the stream is started
  control,    \* the control thread inside setEnabled() or snapshot()
  index,      \* its loop variable
  begin, wanted, out,   \* the snapshot: its first sequence, its length, its copy
  session,    \* history: calls of setEnabled(true)
  late,       \* history: records claimed since frozen_ was set
  faults      \* history: what the recorder's contract excludes

config == <<enabled, mask, trigger>>
inside == <<pc, event, sequence>>
reading == <<begin, wanted, out>>
vars == <<config, frozen, next, records, inside, running, control, index, reading,
          session, late, faults>>

\* The identity of a call of record(), and no call.
Call(n) == <<session, n>>
NoCall == <<0, 0>>

Init ==
  /\ enabled = FALSE /\ frozen = FALSE
  /\ mask = {} /\ trigger = Unknown
  /\ next = 0
  /\ records = [i \in Indices |-> [sequence |-> 0, head |-> NoCall, tail |-> NoCall]]
  /\ pc = [p \in Producers |-> "out"]
  /\ event = [p \in Producers |-> Unknown]
  /\ sequence = [p \in Producers |-> NoCall]
  /\ running = FALSE
  /\ control = "idle" /\ index = 0
  /\ begin = 0 /\ wanted = 0 /\ out = <<>>
  /\ session = 0 /\ late = 0 /\ faults = {}

-------------------------------------------------------------------------------
(* record(), by a producer.                                                *)

Recorded(e) == enabled /\ ~frozen /\ (mask = {} \/ e \in mask)

\* A thread of the stream comes to record an event.
CallRecord(p, e) ==
  /\ running
  /\ pc[p] = "out"
  /\ next + Cardinality({q \in Producers : pc[q] \in {"called", "claim"}}) < MaxRecords
  /\ event' = [event EXCEPT ![p] = e]
  /\ pc' = [pc EXCEPT ![p] = "called"]
  /\ UNCHANGED <<config, frozen, next, records, sequence, running, control, index,
                 reading, session, late, faults>>

\* Mutant: frozen_ is not tested.
OfferFrozen(p) ==
  /\ pc[p] = "called"
  /\ enabled
  /\ pc' = [pc EXCEPT ![p] = "claim"]
  /\ faults' = faults \cup {f \in {"straddled"} : control \in {"reset", "enable"}}
  /\ UNCHANGED <<config, frozen, next, records, event, sequence, running, control, index,
                 reading, session, late>>

\* The tests let the event through.
Offer(p) ==
  /\ pc[p] = "called"
  /\ Recorded(event[p])
  /\ pc' = [pc EXCEPT ![p] = "claim"]
  /\ faults' = faults \cup {f \in {"straddled"} : control \in {"reset", "enable"}}
  /\ UNCHANGED <<config, frozen, next, records, event, sequence, running, control, index,
                 reading, session, late>>

TurnedAway(p) ==
  /\ pc[p] = "called"
  /\ ~Recorded(event[p])
  /\ pc' = [pc EXCEPT ![p] = "out"]
  /\ event' = [event EXCEPT ![p] = Unknown]
  /\ UNCHANGED <<config, frozen, next, records, sequence, running, control, index,
                 reading, session, late, faults>>

Slot(call) == call[2] % Capacity

Writing(p) == pc[p] \in {"head", "tail", "publish"}

\* nextSequence_.fetch_add.
Claim(p) ==
  /\ pc[p] = "claim"
  /\ sequence' = [sequence EXCEPT ![p] = Call(next)]
  /\ next' = next + 1
  /\ pc' = [pc EXCEPT ![p] = "head"]
  /\ late' = IF frozen THEN late + 1 ELSE late
  /\ faults' = faults
       \cup {f \in {"lapped"} : \E q \in Producers \ {p} :
                                  Writing(q) /\ Slot(sequence[q]) = Slot(Call(next))}
       \cup {f \in {"raced"} : control \in {"copy", "taken"}}
  /\ UNCHANGED <<config, frozen, records, event, running, control, index, reading, session>>

\* Mutant: the sequence goes in before the payload.
WriteHeadPublishes(p) ==
  /\ pc[p] = "head"
  /\ records' = [records EXCEPT ![Slot(sequence[p])].head = sequence[p],
                                ![Slot(sequence[p])].sequence = sequence[p][2] + 1]
  /\ pc' = [pc EXCEPT ![p] = "tail"]
  /\ UNCHANGED <<config, frozen, next, event, sequence, running, control, index,
                 reading, session, late, faults>>

WriteHead(p) ==
  /\ pc[p] = "head"
  /\ records' = [records EXCEPT ![Slot(sequence[p])].head = sequence[p]]
  /\ pc' = [pc EXCEPT ![p] = "tail"]
  /\ UNCHANGED <<config, frozen, next, event, sequence, running, control, index,
                 reading, session, late, faults>>

\* The last field of the payload is the event type.
WriteTail(p) ==
  /\ pc[p] = "tail"
  /\ records' = [records EXCEPT ![Slot(sequence[p])].tail = sequence[p]]
  /\ pc' = [pc EXCEPT ![p] = "publish"]
  /\ UNCHANGED <<config, frozen, next, event, sequence, running, control, index,
                 reading, session, late, faults>>

Publish(p) ==
  /\ pc[p] = "publish"
  /\ records' = [records EXCEPT ![Slot(sequence[p])].sequence = sequence[p][2] + 1]
  /\ pc' = [pc EXCEPT ![p] = "freeze"]
  /\ UNCHANGED <<config, frozen, next, event, sequence, running, control, index,
                 reading, session, late, faults>>

\* The trigger freezes the recorder after its own record is there.
FreezeOrReturn(p) ==
  /\ pc[p] = "freeze"
  /\ frozen' = (frozen \/ event[p] = trigger)
  /\ pc' = [pc EXCEPT ![p] = "out"]
  /\ event' = [event EXCEPT ![p] = Unknown]
  /\ sequence' = [sequence EXCEPT ![p] = NoCall]
  /\ UNCHANGED <<config, next, records, running, control, index, reading, session,
                 late, faults>>

-------------------------------------------------------------------------------
(* The control thread: the stream, and setup while it is stopped.          *)

StartStream ==
  /\ control = "idle" /\ ~running
  /\ running' = TRUE
  /\ UNCHANGED <<config, frozen, next, records, inside, control, index, reading,
                 session, late, faults>>

StopStream ==
  /\ running
  /\ \A p \in Joined : pc[p] = "out"
  /\ running' = FALSE
  /\ UNCHANGED <<config, frozen, next, records, inside, control, index, reading,
                 session, late, faults>>

Setup == control = "idle" /\ ~running

SetEventMask(events) ==
  /\ Setup
  /\ mask' = events
  /\ UNCHANGED <<enabled, trigger, frozen, next, records, inside, running, control,
                 index, reading, session, late, faults>>

SetFreezeTrigger(e) ==
  /\ Setup
  /\ trigger' = e
  /\ UNCHANGED <<enabled, mask, frozen, next, records, inside, running, control,
                 index, reading, session, late, faults>>

\* Past its tests.
Busy == \E p \in Producers : pc[p] \notin {"out", "called"}

\* setEnabled(true): reset() first, slot by slot.
SetEnabled ==
  /\ Setup
  /\ session < MaxSessions
  /\ control' = "reset"
  /\ index' = 0
  /\ session' = session + 1
  /\ faults' = {f \in {"straddled"} : Busy}
  /\ UNCHANGED <<config, frozen, next, records, inside, running, reading, late>>

ResetSlot ==
  /\ control = "reset"
  /\ index \in Indices
  /\ records' = [records EXCEPT ![index].sequence = 0, ![index].tail = NoCall]
  /\ index' = index + 1
  /\ UNCHANGED <<config, frozen, next, inside, running, control, reading, session,
                 late, faults>>

ResetCounters ==
  /\ control = "reset"
  /\ index = Capacity
  /\ next' = 0
  /\ frozen' = FALSE
  /\ late' = 0
  /\ control' = "enable"
  /\ UNCHANGED <<config, records, inside, running, index, reading, session, faults>>

Enable ==
  /\ control = "enable"
  /\ frozen' = FALSE
  /\ enabled' = TRUE
  /\ late' = 0
  /\ control' = "idle"
  /\ UNCHANGED <<mask, trigger, next, records, inside, running, index, reading,
                 session, faults>>

\* setEnabled(false) keeps the records and thaws the recorder.
SetDisabled ==
  /\ Setup
  /\ frozen' = FALSE
  /\ enabled' = FALSE
  /\ late' = 0
  /\ UNCHANGED <<mask, trigger, next, records, inside, running, control, index,
                 reading, session, faults>>

-------------------------------------------------------------------------------
(* snapshot(), by the control thread once the stream is stopped.           *)

Least(m, n) == IF m < n THEN m ELSE n

Available == Least(next, Capacity)

\* Mutant: a small buffer gets the oldest records that remain.
SnapshotOldest(capacity) ==
  /\ Setup
  /\ wanted' = Least(Available, capacity)
  /\ begin' = next - Available
  /\ out' = <<>>
  /\ index' = 0
  /\ control' = "copy"
  /\ faults' = (faults \ {"raced", "busy"}) \cup {f \in {"busy"} : Busy}
  /\ UNCHANGED <<config, frozen, next, records, inside, running, session, late>>

\* The newest records that the buffer holds.
Snapshot(capacity) ==
  /\ Setup
  /\ wanted' = Least(Available, capacity)
  /\ begin' = next - wanted'
  /\ out' = <<>>
  /\ index' = 0
  /\ control' = "copy"
  /\ faults' = (faults \ {"raced", "busy"}) \cup {f \in {"busy"} : Busy}
  /\ UNCHANGED <<config, frozen, next, records, inside, running, session, late>>

Source == (begin + index) % Capacity

\* A record is copied field by field, its sequence first.
CopySequence ==
  /\ control = "copy"
  /\ index < wanted
  /\ Len(out) = index
  /\ out' = Append(out, [sequence |-> records[Source].sequence,
                         head |-> NoCall, tail |-> NoCall])
  /\ UNCHANGED <<config, frozen, next, records, inside, running, control, index,
                 begin, wanted, session, late, faults>>

CopyPayload ==
  /\ control = "copy"
  /\ Len(out) = index + 1
  /\ out' = [out EXCEPT ![index + 1].head = records[Source].head,
                        ![index + 1].tail = records[Source].tail]
  /\ index' = index + 1
  /\ UNCHANGED <<config, frozen, next, records, inside, running, control,
                 begin, wanted, session, late, faults>>

SnapshotTaken ==
  /\ control = "copy"
  /\ index = wanted
  /\ control' = "taken"
  /\ UNCHANGED <<config, frozen, next, records, inside, running, index, reading,
                 session, late, faults>>

\* The caller is done with its copy.
SnapshotUsed ==
  /\ control = "taken"
  /\ control' = "idle"
  /\ index' = 0 /\ begin' = 0 /\ wanted' = 0 /\ out' = <<>>
  /\ UNCHANGED <<config, frozen, next, records, inside, running, session, late, faults>>

-------------------------------------------------------------------------------

Record(p) ==
  \/ \E e \in Events : CallRecord(p, e)
  \/ Offer(p) \/ TurnedAway(p)
  \/ Claim(p) \/ WriteHead(p) \/ WriteTail(p) \/ Publish(p) \/ FreezeOrReturn(p)

Configure ==
  \/ StartStream \/ StopStream
  \/ \E events \in Filters : SetEventMask(events)
  \/ \E e \in Triggers : SetFreezeTrigger(e)
  \/ SetEnabled \/ ResetSlot \/ ResetCounters \/ Enable \/ SetDisabled

Read ==
  \/ \E capacity \in OutCapacities : Snapshot(capacity)
  \/ CopySequence \/ CopyPayload \/ SnapshotTaken \/ SnapshotUsed

Next == (\E p \in Producers : Record(p)) \/ Configure \/ Read

Spec == Init /\ [][Next]_vars

-------------------------------------------------------------------------------
(* Properties.                                                             *)

\* The n-th copy is the record its position calls for, in one piece.
Expected(n) == out[n].sequence = begin + n
Whole(n) == out[n].head = Call(begin + n - 1) /\ out[n].tail = out[n].head

(* "Each record carries its own sequence so a reader can detect a slot that *)
(* was still being written": with a straggler in the middle of a record, a  *)
(* copy that bears the sequence its position calls for is whole and of this *)
(* session, unless the straggler straddled setEnabled(), claimed its slot   *)
(* after the snapshot began, or lapped another producer.                    *)
TornDetectable ==
  (control = "taken" /\ faults \subseteq {"busy"}) =>
    \A n \in 1..Len(out) : Expected(n) => Whole(n)

(* With no producer left inside record(), a snapshot is the newest records  *)
(* of this session, as many as there are or the buffer holds, in the order  *)
(* they were claimed, across wrap-around, filters, freezes and sessions.    *)
SnapshotExact ==
  (control = "taken" /\ faults = {}) =>
    /\ Len(out) = wanted /\ begin + wanted = next
    /\ \A n \in 1..Len(out) : Expected(n) /\ Whole(n)

(* Once frozen_ is set, every other producer lands at most the one record   *)
(* whose test it had passed: the run-up to the trigger is not flushed out.  *)
FreezeBounded == frozen => late <= Cardinality(Producers) - 1

===============================================================================
