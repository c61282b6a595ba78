---------------------------- MODULE SideChannel -----------------------------
(***************************************************************************)
(* The event side channel of run_replay: emit_event on the replay thread,  *)
(* the SpscRingBuffer, the sink thread's loop, and the shutdown by         *)
(* sink_done and join, on the normal path and on the path that throws.     *)
(*                                                                         *)
(* head and tail count the slots published and freed; the code keeps them  *)
(* modulo capacity_ = Capacity + 1, and every comparison of the model is   *)
(* made on those indices.  Acquire/release memory is modelled by what each *)
(* thread has seen: head_seen and tail_seen trail head and tail until the  *)
(* store becomes visible, and seeing sink_done makes every store before it *)
(* visible, because it is stored with release and loaded with acquire.     *)
(* Payload writes and reads are steps of their own.                        *)
(***************************************************************************)
EXTENDS Integers, Sequences

CONSTANTS
  Capacity,     \* ring capacity, 1024
  MaxEvents     \* bound: events emitted by the replay

ASSUME ChannelAssumption ==
  /\ Capacity \in Nat \ {0}
  /\ MaxEvents \in Nat \ {0}

VARIABLES
  mode,          \* config.sink_mode
  replay_pc,     \* the replay thread: where it is in emit_event or shutdown
  sink_pc,       \* the sink thread: where it is in its loop
  accepted,      \* counters.accepted_events; also the number of the event
  dropped,       \* counters.dropped_events
  buffer,        \* the ring's slots, holding event numbers
  head, tail,    \* head_ and tail_, as counts
  head_seen,     \* the head_ the sink thread sees
  tail_seen,     \* the tail_ the replay thread sees
  sink_done,
  done_seen,     \* the sink_done the sink thread sees
  event,         \* the sink thread's local event
  journal,       \* what the sink persisted; its length is persisted_events
  lost,          \* history: events the sink failed to write
  sink_failed,
  outcome        \* how run_replay ended

sinkVars == <<journal, lost, sink_failed>>

sideVars ==
  <<mode, replay_pc, sink_pc, accepted, dropped, buffer, head, tail, head_seen,
    tail_seen, sink_done, done_seen, event, sinkVars, outcome>>

-----------------------------------------------------------------------------
(* SpscRingBuffer *)

\* capacity_: one slot is kept empty.
slots == Capacity + 1

index(count) == count % slots

\* Mutant of full: the ring never refuses.
full_never == FALSE

\* The full test of try_push, with the tail_ this thread sees.
full == index(head + 1) = index(tail_seen)

\* Mutant of empty: a pop is tried whatever the ring holds.
empty_never == FALSE

\* empty() and the test of try_pop, with the head_ the sink thread sees.
empty == index(head_seen) = index(tail)

-----------------------------------------------------------------------------
SideInit ==
  /\ mode \in {"Sync", "Async"}
  /\ replay_pc = "loop"
  /\ sink_pc = IF mode = "Async" THEN "check" ELSE "exited"
  /\ accepted = 0
  /\ dropped = 0
  /\ buffer = [i \in 0 .. slots - 1 |-> 0]
  /\ head = 0
  /\ tail = 0
  /\ head_seen = 0
  /\ tail_seen = 0
  /\ sink_done = FALSE
  /\ done_seen = FALSE
  /\ event = 0
  /\ journal = <<>>
  /\ lost = 0
  /\ sink_failed = FALSE
  /\ outcome = "running"

(* sink.consume: the write succeeds or fails *)

consume(e) ==
  \/ journal' = Append(journal, e) /\ UNCHANGED <<lost, sink_failed>>
  \/ lost' = lost + 1 /\ sink_failed' = TRUE /\ UNCHANGED journal

\* A step of the replay thread leaves the sink thread's part alone, and the
\* other way round.
ReplayGoes(from, to) ==
  /\ replay_pc = from /\ replay_pc' = to
  /\ UNCHANGED <<mode, sink_pc, tail, head_seen, tail_seen, done_seen, event>>

SinkGoes(from, to) ==
  /\ sink_pc = from /\ sink_pc' = to
  /\ UNCHANGED <<mode, replay_pc, accepted, dropped, buffer, head, head_seen,
                 tail_seen, sink_done, done_seen, outcome>>

(* The replay thread: emit_event *)

Emit(to) ==
  /\ ReplayGoes("loop", to)
  /\ accepted < MaxEvents
  /\ accepted' = accepted + 1
  /\ UNCHANGED <<dropped, buffer, head, sink_done, outcome>>

EmitSync == mode = "Sync" /\ Emit("loop") /\ consume(accepted + 1)

EmitAsync == mode = "Async" /\ Emit("push") /\ UNCHANGED sinkVars

PushFull ==
  /\ ReplayGoes("push", "loop")
  /\ full
  /\ dropped' = dropped + 1
  /\ UNCHANGED <<accepted, buffer, head, sink_done, sinkVars, outcome>>

PushRoom ==
  /\ ReplayGoes("push", "write")
  /\ ~full
  /\ UNCHANGED <<accepted, dropped, buffer, head, sink_done, sinkVars, outcome>>

\* Mutant of push_slot: the slot after the one that is published.
push_slot_next == index(head + 1)

push_slot == index(head)

PushWrite ==
  /\ ReplayGoes("write", "publish")
  /\ buffer' = [buffer EXCEPT ![push_slot] = accepted]
  /\ UNCHANGED <<accepted, dropped, head, sink_done, sinkVars, outcome>>

PushPublish ==
  /\ ReplayGoes("publish", "loop")
  /\ head' = head + 1
  /\ UNCHANGED <<accepted, dropped, buffer, sink_done, sinkVars, outcome>>

\* Mutant of signals: the path that throws joins without a signal.
signals_on_return(ending) == ending = "join_return"

\* Both ends of the loop store sink_done and join the sink thread: the input
\* is used up, or a tick has another symbol and run_replay throws.
signals(ending) == TRUE

Shutdown(ending) ==
  /\ ReplayGoes("loop", ending)
  /\ sink_done' = signals(ending)
  /\ UNCHANGED <<accepted, dropped, buffer, head, sinkVars, outcome>>

InputUsedUp == Shutdown("join_return")

SymbolMismatch == Shutdown("join_throw")

\* joinable() is false in sync mode, where sink_pc is "exited" from the start.
Join(ending) ==
  /\ ReplayGoes(ending, "ended")
  /\ sink_pc = "exited"
  /\ outcome' = IF ending = "join_return" THEN "returned" ELSE "thrown"
  /\ UNCHANGED <<accepted, dropped, buffer, head, sink_done, sinkVars>>

(* The sink thread's loop *)

SinkTest(from, to, condition) ==
  condition /\ SinkGoes(from, to) /\ UNCHANGED <<tail, event, sinkVars>>

\* while (!sink_done || !empty()): sink_done is loaded first.
SinkNotDone == SinkTest("check", "pop", ~done_seen)

\* Mutant of SinkDone: the loop ends at sink_done without draining.
SinkDone_no_drain == SinkTest("check", "exited", done_seen)

SinkDone == SinkTest("check", "drain", done_seen)

SinkExit == SinkTest("drain", "exited", empty)

SinkDrain == SinkTest("drain", "pop", ~empty)

\* try_pop finds nothing: yield and start over.
PopEmpty == SinkTest("pop", "check", empty)

PopFound == SinkTest("pop", "read", ~empty)

PopRead ==
  /\ SinkGoes("read", "free")
  /\ event' = buffer[index(tail)]
  /\ UNCHANGED <<tail, sinkVars>>

PopFree ==
  SinkGoes("free", "consume") /\ tail' = tail + 1 /\ UNCHANGED <<event, sinkVars>>

SinkConsume ==
  /\ SinkGoes("consume", "check")
  /\ consume(event)
  /\ event' = 0
  /\ UNCHANGED tail

(* Stores become visible to the other thread *)

Sees ==
  UNCHANGED <<mode, replay_pc, sink_pc, accepted, dropped, buffer, head, tail,
              sink_done, event, sinkVars, outcome>>

SeeHead ==
  /\ Sees
  /\ head_seen < head
  /\ head_seen' = head_seen + 1
  /\ UNCHANGED <<tail_seen, done_seen>>

SeeTail ==
  /\ Sees
  /\ tail_seen < tail
  /\ tail_seen' = tail_seen + 1
  /\ UNCHANGED <<head_seen, done_seen>>

\* Mutant of head_with_done: sink_done stored or loaded relaxed.
head_with_done_relaxed == head_seen

\* What the sink thread sees of head_ once it sees sink_done.
head_with_done == head

SeeDone ==
  /\ Sees
  /\ sink_done /\ ~done_seen
  /\ done_seen' = TRUE
  /\ head_seen' = head_with_done
  /\ UNCHANGED tail_seen

Ended == replay_pc = "ended" /\ sink_pc = "exited" /\ UNCHANGED sideVars

ReplayThread ==
  \/ EmitSync \/ EmitAsync \/ PushFull \/ PushRoom \/ PushWrite \/ PushPublish
  \/ InputUsedUp \/ SymbolMismatch
  \/ Join("join_return") \/ Join("join_throw")

SinkThread ==
  \/ SinkNotDone \/ SinkDone \/ SinkExit \/ SinkDrain
  \/ PopEmpty \/ PopFound \/ PopRead \/ PopFree \/ SinkConsume

Visibility == SeeHead \/ SeeTail \/ SeeDone

SideNext == ReplayThread \/ SinkThread \/ Visibility \/ Ended

\* Both threads are scheduled by the operating system and a store becomes
\* visible in finite time; the replay loop is over a finite input.
Fairness ==
  /\ WF_sideVars(ReplayThread)
  /\ WF_sideVars(SinkThread)
  /\ WF_sideVars(SeeHead)
  /\ WF_sideVars(SeeTail)
  /\ WF_sideVars(SeeDone)

SideSpec == SideInit /\ [][SideNext]_sideVars /\ Fairness

-----------------------------------------------------------------------------
(* Properties *)

\* Counters, cursors and threads keep their types.  A thread never sees a
\* store that was not made, and the ring never holds more than Capacity.
SideTypeOK ==
  /\ mode \in {"Sync", "Async"}
  /\ replay_pc \in {"loop", "push", "write", "publish", "join_return",
                    "join_throw", "ended"}
  /\ sink_pc \in {"check", "drain", "pop", "read", "free", "consume", "exited"}
  /\ accepted \in 0 .. MaxEvents
  /\ dropped \in 0 .. accepted
  /\ buffer \in [0 .. slots - 1 -> 0 .. MaxEvents]
  /\ tail_seen \in Nat /\ tail \in tail_seen .. head
  /\ head_seen \in tail .. head
  /\ head - tail_seen \in 0 .. Capacity
  /\ sink_done \in BOOLEAN /\ done_seen \in BOOLEAN /\ (done_seen => sink_done)
  /\ event \in 0 .. MaxEvents
  /\ journal \in Seq(1 .. MaxEvents)
  /\ lost \in 0 .. MaxEvents
  /\ sink_failed \in BOOLEAN
  /\ outcome \in {"running", "returned", "thrown"}

\* The replay thread never writes the slot the sink thread is reading.
NoSlotRace ==
  ~(/\ replay_pc = "write"
    /\ sink_pc = "read"
    /\ index(head) = index(tail))

\* docs/determinism.md: a run that reports no drop and no sink failure has
\* persisted every event, in order: the async journal is the sync journal.
CompleteJournal ==
  outcome = "returned" /\ dropped = 0 /\ ~sink_failed
    => journal = [i \in 1 .. accepted |-> i]

\* No event is unaccounted for when run_replay ends, by return or by throw.
NothingUnaccounted ==
  outcome # "running" => accepted = Len(journal) + lost + dropped

\* Shutdown does not hang: run_replay ends, whatever the sink does.
ReplayEnds == <>(outcome # "running")

\* The side channel is a bounded FIFO channel.  The events in flight are the
\* one in the sink thread's hands and the published slots.
in_flight ==
  LET held == IF sink_pc = "consume" THEN <<event>> ELSE <<>>
  IN held \o [i \in 1 .. head - tail |-> buffer[index(tail + i - 1)]]

Channel ==
  INSTANCE EventChannel WITH
    Bound <- Capacity + 1,
    offered <- IF replay_pc \in {"push", "write", "publish"}
               THEN accepted - 1 ELSE accepted,
    queue <- in_flight,
    persisted <- journal

RefinesEventChannel ==
  Channel!ChannelInit /\ [][Channel!ChannelNext]_(Channel!channelVars)
=============================================================================
