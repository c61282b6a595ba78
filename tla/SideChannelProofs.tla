------------------------- MODULE SideChannelProofs --------------------------
(***************************************************************************)
(* Proofs about the event side channel, for every capacity of the ring and *)
(* every number of events.  SideInv is the inductive invariant: the ring   *)
(* discipline of the two threads (RingInv), where each event is counted    *)
(* (CountInv), what shutting down has established (ShutdownInv) and what   *)
(* the slots and the journal hold (ContentInv).                            *)
(***************************************************************************)
EXTENDS SideChannel, SequenceTheorems, TLAPS

\* An event was counted and is not yet published or dropped.
Pushing == replay_pc \in {"push", "write", "publish"}

\* A thread that works on a slot has seen that the slot is its own.
RingInv ==
  /\ head \in Nat
  /\ replay_pc \in {"write", "publish"} => head - tail_seen < Capacity
  /\ sink_pc \in {"read", "free"} => tail < head_seen

\* Every event is in exactly one place.
CountInv ==
  /\ mode = "Async" =>
       /\ accepted = dropped + head + (IF Pushing THEN 1 ELSE 0)
       /\ tail = Len(journal) + lost + (IF sink_pc = "consume" THEN 1 ELSE 0)
  /\ mode = "Sync" =>
       /\ accepted = Len(journal) + lost
       /\ dropped = 0 /\ head = 0
       /\ ~Pushing /\ sink_pc = "exited"
  /\ sink_failed <=> lost > 0

\* sink_done is the last store of the replay thread, and a sink thread that
\* left its loop has drained the ring.
ShutdownInv ==
  /\ sink_done <=> replay_pc \in {"join_return", "join_throw", "ended"}
  /\ done_seen => head_seen = head
  /\ sink_pc = "drain" => done_seen
  /\ sink_pc = "exited" /\ mode = "Async" => done_seen /\ tail = head
  /\ replay_pc = "ended" <=> outcome # "running"
  /\ replay_pc = "ended" => sink_pc = "exited"

\* The event that slot count i holds.
Slot(i) == buffer[index(i)]

\* Published slots hold events, and as long as none was dropped the events in
\* the order of their numbers; so does what the sink thread took out of them.
ContentInv ==
  /\ \A i \in tail .. head - 1 : /\ Slot(i) \in 1 .. MaxEvents
                                 /\ dropped = 0 => Slot(i) = i + 1
  /\ replay_pc = "publish" => Slot(head) = accepted
  /\ sink_pc = "free" => event = Slot(tail)
  /\ sink_pc = "consume" => /\ event \in 1 .. MaxEvents
                            /\ dropped = 0 => event = tail
  /\ dropped = 0 /\ lost = 0 => \A i \in 1 .. Len(journal) : journal[i] = i

\* The inductive invariant.
SideInv == SideTypeOK /\ RingInv /\ CountInv /\ ShutdownInv /\ ContentInv

-----------------------------------------------------------------------------
(* Indices *)

\* Division with remainder.
LEMMA DivMod ==
  ASSUME NEW n \in Nat, NEW s \in Nat, s > 0
  PROVE  /\ n \div s \in Nat
         /\ n % s \in 0 .. s - 1
         /\ n = s * (n \div s) + (n % s)
  OBVIOUS

\* A positive multiple of s is not below s.
LEMMA MultipleApart ==
  ASSUME NEW s \in Nat, NEW q \in Nat, NEW r \in Nat, s > 0, q > r
  PROVE  s * q >= s * r + s
  <1>1. PICK d \in Nat : q = r + 1 + d
    <2>1. q - r - 1 \in Nat /\ q = r + 1 + (q - r - 1)
      OBVIOUS
    <2> QED
      BY <2>1
  <1>2. s * q = s * r + s + s * d
    BY <1>1
  <1>3. s * d >= 0 /\ s * d \in Int /\ s * r \in Int
    OBVIOUS
  <1> QED
    BY <1>2, <1>3

\* Two counts that are at most Capacity apart and have the same index are the
\* same: this is why one slot is kept empty.
LEMMA SameIndex ==
  ASSUME NEW a \in Nat, NEW b \in Nat, b <= a, a - b <= Capacity,
         index(a) = index(b)
  PROVE  a = b
  <1> DEFINE s == slots
             p == a \div s
             q == b \div s
             r == a % s
  <1>1. s \in Nat /\ s > 0 /\ a - b < s
    BY ChannelAssumption DEF slots
  <1>2. b % s = r
    BY DEF index
  <1> HIDE DEF s
  <1>3. /\ p \in Nat /\ q \in Nat /\ r \in Nat
        /\ a = s * p + r /\ b = s * q + r
    BY <1>1, <1>2, DivMod
  <1> HIDE DEF p, q, r
  <1>4. s * p \in Int /\ s * q \in Int
    BY <1>1, <1>3
  <1>5. ~(p > q)
    <2> SUFFICES ASSUME p > q PROVE FALSE
      OBVIOUS
    <2>1. s * p >= s * q + s
      BY <1>1, <1>3, MultipleApart
    <2> QED
      BY <1>1, <1>3, <1>4, <2>1
  <1>6. ~(q > p)
    <2> SUFFICES ASSUME q > p PROVE FALSE
      OBVIOUS
    <2>1. s * q >= s * p + s
      BY <1>1, <1>3, MultipleApart
    <2> QED
      BY <1>1, <1>3, <1>4, <2>1
  <1> QED
    BY <1>3, <1>5, <1>6

\* Every count has a slot.
LEMMA IndexIsSlot ==
  ASSUME NEW a \in Nat
  PROVE  index(a) \in 0 .. slots - 1
  <1>1. slots \in Nat /\ slots > 0
    BY ChannelAssumption DEF slots
  <1> QED
    BY <1>1, DivMod DEF index

\* One lap further is the same slot.
LEMMA OneLap ==
  ASSUME NEW b \in Nat
  PROVE  index(b + slots) = index(b)
  <1> DEFINE s == slots
             a == b + s
             p == a \div s
             q == b \div s
             r == a % s
             u == b % s
  <1>1. s \in Nat /\ s > 0
    BY ChannelAssumption DEF slots
  <1> HIDE DEF s
  <1>2. /\ p \in Nat /\ q \in Nat /\ r \in 0 .. s - 1 /\ u \in 0 .. s - 1
        /\ a = s * p + r /\ b = s * q + u
    BY <1>1, DivMod
  <1>3. b + s = s * p + r
    BY <1>2
  <1> HIDE DEF p, q, r, u
  <1>4. s * p \in Int /\ s * (q + 1) \in Int /\ s * (q + 1) = s * q + s
    BY <1>1, <1>2
  <1>5. s * p + r = s * (q + 1) + u
    BY <1>1, <1>2, <1>3, <1>4
  <1>6. ~(p > q + 1)
    <2> SUFFICES ASSUME p > q + 1 PROVE FALSE
      OBVIOUS
    <2>1. q + 1 \in Nat
      BY <1>2
    <2>2. s * p >= s * (q + 1) + s
      BY <1>1, <1>2, <2>1, MultipleApart
    <2> QED
      BY <1>1, <1>2, <1>4, <1>5, <2>2
  <1>7. ~(q + 1 > p)
    <2> SUFFICES ASSUME q + 1 > p PROVE FALSE
      OBVIOUS
    <2>1. q + 1 \in Nat
      BY <1>2
    <2>2. s * (q + 1) >= s * p + s
      BY <1>1, <1>2, <2>1, MultipleApart
    <2> QED
      BY <1>1, <1>2, <1>4, <1>5, <2>2
  <1>8. p = q + 1
    BY <1>2, <1>6, <1>7
  <1>9. r = u
    BY <1>2, <1>4, <1>5, <1>8
  <1> QED
    BY <1>9 DEF index, r, u, s

-----------------------------------------------------------------------------
(* What the invariant says of the cursors *)

\* The counts are numbers, in the order tail_seen, tail, head_seen, head.
LEMMA Cursors ==
  ASSUME SideInv
  PROVE  /\ head \in Nat /\ tail \in Nat /\ head_seen \in Nat
         /\ tail_seen \in Nat
         /\ tail_seen <= tail /\ tail <= head_seen /\ head_seen <= head
         /\ head - tail_seen <= Capacity /\ Capacity \in Nat
         /\ accepted \in Nat /\ dropped \in Nat /\ lost \in Nat
         /\ accepted <= MaxEvents /\ MaxEvents \in Nat
         /\ Len(journal) \in Nat
  BY ChannelAssumption DEF SideInv, SideTypeOK, RingInv

\* The two tests of the ring compare indices and decide about the counts.
LEMMA FullAndEmpty ==
  ASSUME SideInv
  PROVE  /\ ~full => head - tail_seen < Capacity
         /\ empty <=> head_seen = tail
  <1>1. ASSUME head - tail_seen = Capacity PROVE full
    <2>1. head + 1 = tail_seen + slots
      BY <1>1, Cursors DEF slots
    <2> QED
      BY <2>1, Cursors, OneLap DEF full
  <1>2. ~full => head - tail_seen < Capacity
    BY <1>1, Cursors
  <1>3. ASSUME empty PROVE head_seen = tail
    <2>1. head_seen - tail <= Capacity
      BY Cursors
    <2> QED
      BY <1>3, <2>1, Cursors, SameIndex DEF empty
  <1> QED
    BY <1>2, <1>3 DEF empty

\* The slot after the published ones is none of them.
LEMMA FreeSlot ==
  ASSUME SideInv, NEW i \in tail .. head - 1
  PROVE  index(i) # index(head)
  <1>1. i \in Nat /\ i <= head /\ head - i <= Capacity /\ i # head
    BY Cursors
  <1> QED
    BY <1>1, Cursors, SameIndex

-----------------------------------------------------------------------------
(* Every step keeps the invariant *)

\* The steps that move no payload.
LEMMA ControlInv ==
  ASSUME SideInv,
         \/ EmitAsync \/ PushFull \/ PushRoom \/ InputUsedUp \/ SymbolMismatch
         \/ Join("join_return") \/ Join("join_throw")
         \/ SinkNotDone \/ SinkDone \/ SinkExit \/ SinkDrain
         \/ PopEmpty \/ PopFound \/ Visibility \/ UNCHANGED sideVars
  PROVE  SideInv'
  <1> USE Cursors, FullAndEmpty
      DEF SideInv, SideTypeOK, RingInv, CountInv, Pushing, ShutdownInv,
          ContentInv, Slot, index, slots, sinkVars
  <1>1. CASE PushRoom
    BY <1>1 DEF PushRoom, ReplayGoes
  <1>2. CASE InputUsedUp
    BY <1>2 DEF InputUsedUp, Shutdown, signals, ReplayGoes
  <1>3. CASE SymbolMismatch
    BY <1>3 DEF SymbolMismatch, Shutdown, signals, ReplayGoes
  <1>4. CASE Join("join_return")
    BY <1>4 DEF Join, ReplayGoes
  <1>5. CASE Join("join_throw")
    BY <1>5 DEF Join, ReplayGoes
  <1>6. CASE SinkNotDone
    BY <1>6 DEF SinkNotDone, SinkTest, SinkGoes
  <1>7. CASE SinkDone
    BY <1>7 DEF SinkDone, SinkTest, SinkGoes
  <1>8. CASE SinkExit
    BY <1>8 DEF SinkExit, SinkTest, SinkGoes
  <1>9. CASE SinkDrain
    BY <1>9 DEF SinkDrain, SinkTest, SinkGoes
  <1>10. CASE PopEmpty
    BY <1>10 DEF PopEmpty, SinkTest, SinkGoes
  <1>11. CASE PopFound
    BY <1>11 DEF PopFound, SinkTest, SinkGoes
  <1>12. CASE SeeHead
    BY <1>12 DEF SeeHead, Sees
  <1>13. CASE SeeTail
    BY <1>13 DEF SeeTail, Sees
  <1>14. CASE SeeDone
    BY <1>14 DEF SeeDone, Sees, head_with_done
  <1>15. CASE UNCHANGED sideVars
    BY <1>15 DEF sideVars
  <1>16. CASE EmitAsync
    BY <1>16 DEF EmitAsync, Emit, ReplayGoes
  <1>17. CASE PushFull
    BY <1>17 DEF PushFull, ReplayGoes
  <1> QED
    BY <1>1, <1>2, <1>3, <1>4, <1>5, <1>6, <1>7, <1>8, <1>9, <1>10, <1>11, <1>12, <1>13, <1>14, <1>15, <1>16, <1>17
       DEF Visibility

\* The payload goes into the slot after the published ones: it overwrites
\* nothing that the sink thread has still to read.
LEMMA PushWriteInv ==
  ASSUME SideInv, PushWrite
  PROVE  SideInv'
  <1> USE DEF PushWrite, ReplayGoes, push_slot, sinkVars
  <1>1. SideTypeOK' /\ RingInv' /\ CountInv' /\ ShutdownInv'
    BY Cursors, IndexIsSlot DEF SideInv, SideTypeOK, RingInv, CountInv,
                                Pushing, ShutdownInv
  <1>2. /\ buffer \in [0 .. slots - 1 -> 0 .. MaxEvents]
        /\ index(head) \in 0 .. slots - 1
    BY Cursors, IndexIsSlot DEF SideInv, SideTypeOK
  <1>3. buffer'[index(head)] = accepted
    BY <1>2
  <1>4. \A i \in tail .. head - 1 : buffer'[index(i)] = buffer[index(i)]
    <2> TAKE i \in tail .. head - 1
    <2>1. index(i) # index(head) /\ index(i) \in 0 .. slots - 1
      BY Cursors, FreeSlot, IndexIsSlot
    <2> QED
      BY <1>2, <2>1
  <1>5. ContentInv'
    <2>1. sink_pc = "free" => tail \in tail .. head - 1
      BY Cursors DEF SideInv, RingInv
    <2> QED
      BY <1>3, <1>4, <2>1 DEF SideInv, ContentInv, Slot
  <1> QED
    BY <1>1, <1>5 DEF SideInv

\* Publishing makes the slot the last one of the queue.
LEMMA PushPublishInv ==
  ASSUME SideInv, PushPublish
  PROVE  SideInv'
  <1> USE DEF PushPublish, ReplayGoes, sinkVars
  <1>1. RingInv' /\ CountInv' /\ ShutdownInv'
    BY Cursors DEF SideInv, SideTypeOK, RingInv, CountInv, Pushing,
                   ShutdownInv
  <1>2. SideTypeOK'
    <2>1. head' - tail_seen \in 0 .. Capacity
      BY Cursors DEF SideInv, RingInv
    <2>2. tail \in tail_seen .. head' /\ head_seen \in tail .. head'
      BY Cursors
    <2> QED
      BY <2>1, <2>2 DEF SideInv, SideTypeOK
  <1>3. mode = "Async"
    BY DEF SideInv, SideTypeOK, CountInv, Pushing
  <1>4. /\ Slot(head) = accepted /\ accepted = dropped + head + 1
    BY <1>3 DEF SideInv, ContentInv, CountInv, Pushing
  <1>5. /\ Slot(head) \in 1 .. MaxEvents
        /\ dropped = 0 => Slot(head) = head + 1
    BY <1>4, Cursors
  <1>6. \A i \in tail .. head' - 1 : i \in tail .. head - 1 \/ i = head
    BY Cursors
  <1>7. ContentInv'
    BY <1>5, <1>6 DEF SideInv, ContentInv, Slot
  <1> QED
    BY <1>1, <1>2, <1>7 DEF SideInv

\* The sink thread reads the oldest slot.
LEMMA PopReadInv ==
  ASSUME SideInv, PopRead
  PROVE  SideInv'
  <1> USE DEF PopRead, SinkGoes, sinkVars
  <1>1. SideTypeOK' /\ RingInv' /\ CountInv' /\ ShutdownInv'
    BY Cursors, IndexIsSlot DEF SideInv, SideTypeOK, RingInv, CountInv,
                                Pushing, ShutdownInv
  <1>2. ContentInv'
    BY DEF SideInv, ContentInv, Slot
  <1> QED
    BY <1>1, <1>2 DEF SideInv

\* The sink thread frees the slot and holds the event.
LEMMA PopFreeInv ==
  ASSUME SideInv, PopFree
  PROVE  SideInv'
  <1> USE DEF PopFree, SinkGoes, sinkVars
  <1>1. tail < head_seen /\ sink_pc # "exited" /\ tail' = tail + 1
    BY DEF SideInv, RingInv
  <1>2. SideTypeOK' /\ RingInv' /\ ShutdownInv'
    BY <1>1, Cursors DEF SideInv, SideTypeOK, RingInv, ShutdownInv
  <1>3. CountInv'
    <2>1. mode = "Async" => tail = Len(journal) + lost
      BY Cursors DEF SideInv, CountInv
    <2>2. mode = "Async" => tail' = Len(journal) + lost + 1
      BY <1>1, <2>1
    <2> QED
      BY <1>1, <2>2 DEF SideInv, CountInv, Pushing
  <1>4. tail \in tail .. head - 1
    BY <1>1, Cursors
  <1>5. /\ event = Slot(tail) /\ Slot(tail) \in 1 .. MaxEvents
        /\ dropped = 0 => Slot(tail) = tail + 1
    BY <1>4 DEF SideInv, ContentInv
  <1>6. \A i \in tail' .. head - 1 : i \in tail .. head - 1
    BY <1>1, Cursors
  <1>7. ContentInv'
    BY <1>1, <1>5, <1>6 DEF SideInv, ContentInv, Slot
  <1> QED
    BY <1>2, <1>3, <1>7 DEF SideInv

\* Writing an event: the journal is one longer, or one more event is lost.
LEMMA Consumed ==
  ASSUME SideInv, NEW e \in 1 .. MaxEvents, consume(e)
  PROVE  \/ /\ journal' = Append(journal, e)
            /\ lost' = lost /\ sink_failed' = sink_failed
            /\ journal' \in Seq(1 .. MaxEvents)
            /\ Len(journal') = Len(journal) + 1
            /\ journal'[Len(journal) + 1] = e
            /\ \A i \in 1 .. Len(journal) : journal'[i] = journal[i]
         \/ /\ journal' = journal
            /\ lost' = lost + 1 /\ sink_failed' = TRUE
  <1>1. journal \in Seq(1 .. MaxEvents)
    BY DEF SideInv, SideTypeOK
  <1>2. CASE journal' = Append(journal, e) /\ UNCHANGED <<lost, sink_failed>>
    BY <1>1, <1>2
  <1>3. CASE lost' = lost + 1 /\ sink_failed' = TRUE /\ UNCHANGED journal
    BY <1>3
  <1> QED
    BY <1>2, <1>3 DEF consume

\* The sink thread writes the event it holds.
LEMMA SinkConsumeInv ==
  ASSUME SideInv, SinkConsume
  PROVE  SideInv'
  <1> USE DEF SinkConsume, SinkGoes
  <1>1. /\ event \in 1 .. MaxEvents /\ (dropped = 0 => event = tail)
    BY DEF SideInv, ContentInv
  <1>2. mode = "Async" /\ tail = Len(journal) + lost + 1
    BY DEF SideInv, SideTypeOK, CountInv
  <1>3. \/ /\ lost' = lost /\ sink_failed' = sink_failed
           /\ journal' \in Seq(1 .. MaxEvents)
           /\ Len(journal') = Len(journal) + 1
           /\ journal'[Len(journal) + 1] = event
           /\ \A i \in 1 .. Len(journal) : journal'[i] = journal[i]
        \/ journal' = journal /\ lost' = lost + 1 /\ sink_failed' = TRUE
    BY <1>1, Consumed
  <1>4. RingInv' /\ ShutdownInv'
    BY <1>2 DEF SideInv, RingInv, ShutdownInv
  <1>5. CountInv'
    <2>1. tail' = Len(journal') + lost'
      BY <1>2, <1>3, Cursors
    <2>2. sink_failed' <=> lost' > 0
      BY <1>3, Cursors DEF SideInv, CountInv
    <2>3. /\ mode' = "Async" /\ sink_pc' # "consume"
          /\ accepted' = dropped' + head' + (IF Pushing' THEN 1 ELSE 0)
      BY <1>2 DEF SideInv, CountInv, Pushing
    <2>4. lost' \in Nat /\ Len(journal') \in Nat
      BY <1>3, Cursors
    <2> HIDE DEF SinkConsume, SinkGoes
    <2> QED
      BY <2>1, <2>2, <2>3, <2>4 DEF CountInv
  <1>6. SideTypeOK'
    <2>1. lost' \in 0 .. MaxEvents
      BY <1>2, <1>3, Cursors DEF SideInv, CountInv
    <2>2. journal' \in Seq(1 .. MaxEvents) /\ sink_failed' \in BOOLEAN
      BY <1>3 DEF SideInv, SideTypeOK
    <2>3. 0 \in 0 .. MaxEvents
      BY Cursors
    <2> QED
      BY <2>1, <2>2, <2>3 DEF SideInv, SideTypeOK
  <1>7. dropped = 0 /\ lost' = 0
          => \A i \in 1 .. Len(journal') : journal'[i] = i
    <2> SUFFICES ASSUME dropped = 0, lost' = 0,
                        NEW i \in 1 .. Len(journal')
                 PROVE  journal'[i] = i
      OBVIOUS
    <2>1. lost = 0 /\ Len(journal') = Len(journal) + 1
      BY <1>3, Cursors
    <2>2. CASE i = Len(journal) + 1
      <3>1. event = Len(journal) + 1
        BY <1>1, <1>2, <2>1, Cursors
      <3>2. journal'[Len(journal) + 1] = event
        BY <1>3, <2>1, Cursors
      <3> HIDE DEF SinkConsume, SinkGoes
      <3> QED
        BY <2>2, <3>1, <3>2
    <2>3. CASE i \in 1 .. Len(journal)
      <3>1. journal'[i] = journal[i]
        BY <1>3, <2>1, <2>3, Cursors
      <3>2. journal[i] = i
        BY <2>1, <2>3 DEF SideInv, ContentInv
      <3> QED
        BY <3>1, <3>2
    <2>4. i = Len(journal) + 1 \/ i \in 1 .. Len(journal)
      BY <2>1, Cursors
    <2> QED
      BY <2>2, <2>3, <2>4
  <1>8. ContentInv'
    BY <1>7 DEF SideInv, ContentInv, Slot
  <1> QED
    BY <1>4, <1>5, <1>6, <1>8 DEF SideInv

\* In sync mode the replay thread writes the event itself.
LEMMA EmitSyncInv ==
  ASSUME SideInv, EmitSync
  PROVE  SideInv'
  <1> USE DEF EmitSync, Emit, ReplayGoes
  <1>1. accepted + 1 \in 1 .. MaxEvents
    BY Cursors
  <1>2. /\ accepted = Len(journal) + lost /\ dropped = 0 /\ head = 0
        /\ ~Pushing /\ sink_pc = "exited"
    BY DEF SideInv, CountInv
  <1>3. \/ /\ lost' = lost /\ sink_failed' = sink_failed
           /\ journal' \in Seq(1 .. MaxEvents)
           /\ Len(journal') = Len(journal) + 1
           /\ journal'[Len(journal) + 1] = accepted + 1
           /\ \A i \in 1 .. Len(journal) : journal'[i] = journal[i]
        \/ journal' = journal /\ lost' = lost + 1 /\ sink_failed' = TRUE
    BY <1>1, Consumed
  <1>4. RingInv' /\ ShutdownInv'
    BY <1>2 DEF SideInv, RingInv, ShutdownInv
  <1>5. CountInv'
    BY <1>2, <1>3, Cursors DEF SideInv, CountInv, Pushing
  <1>6. SideTypeOK'
    <2>1. lost' \in 0 .. MaxEvents
      BY <1>1, <1>2, <1>3, Cursors
    <2>2. journal' \in Seq(1 .. MaxEvents) /\ sink_failed' \in BOOLEAN
      BY <1>3 DEF SideInv, SideTypeOK
    <2>3. accepted' \in 0 .. MaxEvents /\ dropped' \in 0 .. accepted'
      BY <1>1, <1>2, Cursors
    <2> QED
      BY <2>1, <2>2, <2>3 DEF SideInv, SideTypeOK
  <1>7. lost' = 0 => \A i \in 1 .. Len(journal') : journal'[i] = i
    <2> SUFFICES ASSUME lost' = 0, NEW i \in 1 .. Len(journal')
                 PROVE  journal'[i] = i
      OBVIOUS
    <2>1. lost = 0 /\ Len(journal') = Len(journal) + 1
      BY <1>3, Cursors
    <2>2. CASE i = Len(journal) + 1
      BY <1>2, <1>3, <2>1, <2>2, Cursors
    <2>3. CASE i \in 1 .. Len(journal)
      BY <1>2, <1>3, <2>1, <2>3, Cursors DEF SideInv, ContentInv
    <2> QED
      BY <2>1, <2>2, <2>3, Cursors
  <1>8. ContentInv'
    BY <1>2, <1>7 DEF SideInv, ContentInv, Slot
  <1> QED
    BY <1>4, <1>5, <1>6, <1>8 DEF SideInv

\* Initially the ring is empty and nothing was emitted.
LEMMA SideInitInv ==
  ASSUME SideInit
  PROVE  SideInv
  <1>1. buffer \in [0 .. slots - 1 -> 0 .. MaxEvents]
    BY ChannelAssumption DEF SideInit
  <1>2. journal \in Seq(1 .. MaxEvents) /\ Len(journal) = 0
    BY DEF SideInit
  <1>3. SideTypeOK
    <2>1. 0 \in 0 .. MaxEvents /\ 0 - 0 \in 0 .. Capacity /\ 0 \in 0 .. 0
      BY ChannelAssumption
    <2>2. /\ mode \in {"Sync", "Async"}
          /\ sink_pc \in {"check", "drain", "pop", "read", "free", "consume",
                         "exited"}
      BY DEF SideInit
    <2> QED
      BY <1>1, <1>2, <2>1, <2>2 DEF SideInit, SideTypeOK
  <1>4. RingInv /\ CountInv /\ ShutdownInv /\ ContentInv
    BY <1>2, ChannelAssumption
       DEF SideInit, RingInv, CountInv, Pushing, ShutdownInv, ContentInv
  <1> QED
    BY <1>3, <1>4 DEF SideInv

\* Every step of the two threads and of the memory between them.
LEMMA SideStepInv ==
  ASSUME SideInv, [SideNext]_sideVars
  PROVE  SideInv'
  BY ControlInv, PushWriteInv, PushPublishInv, PopReadInv, PopFreeInv,
     SinkConsumeInv, EmitSyncInv
     DEF SideNext, ReplayThread, SinkThread, Ended

-----------------------------------------------------------------------------
(* What follows *)

\* The inductive invariant of the side channel.
THEOREM SideChannelInvariant == SideSpec => []SideInv
  <1>1. SideInit => SideInv
    BY SideInitInv
  <1>2. SideInv /\ [SideNext]_sideVars => SideInv'
    BY SideStepInv
  <1> QED
    BY <1>1, <1>2, PTL DEF SideSpec

\* The counters, cursors and threads keep their types, and the ring never
\* holds more than Capacity events.
THEOREM SideTypeCorrect == SideSpec => []SideTypeOK
  <1>1. SideInv => SideTypeOK
    BY DEF SideInv
  <1> QED
    BY <1>1, SideChannelInvariant, PTL

\* The replay thread never writes the slot that the sink thread reads.
THEOREM SlotsAreNotShared == SideSpec => []NoSlotRace
  <1>1. ASSUME SideInv PROVE NoSlotRace
    <2> SUFFICES ASSUME sink_pc = "read", index(head) = index(tail)
                 PROVE  FALSE
      BY DEF NoSlotRace
    <2>1. tail \in tail .. head - 1
      BY <1>1, Cursors DEF SideInv, RingInv
    <2> QED
      BY <1>1, <2>1, FreeSlot
  <1> QED
    BY <1>1, SideChannelInvariant, PTL

\* run_replay ends only after the sink thread left its loop, which it does
\* only when the ring is empty: every event is persisted, lost or dropped.
THEOREM EventsAreAccountedFor == SideSpec => []NothingUnaccounted
  <1>1. ASSUME SideInv PROVE NothingUnaccounted
    <2> SUFFICES ASSUME outcome # "running"
                 PROVE  accepted = Len(journal) + lost + dropped
      BY DEF NothingUnaccounted
    <2>1. replay_pc = "ended" /\ sink_pc = "exited" /\ ~Pushing
      BY <1>1 DEF SideInv, ShutdownInv, Pushing
    <2>2. CASE mode = "Async"
      <3>1. tail = head /\ accepted = dropped + head
                /\ tail = Len(journal) + lost
        BY <1>1, <2>1, <2>2, Cursors DEF SideInv, ShutdownInv, CountInv
      <3> QED
        BY <1>1, <3>1, Cursors
    <2>3. CASE mode = "Sync"
      BY <1>1, <2>3, Cursors DEF SideInv, CountInv
    <2> QED
      BY <1>1, <2>2, <2>3 DEF SideInv, SideTypeOK
  <1> QED
    BY <1>1, SideChannelInvariant, PTL

\* A run that returns, dropped nothing and had no sink failure has persisted
\* every event in order: the async journal is the sync journal.
THEOREM JournalIsComplete == SideSpec => []CompleteJournal
  <1>1. ASSUME SideInv PROVE CompleteJournal
    <2> SUFFICES ASSUME outcome = "returned", dropped = 0, ~sink_failed
                 PROVE  journal = [i \in 1 .. accepted |-> i]
      BY DEF CompleteJournal
    <2>1. lost = 0
      BY <1>1, Cursors DEF SideInv, CountInv
    <2>2. replay_pc = "ended" /\ sink_pc = "exited" /\ ~Pushing
      BY <1>1 DEF SideInv, ShutdownInv, Pushing
    <2>3. accepted = Len(journal)
      <3>1. CASE mode = "Async"
        <4>1. tail = head /\ accepted = head /\ tail = Len(journal)
          BY <1>1, <2>1, <2>2, <3>1, Cursors DEF SideInv, ShutdownInv, CountInv
        <4> QED
          BY <4>1
      <3>2. CASE mode = "Sync"
        BY <1>1, <2>1, <3>2, Cursors DEF SideInv, CountInv
      <3> QED
        BY <1>1, <3>1, <3>2 DEF SideInv, SideTypeOK
    <2>4. journal \in Seq(1 .. MaxEvents)
      BY <1>1 DEF SideInv, SideTypeOK
    <2>5. journal = [i \in 1 .. Len(journal) |-> journal[i]]
      BY <2>4
    <2>6. \A i \in 1 .. Len(journal) : journal[i] = i
      BY <1>1, <2>1 DEF SideInv, ContentInv
    <2> QED
      BY <2>3, <2>5, <2>6
  <1> QED
    BY <1>1, SideChannelInvariant, PTL

-----------------------------------------------------------------------------
(* The side channel is a bounded FIFO channel *)

\* What n slots of a ring hold, from count t on.
Ring(b, t, n) == [i \in 1 .. n |-> b[index(t + i - 1)]]

\* What the sink thread holds.
Held(pc, e) == IF pc = "consume" THEN <<e>> ELSE <<>>

\* The n slots from count t on hold elements of S.
Holds(S, b, t, n) == \A i \in t .. t + n - 1 : b[index(i)] \in S

\* The slots are a sequence.
LEMMA RingSeq ==
  ASSUME NEW S, NEW b, NEW t \in Nat, NEW n \in Nat, Holds(S, b, t, n)
  PROVE  /\ Ring(b, t, n) \in Seq(S)
         /\ Len(Ring(b, t, n)) = n
  <1>1. \A i \in 1 .. n : t + i - 1 \in t .. t + n - 1
    OBVIOUS
  <1>2. \A i \in 1 .. n : b[index(t + i - 1)] \in S
    BY <1>1 DEF Holds
  <1> DEFINE r == Ring(b, t, n)
  <1>3. r \in [1 .. n -> S]
    BY <1>2 DEF Ring
  <1> HIDE DEF r
  <1>4. r \in Seq(S)
    BY <1>3
  <1>5. Len(r) = n
    BY <1>3, <1>4, LenProperties
  <1> QED
    BY <1>4, <1>5 DEF r

\* One more slot: the queue is one longer at its end.
LEMMA RingGrows ==
  ASSUME NEW S, NEW b, NEW t \in Nat, NEW n \in Nat,
         Holds(S, b, t, n + 1)
  PROVE  Ring(b, t, n + 1) = Append(Ring(b, t, n), b[index(t + n)])
  <1> DEFINE r == Ring(b, t, n)
             e == b[index(t + n)]
             q == Ring(b, t, n + 1)
  <1>1. /\ r \in Seq(S) /\ Len(r) = n
        /\ \A i \in 1 .. n : r[i] = b[index(t + i - 1)]
    <2>1. Holds(S, b, t, n)
      BY DEF Holds
    <2>2. \A i \in 1 .. n : r[i] = b[index(t + i - 1)]
      BY DEF Ring
    <2> QED
      BY <2>1, <2>2, RingSeq
  <1>2. /\ q \in Seq(S) /\ Len(q) = n + 1
        /\ \A i \in 1 .. n + 1 : q[i] = b[index(t + i - 1)]
    <2>1. \A i \in 1 .. n + 1 : q[i] = b[index(t + i - 1)]
      BY DEF Ring
    <2> QED
      BY <2>1, RingSeq
  <1>3. e \in S /\ t + (n + 1) - 1 = t + n
    BY DEF Holds
  <1>4. q[n + 1] = e
    BY <1>2, <1>3
  <1> HIDE DEF r, e, q
  <1>5. /\ Append(r, e) \in Seq(S) /\ Len(Append(r, e)) = n + 1
        /\ \A i \in 1 .. n : Append(r, e)[i] = r[i]
        /\ Append(r, e)[n + 1] = e
    BY <1>1, <1>3, AppendProperties
  <1>6. \A i \in 1 .. n + 1 : q[i] = Append(r, e)[i]
    BY <1>1, <1>2, <1>4, <1>5
  <1>7. q = Append(r, e)
    BY <1>2, <1>5, <1>6, SeqEqual
  <1> QED
    BY <1>7 DEF r, e, q

\* The oldest slot goes to the sink thread: it stays at the queue's front.
LEMMA RingShrinks ==
  ASSUME NEW S, NEW b, NEW t \in Nat, NEW n \in Nat, n > 0,
         Holds(S, b, t, n)
  PROVE  Ring(b, t, n) = <<b[index(t)]>> \o Ring(b, t + 1, n - 1)
  <1> DEFINE r == Ring(b, t, n)
             e == b[index(t)]
             q == Ring(b, t + 1, n - 1)
  <1>1. /\ r \in Seq(S) /\ Len(r) = n
        /\ \A i \in 1 .. n : r[i] = b[index(t + i - 1)]
    <2>1. \A i \in 1 .. n : r[i] = b[index(t + i - 1)]
      BY DEF Ring
    <2> QED
      BY <2>1, RingSeq
  <1>2. t + 1 \in Nat /\ n - 1 \in Nat
    OBVIOUS
  <1>3. Holds(S, b, t + 1, n - 1)
    BY DEF Holds
  <1>4. /\ q \in Seq(S) /\ Len(q) = n - 1
        /\ \A i \in 1 .. n - 1 : q[i] = b[index((t + 1) + i - 1)]
    <2>1. \A i \in 1 .. n - 1 : q[i] = b[index((t + 1) + i - 1)]
      BY DEF Ring
    <2> QED
      BY <1>2, <1>3, <2>1, RingSeq
  <1>5. e \in S
    BY DEF Holds
  <1>6. t + 1 - 1 = t
    OBVIOUS
  <1>7. r[1] = e
    BY <1>1, <1>6
  <1>8. \A i \in 2 .. n : r[i] = q[i - 1]
    <2> TAKE i \in 2 .. n
    <2>1. i - 1 \in 1 .. n - 1 /\ (t + 1) + (i - 1) - 1 = t + i - 1
      OBVIOUS
    <2>2. i \in 1 .. n
      OBVIOUS
    <2>3. q[i - 1] = b[index((t + 1) + (i - 1) - 1)]
      BY <1>4, <2>1
    <2>4. r[i] = b[index(t + i - 1)]
      BY <1>1, <2>2
    <2> QED
      BY <2>1, <2>3, <2>4
  <1> HIDE DEF r, e, q
  <1>9. <<e>> \in Seq(S) /\ Len(<<e>>) = 1 /\ <<e>>[1] = e
    BY <1>5
  <1>10. /\ <<e>> \o q \in Seq(S) /\ Len(<<e>> \o q) = n
         /\ \A i \in 1 .. n :
              (<<e>> \o q)[i] = IF i <= 1 THEN <<e>>[i] ELSE q[i - 1]
    BY <1>2, <1>4, <1>9, ConcatProperties
  <1>11. \A i \in 1 .. n : r[i] = (<<e>> \o q)[i]
    BY <1>7, <1>8, <1>9, <1>10
  <1>12. r = <<e>> \o q
    BY <1>1, <1>10, <1>11, SeqEqual
  <1> QED
    BY <1>12 DEF r, e, q

\* Writing a slot outside of the queue does not change the queue.
LEMMA RingSame ==
  ASSUME NEW b, NEW c, NEW t \in Nat, NEW n \in Nat,
         \A i \in t .. t + n - 1 : b[index(i)] = c[index(i)]
  PROVE  Ring(b, t, n) = Ring(c, t, n)
  <1>1. \A i \in 1 .. n : t + i - 1 \in t .. t + n - 1
    OBVIOUS
  <1>2. \A i \in 1 .. n : b[index(t + i - 1)] = c[index(t + i - 1)]
    BY <1>1
  <1> QED
    BY <1>2 DEF Ring

\* A sequence that begins with e.
LEMMA FrontOfQueue ==
  ASSUME NEW S, NEW e \in S, NEW s \in Seq(S)
  PROVE  /\ <<e>> \o s # <<>>
         /\ Head(<<e>> \o s) = e
         /\ Tail(<<e>> \o s) = s
  <1> DEFINE q == <<e>> \o s
  <1>1. <<e>> \in Seq(S) /\ Len(<<e>>) = 1 /\ <<e>>[1] = e
    OBVIOUS
  <1>2. /\ q \in Seq(S) /\ Len(q) = 1 + Len(s)
        /\ \A i \in 1 .. 1 + Len(s) :
             q[i] = IF i <= 1 THEN <<e>>[i] ELSE s[i - 1]
    BY <1>1, ConcatProperties
  <1>3. Len(s) \in Nat
    OBVIOUS
  <1> HIDE DEF q
  <1>4. q # <<>> /\ q[1] = e
    BY <1>1, <1>2, <1>3
  <1>5. /\ Tail(q) \in Seq(S) /\ Len(Tail(q)) = Len(s)
        /\ \A i \in 1 .. Len(s) : Tail(q)[i] = q[i + 1]
    BY <1>2, <1>3, <1>4, HeadTailProperties
  <1>6. \A i \in 1 .. Len(s) : q[i + 1] = s[i]
    BY <1>2, <1>3
  <1>7. Tail(q) = s
    BY <1>5, <1>6, SeqEqual
  <1>8. Head(q) = e
    BY <1>2, <1>4
  <1> QED
    BY <1>4, <1>7, <1>8 DEF q

\* The events that were decided about: published, dropped or, in sync mode,
\* handed to the sink.
Offered == IF Pushing THEN accepted - 1 ELSE accepted

\* A step that keeps these three leaves the channel alone.
LEMMA Quiet ==
  ASSUME Offered' = Offered, in_flight' = in_flight, journal' = journal
  PROVE  UNCHANGED Channel!channelVars
  BY DEF Channel!channelVars, Offered, Pushing

\* The events in flight, in this state and in the next.
LEMMA FlightIs ==
  /\ in_flight = Held(sink_pc, event) \o Ring(buffer, tail, head - tail)
  /\ in_flight' = Held(sink_pc', event') \o Ring(buffer', tail', head' - tail')
  BY DEF in_flight, Held, Ring

\* The published slots hold events.
LEMMA Published ==
  ASSUME SideInv
  PROVE  /\ head - tail \in Nat
         /\ Holds(1 .. MaxEvents, buffer, tail, head - tail)
         /\ Ring(buffer, tail, head - tail) \in Seq(1 .. MaxEvents)
         /\ Len(Ring(buffer, tail, head - tail)) = head - tail
  <1>1. head - tail \in Nat /\ tail + (head - tail) - 1 = head - 1
    BY Cursors
  <1>2. Holds(1 .. MaxEvents, buffer, tail, head - tail)
    BY <1>1 DEF SideInv, ContentInv, Slot, Holds
  <1> QED
    BY <1>1, <1>2, Cursors, RingSeq

\* Steps that decide about no event, fill no slot and free none.
LEMMA ControlIsQuiet ==
  ASSUME SideInv,
         \/ EmitAsync \/ PushRoom \/ InputUsedUp \/ SymbolMismatch
         \/ Join("join_return") \/ Join("join_throw")
         \/ SinkNotDone \/ SinkDone \/ SinkExit \/ SinkDrain
         \/ PopEmpty \/ PopFound \/ PopRead \/ Visibility
         \/ UNCHANGED sideVars
  PROVE  UNCHANGED Channel!channelVars
  <1>1. /\ buffer' = buffer /\ tail' = tail /\ head' = head
        /\ journal' = journal
        /\ Held(sink_pc', event') = Held(sink_pc, event)
    BY DEF EmitAsync, Emit, PushRoom, InputUsedUp, SymbolMismatch, Shutdown,
           Join, ReplayGoes, SinkNotDone, SinkDone, SinkExit, SinkDrain,
           PopEmpty, PopFound, PopRead, SinkTest, SinkGoes, Visibility,
           SeeHead, SeeTail, SeeDone, Sees, sinkVars, sideVars, Held
  <1>2. Offered' = Offered
    BY Cursors
       DEF EmitAsync, Emit, PushRoom, InputUsedUp, SymbolMismatch, Shutdown,
           Join, ReplayGoes, SinkNotDone, SinkDone, SinkExit, SinkDrain,
           PopEmpty, PopFound, PopRead, SinkTest, SinkGoes, Visibility,
           SeeHead, SeeTail, SeeDone, Sees, sideVars, Offered, Pushing
  <1>3. in_flight' = in_flight
    BY <1>1, FlightIs
  <1> QED
    BY <1>1, <1>2, <1>3, Quiet

\* Writing the payload does not show before the slot is published.
LEMMA WriteIsQuiet ==
  ASSUME SideInv, PushWrite
  PROVE  UNCHANGED Channel!channelVars
  <1>1. /\ buffer' = [buffer EXCEPT ![index(head)] = accepted]
        /\ buffer \in [0 .. slots - 1 -> 0 .. MaxEvents]
        /\ tail' = tail /\ head' = head /\ journal' = journal
        /\ sink_pc' = sink_pc /\ event' = event /\ Offered' = Offered
    BY DEF PushWrite, ReplayGoes, push_slot, sinkVars, Offered, Pushing,
           SideInv, SideTypeOK
  <1>2. \A i \in tail .. head - 1 : buffer[index(i)] = buffer'[index(i)]
    <2> TAKE i \in tail .. head - 1
    <2>1. i \in Nat
      BY Cursors
    <2>2. index(i) # index(head) /\ index(i) \in 0 .. slots - 1
      BY <2>1, FreeSlot, IndexIsSlot
    <2> QED
      BY <1>1, <2>2
  <1>3. tail + (head - tail) - 1 = head - 1 /\ tail \in Nat
    BY Cursors
  <1>4. Ring(buffer, tail, head - tail) = Ring(buffer', tail, head - tail)
    BY <1>2, <1>3, Published, RingSame
  <1> QED
    BY <1>1, <1>4, FlightIs, Quiet

\* Freeing the slot moves its event to the sink thread's hands.
LEMMA FreeIsQuiet ==
  ASSUME SideInv, PopFree
  PROVE  UNCHANGED Channel!channelVars
  <1>1. /\ sink_pc = "free" /\ sink_pc' = "consume" /\ tail' = tail + 1
        /\ event' = event /\ buffer' = buffer /\ head' = head
        /\ journal' = journal /\ Offered' = Offered
    BY DEF PopFree, SinkGoes, sinkVars, Offered, Pushing
  <1>2. event = buffer[index(tail)] /\ tail < head
    BY <1>1, Cursors DEF SideInv, ContentInv, RingInv, Slot
  <1>3. head' - tail' = (head - tail) - 1 /\ head - tail > 0 /\ tail \in Nat
    BY <1>1, <1>2, Cursors
  <1>4. Ring(buffer, tail, head - tail)
          = <<event>> \o Ring(buffer', tail', head' - tail')
    BY <1>1, <1>2, <1>3, Published, RingShrinks
  <1>5. <<>> \o Ring(buffer, tail, head - tail) = Ring(buffer, tail, head - tail)
    BY Published, ConcatEmptySeq
  <1>6. in_flight' = in_flight
    BY <1>1, <1>4, <1>5, FlightIs DEF Held
  <1> QED
    BY <1>1, <1>6, Quiet

\* A push that finds the ring full drops the event.
LEMMA FullDrops ==
  ASSUME SideInv, PushFull
  PROVE  Channel!Drop
  <1>1. /\ Offered' = Offered + 1
        /\ buffer' = buffer /\ tail' = tail /\ head' = head
        /\ sink_pc' = sink_pc /\ event' = event /\ journal' = journal
    BY Cursors DEF PushFull, ReplayGoes, sinkVars, Offered, Pushing
  <1>2. in_flight' = in_flight
    BY <1>1, FlightIs
  <1> QED
    BY <1>1, <1>2 DEF Channel!Drop, Offered, Pushing

\* Publishing a slot enqueues the event at the end of the channel, which has
\* room for it.
LEMMA PublishEnqueues ==
  ASSUME SideInv, PushPublish
  PROVE  Channel!Enqueue
  <1> DEFINE E == 1 .. MaxEvents
             r == Ring(buffer, tail, head - tail)
             h == Held(sink_pc, event)
  <1>1. /\ Offered' = Offered + 1 /\ Offered + 1 = accepted
        /\ head' = head + 1 /\ tail' = tail /\ buffer' = buffer
        /\ sink_pc' = sink_pc /\ event' = event /\ journal' = journal
    BY Cursors DEF PushPublish, ReplayGoes, sinkVars, Offered, Pushing
  <1>2. SideInv'
    BY PushPublishInv
  <1>3. buffer[index(head)] = accepted /\ accepted \in E
    <2>1. buffer[index(head)] = accepted /\ head \in tail' .. head' - 1
      BY <1>1, Cursors DEF SideInv, ContentInv, Slot, PushPublish, ReplayGoes
    <2>2. buffer'[index(head)] \in E
      BY <1>2, <2>1 DEF SideInv, ContentInv, Slot
    <2> QED
      BY <1>1, <2>1, <2>2
  <1>4. /\ h \in Seq(E) /\ Len(h) <= 1 /\ Len(h) \in Nat
    <2>1. CASE sink_pc = "consume"
      <3>1. event \in E /\ h = <<event>>
        BY <2>1 DEF SideInv, ContentInv, Held
      <3>2. <<event>> \in Seq(E) /\ Len(<<event>>) = 1
        BY <3>1
      <3> QED
        BY <3>1, <3>2
    <2>2. CASE sink_pc # "consume"
      <3>1. h = <<>>
        BY <2>2 DEF Held
      <3> QED
        BY <3>1, EmptySeq
    <2> QED
      BY <2>1, <2>2
  <1>5. /\ tail \in Nat /\ head' - tail' = (head - tail) + 1
        /\ tail + (head - tail) = head /\ head - tail < Capacity
    <2>1. head - tail_seen < Capacity
      BY DEF SideInv, RingInv, PushPublish, ReplayGoes
    <2>2. /\ tail \in Nat /\ tail + (head - tail) = head
          /\ head - tail < Capacity
      BY <2>1, Cursors
    <2>3. head' - tail' = (head - tail) + 1
      BY <1>1, Cursors
    <2> QED
      BY <2>2, <2>3
  <1>6. Holds(E, buffer, tail, (head - tail) + 1)
    <2>1. \A i \in tail .. tail + ((head - tail) + 1) - 1 :
            i \in tail .. head - 1 \/ i = head
      BY Cursors
    <2>2. \A i \in tail .. head - 1 : buffer[index(i)] \in E
      BY DEF SideInv, ContentInv, Slot
    <2> QED
      BY <1>3, <2>1, <2>2 DEF Holds
  <1>7. Ring(buffer', tail', head' - tail') = Append(r, accepted)
    <2>1. Ring(buffer, tail, (head - tail) + 1)
            = Append(r, buffer[index(tail + (head - tail))])
      BY <1>5, <1>6, Published, RingGrows
    <2> QED
      BY <1>1, <1>3, <1>5, <2>1
  <1>8. r \in Seq(E) /\ Len(r) = head - tail
    BY Published
  <1>9. in_flight = h \o r /\ in_flight' = h \o Append(r, accepted)
    BY <1>1, <1>7, FlightIs
  <1> HIDE DEF h, r, E
  <1>10. Append(h \o r, accepted) = h \o Append(r, accepted)
    <2>1. h \o r \in Seq(E) /\ <<accepted>> \in Seq(E)
      BY <1>3, <1>4, <1>8
    <2>2. /\ Append(h \o r, accepted) = (h \o r) \o <<accepted>>
          /\ Append(r, accepted) = r \o <<accepted>>
      BY <1>3, <1>8, <2>1, AppendIsConcat
    <2>3. (h \o r) \o <<accepted>> = h \o (r \o <<accepted>>)
      BY <1>4, <1>8, <2>1, ConcatAssociative
    <2> QED
      BY <2>2, <2>3
  <1>11. Len(in_flight) < Capacity + 1
    <2>1. Len(h \o r) = Len(h) + Len(r)
      BY <1>4, <1>8, ConcatProperties
    <2>2. Len(h) + (head - tail) < Capacity + 1
      BY <1>4, <1>5, Cursors
    <2> QED
      BY <1>8, <1>9, <2>1, <2>2
  <1>12. in_flight' = Append(in_flight, Offered + 1)
    BY <1>1, <1>9, <1>10
  <1> QED
    BY <1>1, <1>11, <1>12 DEF Channel!Enqueue, Offered, Pushing

\* The sink thread persists or loses the oldest event in flight.
LEMMA ConsumePersists ==
  ASSUME SideInv, SinkConsume
  PROVE  Channel!Persist \/ Channel!Lose
  <1> DEFINE r == Ring(buffer, tail, head - tail)
  <1>1. /\ sink_pc = "consume" /\ sink_pc' = "check" /\ Offered' = Offered
        /\ buffer' = buffer /\ tail' = tail /\ head' = head
    BY DEF SinkConsume, SinkGoes, Offered, Pushing
  <1>2. event \in 1 .. MaxEvents /\ r \in Seq(1 .. MaxEvents)
    BY <1>1, Published DEF SideInv, ContentInv
  <1>3. in_flight = <<event>> \o r /\ in_flight' = <<>> \o r
    BY <1>1, FlightIs DEF Held
  <1> HIDE DEF r
  <1>4. /\ in_flight # <<>> /\ Head(in_flight) = event
        /\ in_flight' = Tail(in_flight)
    BY <1>2, <1>3, FrontOfQueue, ConcatEmptySeq
  <1>5. journal' = Append(journal, event) \/ journal' = journal
    BY DEF SinkConsume, consume
  <1>6. CASE journal' = Append(journal, event)
    BY <1>1, <1>4, <1>6 DEF Channel!Persist, Offered, Pushing
  <1>7. CASE journal' = journal
    BY <1>1, <1>4, <1>7 DEF Channel!Lose, Offered, Pushing
  <1> QED
    BY <1>5, <1>6, <1>7

\* In sync mode an event is persisted at once, or lost at once.
LEMMA SyncPersists ==
  ASSUME SideInv, EmitSync
  PROVE  Channel!PersistNow \/ Channel!Drop
  <1>1. /\ Offered = accepted /\ Offered' = Offered + 1
        /\ buffer' = buffer /\ tail' = tail /\ head' = head
        /\ sink_pc' = sink_pc /\ event' = event
    BY DEF EmitSync, Emit, ReplayGoes, Offered, Pushing
  <1>2. in_flight' = in_flight
    BY <1>1, FlightIs
  <1>3. journal' = Append(journal, accepted + 1) \/ journal' = journal
    BY DEF EmitSync, consume
  <1>4. CASE journal' = Append(journal, accepted + 1)
    BY <1>1, <1>2, <1>4 DEF Channel!PersistNow, Offered, Pushing
  <1>5. CASE journal' = journal
    BY <1>1, <1>2, <1>5 DEF Channel!Drop, Offered, Pushing
  <1> QED
    BY <1>3, <1>4, <1>5

\* The side channel implements the bounded FIFO channel: the ring, the two
\* threads and the memory between them lose the order of no event, persist
\* none twice, and drop one only when it is offered.
THEOREM SideChannelIsAChannel == SideSpec => RefinesEventChannel
  <1>1. SideInit => Channel!ChannelInit
    <2> SUFFICES ASSUME SideInit PROVE Channel!ChannelInit
      OBVIOUS
    <2>1. head - tail = 0
      BY DEF SideInit
    <2>2. in_flight = <<>>
      BY <2>1, EmptySeq, ConcatEmptySeq DEF SideInit, in_flight
    <2> QED
      BY <2>2 DEF SideInit, Channel!ChannelInit
  <1>2. SideInv /\ [SideNext]_sideVars
          => [Channel!ChannelNext]_(Channel!channelVars)
    BY ControlIsQuiet, WriteIsQuiet, FreeIsQuiet, FullDrops, PublishEnqueues,
       ConsumePersists, SyncPersists
       DEF SideNext, ReplayThread, SinkThread, Ended, Channel!ChannelNext
  <1> QED
    BY <1>1, <1>2, SideChannelInvariant, PTL DEF SideSpec, RefinesEventChannel
=============================================================================
