---------------------------- MODULE EventChannel ----------------------------
(***************************************************************************)
(* What run_replay promises about its event side channel: a FIFO channel   *)
(* of bounded length between the replay loop and the sink.  Events are     *)
(* numbered in the order they are emitted.  An event may be dropped when   *)
(* it is offered, or lost by a sink that fails to write it, but what is    *)
(* persisted is persisted once and in order.                               *)
(***************************************************************************)
EXTENDS Integers, Sequences

CONSTANT Bound

VARIABLES offered, queue, persisted

channelVars == <<offered, queue, persisted>>

ChannelInit == offered = 0 /\ queue = <<>> /\ persisted = <<>>

Enqueue ==
  /\ Len(queue) < Bound
  /\ offered' = offered + 1
  /\ queue' = Append(queue, offered + 1)
  /\ UNCHANGED persisted

Drop == offered' = offered + 1 /\ UNCHANGED <<queue, persisted>>

Persist ==
  /\ queue # <<>>
  /\ persisted' = Append(persisted, Head(queue))
  /\ queue' = Tail(queue)
  /\ UNCHANGED offered

Lose == queue # <<>> /\ queue' = Tail(queue) /\ UNCHANGED <<offered, persisted>>

\* Sync mode: the event goes straight to the sink.
PersistNow ==
  /\ offered' = offered + 1
  /\ persisted' = Append(persisted, offered + 1)
  /\ UNCHANGED queue

ChannelNext == Enqueue \/ Drop \/ Persist \/ Lose \/ PersistNow

ChannelSpec == ChannelInit /\ [][ChannelNext]_channelVars
=============================================================================
