----------------------------- MODULE ThreadPool -----------------------------
(***************************************************************************)
(* The thread-pool exercise in its two versions.  C++: a mutex, one        *)
(* condition variable, and workers that drain the queue after shutdown.    *)
(* Python: a queue.Queue and one sentinel per worker.  A critical section  *)
(* is one step; the notifications of the C++ version come after the mutex  *)
(* is released and are steps of their own.                                 *)
(*                                                                         *)
(* Every task of Submitted is submitted by a thread of its own.  A running *)
(* task may submit the task that Nested gives it.  The end of a pool is    *)
(* one shutdown call; a shutdown called by a task is not modelled.         *)
(***************************************************************************)
EXTENDS Integers, Sequences, FiniteSets

CONSTANTS
  Languages,   \* which of "cpp" and "python" to look at
  Workers,     \* workers_
  Submitted,   \* tasks submitted from outside
  Nested       \* the task a task submits, for some of them

ASSUME PoolAssumption ==
  /\ Languages \subseteq {"cpp", "python"}
  /\ Workers # {} /\ IsFiniteSet(Workers)

Stop == "None"   \* the sentinel of the Python version

VARIABLES
  lang,        \* the version
  accepting,
  queue,
  worker,      \* what each worker does: "ready", "waiting", a task, "exited"
  notifying,   \* threads between the end of submit's lock and notify_one
  nested_done, \* running tasks that submitted their nested task
  accepted,    \* tasks that submit took
  refused,     \* tasks that submit threw for
  settled,     \* tasks whose future is ready
  closing      \* the shutdown call

poolVars ==
  <<lang, accepting, queue, worker, notifying, nested_done, accepted, refused,
    settled, closing>>

Tasks == Submitted \cup {Nested[t] : t \in DOMAIN Nested}

\* A task is a callable: neither the sentinel nor a state of a worker.
ASSUME TaskAssumption == Tasks \cap {Stop, "ready", "waiting", "exited"} = {}

Waiting == {w \in Workers : worker[w] = "waiting"}

Running(w) == worker[w] \in Tasks

PoolInit ==
  /\ lang \in Languages
  /\ accepting = TRUE
  /\ queue = <<>>
  /\ worker = [w \in Workers |-> "ready"]
  /\ notifying = {}
  /\ nested_done = {}
  /\ accepted = {}
  /\ refused = {}
  /\ settled = {}
  /\ closing = "no"

-----------------------------------------------------------------------------
(* submit *)

\* Mutant of notifies: submit only puts the task into the queue.
notifies_never(thread) == {}

\* The C++ version still has to call notify_one; queue.put has notified.
notifies(thread) == IF lang = "cpp" THEN {thread} ELSE {}

submit(t, thread) ==
  IF accepting
  THEN /\ queue' = Append(queue, t)
       /\ accepted' = accepted \cup {t}
       /\ notifying' = notifying \cup notifies(thread)
       /\ UNCHANGED refused
  ELSE /\ refused' = refused \cup {t}
       /\ UNCHANGED <<queue, accepted, notifying>>

Submit(t) ==
  /\ t \in Submitted \ (accepted \cup refused)
  /\ submit(t, t)
  /\ UNCHANGED <<lang, accepting, worker, nested_done, settled, closing>>

SubmitNested(w) ==
  /\ worker[w] \in DOMAIN Nested \ nested_done
  /\ w \notin notifying
  /\ nested_done' = nested_done \cup {worker[w]}
  /\ submit(Nested[worker[w]], w)
  /\ UNCHANGED <<lang, accepting, worker, settled, closing>>

\* notify_one wakes one of the waiting workers, if there is one.
NotifyOne(thread) ==
  /\ thread \in notifying
  /\ notifying' = notifying \ {thread}
  /\ IF Waiting = {} THEN UNCHANGED worker
     ELSE \E w \in Waiting : worker' = [worker EXCEPT ![w] = "ready"]
  /\ UNCHANGED <<lang, accepting, queue, nested_done, accepted, refused,
                 settled, closing>>

\* future.cancel before the task runs; the worker then skips it.
Cancel(t) ==
  /\ lang = "python"
  /\ \E i \in DOMAIN queue : queue[i] = t
  /\ t \notin settled
  /\ settled' = settled \cup {t}
  /\ UNCHANGED <<lang, accepting, queue, worker, notifying, nested_done,
                 accepted, refused, closing>>

-----------------------------------------------------------------------------
(* worker_loop *)

WorkerUnchanged ==
  UNCHANGED <<lang, accepting, notifying, nested_done, accepted, refused,
              closing>>

\* Mutant of drained: a worker leaves as soon as the pool is closed.
drained_at_once == ~accepting

drained == ~accepting /\ queue = <<>>

\* cv_.wait: the predicate is tested with the mutex held, and released only by
\* going to sleep.
Wait(w) ==
  /\ lang = "cpp"
  /\ worker[w] = "ready"
  /\ accepting
  /\ queue = <<>>
  /\ worker' = [worker EXCEPT ![w] = "waiting"]
  /\ UNCHANGED <<queue, settled>> /\ WorkerUnchanged

SpuriousWakeup(w) ==
  /\ worker[w] = "waiting"
  /\ worker' = [worker EXCEPT ![w] = "ready"]
  /\ UNCHANGED <<queue, settled>> /\ WorkerUnchanged

Leave(w) ==
  /\ lang = "cpp"
  /\ worker[w] = "ready"
  /\ drained
  /\ worker' = [worker EXCEPT ![w] = "exited"]
  /\ UNCHANGED <<queue, settled>> /\ WorkerUnchanged

\* The front of the queue is taken: a sentinel ends the worker, a task that
\* was canceled is skipped.
Take(w) ==
  /\ worker[w] = "ready"
  /\ queue # <<>>
  /\ lang = "cpp" => ~drained
  /\ queue' = Tail(queue)
  /\ worker' = [worker EXCEPT ![w] =
                  IF Head(queue) = Stop THEN "exited"
                  ELSE IF Head(queue) \in settled THEN "ready"
                  ELSE Head(queue)]
  /\ UNCHANGED settled /\ WorkerUnchanged

\* The task returns or throws: its future is ready either way.
Finish(w) ==
  /\ Running(w)
  /\ w \notin notifying
  /\ worker[w] \in DOMAIN Nested => worker[w] \in nested_done
  /\ settled' = settled \cup {worker[w]}
  /\ worker' = [worker EXCEPT ![w] = "ready"]
  /\ UNCHANGED queue /\ WorkerUnchanged

-----------------------------------------------------------------------------
(* shutdown *)

\* Python's shutdown(wait=False) returns without joining.
Shutdown(wait) ==
  /\ closing = "no"
  /\ wait \/ lang = "python"
  /\ accepting' = FALSE
  /\ queue' = IF lang = "python"
              THEN queue \o [w \in 1 .. Cardinality(Workers) |-> Stop]
              ELSE queue
  /\ closing' = IF lang = "cpp" THEN "notify"
                ELSE IF wait THEN "join" ELSE "detached"
  /\ UNCHANGED <<lang, worker, notifying, nested_done, accepted, refused,
                 settled>>

\* Mutant of woken: notify_one.
woken_one == {CHOOSE w \in Workers : Waiting # {} => w \in Waiting} \cap Waiting

woken == Waiting

NotifyAll ==
  /\ closing = "notify"
  /\ closing' = "join"
  /\ worker' = [w \in Workers |-> IF w \in woken THEN "ready" ELSE worker[w]]
  /\ UNCHANGED <<lang, accepting, queue, notifying, nested_done, accepted,
                 refused, settled>>

Join ==
  /\ closing = "join"
  /\ \A w \in Workers : worker[w] = "exited"
  /\ closing' = "returned"
  /\ UNCHANGED <<lang, accepting, queue, worker, notifying, nested_done,
                 accepted, refused, settled>>

Ended ==
  /\ closing \in {"returned", "detached"}
  /\ \A w \in Workers : worker[w] = "exited"
  /\ Submitted \subseteq accepted \cup refused
  /\ notifying = {}
  /\ UNCHANGED poolVars

Threads == Submitted \cup Workers

WorkerStep(w) ==
  Wait(w) \/ Leave(w) \/ Take(w) \/ Finish(w) \/ SubmitNested(w)

PoolNext ==
  \/ \E t \in Submitted : Submit(t)
  \/ \E thread \in Threads : NotifyOne(thread)
  \/ \E t \in Tasks : Cancel(t)
  \/ \E w \in Workers : WorkerStep(w) \/ SpuriousWakeup(w)
  \/ \E wait \in BOOLEAN : Shutdown(wait)
  \/ NotifyAll
  \/ Join
  \/ Ended

\* Threads that can run do run, and a task that runs ends.  Nobody has to
\* submit, cancel or shut down, and no wakeup is spurious for certain.
PoolSpec ==
  /\ PoolInit
  /\ [][PoolNext]_poolVars
  /\ \A w \in Workers : WF_poolVars(WorkerStep(w))
  /\ \A thread \in Threads : WF_poolVars(NotifyOne(thread))
  /\ WF_poolVars(NotifyAll)
  /\ WF_poolVars(Join)

-----------------------------------------------------------------------------

\* shutdown drains: when it has joined the workers, every task that submit
\* accepted is settled, the ones a task submitted included.
AcceptedTasksRun == closing = "returned" => accepted \subseteq settled

\* No task waits for ever while the pool idles: every accepted task is settled
\* although notify_one comes after the lock is released, a worker may be about
\* to sleep, and nobody calls shutdown.
TasksAreServed == \A t \in Tasks : t \in accepted ~> t \in settled

\* A shutdown that was called returns: no worker sleeps through it.
ShutdownReturns ==
  closing \in {"notify", "join"} ~> closing = "returned"
=============================================================================
