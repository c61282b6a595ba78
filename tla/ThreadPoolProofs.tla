-------------------------- MODULE ThreadPoolProofs --------------------------
(***************************************************************************)
(* Shutdown of the thread pool drains it, in both languages, for any       *)
(* number of workers and tasks.  The inductive invariant says where an     *)
(* accepted task may be (Kept), what the queue looks like around the       *)
(* sentinels of the Python version (QueueInv), and what a worker that left *)
(* its loop has seen (ExitInv).                                            *)
(***************************************************************************)
EXTENDS ThreadPool, FiniteSetTheorems, SequenceTheorems, TLAPS

InQueue(t, q) == \E i \in 1 .. Len(q) : q[i] = t

NoStops(q) == \A i \in 1 .. Len(q) : q[i] # Stop

OnlyStops(q) == \A i \in 1 .. Len(q) : q[i] = Stop

\* Behind a sentinel there are only sentinels.
StopsLast(q) ==
  \A i, j \in 1 .. Len(q) : i < j /\ q[i] = Stop => q[j] = Stop

PoolTypeOK ==
  /\ lang \in {"cpp", "python"}
  /\ accepting \in BOOLEAN
  /\ queue \in Seq(Tasks \cup {Stop})
  /\ worker \in [Workers -> Tasks \cup {"ready", "waiting", "exited"}]
  /\ accepted \subseteq Tasks

\* An accepted task is settled, in the queue or in a worker's hands.
Kept(t) ==
  \/ t \in settled
  \/ InQueue(t, queue)
  \/ \E w \in Workers : worker[w] = t

KeptInv == \A t \in accepted : Kept(t)

\* Sentinels come with the shutdown of the Python version, after all tasks.
QueueInv ==
  /\ lang = "cpp" \/ accepting => NoStops(queue)
  /\ StopsLast(queue)

\* A worker leaves when no task is left and none can come.
ExitInv ==
  /\ \A w \in Workers :
       worker[w] = "exited" => ~accepting /\ OnlyStops(queue)
  /\ closing # "no" <=> ~accepting
  /\ closing = "returned" => \A w \in Workers : worker[w] = "exited"

\* The inductive invariant.
PoolInv == PoolTypeOK /\ KeptInv /\ QueueInv /\ ExitInv

-----------------------------------------------------------------------------
(* The queue *)

\* submit puts the task at the end.
LEMMA PutLast ==
  ASSUME NEW S, NEW q \in Seq(S), NEW e \in S
  PROVE  /\ InQueue(e, Append(q, e))
         /\ \A t : InQueue(t, q) => InQueue(t, Append(q, e))
         /\ NoStops(q) /\ e # Stop => NoStops(Append(q, e))
  <1> DEFINE a == Append(q, e)
  <1>1. /\ a \in Seq(S) /\ Len(a) = Len(q) + 1 /\ Len(q) \in Nat
        /\ \A i \in 1 .. Len(q) : a[i] = q[i]
        /\ a[Len(q) + 1] = e
    BY AppendProperties
  <1> HIDE DEF a
  <1>2. InQueue(e, a)
    <2>1. Len(q) + 1 \in 1 .. Len(a)
      BY <1>1
    <2> QED
      BY <1>1, <2>1 DEF InQueue
  <1>3. \A t : InQueue(t, q) => InQueue(t, a)
    <2>1. \A i \in 1 .. Len(q) : i \in 1 .. Len(a)
      BY <1>1
    <2> QED
      BY <1>1, <2>1 DEF InQueue
  <1>4. NoStops(q) /\ e # Stop => NoStops(a)
    <2>1. \A i \in 1 .. Len(a) : i \in 1 .. Len(q) \/ i = Len(q) + 1
      BY <1>1
    <2> QED
      BY <1>1, <2>1 DEF NoStops
  <1> QED
    BY <1>2, <1>3, <1>4 DEF a

\* A worker takes the first.
LEMMA TakeFirst ==
  ASSUME NEW S, NEW q \in Seq(S), q # <<>>
  PROVE  /\ Tail(q) \in Seq(S) /\ Head(q) \in S
         /\ \A t : InQueue(t, q) => t = Head(q) \/ InQueue(t, Tail(q))
         /\ NoStops(q) => NoStops(Tail(q)) /\ Head(q) # Stop
         /\ StopsLast(q) => StopsLast(Tail(q))
         /\ StopsLast(q) /\ Head(q) = Stop => OnlyStops(Tail(q))
         /\ OnlyStops(q) => OnlyStops(Tail(q)) /\ Head(q) = Stop
  <1> DEFINE r == Tail(q)
  <1>1. /\ r \in Seq(S) /\ Head(q) \in S
        /\ Len(r) = Len(q) - 1 /\ Len(q) \in Nat /\ Len(q) > 0
        /\ \A i \in 1 .. Len(r) : r[i] = q[i + 1]
        /\ Head(q) = q[1]
    <2>1. Len(q) \in Nat /\ Len(q) > 0 /\ Head(q) = q[1]
      BY EmptySeq
    <2> QED
      BY <2>1, HeadTailProperties
  <1> HIDE DEF r
  <1>2. \A i \in 1 .. Len(q) : i = 1 \/ (i - 1 \in 1 .. Len(r) /\ r[i - 1] = q[i])
    <2> TAKE i \in 1 .. Len(q)
    <2>1. CASE i # 1
      <3>1. i - 1 \in 1 .. Len(r) /\ (i - 1) + 1 = i
        BY <1>1, <2>1
      <3> QED
        BY <1>1, <3>1
    <2> QED
      BY <2>1
  <1>3. 1 \in 1 .. Len(q) /\ \A i \in 1 .. Len(r) : i + 1 \in 1 .. Len(q) /\ 1 < i + 1
    BY <1>1
  <1>4. \A t : InQueue(t, q) => t = Head(q) \/ InQueue(t, r)
    BY <1>1, <1>2 DEF InQueue
  <1>5. NoStops(q) => NoStops(r) /\ Head(q) # Stop
    BY <1>1, <1>3 DEF NoStops
  <1>6. StopsLast(q) => StopsLast(r)
    <2> SUFFICES ASSUME StopsLast(q), NEW i \in 1 .. Len(r),
                        NEW j \in 1 .. Len(r), i < j, r[i] = Stop
                 PROVE  r[j] = Stop
      BY DEF StopsLast
    <2>1. i + 1 < j + 1
      BY <1>1
    <2> QED
      BY <1>1, <1>3, <2>1 DEF StopsLast
  <1>7. StopsLast(q) /\ Head(q) = Stop => OnlyStops(r)
    BY <1>1, <1>3 DEF StopsLast, OnlyStops
  <1>8. OnlyStops(q) => OnlyStops(r) /\ Head(q) = Stop
    BY <1>1, <1>3 DEF OnlyStops
  <1> QED
    BY <1>1, <1>4, <1>5, <1>6, <1>7, <1>8 DEF r

\* shutdown of the Python version puts one sentinel per worker behind the
\* tasks.
LEMMA PutStops ==
  ASSUME NEW q \in Seq(Tasks \cup {Stop}), NEW n \in Nat, NoStops(q)
  PROVE  LET s == q \o [w \in 1 .. n |-> Stop]
         IN /\ s \in Seq(Tasks \cup {Stop})
            /\ \A t : InQueue(t, q) => InQueue(t, s)
            /\ StopsLast(s)
  <1> DEFINE S == Tasks \cup {Stop}
             p == [w \in 1 .. n |-> Stop]
             s == q \o p
  <1>1. p \in [1 .. n -> S] /\ \A i \in 1 .. n : p[i] = Stop
    OBVIOUS
  <1> HIDE DEF p, S
  <1>2. p \in Seq(S) /\ q \in Seq(S)
    BY <1>1 DEF S
  <1>3. Len(p) = n /\ Len(q) \in Nat
    BY <1>1, <1>2, LenProperties
  <1>4. /\ s \in Seq(S) /\ Len(s) = Len(q) + n
        /\ \A i \in 1 .. Len(q) + n :
             s[i] = IF i <= Len(q) THEN q[i] ELSE p[i - Len(q)]
    BY <1>2, <1>3, ConcatProperties
  <1> HIDE DEF s
  <1>5. \A i \in 1 .. Len(q) : i \in 1 .. Len(s) /\ s[i] = q[i]
    BY <1>3, <1>4
  <1>6. \A i \in 1 .. Len(s) : i > Len(q) => s[i] = Stop
    BY <1>1, <1>3, <1>4
  <1>7. \A t : InQueue(t, q) => InQueue(t, s)
    BY <1>5 DEF InQueue
  <1>8. StopsLast(s)
    <2> SUFFICES ASSUME NEW i \in 1 .. Len(s), NEW j \in 1 .. Len(s), i < j,
                        s[i] = Stop
                 PROVE  s[j] = Stop
      BY DEF StopsLast
    <2>1. ~(i <= Len(q))
      BY <1>3, <1>5 DEF NoStops
    <2>2. j > Len(q)
      BY <1>3, <1>4, <2>1
    <2> QED
      BY <1>6, <2>2
  <1> QED
    BY <1>4, <1>7, <1>8 DEF s, p, S

-----------------------------------------------------------------------------
(* Every step keeps the invariant *)

\* A worker that is ready, asleep or gone holds no task.
LEMMA StatesAreNoTasks ==
  ASSUME NEW t \in Tasks
  PROVE  t # Stop /\ t # "ready" /\ t # "waiting" /\ t # "exited"
  BY TaskAssumption

\* Steps that change only what workers without a task do, and let none leave.
LEMMA IdleInv ==
  ASSUME PoolInv,
         UNCHANGED <<lang, accepting, queue, accepted, settled>>,
         worker' \in [Workers -> Tasks \cup {"ready", "waiting", "exited"}],
         \A w \in Workers :
           \/ worker'[w] = worker[w]
           \/ worker[w] \notin Tasks /\ worker'[w] # "exited",
         closing' # "no" <=> closing # "no",
         closing' = "returned" => \A w \in Workers : worker'[w] = "exited"
  PROVE  PoolInv'
  <1>1. PoolTypeOK' /\ QueueInv'
    BY DEF PoolInv, PoolTypeOK, QueueInv, NoStops, StopsLast
  <1>2. ExitInv'
    BY DEF PoolInv, ExitInv, OnlyStops
  <1>3. KeptInv'
    <2> SUFFICES ASSUME NEW t \in accepted PROVE Kept(t)'
      BY DEF KeptInv
    <2>1. t \in Tasks /\ Kept(t)
      BY DEF PoolInv, PoolTypeOK, KeptInv
    <2> QED
      BY <2>1 DEF Kept, InQueue
  <1> QED
    BY <1>1, <1>2, <1>3 DEF PoolInv

\* submit, from outside or from a task.
LEMMA SubmitInv ==
  ASSUME PoolInv, NEW t \in Tasks, NEW thread, submit(t, thread),
         UNCHANGED <<lang, accepting, worker, settled, closing>>
  PROVE  PoolInv'
  <1> DEFINE S == Tasks \cup {Stop}
  <1>1. CASE accepting
    <2>1. queue' = Append(queue, t) /\ accepted' = accepted \cup {t}
      BY <1>1 DEF submit
    <2>2. queue \in Seq(S) /\ t \in S /\ t # Stop
      BY StatesAreNoTasks DEF PoolInv, PoolTypeOK
    <2>3. /\ InQueue(t, queue')
          /\ \A u : InQueue(u, queue) => InQueue(u, queue')
          /\ NoStops(queue')
          /\ queue' \in Seq(S)
      BY <1>1, <2>1, <2>2, PutLast, AppendProperties DEF PoolInv, QueueInv
    <2>4. PoolTypeOK'
      BY <2>1, <2>3 DEF PoolInv, PoolTypeOK
    <2>5. KeptInv'
      <3> SUFFICES ASSUME NEW u \in accepted' PROVE Kept(u)'
        BY DEF KeptInv
      <3>1. CASE u = t
        BY <2>3, <3>1 DEF Kept, InQueue
      <3>2. CASE u \in accepted
        BY <2>3, <3>2 DEF Kept, PoolInv, KeptInv, InQueue
      <3> QED
        BY <2>1, <3>1, <3>2
    <2>6. QueueInv'
      BY <2>3 DEF QueueInv, NoStops, StopsLast
    <2>7. ExitInv'
      BY <1>1 DEF PoolInv, ExitInv
    <2> QED
      BY <2>4, <2>5, <2>6, <2>7 DEF PoolInv
  <1>2. CASE ~accepting
    <2>1. UNCHANGED <<queue, accepted>>
      BY <1>2 DEF submit
    <2>2. PoolTypeOK' /\ QueueInv' /\ ExitInv'
      BY <2>1 DEF PoolInv, PoolTypeOK, QueueInv, ExitInv, NoStops, StopsLast,
                  OnlyStops
    <2>3. KeptInv'
      BY <2>1 DEF PoolInv, KeptInv, Kept, InQueue
    <2> QED
      BY <2>2, <2>3 DEF PoolInv
  <1> QED
    BY <1>1, <1>2

\* future.cancel settles a task.
LEMMA CancelInv ==
  ASSUME PoolInv, NEW t, Cancel(t)
  PROVE  PoolInv'
  <1> USE DEF Cancel
  <1>1. PoolTypeOK' /\ QueueInv' /\ ExitInv'
    BY DEF PoolInv, PoolTypeOK, QueueInv, ExitInv, NoStops, StopsLast,
           OnlyStops
  <1>2. KeptInv'
    BY DEF PoolInv, KeptInv, Kept, InQueue
  <1> QED
    BY <1>1, <1>2 DEF PoolInv

\* A C++ worker leaves when the pool is closed and the queue is empty.
LEMMA LeaveInv ==
  ASSUME PoolInv, NEW w \in Workers, Leave(w)
  PROVE  PoolInv'
  <1> USE DEF Leave, WorkerUnchanged
  <1>1. /\ worker \in [Workers -> Tasks \cup {"ready", "waiting", "exited"}]
        /\ worker' = [worker EXCEPT ![w] = "exited"]
        /\ worker[w] = "ready" /\ ~accepting /\ queue = <<>>
    BY DEF PoolInv, PoolTypeOK, drained
  <1>2. PoolTypeOK' /\ QueueInv'
    BY <1>1 DEF PoolInv, PoolTypeOK, QueueInv, NoStops, StopsLast
  <1>3. OnlyStops(queue)
    BY <1>1 DEF OnlyStops
  <1>4. ExitInv'
    BY <1>1, <1>3 DEF PoolInv, ExitInv, OnlyStops
  <1>5. KeptInv'
    <2> SUFFICES ASSUME NEW t \in accepted PROVE Kept(t)'
      BY DEF KeptInv
    <2>1. t \in Tasks /\ Kept(t)
      BY DEF PoolInv, PoolTypeOK, KeptInv
    <2>2. t # "ready"
      BY <2>1, StatesAreNoTasks
    <2> QED
      BY <1>1, <2>1, <2>2 DEF Kept, InQueue
  <1> QED
    BY <1>2, <1>4, <1>5 DEF PoolInv

\* A worker takes the front of the queue: the task is now in its hands, or was
\* canceled; the first sentinel is taken after the last task.
LEMMA TakeInv ==
  ASSUME PoolInv, NEW w \in Workers, Take(w)
  PROVE  PoolInv'
  <1> DEFINE S == Tasks \cup {Stop}
             h == Head(queue)
  <1> USE DEF WorkerUnchanged
  <1>1. /\ worker \in [Workers -> Tasks \cup {"ready", "waiting", "exited"}]
        /\ queue \in Seq(S) /\ queue # <<>> /\ queue' = Tail(queue)
        /\ worker[w] = "ready" /\ settled' = settled
    BY DEF PoolInv, PoolTypeOK, Take
  <1>2. worker' = [worker EXCEPT ![w] = IF h = Stop THEN "exited"
                                        ELSE IF h \in settled THEN "ready"
                                        ELSE h]
    BY DEF Take
  <1>3. /\ queue' \in Seq(S) /\ h \in S
        /\ \A t : InQueue(t, queue) => t = h \/ InQueue(t, queue')
        /\ NoStops(queue) => NoStops(queue') /\ h # Stop
        /\ StopsLast(queue')
        /\ h = Stop => OnlyStops(queue')
        /\ OnlyStops(queue) => OnlyStops(queue') /\ h = Stop
    BY <1>1, TakeFirst DEF PoolInv, QueueInv
  <1>4. UNCHANGED <<lang, accepting, accepted, closing>>
    BY DEF Take
  <1> HIDE DEF h
  <1>5. worker' \in [Workers -> Tasks \cup {"ready", "waiting", "exited"}]
    BY <1>1, <1>2, <1>3
  <1>6. PoolTypeOK'
    BY <1>3, <1>4, <1>5 DEF PoolInv, PoolTypeOK
  <1>7. QueueInv'
    <2>1. lang' = "cpp" \/ accepting' => NoStops(queue')
      BY <1>3, <1>4 DEF PoolInv, QueueInv
    <2> QED
      BY <1>3, <2>1 DEF QueueInv, NoStops, StopsLast
  <1>8. ExitInv'
    <2>1. ASSUME NEW v \in Workers, worker'[v] = "exited"
          PROVE  ~accepting' /\ OnlyStops(queue')
      <3>1. CASE v = w
        <4>1. h = Stop
          <5>1. h \in Tasks => h # "exited"
            BY StatesAreNoTasks
          <5> QED
            BY <1>1, <1>2, <1>3, <2>1, <3>1, <5>1
        <4> QED
          BY <1>3, <1>4, <4>1 DEF PoolInv, PoolTypeOK, QueueInv
      <3>2. CASE v # w
        <4>1. worker[v] = "exited"
          BY <1>1, <1>2, <2>1, <3>2
        <4> QED
          BY <1>3, <1>4, <4>1 DEF PoolInv, ExitInv
      <3> QED
        BY <3>1, <3>2
    <2>2. closing # "returned"
      BY <1>1 DEF PoolInv, ExitInv
    <2>3. closing' # "no" <=> ~accepting'
      BY <1>4 DEF PoolInv, ExitInv
    <2> QED
      BY <1>4, <2>1, <2>2, <2>3 DEF ExitInv, OnlyStops
  <1>9. KeptInv'
    <2> SUFFICES ASSUME NEW t \in accepted PROVE Kept(t)'
      BY <1>4 DEF KeptInv
    <2>1. t \in Tasks /\ Kept(t)
      BY DEF PoolInv, PoolTypeOK, KeptInv
    <2>2. t # "ready" /\ t # Stop
      BY <2>1, StatesAreNoTasks
    <2>3. CASE t \in settled
      BY <1>1, <2>3 DEF Kept
    <2>4. CASE InQueue(t, queue')
      BY <2>4 DEF Kept, InQueue
    <2>5. CASE t = h /\ t \notin settled
      <3>1. worker'[w] = t
        BY <1>1, <1>2, <2>2, <2>5
      <3> QED
        BY <3>1 DEF Kept
    <2>6. ASSUME NEW v \in Workers, worker[v] = t PROVE Kept(t)'
      <3>1. worker'[v] = t
        BY <1>1, <1>2, <2>2, <2>6
      <3> QED
        BY <3>1 DEF Kept
    <2> QED
      BY <1>3, <2>1, <2>3, <2>4, <2>5, <2>6 DEF Kept
  <1> QED
    BY <1>6, <1>7, <1>8, <1>9 DEF PoolInv

\* A task that ended is settled.
LEMMA FinishInv ==
  ASSUME PoolInv, NEW w \in Workers, Finish(w)
  PROVE  PoolInv'
  <1> USE DEF Finish, WorkerUnchanged
  <1>1. /\ worker \in [Workers -> Tasks \cup {"ready", "waiting", "exited"}]
        /\ worker' = [worker EXCEPT ![w] = "ready"]
        /\ settled' = settled \cup {worker[w]}
        /\ worker[w] # "exited"
    BY StatesAreNoTasks DEF PoolInv, PoolTypeOK, Running
  <1>2. PoolTypeOK' /\ QueueInv'
    BY <1>1 DEF PoolInv, PoolTypeOK, QueueInv, NoStops, StopsLast
  <1>3. ExitInv'
    BY <1>1 DEF PoolInv, ExitInv, OnlyStops
  <1>4. KeptInv'
    BY <1>1 DEF PoolInv, KeptInv, Kept, InQueue
  <1> QED
    BY <1>2, <1>3, <1>4 DEF PoolInv

\* shutdown closes the pool and, in Python, queues the sentinels.
LEMMA ShutdownInv ==
  ASSUME PoolInv, NEW wait \in BOOLEAN, Shutdown(wait)
  PROVE  PoolInv'
  <1>1. /\ accepting' = FALSE
        /\ UNCHANGED <<lang, worker, accepted, settled>>
        /\ closing' # "no" /\ closing' # "returned"
    BY DEF Shutdown
  <1>2. accepting /\ queue \in Seq(Tasks \cup {Stop}) /\ NoStops(queue)
    BY DEF Shutdown, PoolInv, PoolTypeOK, QueueInv, ExitInv
  <1>3. /\ queue' \in Seq(Tasks \cup {Stop})
        /\ \A t : InQueue(t, queue) => InQueue(t, queue')
        /\ StopsLast(queue')
        /\ lang = "cpp" => NoStops(queue')
    <2>1. CASE lang = "cpp"
      <3>1. queue' = queue
        BY <2>1 DEF Shutdown
      <3> QED
        BY <1>2, <3>1 DEF PoolInv, QueueInv
    <2>2. CASE lang = "python"
      <3>1. queue' = queue \o [w \in 1 .. Cardinality(Workers) |-> Stop]
        BY <2>2 DEF Shutdown
      <3>2. Cardinality(Workers) \in Nat
        BY PoolAssumption, FS_CardinalityType
      <3> QED
        BY <1>2, <2>2, <3>1, <3>2, PutStops
    <2> QED
      BY <2>1, <2>2 DEF PoolInv, PoolTypeOK
  <1>4. PoolTypeOK'
    BY <1>1, <1>3 DEF PoolInv, PoolTypeOK
  <1>5. QueueInv'
    BY <1>1, <1>3 DEF QueueInv, NoStops, StopsLast
  <1>6. ExitInv'
    <2>1. \A w \in Workers : worker'[w] # "exited"
      BY <1>1, <1>2 DEF PoolInv, ExitInv
    <2> QED
      BY <1>1, <2>1 DEF ExitInv
  <1>7. KeptInv'
    BY <1>1, <1>3 DEF PoolInv, KeptInv, Kept, InQueue
  <1> QED
    BY <1>4, <1>5, <1>6, <1>7 DEF PoolInv

\* Initially nothing was submitted.
LEMMA PoolInitInv ==
  ASSUME PoolInit
  PROVE  PoolInv
  <1>1. PoolTypeOK
    BY PoolAssumption DEF PoolInit, PoolTypeOK
  <1>2. KeptInv /\ QueueInv
    BY DEF PoolInit, KeptInv, QueueInv, NoStops, StopsLast
  <1>3. ExitInv
    BY DEF PoolInit, ExitInv
  <1> QED
    BY <1>1, <1>2, <1>3 DEF PoolInv

\* Every step of the pool keeps the invariant.
LEMMA PoolStepInv ==
  ASSUME PoolInv, [PoolNext]_poolVars
  PROVE  PoolInv'
  <1> DEFINE W == Tasks \cup {"ready", "waiting", "exited"}
  <1>1. worker \in [Workers -> W]
    BY DEF PoolInv, PoolTypeOK
  <1>2. ASSUME NEW t \in Submitted, Submit(t) PROVE PoolInv'
    BY <1>2, SubmitInv DEF Submit, Tasks
  <1>3. ASSUME NEW thread \in Threads, NotifyOne(thread) PROVE PoolInv'
    <2>1. worker' \in [Workers -> W]
      BY <1>1, <1>3 DEF NotifyOne, Waiting
    <2>2. \A w \in Workers : \/ worker'[w] = worker[w]
                             \/ worker[w] = "waiting" /\ worker'[w] = "ready"
      BY <1>1, <1>3 DEF NotifyOne, Waiting
    <2> QED
      BY <1>3, <2>1, <2>2, IdleInv, TaskAssumption
         DEF NotifyOne, PoolInv, ExitInv
  <1>4. ASSUME NEW t \in Tasks, Cancel(t) PROVE PoolInv'
    BY <1>4, CancelInv
  <1>5. ASSUME NEW w \in Workers, WorkerStep(w) PROVE PoolInv'
    <2>1. CASE Wait(w)
      <3>1. worker' \in [Workers -> W]
        BY <1>1, <2>1 DEF Wait
      <3>2. \A v \in Workers : \/ worker'[v] = worker[v]
                               \/ worker[v] = "ready" /\ worker'[v] = "waiting"
        BY <1>1, <2>1 DEF Wait
      <3>3. closing' = "no" /\ closing = "no"
        BY <2>1 DEF Wait, WorkerUnchanged, PoolInv, ExitInv
      <3> QED
        BY <2>1, <3>1, <3>2, <3>3, IdleInv, TaskAssumption
           DEF Wait, WorkerUnchanged
    <2>2. CASE Leave(w)
      BY <2>2, LeaveInv
    <2>3. CASE Take(w)
      BY <2>3, TakeInv
    <2>4. CASE Finish(w)
      BY <2>4, FinishInv
    <2>5. CASE SubmitNested(w)
      BY <2>5, SubmitInv DEF SubmitNested, Tasks
    <2> QED
      BY <1>5, <2>1, <2>2, <2>3, <2>4, <2>5 DEF WorkerStep
  <1>6. ASSUME NEW w \in Workers, SpuriousWakeup(w) PROVE PoolInv'
    <2>1. worker' \in [Workers -> W]
      BY <1>1, <1>6 DEF SpuriousWakeup
    <2>2. \A v \in Workers : \/ worker'[v] = worker[v]
                             \/ worker[v] = "waiting" /\ worker'[v] = "ready"
      BY <1>1, <1>6 DEF SpuriousWakeup
    <2> QED
      BY <1>6, <2>1, <2>2, IdleInv, TaskAssumption
         DEF SpuriousWakeup, WorkerUnchanged, PoolInv, ExitInv
  <1>7. ASSUME NEW wait \in BOOLEAN, Shutdown(wait) PROVE PoolInv'
    BY <1>7, ShutdownInv
  <1>8. CASE NotifyAll
    <2>1. worker' \in [Workers -> W]
      BY <1>1, <1>8 DEF NotifyAll
    <2>2. \A v \in Workers : \/ worker'[v] = worker[v]
                             \/ worker[v] = "waiting" /\ worker'[v] = "ready"
      BY <1>1, <1>8 DEF NotifyAll, woken, Waiting
    <2> QED
      BY <1>8, <2>1, <2>2, IdleInv, TaskAssumption DEF NotifyAll
  <1>9. CASE Join
    BY <1>1, <1>9, IdleInv DEF Join
  <1>10. CASE UNCHANGED poolVars
    BY <1>1, <1>10, IdleInv DEF poolVars, PoolInv, ExitInv
  <1> QED
    BY <1>2, <1>3, <1>4, <1>5, <1>6, <1>7, <1>8, <1>9, <1>10
       DEF PoolNext, Ended

-----------------------------------------------------------------------------

\* The inductive invariant of the pool.
THEOREM PoolInvariant == PoolSpec => []PoolInv
  <1>1. PoolInit => PoolInv
    BY PoolInitInv
  <1>2. PoolInv /\ [PoolNext]_poolVars => PoolInv'
    BY PoolStepInv
  <1> QED
    BY <1>1, <1>2, PTL DEF PoolSpec

\* shutdown drains: once it has joined the workers, every task that submit
\* accepted is settled, whatever the interleaving of submits, cancels,
\* wakeups and workers.
THEOREM ShutdownDrains == PoolSpec => []AcceptedTasksRun
  <1>1. ASSUME PoolInv PROVE AcceptedTasksRun
    <2> SUFFICES ASSUME closing = "returned", NEW t \in accepted
                 PROVE  t \in settled
      BY DEF AcceptedTasksRun
    <2>1. t \in Tasks /\ Kept(t)
      BY <1>1 DEF PoolInv, PoolTypeOK, KeptInv
    <2>2. t # Stop /\ t # "exited"
      BY <2>1, StatesAreNoTasks
    <2>3. \A w \in Workers : worker[w] = "exited"
      BY <1>1 DEF PoolInv, ExitInv
    <2>4. OnlyStops(queue)
      BY <1>1, <2>3, PoolAssumption DEF PoolInv, ExitInv
    <2> QED
      BY <2>1, <2>2, <2>3, <2>4 DEF Kept, InQueue, OnlyStops
  <1> QED
    BY <1>1, PoolInvariant, PTL
=============================================================================
