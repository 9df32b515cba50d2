------------------------------ MODULE ThreadPool ------------------------------
(***************************************************************************)
(* ThreadPool (src/util/threadpool.h): workers that take tasks from a      *)
(* queue under a mutex and wait on a condition variable, a thread that     *)
(* owns the pool, enqueues and finally destroys it.                        *)
(*                                                                         *)
(* A condition variable is the set of threads asleep on it.  wait(lock)    *)
(* releases the mutex and falls asleep in one step, but the test of the    *)
(* predicate comes before it: a step of its own, with the mutex held.      *)
(***************************************************************************)
EXTENDS Naturals, Sequences

CONSTANTS
  Workers,     \* m_workers
  Tasks,       \* the tasks the owner enqueues, in any order
  nobody       \* the mutex is free

ASSUME PoolAssumption == nobody \notin Workers

VARIABLES
  m_tasks,    \* the queue
  m_stop,
  m_mutex,    \* the thread that holds it, or nobody
  m_condition,\* the workers asleep on it
  at,         \* where each worker is
  task,       \* the tasks a worker has taken and not finished: at most one
  owner,      \* where the owner is
  enqueued,   \* tasks the owner has put into the queue
  done        \* how often each task was run

poolVars == <<m_tasks, m_stop, m_mutex, m_condition, at, task, owner, enqueued, done>>

PoolInit ==
  /\ m_tasks = <<>>
  /\ m_stop = FALSE
  /\ m_mutex = nobody
  /\ m_condition = {}
  /\ at = [w \in Workers |-> "lock"]
  /\ task = [w \in Workers |-> {}]
  /\ owner = "idle"
  /\ enqueued = {}
  /\ done = [t \in Tasks |-> 0]

-----------------------------------------------------------------------------
(* A worker. *)

\* Mutant of MustWait: the predicate asks for m_stop only.
MustWait_stop == ~m_stop
\* The predicate of wait() is false.
MustWait == ~m_stop /\ m_tasks = <<>>

\* std::unique_lock, at the top of the loop or when wait() is left.
Lock(w) ==
  /\ at[w] = "lock"
  /\ m_mutex = nobody
  /\ m_mutex' = w
  /\ at' = [at EXCEPT ![w] = "test"]
  /\ UNCHANGED <<m_tasks, m_stop, m_condition, task, owner, enqueued, done>>

\* The predicate is false: the worker is about to wait, still with the mutex.
TestFails(w) ==
  /\ at[w] = "test"
  /\ MustWait
  /\ at' = [at EXCEPT ![w] = "wait"]
  /\ UNCHANGED <<m_tasks, m_stop, m_mutex, m_condition, task, owner, enqueued, done>>

\* wait(): the mutex is released and the worker sleeps, in one step.
Wait(w) ==
  /\ at[w] = "wait"
  /\ m_mutex' = nobody
  /\ m_condition' = m_condition \cup {w}
  /\ at' = [at EXCEPT ![w] = "asleep"]
  /\ UNCHANGED <<m_tasks, m_stop, task, owner, enqueued, done>>

\* wait() may return without a notification.
WakeSpuriously(w) ==
  /\ w \in m_condition
  /\ m_condition' = m_condition \ {w}
  /\ at' = [at EXCEPT ![w] = "lock"]
  /\ UNCHANGED <<m_tasks, m_stop, m_mutex, task, owner, enqueued, done>>

\* Mutant: the worker ends although tasks are left.
Exits_early == m_stop
\* The pool is stopped and the queue is empty.
Exits == m_stop /\ m_tasks = <<>>

Return(w) ==
  /\ at[w] = "test"
  /\ ~MustWait
  /\ Exits
  /\ m_mutex' = nobody
  /\ at' = [at EXCEPT ![w] = "returned"]
  /\ UNCHANGED <<m_tasks, m_stop, m_condition, task, owner, enqueued, done>>

\* Mutant of Popped: the task is read but stays in the queue.
Popped_none == m_tasks
Popped == Tail(m_tasks)

\* front(), pop(), end of the scope of the lock.
Take(w) ==
  /\ at[w] = "test"
  /\ ~MustWait
  /\ ~Exits
  /\ task' = [task EXCEPT ![w] = {Head(m_tasks)}]
  /\ m_tasks' = Popped
  /\ m_mutex' = nobody
  /\ at' = [at EXCEPT ![w] = "run"]
  /\ UNCHANGED <<m_stop, m_condition, owner, enqueued, done>>

\* task()
Run(w) ==
  /\ at[w] = "run"
  /\ done' = [t \in Tasks |-> IF t \in task[w] THEN done[t] + 1 ELSE done[t]]
  /\ task' = [task EXCEPT ![w] = {}]
  /\ at' = [at EXCEPT ![w] = "lock"]
  /\ UNCHANGED <<m_tasks, m_stop, m_mutex, m_condition, owner, enqueued>>

Worker(w) == Lock(w) \/ TestFails(w) \/ Wait(w) \/ Return(w) \/ Take(w) \/ Run(w)

-----------------------------------------------------------------------------
(* The owner. *)

\* enqueue(): under the lock; the pool is not stopped while its owner uses it.
Enqueue(t) ==
  /\ owner = "idle"
  /\ m_mutex = nobody
  /\ t \in Tasks \ enqueued
  /\ ~m_stop
  /\ m_tasks' = Append(m_tasks, t)
  /\ enqueued' = enqueued \cup {t}
  /\ owner' = "notify"
  /\ UNCHANGED <<m_stop, m_mutex, m_condition, at, task, done>>

\* notify_one(): one of the sleepers, if there is any.
Woken == IF m_condition = {} THEN {{}} ELSE {{w} : w \in m_condition}

Notify ==
  /\ owner = "notify"
  /\ \E W \in Woken :
       /\ m_condition' = m_condition \ W
       /\ at' = [w \in Workers |-> IF w \in W THEN "lock" ELSE at[w]]
  /\ owner' = "idle"
  /\ UNCHANGED <<m_tasks, m_stop, m_mutex, task, enqueued, done>>

\* ~ThreadPool(): m_stop is set without the mutex.
Stop ==
  /\ owner = "idle"
  /\ m_stop' = TRUE
  /\ owner' = "stopped"
  /\ UNCHANGED <<m_tasks, m_mutex, m_condition, at, task, enqueued, done>>

\* notify_all(), also without it.
NotifyAll ==
  /\ owner = "stopped"
  /\ m_condition' = {}
  /\ at' = [w \in Workers |-> IF w \in m_condition THEN "lock" ELSE at[w]]
  /\ owner' = "joining"
  /\ UNCHANGED <<m_tasks, m_stop, m_mutex, task, enqueued, done>>

\* Every worker is joined.
Join ==
  /\ owner = "joining"
  /\ \A w \in Workers : at[w] = "returned"
  /\ owner' = "joined"
  /\ UNCHANGED <<m_tasks, m_stop, m_mutex, m_condition, at, task, enqueued, done>>

Owner == (\E t \in Tasks : Enqueue(t)) \/ Notify \/ Stop \/ NotifyAll \/ Join

PoolNext == Owner \/ \E w \in Workers : Worker(w) \/ WakeSpuriously(w)

PoolSpec == PoolInit /\ [][PoolNext]_poolVars

\* The scheduler runs every thread; nobody enqueues for ever, nobody has to stop
\* the pool, and wait() need not return spuriously.
FairSpec ==
  /\ PoolSpec
  /\ \A w \in Workers : WF_poolVars(Worker(w))
  /\ WF_poolVars(Notify \/ NotifyAll \/ Join)

-----------------------------------------------------------------------------
(* Types; exactly the workers between test and wait or take hold the mutex.  *)
PoolTypeOK ==
  /\ m_tasks \in Seq(Tasks)
  /\ m_stop \in BOOLEAN
  /\ m_mutex \in Workers \cup {nobody}
  /\ m_condition \subseteq Workers
  /\ at \in [Workers -> {"lock", "test", "wait", "asleep", "run", "returned"}]
  /\ task \in [Workers -> SUBSET Tasks]
  /\ owner \in {"idle", "notify", "stopped", "joining", "joined"}
  /\ enqueued \subseteq Tasks
  /\ done \in [Tasks -> Nat]
  /\ \A w \in Workers : (m_mutex = w) <=> at[w] \in {"test", "wait"}
  /\ \A w \in Workers : (w \in m_condition) <=> at[w] = "asleep"

(* A task is in the queue once, with one worker, or was run once; nothing is *)
(* lost between queue and worker and nothing is run twice.                   *)
Queued(t) == {i \in 1..Len(m_tasks) : m_tasks[i] = t}
Taken(t) == {w \in Workers : t \in task[w]}
InOnePlace(t) ==
  /\ Queued(t) # {} \/ Taken(t) # {} \/ done[t] = 1
  /\ Queued(t) # {} => Taken(t) = {} /\ done[t] = 0
  /\ Taken(t) # {} => done[t] = 0
  /\ done[t] <= 1
  /\ \A i, j \in Queued(t) : i = j
  /\ \A w, v \in Taken(t) : w = v
TaskOnce ==
  \A t \in Tasks :
    IF t \in enqueued THEN InOnePlace(t)
                      ELSE Queued(t) = {} /\ Taken(t) = {} /\ done[t] = 0

(* The destructor comes back only when every task that was enqueued has run. *)
JoinedMeansDone == owner = "joined" => \A t \in enqueued : done[t] = 1

(* The inductive invariant: a worker that has returned has seen the pool     *)
(* stopped and the queue empty, and nothing comes into the queue after that. *)
PoolInv ==
  /\ PoolTypeOK
  /\ TaskOnce
  /\ m_stop <=> owner \in {"stopped", "joining", "joined"}
  /\ \A w \in Workers : task[w] # {} => at[w] = "run"
  /\ \A w \in Workers : at[w] = "returned" => m_stop /\ m_tasks = <<>>
  /\ owner = "joined" => \A w \in Workers : at[w] = "returned"

(* A task that was enqueued is run: notify_one is given after the lock was   *)
(* released, and still no worker sleeps for ever while a task waits.         *)
TasksRun == \A t \in Tasks : t \in enqueued ~> done[t] = 1

(* The destructor joins all threads (threadpool.h, comment at ~ThreadPool).  *)
DestructorJoins == (owner = "stopped") ~> (owner = "joined")
=============================================================================
