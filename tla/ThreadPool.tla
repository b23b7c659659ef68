----------------------------- MODULE ThreadPool -----------------------------
(***************************************************************************)
(* ParallelProgramming/thread_pool.h: workers that pop tasks from a queue, *)
(* submit(), shutdown() and the destruction of the pool.  shutdown() may   *)
(* be called again, and by a task; but not by two at a time, which would   *)
(* join one thread twice at once: nothing in the code prevents that, the   *)
(* callers have to.                                                        *)
(*                                                                         *)
(* thread_safe_queue.h is not in the repository.  From its use: enqueue    *)
(* adds a task, and throws when the queue has been shut down; pop takes    *)
(* the oldest task, waits while there is none, and throws when there is    *)
(* none and the queue has been shut down; each is atomic.  The queue is    *)
(* made with room for SIZE_MAX tasks, so enqueue never waits.              *)
(***************************************************************************)
EXTENDS Naturals, Sequences, SequencesExt

CONSTANTS num_threads,
          MaxTasks,    \* bound: how many tasks are submitted
          Closers      \* the tasks that may call shutdown() of their pool

ASSUME PoolAssumption == /\ num_threads \in Nat \ {0} /\ MaxTasks \in Nat
                         /\ Closers \subseteq 1..MaxTasks

Workers == 1..num_threads
Tasks == 1..MaxTasks
NoTask == 0
Owner == 0       \* the thread that owns the pool
Nobody == num_threads + 1

VARIABLES
  queue,      \* the tasks in the queue
  closed,     \* queue.shutdown() has been called
  access,     \* the atomic flag
  caller,     \* who is inside shutdown(): the owner, a worker or nobody
  step,       \* what the caller does next: 0, access.store(); i, workers[i].join()
  joinable,   \* the workers that nobody has joined
  pool,       \* "alive", "gone" when it has been destroyed, or "terminated" with the program
  returned,   \* history: a call of shutdown() has come to its end without an exception
  pc,         \* pc[w]: what worker w does next
  task,       \* task[w]: the task that w has popped
  future      \* future[i]: what the future of the i-th call of submit() shows

call == <<caller, step, joinable, returned>>
vars == <<queue, closed, access, call, pool, pc, task, future>>

Init == /\ queue = <<>> /\ closed = FALSE /\ access = TRUE
        /\ caller = Nobody /\ step = Nobody /\ joinable = Workers
        /\ pool = "alive" /\ returned = FALSE
        /\ pc = [w \in Workers |-> "test"]
        /\ task = [w \in Workers |-> NoTask]
        /\ future = [i \in Tasks |-> "none"]
-----------------------------------------------------------------------------
\* submit(): refused by an exception, or queued; calls are numbered as they get there.
Submit(i) == /\ future[i] = "none" /\ pool = "alive"
             /\ \A j \in 1..(i - 1) : future[j] # "none"
             /\ IF closed
                THEN future' = [future EXCEPT ![i] = "refused"] /\ UNCHANGED queue
                ELSE /\ future' = [future EXCEPT ![i] = "pending"]
                     /\ queue' = Append(queue, i)
             /\ UNCHANGED <<closed, access, call, pool, pc, task>>

\* while (access.load())
Test(w) == /\ pc[w] = "test"
           /\ pc' = [pc EXCEPT ![w] = IF access THEN "pop" ELSE "stopped"]
           /\ UNCHANGED <<queue, closed, access, call, pool, task, future>>

\* queue.pop(task) returns.
Pop(w) == /\ pc[w] = "pop" /\ queue # <<>>
          /\ task' = [task EXCEPT ![w] = Head(queue)]
          /\ queue' = Tail(queue)
          /\ pc' = [pc EXCEPT ![w] = "run"]
          /\ UNCHANGED <<closed, access, call, pool, future>>

\* A mutant: after an exception of pop() a worker calls it again, without the test of access.
PopThrows_Spin(w) == pc[w] = "pop" /\ queue = <<>> /\ closed /\ UNCHANGED vars

\* queue.pop(task) throws, and the exception is caught.
PopThrows(w) == /\ pc[w] = "pop" /\ queue = <<>> /\ closed
                /\ pc' = [pc EXCEPT ![w] = "test"]
                /\ UNCHANGED <<queue, closed, access, call, pool, task, future>>

\* A mutant: a worker serves one task.
Run_Once(w) == /\ pc[w] \in {"run", "called"}
               /\ future' = [future EXCEPT ![task[w]] = "ready"]
               /\ task' = [task EXCEPT ![w] = NoTask]
               /\ pc' = [pc EXCEPT ![w] = "stopped"]
               /\ UNCHANGED <<queue, closed, access, call, pool>>

\* task(): the task ends and its future is ready, with a value or an exception.
Run(w) == /\ pc[w] \in {"run", "called"}
          /\ future' = [future EXCEPT ![task[w]] = "ready"]
          /\ task' = [task EXCEPT ![w] = NoTask]
          /\ pc' = [pc EXCEPT ![w] = "test"]
          /\ UNCHANGED <<queue, closed, access, call, pool>>
-----------------------------------------------------------------------------
\* shutdown(), called by the owner or by a task: queue.shutdown()
CloseQueue(c) == /\ caller = Nobody /\ pool = "alive"
                 /\ \/ c = Owner /\ UNCHANGED pc
                    \/ /\ c \in Workers /\ pc[c] = "run" /\ task[c] \in Closers
                       /\ pc' = [pc EXCEPT ![c] = "shutdown"]
                 /\ caller' = c /\ step' = 0
                 /\ closed' = TRUE
                 /\ UNCHANGED <<queue, access, joinable, pool, returned, task, future>>

\* access.store(false)
ClearAccess == /\ step = 0
               /\ access' = FALSE
               /\ step' = 1
               /\ UNCHANGED <<queue, closed, caller, joinable, pool, returned, pc, task, future>>

\* The call is over; a task that made it goes on.
EndCall == /\ caller' = Nobody /\ step' = Nobody
           /\ pc' = [w \in Workers |-> IF w = caller THEN "called" ELSE pc[w]]

\* workers[i].join() throws: it has been joined already, or it is the caller.
JoinThrows == /\ step \in joinable \cap {caller} \/ step \in Workers \ joinable
              /\ EndCall
              /\ UNCHANGED <<queue, closed, access, joinable, pool, returned, task, future>>

\* A mutant: join() does not wait for the worker.
Join_Detach == /\ step \in joinable \ {caller}
               /\ joinable' = joinable \ {step}
               /\ IF step < num_threads
                  THEN step' = step + 1 /\ UNCHANGED <<caller, returned, pc>>
                  ELSE EndCall /\ returned' = TRUE
               /\ UNCHANGED <<queue, closed, access, pool, task, future>>

\* workers[i].join() returns when the worker has stopped; after the last one, shutdown() does.
Join == /\ step \in joinable \ {caller} /\ pc[step] = "stopped"
        /\ joinable' = joinable \ {step}
        /\ IF step < num_threads
           THEN step' = step + 1 /\ UNCHANGED <<caller, returned, pc>>
           ELSE EndCall /\ returned' = TRUE
        /\ UNCHANGED <<queue, closed, access, pool, task, future>>

(***************************************************************************)
(* The pool is destroyed.  A thread that has not been joined terminates    *)
(* the program; otherwise the promises of the tasks still queued are       *)
(* broken.                                                                 *)
(***************************************************************************)
Destroy == /\ caller = Nobody /\ pool = "alive"
           /\ IF joinable # {}
              THEN pool' = "terminated" /\ UNCHANGED <<queue, future>>
              ELSE /\ pool' = "gone"
                   /\ queue' = <<>>
                   /\ future' = [i \in Tasks |-> IF Contains(queue, i) THEN "broken"
                                                                       ELSE future[i]]
           /\ UNCHANGED <<closed, access, call, pc, task>>

Work(w) == pool # "terminated" /\ (Test(w) \/ Pop(w) \/ PopThrows(w) \/ Run(w))

Shutdown == ClearAccess \/ Join \/ JoinThrows

Next == \/ \E i \in Tasks : Submit(i)
        \/ \E w \in Workers : Work(w)
        \/ \E c \in Workers \cup {Owner} : CloseQueue(c)
        \/ Shutdown \/ Destroy

Spec == Init /\ [][Next]_vars

(***************************************************************************)
(* Workers keep being scheduled, tasks end, and so is a caller of          *)
(* shutdown(); nobody has to call shutdown().                              *)
(***************************************************************************)
FairSpec == Spec /\ WF_vars(Shutdown) /\ \A w \in Workers : WF_vars(Work(w))
-----------------------------------------------------------------------------
(***************************************************************************)
(* A task whose future is not answered yet is in one place: in the queue,  *)
(* once, or with one worker, who holds it exactly while running it.  None  *)
(* is run twice and none is forgotten, not even when the pool is destroyed *)
(* with tasks in its queue.                                                *)
(***************************************************************************)
PendingIsSomewhere ==
  /\ IsInjective(queue)
  /\ \A w \in Workers : task[w] # NoTask <=> pc[w] \in {"run", "shutdown", "called"}
  /\ \A i \in Tasks :
       LET runners == {w \in Workers : task[w] = i}
       IN  /\ \A v, w \in runners : v = w
           /\ future[i] = "pending" <=> (Contains(queue, i) # (runners # {}))

(***************************************************************************)
(* Once a call of shutdown() has returned, no worker runs, and the pool    *)
(* can be destroyed: later calls, which throw, do not change that.  Where  *)
(* no call has returned, its destruction terminates the program, whatever  *)
(* calls have thrown.  A pool that is gone leaves no future without an     *)
(* answer.                                                                 *)
(***************************************************************************)
DestroyedInOrder ==
  /\ returned => \A w \in Workers : pc[w] = "stopped"
  /\ pool = "terminated" => ~returned
  /\ pool = "gone" => returned /\ \A i \in Tasks : future[i] # "pending"

\* A task that was accepted is answered, unless somebody calls shutdown() or ends the program.
AcceptedIsRun ==
  \A i \in Tasks : future[i] = "pending" ~> future[i] = "ready" \/ closed \/ pool = "terminated"

(***************************************************************************)
(* Every call of shutdown() ends, by an exception if need be: no worker    *)
(* stays in pop() or in its loop for ever, and no caller waits for itself. *)
(***************************************************************************)
ShutdownEnds == \A c \in Workers \cup {Owner} : caller = c ~> caller # c

\* Checked together: where the tasks are, and what the destruction finds.
Inv == PendingIsSomewhere /\ DestroyedInOrder
=============================================================================
