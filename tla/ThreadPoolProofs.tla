-------------------------- MODULE ThreadPoolProofs --------------------------
(***************************************************************************)
(* No task is lost or run twice, and the pool is destroyed in order, for   *)
(* every number of workers and of tasks, whichever of them call shutdown() *)
(* of their pool.                                                          *)
(***************************************************************************)
EXTENDS ThreadPool, TLAPS

Running == {"run", "shutdown", "called"}

TypeOK == /\ queue \in Seq(Tasks)
          /\ caller \in 0..Nobody /\ step \in 0..Nobody
          /\ joinable \in SUBSET Workers /\ returned \in BOOLEAN
          /\ pool \in {"alive", "gone", "terminated"}
          /\ pc \in [Workers -> {"test", "pop", "stopped"} \cup Running]
          /\ task \in [Workers -> 0..MaxTasks]
          /\ future \in [Tasks -> {"none", "pending", "ready", "refused", "broken"}]

\* Worker w is busy with task i.
Runs(w, i) == task[w] = i

\* A task is in the queue once or with one worker; only then is it pending.
Placed == /\ IsInjective(queue)
          /\ \A w \in Workers : task[w] # NoTask <=> pc[w] \in Running
          /\ \A i \in Tasks :
               /\ Contains(queue, i) => /\ future[i] = "pending"
                                        /\ \A w \in Workers : ~Runs(w, i)
               /\ \A w \in Workers : Runs(w, i) => future[i] = "pending"
               /\ \A v, w \in Workers : Runs(v, i) /\ Runs(w, i) => v = w
               /\ future[i] = "pending" =>
                    Contains(queue, i) \/ \E w \in Workers : Runs(w, i)

\* Who is inside shutdown(), and only while the pool is there.
OneCaller == /\ caller = Nobody <=> step = Nobody
             /\ \A w \in Workers : pc[w] = "shutdown" <=> caller = w
             /\ pool # "alive" => caller = Nobody

\* Workers are joined in order, from the first one on; a later call stops at the first.
JoinedInOrder ==
  \E k \in 1..Nobody :
    /\ joinable = k..num_threads
    /\ step \in Workers => step = k \/ step = 1

\* What has been joined has stopped, and shutdown() has returned once all are joined.
Stopped == /\ \A w \in Workers \ joinable : pc[w] = "stopped"
           /\ returned <=> joinable = {}
           /\ pool = "terminated" => joinable # {}
           /\ pool = "gone" => joinable = {} /\ queue = <<>>

IInv == TypeOK /\ Placed /\ OneCaller /\ JoinedInOrder /\ Stopped
-----------------------------------------------------------------------------
\* A sequence without repetitions to which a new element is added.
LEMMA ContainsAppend ==
  ASSUME NEW S, NEW s \in Seq(S), NEW x \in S, IsInjective(s), ~Contains(s, x)
  PROVE  /\ Append(s, x) \in Seq(S) /\ IsInjective(Append(s, x))
         /\ \A y : Contains(Append(s, x), y) <=> Contains(s, y) \/ y = x
<1>1. /\ Append(s, x) \in Seq(S) /\ Len(Append(s, x)) = Len(s) + 1
      /\ \A k \in 1..Len(s) : Append(s, x)[k] = s[k]
      /\ Append(s, x)[Len(s) + 1] = x
  OBVIOUS
<1>2. DOMAIN s = 1..Len(s) /\ DOMAIN Append(s, x) = 1..(Len(s) + 1) /\ Len(s) \in Nat
  BY <1>1
<1>3. IsInjective(Append(s, x))
  BY <1>1, <1>2 DEF IsInjective, Contains
<1>4. ASSUME NEW y PROVE Contains(Append(s, x), y) <=> Contains(s, y) \/ y = x
  BY <1>1, <1>2 DEF Contains
<1> QED BY <1>1, <1>3, <1>4

\* A sequence without repetitions that loses its first element.
LEMMA ContainsTail ==
  ASSUME NEW S, NEW s \in Seq(S), IsInjective(s), s # <<>>
  PROVE  /\ Tail(s) \in Seq(S) /\ IsInjective(Tail(s)) /\ Head(s) \in S
         /\ Contains(s, Head(s))
         /\ \A y : Contains(Tail(s), y) <=> Contains(s, y) /\ y # Head(s)
<1>1. /\ Tail(s) \in Seq(S) /\ Len(s) \in Nat /\ Len(s) # 0 /\ Len(Tail(s)) = Len(s) - 1
      /\ \A k \in 1..(Len(s) - 1) : Tail(s)[k] = s[k + 1]
      /\ Head(s) = s[1]
  OBVIOUS
<1>2. DOMAIN s = 1..Len(s) /\ DOMAIN Tail(s) = 1..(Len(s) - 1) /\ s[1] \in S
  BY <1>1
<1>3. IsInjective(Tail(s))
  BY <1>1, <1>2 DEF IsInjective
<1>4. Contains(s, Head(s))
  BY <1>1 DEF Contains
<1>5. ASSUME NEW y PROVE Contains(Tail(s), y) <=> Contains(s, y) /\ y # Head(s)
  <2>1. ASSUME Contains(Tail(s), y) PROVE Contains(s, y) /\ y # Head(s)
    BY <1>1, <1>2, <2>1 DEF IsInjective, Contains
  <2>2. ASSUME Contains(s, y), y # Head(s) PROVE Contains(Tail(s), y)
    <3>1. PICK k \in 1..Len(s) : s[k] = y
      BY <2>2 DEF Contains
    <3>2. k - 1 \in 1..(Len(s) - 1) /\ Tail(s)[k - 1] = y
      BY <1>1, <2>2, <3>1
    <3> QED BY <1>1, <3>2 DEF Contains
  <2> QED BY <2>1, <2>2
<1> QED BY <1>1, <1>2, <1>3, <1>4, <1>5

\* The empty sequence contains nothing.
LEMMA ContainsEmpty == IsInjective(<<>>) /\ \A y : ~Contains(<<>>, y)
BY DEF IsInjective, Contains
-----------------------------------------------------------------------------
\* The invariant holds at the start: nothing is queued, and nobody is joined.
LEMMA InitInv == Init => IInv
<1> SUFFICES ASSUME Init PROVE IInv
  OBVIOUS
<1> USE PoolAssumption DEF Init, Workers, Tasks, NoTask, Nobody
<1>1. TypeOK
  <2>1. queue \in Seq(Tasks)
    OBVIOUS
  <2>2. caller \in 0..Nobody /\ step \in 0..Nobody
    OBVIOUS
  <2>3. /\ joinable \in SUBSET Workers /\ returned \in BOOLEAN
        /\ pool \in {"alive", "gone", "terminated"}
    OBVIOUS
  <2>4. /\ pc \in [Workers -> {"test", "pop", "stopped"} \cup Running]
        /\ task \in [Workers -> 0..MaxTasks]
        /\ future \in [Tasks -> {"none", "pending", "ready", "refused", "broken"}]
    BY DEF Running
  <2> QED BY <2>1, <2>2, <2>3, <2>4 DEF TypeOK
<1>2. Placed
  BY ContainsEmpty DEF Placed, Running, Runs
<1>3. OneCaller
  BY DEF OneCaller
<1>4. JoinedInOrder
  BY DEF JoinedInOrder
<1>5. Stopped
  BY DEF Stopped
<1> QED BY <1>1, <1>2, <1>3, <1>4, <1>5 DEF IInv

\* submit() puts a task into the queue that was nowhere, or refuses it.
LEMMA SubmitInv == ASSUME IInv, NEW i \in Tasks, Submit(i) PROVE IInv'
<1> USE PoolAssumption
<1>1. /\ i \in Tasks /\ ~Contains(queue, i) /\ \A w \in Workers : ~Runs(w, i)
      /\ queue \in Seq(Tasks) /\ IsInjective(queue)
  BY DEF IInv, TypeOK, Placed, Submit
<1>2. /\ Append(queue, i) \in Seq(Tasks) /\ IsInjective(Append(queue, i))
      /\ \A y : Contains(Append(queue, i), y) <=> Contains(queue, y) \/ y = i
  BY <1>1, ContainsAppend
<1>3. /\ pool = "alive" /\ UNCHANGED <<caller, step, joinable, returned, pool, pc, task>>
      /\ \/ future' = [future EXCEPT ![i] = "refused"] /\ queue' = queue
         \/ future' = [future EXCEPT ![i] = "pending"] /\ queue' = Append(queue, i)
  BY DEF Submit, call
<1>4. TypeOK'
  BY <1>2, <1>3 DEF IInv, TypeOK
<1>5. Placed'
  <2>1. CASE future' = [future EXCEPT ![i] = "refused"] /\ queue' = queue
    BY <1>1, <1>3, <2>1 DEF IInv, TypeOK, Placed, Runs
  <2>2. CASE future' = [future EXCEPT ![i] = "pending"] /\ queue' = Append(queue, i)
    BY <1>1, <1>2, <1>3, <2>2 DEF IInv, TypeOK, Placed, Runs
  <2> QED BY <1>3, <2>1, <2>2
<1>6. OneCaller' /\ JoinedInOrder' /\ Stopped'
  BY <1>3 DEF IInv, OneCaller, JoinedInOrder, Stopped
<1> QED BY <1>4, <1>5, <1>6 DEF IInv

\* A worker that is not inside shutdown() moves; what happens to its task is given.
LEMMA WorkerInv ==
  ASSUME IInv, NEW w \in Workers, pc[w] \notin {"stopped", "shutdown"},
         UNCHANGED <<caller, step, joinable, returned, pool>>,
         TypeOK', Placed', pool = "gone" => queue' = <<>>,
         \A v \in Workers \ {w} : pc'[v] = pc[v], pc'[w] # "shutdown"
  PROVE  IInv'
<1>1. OneCaller'
  BY DEF IInv, OneCaller
<1>2. JoinedInOrder'
  BY DEF IInv, JoinedInOrder
<1>3. w \in joinable
  BY DEF IInv, Stopped
<1>4. Stopped'
  BY <1>3 DEF IInv, Stopped
<1> QED BY <1>1, <1>2, <1>4 DEF IInv

\* A worker that tests the flag, or whose pop() throws, holds no task before or after.
LEMMA IdleInv ==
  ASSUME IInv, NEW w \in Workers, Test(w) \/ PopThrows(w) PROVE IInv'
<1>1. /\ pc[w] \in {"test", "pop"} /\ pc' = [pc EXCEPT ![w] = pc'[w]]
      /\ pc'[w] \in {"test", "pop", "stopped"}
      /\ UNCHANGED <<queue, caller, step, joinable, returned, pool, task, future>>
  BY DEF Test, PopThrows, call, IInv, TypeOK
<1>2. TypeOK'
  BY <1>1 DEF IInv, TypeOK
<1>3. Placed'
  BY <1>1 DEF IInv, TypeOK, Placed, Runs, Running
<1> QED BY <1>1, <1>2, <1>3, WorkerInv DEF IInv, TypeOK, Stopped

\* pop() moves the oldest task from the queue to the worker.
LEMMA PopInv == ASSUME IInv, NEW w \in Workers, Pop(w) PROVE IInv'
<1> USE PoolAssumption DEF Tasks, NoTask
<1>1. /\ queue \in Seq(Tasks) /\ IsInjective(queue) /\ queue # <<>>
      /\ pc[w] = "pop" /\ task[w] = NoTask
  BY DEF IInv, TypeOK, Placed, Pop, Running
<1>2. /\ Tail(queue) \in Seq(Tasks) /\ IsInjective(Tail(queue)) /\ Head(queue) \in Tasks
      /\ Contains(queue, Head(queue))
      /\ \A y : Contains(Tail(queue), y) <=> Contains(queue, y) /\ y # Head(queue)
  BY <1>1, ContainsTail
<1>3. /\ UNCHANGED <<caller, step, joinable, returned, pool, future>>
      /\ task' = [task EXCEPT ![w] = Head(queue)] /\ queue' = Tail(queue)
      /\ pc' = [pc EXCEPT ![w] = "run"]
  BY DEF Pop, call
<1>4. TypeOK'
  BY <1>2, <1>3 DEF IInv, TypeOK, Running
<1>5. Placed'
  <2>1. \A v \in Workers : task'[v] # NoTask <=> pc'[v] \in Running
    BY <1>2, <1>3 DEF IInv, TypeOK, Placed, Running
  <2>2. \A i \in Tasks : Contains(queue', i) <=> Contains(queue, i) /\ i # Head(queue)
    BY <1>2, <1>3
  <2>3. \A v \in Workers, i \in Tasks :
          task'[v] = i <=> IF v = w THEN i = Head(queue) ELSE task[v] = i
    BY <1>3 DEF IInv, TypeOK
  <2> QED BY <1>1, <1>2, <1>3, <2>1, <2>2, <2>3 DEF IInv, Placed, Runs
<1>6. pool # "gone"
  BY <1>1 DEF IInv, Stopped
<1> QED BY <1>1, <1>3, <1>4, <1>5, <1>6, WorkerInv DEF IInv, TypeOK

\* A task that ends leaves its worker, and its future is answered.
LEMMA RunInv == ASSUME IInv, NEW w \in Workers, Run(w) PROVE IInv'
<1> USE PoolAssumption DEF Tasks, NoTask
<1>1. pc[w] \in {"run", "called"} /\ task[w] \in Tasks
  BY DEF Run, IInv, TypeOK, Placed, Running
<1>2. /\ UNCHANGED <<queue, caller, step, joinable, returned, pool>>
      /\ future' = [future EXCEPT ![task[w]] = "ready"]
      /\ task' = [task EXCEPT ![w] = NoTask] /\ pc' = [pc EXCEPT ![w] = "test"]
  BY DEF Run, call
<1>3. TypeOK'
  BY <1>1, <1>2 DEF IInv, TypeOK
<1>4. Placed'
  <2>1. \A v \in Workers : task'[v] # NoTask <=> pc'[v] \in Running
    BY <1>2 DEF IInv, TypeOK, Placed, Running
  <2>2. \A v \in Workers, i \in Tasks : task'[v] = i <=> v # w /\ task[v] = i
    BY <1>2 DEF IInv, TypeOK
  <2>3. \A i \in Tasks : future'[i] = IF i = task[w] THEN "ready" ELSE future[i]
    BY <1>2 DEF IInv, TypeOK
  <2> QED BY <1>1, <1>2, <2>1, <2>2, <2>3 DEF IInv, Placed, Runs
<1> QED BY <1>1, <1>2, <1>3, <1>4, WorkerInv, ZenonT(60) DEF IInv, TypeOK, Stopped

\* A call of shutdown() begins; a task that makes it stays with its worker.
LEMMA CloseInv ==
  ASSUME IInv, NEW c \in Workers \cup {Owner}, CloseQueue(c) PROVE IInv'
<1> USE PoolAssumption DEF Workers, Nobody, Owner
<1>1. /\ caller = Nobody /\ pool = "alive" /\ caller' = c /\ step' = 0
      /\ UNCHANGED <<queue, joinable, pool, returned, task, future>>
      /\ \/ c = Owner /\ pc' = pc
         \/ c \in Workers /\ pc[c] = "run" /\ pc' = [pc EXCEPT ![c] = "shutdown"]
  BY DEF CloseQueue
<1>2. TypeOK'
  BY <1>1 DEF IInv, TypeOK, Running
<1>3. Placed'
  BY <1>1 DEF IInv, TypeOK, Placed, Runs, Running
<1>4. OneCaller'
  BY <1>1 DEF IInv, TypeOK, OneCaller
<1>5. JoinedInOrder'
  BY <1>1 DEF IInv, JoinedInOrder
<1>6. Stopped'
  BY <1>1 DEF IInv, TypeOK, Stopped
<1> QED BY <1>2, <1>3, <1>4, <1>5, <1>6 DEF IInv

\* The flag is cleared, and the caller goes to the first worker.
LEMMA ClearInv == ASSUME IInv, ClearAccess PROVE IInv'
<1> USE PoolAssumption DEF Workers, Nobody, ClearAccess
<1>1. TypeOK'
  BY DEF IInv, TypeOK
<1>2. Placed'
  BY DEF IInv, Placed, Runs
<1>3. OneCaller' /\ JoinedInOrder' /\ Stopped'
  BY DEF IInv, OneCaller, JoinedInOrder, Stopped
<1> QED BY <1>1, <1>2, <1>3 DEF IInv

\* The end of a call leaves every task where it is.
LEMMA EndCallInv ==
  ASSUME IInv, step # Nobody, EndCall, UNCHANGED <<queue, pool, task, future>>
  PROVE  /\ Placed' /\ OneCaller' /\ pool = "alive"
         /\ pc' \in [Workers -> {"test", "pop", "stopped"} \cup Running]
         /\ \A w \in Workers : pc[w] = "stopped" => pc'[w] = "stopped"
<1> USE PoolAssumption DEF Workers, Nobody, EndCall
<1>1. /\ caller # Nobody /\ pool = "alive" /\ caller' = Nobody /\ step' = Nobody
      /\ \A w \in Workers : pc[w] = "shutdown" <=> caller = w
  BY DEF IInv, OneCaller
<1>2. pc' \in [Workers -> {"test", "pop", "stopped"} \cup Running]
  BY DEF IInv, TypeOK, Running
<1>3. \A w \in Workers : pc'[w] = IF w = caller THEN "called" ELSE pc[w]
  OBVIOUS
<1>4. Placed'
  BY <1>1, <1>3 DEF IInv, Placed, Runs, Running
<1>5. OneCaller'
  BY <1>1, <1>3 DEF OneCaller
<1> QED BY <1>1, <1>2, <1>3, <1>4, <1>5

\* A call that throws joins nobody.
LEMMA ThrowInv == ASSUME IInv, JoinThrows PROVE IInv'
<1> USE PoolAssumption DEF Workers, Nobody, JoinThrows
<1>1. step # Nobody
  BY DEF IInv, JoinedInOrder
<1>2. /\ Placed' /\ OneCaller' /\ pool = "alive"
      /\ pc' \in [Workers -> {"test", "pop", "stopped"} \cup Running]
      /\ \A w \in Workers : pc[w] = "stopped" => pc'[w] = "stopped"
  BY <1>1, EndCallInv
<1>3. TypeOK'
  BY <1>2 DEF IInv, TypeOK, EndCall
<1>4. JoinedInOrder' /\ Stopped'
  BY <1>2 DEF IInv, JoinedInOrder, Stopped, EndCall
<1> QED BY <1>2, <1>3, <1>4 DEF IInv

\* The next worker in order is joined; after the last one the call is over.
LEMMA JoinInv == ASSUME IInv, Join PROVE IInv'
<1> USE PoolAssumption DEF Workers, Nobody
<1>1. PICK k \in 1..Nobody : /\ joinable = k..num_threads
                             /\ step \in Workers => step = k \/ step = 1
  BY DEF IInv, JoinedInOrder
<1>2. /\ step = k /\ k \in Workers /\ pc[k] = "stopped" /\ step # Nobody
      /\ joinable' = joinable \ {k}
      /\ UNCHANGED <<queue, pool, task, future>>
  BY <1>1 DEF Join
<1>3. joinable' = (k + 1)..num_threads
  BY <1>1, <1>2
<1>4. CASE k < num_threads
  <2>1. step' = k + 1 /\ UNCHANGED <<caller, returned, pc>>
    BY <1>2, <1>4 DEF Join
  <2>2. joinable # {} /\ joinable' # {}
    BY <1>1, <1>2, <1>3, <1>4
  <2>3. TypeOK' /\ Placed'
    BY <1>2, <1>3, <2>1 DEF IInv, TypeOK, Placed, Runs
  <2>4. OneCaller'
    BY <1>2, <1>4, <2>1 DEF IInv, OneCaller
  <2>5. JoinedInOrder'
    BY <1>2, <1>3, <2>1 DEF JoinedInOrder
  <2>6. Stopped'
    BY <1>2, <2>1, <2>2 DEF IInv, Stopped
  <2> QED BY <2>3, <2>4, <2>5, <2>6 DEF IInv
<1>5. CASE k = num_threads
  <2>1. EndCall /\ returned' = TRUE
    BY <1>2, <1>5 DEF Join
  <2>2. joinable' = {}
    BY <1>3, <1>5
  <2>3. /\ Placed' /\ OneCaller' /\ pool = "alive"
        /\ pc' \in [Workers -> {"test", "pop", "stopped"} \cup Running]
        /\ \A w \in Workers : pc[w] = "stopped" => pc'[w] = "stopped"
    BY <1>2, <2>1, EndCallInv
  <2>4. TypeOK'
    BY <1>2, <2>1, <2>2, <2>3 DEF IInv, TypeOK, EndCall
  <2>5. JoinedInOrder'
    BY <1>2, <1>3, <2>1 DEF JoinedInOrder, EndCall
  <2>6. Stopped'
    BY <1>1, <1>2, <2>1, <2>2, <2>3 DEF IInv, Stopped
  <2> QED BY <2>3, <2>4, <2>5, <2>6 DEF IInv
<1> QED BY <1>2, <1>4, <1>5

\* The pool that is destroyed breaks the promises of what is queued, or ends the program.
LEMMA DestroyInv == ASSUME IInv, Destroy PROVE IInv'
<1> USE PoolAssumption
<1>1. /\ UNCHANGED <<caller, step, joinable, returned, pc, task>>
      /\ caller = Nobody /\ pool = "alive"
  BY DEF Destroy, call
<1>2. OneCaller' /\ JoinedInOrder'
  BY <1>1 DEF IInv, OneCaller, JoinedInOrder
<1>3. CASE joinable # {}
  <2>1. pool' = "terminated" /\ UNCHANGED <<queue, future>>
    BY <1>3 DEF Destroy
  <2> QED BY <1>1, <1>2, <1>3, <2>1 DEF IInv, TypeOK, Placed, Runs, Stopped
<1>4. CASE joinable = {}
  <2>1. /\ pool' = "gone" /\ queue' = <<>>
        /\ future' = [i \in Tasks |-> IF Contains(queue, i) THEN "broken" ELSE future[i]]
    BY <1>4 DEF Destroy
  <2>2. TypeOK'
    BY <1>1, <2>1 DEF IInv, TypeOK
  <2>3. \A i \in Tasks, w \in Workers : ~Runs(w, i)
    BY <1>4 DEF IInv, Placed, Stopped, Runs, Running, Tasks, NoTask
  <2>4. Placed'
    BY <1>1, <2>1, <2>3, ContainsEmpty DEF IInv, Placed, Runs
  <2>5. Stopped'
    BY <1>1, <1>4, <2>1 DEF IInv, Stopped
  <2> QED BY <1>2, <2>2, <2>4, <2>5 DEF IInv
<1> QED BY <1>3, <1>4

\* Every step keeps the invariant.
LEMMA StepInv == IInv /\ [Next]_vars => IInv'
<1> SUFFICES ASSUME IInv, [Next]_vars PROVE IInv'
  OBVIOUS
<1>1. ASSUME NEW i \in Tasks, Submit(i) PROVE IInv'
  BY <1>1, SubmitInv
<1>2. ASSUME NEW w \in Workers, Work(w) PROVE IInv'
  BY <1>2, IdleInv, PopInv, RunInv DEF Work
<1>3. ASSUME NEW c \in Workers \cup {Owner}, CloseQueue(c) PROVE IInv'
  BY <1>3, CloseInv
<1>4. CASE Shutdown
  BY <1>4, ClearInv, JoinInv, ThrowInv DEF Shutdown
<1>5. CASE Destroy
  BY <1>5, DestroyInv
<1>6. CASE UNCHANGED vars
  BY <1>6 DEF IInv, TypeOK, Placed, Runs, OneCaller, JoinedInOrder, Stopped, vars, call
<1> QED BY <1>1, <1>2, <1>3, <1>4, <1>5, <1>6 DEF Next

\* The invariant places every task, and orders the destruction.
LEMMA InvGivesInv == IInv => Inv
<1> SUFFICES ASSUME IInv PROVE Inv
  OBVIOUS
<1>1. PendingIsSomewhere
  <2>1. ASSUME NEW i \in Tasks
        PROVE  LET runners == {w \in Workers : task[w] = i}
               IN  /\ \A v, w \in runners : v = w
                   /\ future[i] = "pending" <=> (Contains(queue, i) # (runners # {}))
    <3> DEFINE runners == {w \in Workers : task[w] = i}
    <3>1. \A v, w \in runners : v = w
      BY DEF IInv, Placed, Runs
    <3>2. runners # {} <=> \E w \in Workers : Runs(w, i)
      BY DEF Runs
    <3>3. Contains(queue, i) => future[i] = "pending" /\ runners = {}
      BY <3>2 DEF IInv, Placed
    <3>4. runners # {} => future[i] = "pending"
      BY <3>2 DEF IInv, Placed
    <3>5. future[i] = "pending" => Contains(queue, i) \/ runners # {}
      BY <3>2 DEF IInv, Placed
    <3>6. Contains(queue, i) \in BOOLEAN
      BY DEF Contains
    <3> HIDE DEF runners
    <3>7. future[i] = "pending" <=> (Contains(queue, i) # (runners # {}))
      BY <3>3, <3>4, <3>5, <3>6
    <3> QED BY <3>1, <3>7 DEF runners
  <2>2. /\ IsInjective(queue)
        /\ \A w \in Workers : task[w] # NoTask <=> pc[w] \in {"run", "shutdown", "called"}
    BY DEF IInv, Placed, Running
  <2> QED BY <2>1, <2>2 DEF PendingIsSomewhere
<1>2. DestroyedInOrder
  <2>1. returned => \A w \in Workers : pc[w] = "stopped"
    BY DEF IInv, Stopped
  <2>2. pool = "terminated" => ~returned
    BY DEF IInv, Stopped
  <2>3. ASSUME pool = "gone", NEW i \in Tasks PROVE returned /\ future[i] # "pending"
    <3>1. returned /\ ~Contains(queue, i) /\ \A w \in Workers : pc[w] = "stopped"
      BY <2>3, ContainsEmpty DEF IInv, Stopped
    <3>2. \A w \in Workers : ~Runs(w, i)
      BY <3>1 DEF IInv, Placed, Running, Runs, Tasks, NoTask
    <3> QED BY <3>1, <3>2 DEF IInv, Placed
  <2>4. pool = "gone" => returned
    BY DEF IInv, Stopped
  <2> QED BY <2>1, <2>2, <2>3, <2>4 DEF DestroyedInOrder
<1> QED BY <1>1, <1>2 DEF Inv

\* The inductive invariant of thread_pool, for every number of workers and tasks.
THEOREM Invariance == Spec => []IInv
BY InitInv, StepInv, PTL DEF Spec

(***************************************************************************)
(* Inv: a task that was accepted and not answered is in the queue or with  *)
(* one worker, and after shutdown() has returned the pool is destroyed     *)
(* with every worker stopped and every future answered.                    *)
(***************************************************************************)
THEOREM TasksAndShutdown == Spec => []Inv
BY Invariance, InvGivesInv, PTL
=============================================================================
