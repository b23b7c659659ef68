# Formal models of MIPTprojects

The repository is a collection of course projects. Its concurrent data
structures, under `ParallelProgramming/`, are the code whose correctness is
hardest to see by reading and hardest to test, and they come first here. Of the
other programs, the search tree (`algo/`) and the two programs that fork
(`ACOS/`) are modelled; what is not, and why, is under *Not modelled*.

The repository has no tests and no documents. What the code is meant to do is
taken from the code and from its comments.

## Inventory

| component | state it keeps | operations | what makes it hard | status |
|---|---|---|---|---|
| `peterson_mutex` | two flags `want`, `victim`; sequentially consistent atomics | `lock(t)`, `unlock(t)` | a loop over two separate loads; starvation | modelled, proved |
| `tree_mutex` | a heap of `peterson_mutex` in a vector | `lock(i)`, `unlock(i)` | index arithmetic; each node needs one thread per side; order of release | modelled, proved |
| `barrier` | `counter`, `gate_counter`, one mutex, one condition variable | `enter()` | two predicates on one condition variable, `notify_one`, re-entry | modelled, proved, one finding |
| `spsc_ring_buffer` | a ring of slots, atomic `head` and `tail` | `enqueue`, `dequeue` | acquire/release ordering, stale indices modulo the capacity | modelled, proved |
| `striped_hash_set` | buckets, one reader-writer lock per stripe, an atomic counter | `add`, `remove`, `contains`, `rehash` | locks of a stripe protect buckets whose number changes; check, unlock, lock again; exceptions half-way | modelled, proved |
| `lock_free_queue` | a linked list, atomic `Head`, `Tail`, `threads_in_pop`, `to_be_deleted` | `enqueue`, `dequeue`, `try_reclaim`, `delete_nodes`, destructor | helping, weak exchanges, when memory may be given back | modelled, proved, one finding |
| `thread_pool` | workers, a queue of tasks, the flag `access`, futures | `submit`, `shutdown`, the workers' loop, destruction | shutdown against submissions, running tasks and idle workers; a second one, one from a task | modelled, proved |
| AVL tree (`algo/`) | a tree with heights and sizes in its nodes | `Insert`, `Delete`, `Find`, `DeleteByNum`, `KStatics`, `GetPos` | long sequences of calls; heights and sizes that go stale | modelled |
| `find` (`ACOS/find.c`) | the calls of `openDir`, descriptors; a child process per match | the glob matcher, the walk, `checkExec` | lengths passed down a recursion; a signal against `wait`; pipes nobody closes | modelled, proved |
| HTTP server (`ACOS/server.c`) | an array of clients, a child per client | accept loop, request, answer | one client at a time, descriptors, failed `fork` | modelled, proved, but for line 50, an unfinished call with which the file does not compile |
| SQL loader (`БД/6_CREATE/create/main.c`) | a growing buffer | read a file, grow, execute | the size of the allocation against the counted size | not modelled |
| SQL scripts, notebooks, `sqlite3.h`, binaries | – | – | data, numerical coursework, third-party and generated code | not modelled |

How the components interact: `tree_mutex` is made of `peterson_mutex` objects,
and its model runs their steps at every node. The two queues do not call one
another but promise the same thing, a first-in first-out queue, and share its
abstract specification; so do the two locks. `thread_pool` needs a
`thread_safe_queue` that is not in the repository. Everything else is called by
client code that is not in the repository either: what its callers may do is
stated for each module below.

What is correct, component by component:

* the locks: one holder, and no thread that asks is passed for ever;
* the barrier: nobody comes out of a round before all have come in, and then
  all come out (the second half is not true of the code);
* the ring: items come out once each and in order; a refused call was right to
  be refused; no slot is read and written at the same time;
* the hash set: calls are linearizable, across growth of the table too, the
  counter is the number of elements, nothing deadlocks;
* the lock-free queue: linearizable, no access to a deleted node, no leak (true
  of the code until the reclamation error of finding 2);
* the pool: an accepted task runs once, every call of `shutdown()` ends, and
  after one that has returned the pool can be destroyed;
* the search tree: heights, sizes and order are right in every node, it is
  balanced, and the queries agree with the set of its keys;
* `find`: the matcher accepts what the template means; a file is printed if it
  matches and its program, if any, could be started; the walk ends;
* the server: a client that has a child, stays and asks for what can be answered gets it
  and sees its end, and a client waits only for one that is silent.

## Modules

Variables, constants and actions have the names of the fields, parameters and
functions they stand for wherever TLA+ allows it. An action is one atomic access
or one critical step; what a thread does next is `pc`. Operators called
`X_Something` next to `X` are *mutants*: the same definition with a plausible
mistake. They are used by no specification. Putting one in the place of `X`
makes a property fail, which shows that the property depends on that line of
the code.

**`AbstractLock`** – a lock as its callers see it: `Request`, `Acquire`,
`Release`, with strong fairness of `Acquire`. Both locks refine it.

**`Peterson`** (`peterson_mutex.h`) – `StoreWant`, `StoreVictim`, `LoadWant`,
`LoadVictim` are the four accesses of `lock`, `Unlock` the one of `unlock`. The
atomics are used with the default order, so interleaving of steps is all that
can happen. `MCPeterson` adds two client threads that increment a plain
variable under the lock, by a read and a write.

**`TreeIndex`**, **`TreeMutex`** (`tree_mutex.h`) – the index functions, and
`lock`/`unlock` over them. `ClaimFirst` and `ClaimParent` start the lock of a
node, the loop of a node is as in `Peterson`, `Release` is one round of the loop
of `unlock`. A thread's way down is recomputed by `get_child`, as in the code,
and not remembered. `Inv` says which nodes a thread has claimed (`OnTheWay`,
`FlagsAreClaims`) and that it has them to itself (`HolderIsSafe`). `NodesArePeterson` says that every node behaves as
`Peterson`, by an instance of that module per node. `MCTreeMutex` adds the arithmetic for every
number of threads up to a bound: the way of `lock` up the tree, and the way of
`unlock` back (`UnlockRetracesLock`).

**`AbstractBarrier`**, **`Barrier`** (`barrier.h`) – a critical section is cut
at the tests of the two predicates. `holder` is the mutex, `waiting` the wait
set of the only condition variable; `NotifyOne` removes any one member of it;
`WakeUp` is a spurious wake-up. The constant `Eager` says whether callers may
come back while others are still inside.

**`BoundedFifo`**, **`SpscRingBuffer`** (`spsc_ring_buffer.h`) – the C++ memory
model as far as this class can tell: an atomic is the sequence of its stores, an
acquire load picks any store not older than the last one its thread has read, a
release store carries how many slot accesses its thread has made. Slots remember their
last read and write, so a data race is a state. Every memory order is
where the code has it: making the producer's load relaxed is a mutant, and
breaks `NoDataRace`.

**`LockFreeQueue`** (`lock_free_queue.h`) – one action per access to an atomic,
including the failing exchanges and what they write into their first argument.
`Delete` is one round of the loop of `delete_nodes`. Nodes are numbered and
never reused. When a node of the queue has been deleted, or one that a call will
touch (`Broken`), what the program does next is undefined, and the model stops; that
this state is reached is finding 2, and the other properties speak of the
states before it. The history variable `overshot` notes the moment when `try_reclaim`
sets out for a node past `Head`, which is where finding 2 begins: `NoUseAfterFree`
is claimed until then, since with a third thread `Head` may catch up with
that node, so that the queue is whole again, while the third thread goes on
to touch one of the nodes deleted.

**`AbstractSet`**, **`StripedHashSet`** (`striped_hash_set.h`) – locks are
taken and given back by separate steps; the change of a bucket and the change of
the counter are separate; `rehash` takes stripe 0, tests the size again, takes
the others one by one and then replaces the buckets in one step, which is sound
because it holds every lock (`GrowsOnceAlone` checks that nobody else is
inside). A value is its own hash. Lists are counts: their order is of no
consequence.

Two allocations may fail: that of a list node (`InsertThrows`), before anything has
changed, and those of `rehash` (`RehashThrows`), at any moment while it holds
locks, which its destructors give back; `AbstractSet` allows an `add` that
throws to have had its effect or none.

**`ThreadPool`** (`thread_pool.h`) – the worker's loop, `submit`, `shutdown()`
and the destruction of the pool. A call of `shutdown()` is `CloseQueue`,
`ClearAccess` and then one `join` per worker, in order: `Join` when the worker has
stopped, `JoinThrows` when it has been joined already or is the caller. The owner may
call it any number of times, and so may the tasks in `Closers`; two overlapping calls
would race for the same `std::thread` objects, which the callers have to avoid.
`Destroy` terminates the program as long as a worker has not been joined. The queue is
external: `enqueue`, `pop` and `shutdown` are atomic, `pop` waits while the queue is
empty and throws once it is empty and shut down, `enqueue` throws once it is shut
down.

**`AvlTree`** (`algo/AVL.cpp`) – memory is a sequence of nodes and a pointer is a place
in it, so that `rotateR`, `rotateL`, `balance`, `insert` and `removeNode` change the
same fields in the same order as the code. `insert` is a recursion that returns the
memory and the pointer. A key met below the root makes `insert` return 0, which the
caller stores: the subtree is gone, as in the code. `Find`, `KStatics` and `GetPos` are
operators on the state, defined where the code does not follow a null pointer: for a
tree that is not empty, ranks that exist and, in `GetPos`, keys of the tree.
`removeNode` is right in most places and not in all (`Removable`): a root without
children is used after it is freed, a root with one child stays, and a node whose left
child has no right child makes the code change a link of its parent instead of its own;
`DeleteByNum` leaves `par` uninitialized at the root, and may follow a null pointer when
sizes are stale. So may `balance`, when heights are (`MissesChild`). The model stops
after such a call (`broken`) and the properties speak of what comes before. Three
history variables say what the tree should contain and which of the claims still apply.
`MCAvlTree` makes any calls with a few keys, as long as they allocate no more than
`FewNodes` nodes, or the calls of `Script` first and then any others.

**`Glob`** (`ACOS/find.c`, lines 14-98) – `regExp` and `checkExp` as functions of
the template and the memory the name lies in; `Accepts` is the reference, over templates
as sequences of stars and sets of characters.

**`Find`** (`ACOS/find.c`, lines 100-232) – `openDir` as a stack of frames,
`checkExec` as two processes. `Pipe`, `Fork`, `Write`, `Return` are the parent's
steps, `ReadPid`, `Exec`, `Kill`, `Exit` the child's, `Deliver` is the signal handler,
which may run at any moment after `Kill` and, because the signal was sent before the child
ended, not later than the return of `wait`. `readdir` returns entries in any order. The
root can be opened; files and directories are paths, so that they form a tree
(`TreeAssumption`), symbolic links not being followed. Descriptors are counted against `limit`; a pipe that cannot be made
leaves an uninitialized array, and the model stops. `MCFind` puts `regExp` in the
place of `Matches`.

**`Server`** (`ACOS/server.c`) – `Accept`, `Fork`, `Wait` are the parent,
`GetRqst`, `SendFile`, `Shutdown` the child; `Connect`, `Send`, `Leave` are its
clients, of whom nothing is assumed. `accept`, `fork`, `recv` and writing may fail.
`make_html` returns the address of a local array, so a listing is junk, or the death
of the child after the header. The history variable `served` notes for whom `fork` made a
child: without it a client that is not answered for want of a child looks like one
whose child forgot `shutdown`. The array of clients is filled without a test: with
`Slots` clients served the next one overruns it, and the model stops.

## Runs

| run | bounds | what it shows |
|---|---|---|
| `peterson` | 2 threads, counter modulo 4 | the inductive invariant, exclusion, no lost increment, no second bypass, refinement of the lock with its fairness |
| `tree_mutex` | 4 threads, 3 nodes; index arithmetic for 1 to 17 threads | proper use of every node, the flags up are those of threads on their way, refinement of the lock with its fairness; `unlock` retraces `lock` |
| `spsc` | ring of 3 items, 10 items | the inductive invariant, no data race, no wrong refusal, refinement of the queue |
| `barrier` | 4 threads, 2 rounds, spurious wake-ups | nobody goes through early, the counters cannot block everybody, refinement of the barrier |
| `barrier_lost_wakeup` | 3 threads, 1 round | **finding 1** |
| `lock_free_queue` | 2 threads, 3 enqueues, 2 dequeues | no use after free until finding 2 begins, pointers in order, no leak, an answer "empty" is true, linearizability, termination |
| `lock_free_queue_broken` | 2 threads, 2 enqueues, 1 dequeue | **finding 2** |
| `hash_set` | 2 threads, 3 calls, 2 stripes, 6 values | elements in place, exact counter, separate stripes, growth once and alone, linearizability, termination, all with allocations that may fail |
| `thread_pool` | 3 workers, 4 tasks, 3 of which may call `shutdown` | no task lost or run twice, none forgotten when the pool goes, accepted tasks run, `shutdown` ends, destruction safe after it has returned |
| `avl` | 7 keys, 7 nodes; and 20 calls followed by any others, with 14 nodes | order, heights, sizes and balance; the keys that should be there; the order statistics; with repeated keys and removals, on heights that are stale until a null pointer is followed |
| `find` | 6 kinds of items, templates of 4, names of 4 characters; 2 directories, 3 files, 7 or 8 descriptors | the matcher against its reference; signal, output, descriptors and end of the walk |
| `server` | 3 clients, 2 slots, 2 waiting connections | every client gets what it asked for and the end of it, or there is a reason why not; only silence blocks |

Why the bounds are enough. Two threads are all that `peterson_mutex` takes. Four
threads give the tree two levels and every role a node can have; the arithmetic
of larger trees is the business of `UnlockRetracesLock`, whose 17 threads need up to five
levels, full ones and ragged ones. Ten items go more than twice round a ring of
four slots, so a load can be stale by a lap; the proofs cover every size. Two rounds let
what the first leaves behind show in the second, and with four threads two may be
in each wait. The initial hash set is one element below its limit,
so that any two calls may grow it and the third one runs on the grown table; the
values are such that some share a bucket or a stripe before or after growth,
and some do not. Three enqueues and two dequeues by two threads contain every
failing exchange, the lagging tail, and the reclamation of two nodes at once; the proofs cover
any number of threads and calls. Three
workers are the fewest of which one that shuts down the pool has workers on both sides of
it in the loop of `join`; four tasks leave one in the queue. Seven keys are the fewest that
make an AVL tree of four levels; a key that was removed or dropped comes back in trees of
six. TLC tells the states of the tree apart by
`View`, the tree without its addresses. To make stale heights mislead
a rotation takes fourteen nodes, as far as we know, and from the empty tree that would be far
too many states; a script leads to the neighbourhood. Four items are enough for two stars with
something between and after them, or a star after a bracket; a name of four characters is
longer than any three items ask for. With 7 descriptors the walk of the largest set of
matching files runs out of them and with 8 it does not. Three clients let one wait behind the one that is
served and one come after; the second slot is the last, so the overrun happens too.

`CHECK_DEADLOCK FALSE` stands where the model really may stop: when the bounded
calls are used up, when the pool is gone, when the barrier hangs, when the
queue or the tree is broken, when `find` is done and when the server has ended. The two locks are checked for deadlock.

## Fairness

No property assumes more than a scheduler that goes on running every thread.

* `Peterson`, `TreeMutex`: weak fairness of the steps inside `lock` and, in the
  tree, of the remaining steps of `unlock`. The loops yield and never block.
  Nobody has to call `lock` or `unlock`. Starvation freedom is then that of
  `AbstractLock`: who waits while the lock is free again and again gets it.
* `Barrier` (`barrier_lost_wakeup`): weak fairness of the steps inside `enter`
  of a thread that is not blocked. Threads that are blocked may stay so, which
  is the finding; no spurious wake-up is promised.
* `LockFreeQueue`: weak fairness of each thread inside a call, and strong
  fairness of the two weak exchanges in the loop of `enqueue`, which may fail
  without a reason but not always. With boundedly many calls this shows that no
  call waits for another one; it does not show that a call cannot be overtaken
  for ever by infinitely many others (the algorithm does not promise it).
* `StripedHashSet`: weak fairness of each thread inside a call: a lock that
  stays free is got. With boundedly many calls this shows the absence of deadlock, not of starvation at a lock that others keep taking.
  An exception is never promised, so it is no way out of a deadlock.
* `ThreadPool`: weak fairness of every worker, of the tasks (a task ends), and
  of a `shutdown()` that has been called.
* `Find`: weak fairness of each process and of the delivery of the signal; the
  program that is run ends.
* `Server`: weak fairness of parent and child together; nothing of the clients.

## Proofs

TLC checks the instances above. The following is proved by TLAPS for every value of the
constants, from the assumptions that the modules state by name (numbers are natural
numbers, and positive where the code needs it; sets of threads, initial elements, files
and directories are finite; the templates of `MCFind` are sequences of its items).

**`PetersonProofs`.** Mutual exclusion is not inductive: it says nothing of a thread
that is about to leave the loop. `Inv` adds that a flag is up exactly while its
thread is not idle (`WantIsUp`), and that while one thread holds the lock, a
spinning rival is the victim (`HolderIsSafe`). `Invariance` proves `Inv` action by
action; `TypeCorrect` and `Mutex` follow; `BoundedBypass` proves the action property
`NoSecondBypass` from `Inv`; `ImplementsLock` maps every step to a step of
`AbstractLock` or to none (the safety part of `LockRefinement`). `IncrementsKept` adds
the callers of `MCPeterson`: who has read the shared variable holds the lock and has
its newest value (`ReadIsFresh`), so no increment is lost, for every modulus.

**`TreeMutexProofs`.** Any number of threads. The node a thread locks k-th has, plus
one, the quotient of its first mutex plus one by 2^k (`Ancestor`, `AncestorAt`); from
this and the definition of `upper_log2` by powers follow the few facts about a thread's
way that the rest uses: `OneUp` for `parent_index`, `OneDown` for `get_child`, which at
the middle of a level decides right, and `SharedSide`, that threads which enter a node
from one side have a node below in common. `RetracedAlways` says the
same of the tree of every size, and not only of the one that the threads share, and
`Retracing` that `UnlockRetracesLock` holds, whatever its bound. `Inv` is inductive; the last of the facts gives `Sided`
(`OneThreadPerSide`): two threads at one side of a node would both hold the node below,
and so on to the leaves, where sides are given out by number. `Mutex` follows at the root,
`ImplementsLock` as above, and `EveryNodeIsPeterson` proves `NodesArePeterson`, each
step being one step of `Peterson` at one node and none elsewhere.

**`BarrierProofs`.** Any number of threads and rounds, under the hypothesis `~Eager`:
a thread comes again only when all have left. `enter()` does not see to that, so it is
an obligation of the callers, and without it the property is false (see *Findings*).
`Inv` says nothing of how far a round is. `IInv` says that a round is in one of three
phases, in which the threads come in, pass the first wait, and leave (`Gathering`,
`Passing`, `Leaving`), and what the two counters count in each. `Gathers` proves `Inv`,
`ImplementsBarrier` the refinement. That a notification is lost (finding 1) contradicts
neither: the counters are right and somebody may go on, but he sleeps.

**`SpscProofs`.** The assumptions are that `Size` and `MaxEnqueues` are natural
numbers. The invariant relates three counts. The k-th store of an index has the
value `slot(k)` and carries k - 1 accesses (`OrdersCount`); each thread's accesses
are its stores, or one more, and what it has synchronized with is what it has seen
(`ViewsCount`); the producer is never more than `Size` ahead of the oldest store of
`head` it may still see, and the consumer never ahead of the store of `tail` it has
seen (`WithinRing`). With the lemmas on remainders (`DivMod`, `SlotUnique`,
`NextSlot`, `SlotLap`) that makes the comparisons of ring indices
equivalent to comparisons of counts: theorem `StaleIndices`. `SlotsHoldLastLap` then
says what the slots hold, which gives `Order`. `RaceFreedom` follows from the same
invariant, since a slot's last read by the consumer is one lap before the write.
`Refinement` proves that the ring implements `BoundedFifo` for every size, with the
mapping `Queued`, `Delivered`.

**`LockFreeQueueProofs`.** Any number of threads and calls. `Chain` is a recursive
function; `ChainIsRest` and `Reached` show that it gives the rest of the list, by
a least counterexample and not by the library's induction. From there on nodes are compared by
their places in the list (`pos`): `Linking` appends, all else leaves places alone. The
invariant `IInv` says what each call knows at each of its steps (`CallOK`), in a form
that the moves of other threads do not disturb, since `Head`, `Tail` and `to_be_deleted` only
go forward (`CallStays`); what has been deleted is the part of the list before a point
(`FreedOK`); and, until `overshot`, a node that a call will touch is not before the point that
the reclaiming call goes to, for the reclaimer has seen itself alone and the others
loaded their pointers later (`SafeOK`). One lemma per step; then `Pointing` (`Inv`),
`MemorySafety` (`NoUseAfterFree`), `Reclamation` (`NothingLeaks`), `EmptySeen`
(`FalseMeansEmpty`) and `Linearizable` (`ImplementsFifo`). The proof of `MemorySafety`
is where the third thread was found that finding 2 leaves with a deleted node: the
property, first stated as "while no node of the queue has been deleted", is false, as TLC
shows with three threads, two enqueues and three dequeues.

**`ThreadPoolProofs`.** The assumptions are a positive number of workers, a number
of tasks, and that the tasks calling `shutdown()` are among them. `Inv` is not
inductive: it does not say why a worker that has been joined cannot run, nor why
`shutdown()` cannot be inside a pool that is gone. `IInv` adds that only what is
pending is queued or held (`Placed`), that the one caller of `shutdown()` is the
worker whose program counter says so (`OneCaller`), that the threads not yet joined
are the last ones of the vector, with a later call still at the first
(`JoinedInOrder`), and that whoever has been joined has stopped and a call has
returned exactly when all have been joined (`Stopped`). One lemma per operation
proves that it is kept; the queue comes in through two lemmas, on a sequence without
repetitions that grows or loses its head. `TasksAndShutdown` then proves `Inv`.

**`HashSetProofs`.** The assumptions are a positive number of stripes and growth
factor, at least one value, and finitely many threads. `StripesSeparate` rests on two things
it does not say. The locks exclude (`Exclusion`), and a call at a bucket or at the
counter holds its stripe (`HoldsStripe`), where a call of `rehash()` holds the first
one and has seen the number of buckets that there still is; and that number stays a
multiple of `n_stripes` (`WholeStripes`). `StepOf` says what any step has to show
for that; the lemmas on the steps cite it. With `SameRemainder`, two
values of one bucket are then of one stripe: theorem `Separation`. Whoever replaces
the buckets holds every stripe, so nobody else is at a bucket: theorem `Growth`
(`GrowsOnceAlone`). `CInv` adds what the buckets hold: a value is in its own bucket, at
most once, and the counter is the number of elements but for the calls that have
changed a bucket and not yet counted. Sums over buckets are taken by folds; `SumOfOne` shows
what they give when one term at most is not zero, by induction over subsets in the form of
a least counterexample. This proves `Inv` (theorem `Exactness`) and the refinement of
`AbstractSet` (theorem `Linearizable`).

**`AcosProofs`.** `find`, for every tree of directories, every template and every number of
descriptors. `SignalMeetsItsCall` says nothing of a child that has failed and
not yet sent its signal, nor of what keeps the child behind the parent's write.
`IInv` adds when there can be a child and how far it can be (`ChildInCall`), and
that a signal is on its way only from a child that has failed and still exists
(`SignalInCall`): theorem `SignalsMeet`. What is printed depends on the whole walk, of
which the state keeps only the stack. `WInv` says that there are a set of directories opened and
a set of files read such that what is still to be read is in neither and, with enough
descriptors, everything else is (`Walked`); that the descriptors are one for each of the ones and
two for each of the others that was run (`Counted`); and what has become of the files
read (`Ran`), where the variable `res` of the current call agrees with its child. That
each path is in one directory is used: a file met twice would be run twice. Theorems
`Printing` (`PrintedIsRight`) and `Descriptors` (`DescriptorsSuffice`). The server, with
any number of clients and slots: `AnswersEnd` needs that a client is in the queue of `accept`
or in the array once (`OneConnection`), that nothing is written or shut down before its
child runs, and that a child about to call `shutdown` has written what was asked for
(`OneChild`); what has become of the others stays as it is (`SettledStays`); theorem
`AnswersAreEnded`.

The matcher, for templates and names of any length over any alphabet, any brackets with a
character on both sides of each dash, and anything in memory after the name: theorem
`RegExpIsRight`, and for the templates of the walk `Globbing` (`GlobIsRight`). Both sides are
recursive functions, of which nothing is known before they are shown to exist: each is put
together from the end of the template backwards, where no call is left (`RoundsExist` and its
like, by a least counterexample). Then a template is laid out in memory, item by item
(`Laid`); the loop over a bracket is true of the characters its body stands for, and the place
behind it is where the next item begins; the loop of `regExp` counts what `Asked` counts.
`Agree` says of an item that a call of `checkExp` where it begins gives what `Accepts` gives
from that item on, for the calls that can come to be: with `openBr` set only if the next
bracket comes after a plain character (`Ready`), and with no more characters asked for than the
name has left, if there are question marks (`Room`). That is what `BracketsApart` and
`LongEnough` are for. One lemma per kind of item carries it from an item to the one before.

What the prover is trusted with: the SMT translation of `tlapm` 1.4.5 accepts some false
equations, those with a `CHOOSE` on one side and those between two `CASE` expressions that
differ after the first arm. No leaf rests on it: what is chosen is first shown to satisfy what it
is chosen for, `CASE` is compared with the value of its arm, and where the definition of a
recursive function is unfolded the leaf names `Zenon`. As a test of the proofs themselves, each
mutant that breaks a proved property was put into the model: the proof of the property then
fails.

Only model-checked:

* everything under fairness: liveness and `ENABLED` are beyond the prover;
* the search tree. `insert` and the queries are recursive functions over a memory in which
  lost nodes stay behind, so even that they are defined depends on all of memory being free of
  cycles; and after the first removal there is no bound on heights to argue with (see *Findings*).

## Findings

1. **A barrier hangs** (`barrier.h:33`). With three threads, the second one to
   pass the first wait notifies; the one already in the second wait takes the
   notification, finds its predicate false and sleeps again; the third thread
   sleeps for ever in the first wait, though all have gathered ("ждет пока все
   соберутся", waits until all gather, says its comment). With two threads
   it cannot happen: there is nobody else to take a notification.
2. **A dequeue deletes the queue's own node** (`lock_free_queue.h:86`). The
   failed exchange of `Tail` writes `Tail` into `curr_head`, and
   `try_reclaim(curr_head)` deletes all nodes before it, the one `Head` points
   to included. The comment in `delete_nodes` says what `cur_head` is meant to
   be: `//node_t* cur_head = Head.load();`.

What else the code does, which the properties except or take into account:

* A thread that comes back to a barrier while others of the round before are still
  inside is counted with them, and may pass the first wait alone. `Eager = TRUE` in
  `Barrier.cfg`, with two threads, makes TLC show it (`WaitsForAll`).
* The comment on line 80 of `thread_pool.h` says that the workers always work, so that
  the queue is empty after `shutdown()`; they test `access` before each `pop` and stop
  with tasks left in the queue. Their futures get no value, but a broken promise when the
  pool is destroyed (`Destroy`). A `shutdown()` from a task joins its own worker at some
  point and throws; after that no later call can return, and the destruction of the pool
  terminates the program. `DestroyedInOrder` says so.
* `AVL::Insert` of a key that is in the tree below the root drops the subtree of that key and
  returns true; `KeysAreExpected` is claimed only until that happens. After a removal only
  the root is balanced and measured, so sizes may be too great, and the order
  statistics are claimed only before. `DeleteByNum` counts from 1, `KStatics` from 0.
* The search tree loses its balance, and then its footing. A removal takes one from the height of
  one node and measures the root only. After seven insertions and two removals the root
  may be left with a difference of three, which `balance` returns (line 225: "балансировка не
  нужна", balancing is not needed) because it acts on a difference of two only; nodes
  without children may get the height -1. A later rotation takes a child that is not there
  and follows a null pointer. The run `avl` reaches it: insert 4, 2, 8, 1, 3, 6, 9, 5, 7; delete 5, 7,
  9, 1, 3; insert 11, 10, 12, 14; delete 11, 2, 6; insert 11; delete 11, 14. Each of these
  calls by itself finds its node and takes out the right key.
* A second bracket in a template without a plain character between it and the first is
  taken for "any character", because `openBr` stays set, and its text is then matched
  literally; a question mark may step over the end of a name. `BracketsApart` and
  `LongEnough` except both. A bracket that is not closed, or ends in a dash, is read
  beyond its end and is no input of the model.
* A client of the server whose `fork` failed never gets an answer, and one that asks for an
  index page gets an end without an answer.

## Not modelled

* `БД/6_CREATE/create/main.c` and its older copy. A sequential loop without state that
  outlives it. The buffer is reallocated to `2 * i` bytes and counted as twice its size,
  one or two bytes more than it has, and strings are passed to SQLite without a NUL. An
  input of a dozen bytes under a checking allocator shows it; there is nothing to
  explore. The older copy assigns in its test, `if (i = buf_size)`.
* `sqlite3.h`: declarations and comments of a third party, 7715 of the repository's
  9181 lines of code. It is the reason why the models, which stand for most of
  the rest, cover a small part of the lines.
* The SQL schema, the notebooks, and the executables: data, floating-point coursework and
  generated files.

And in the components that are modelled:

* `peterson_mutex`'s move constructor, which leaves `want` uninitialized: it runs
  only when a vector of mutexes is moved, and `tree_mutex` resizes an empty one.
* Overflow of `1 << t` in `tree_mutex` (from 2^30 threads) and of `size + 1` in
  the ring (a ring of `SIZE_MAX` items).
* Reuse of memory in the queue. `NoUseAfterFree` shows that, until finding 2
  begins, no call holds a pointer to a deleted node that it will use.
* Allocations that fail, except in the hash set.
* The load factor of the hash set is exceeded for a while when several adders
  see the same number of buckets. It is a matter of speed.
* The destructor of the search tree, which deletes the root and leaks the rest.
* In `find`, paths, which are put together in memory that is not initialized and of a
  size computed from a pointer, and the arguments of the program.
* In the server, the text of requests and pages, and the start, which ends the program
  when it fails.

## Plan

What is left:

1. The reclamation of the queue after finding 2 is repaired, that is, with `cur_head`
   loaded from `Head` as the comment in `delete_nodes` has it: `overshot` is then
   constant and `NoUseAfterFree` is the whole of memory safety.
2. The search tree repaired: with every node on the way balanced after a removal,
   heights are then right in every state, and an invariant on them would show that no
   rotation misses a child.
