------------------------------ MODULE AvlTree ------------------------------
(***************************************************************************)
(* algo/AVL.cpp: the search tree with heights and sizes in its nodes.      *)
(* Insert(), Delete() and DeleteByNum() are actions, Find(), KStatics()    *)
(* and GetPos() functions of the state.                                    *)
(*                                                                         *)
(* Memory is a sequence of nodes; a node is its place in it, so a pointer  *)
(* may be stored twice or nowhere, as in the code.                         *)
(***************************************************************************)
EXTENDS Integers, FiniteSets, Sequences

CONSTANTS Keys,
          MaxNodes    \* bound: how many nodes are allocated

ASSUME KeysAssumption == Keys \subseteq Int

Null == 0
Nowhere == -1   \* what a call returns that has followed a null pointer

VARIABLES
  heap,       \* the nodes allocated so far
  root,
  expected,   \* history: the keys that the calls should have left in the tree
  repeated,   \* history: Insert() has met its own key below the root
  removed,    \* history: a node has been removed
  broken      \* a call has gone wrong, and the model stops

history == <<repeated, removed, broken>>
vars == <<heap, root, expected, history>>

NewNode(Key) == [key |-> Key, left |-> Null, right |-> Null, height |-> 1, size |-> 1]

Init == /\ heap = <<>> /\ root = Null /\ expected = {}
        /\ repeated = FALSE /\ removed = FALSE /\ broken = FALSE
-----------------------------------------------------------------------------
(* Operators that change nodes take the memory h, and return it with the   *)
(* pointer that the code returns.                                          *)

height(h, n) == IF n # Null THEN h[n].height ELSE 0

getSize(h, n) == IF n # Null THEN h[n].size ELSE 0

bFactor(h, n) == height(h, h[n].right) - height(h, h[n].left)

\* fixHeight(node) and fixSize(node), which are always called together.
Fix(h, n) ==
  LET hl == height(h, h[n].left)
      hr == height(h, h[n].right)
  IN  [h EXCEPT ![n].height = (IF hl > hr THEN hl ELSE hr) + 1,
                ![n].size   = getSize(h, h[n].left) + getSize(h, h[n].right) + 1]

\* A mutant: the node that is lifted is measured before the one that sinks.
rotateR_LiftedFirst(h, n) ==
  LET l == h[n].left
  IN  [heap |-> Fix(Fix([h EXCEPT ![n].left = h[l].right, ![l].right = n], l), n), node |-> l]

rotateR(h, n) ==
  LET l == h[n].left
  IN  [heap |-> Fix(Fix([h EXCEPT ![n].left = h[l].right, ![l].right = n], n), l), node |-> l]

rotateL(h, n) ==
  LET r == h[n].right
  IN  [heap |-> Fix(Fix([h EXCEPT ![n].right = h[r].left, ![r].left = n], n), r), node |-> r]

(***************************************************************************)
(* The rotations of balance(n) follow a null pointer.  Removals leave      *)
(* heights behind that are too small or too great, even negative ones, and *)
(* these promise a child where there is none.                              *)
(***************************************************************************)
MissesChild(h, n) ==
  LET r == h[n].right
      l == h[n].left
  IN  \/ bFactor(h, n) = 2  /\ (r = Null \/ (bFactor(h, r) < 0 /\ h[r].left = Null))
      \/ bFactor(h, n) = -2 /\ (l = Null \/ (bFactor(h, l) > 0 /\ h[l].right = Null))

balance(h0, n) ==
  LET h == Fix(h0, n)
      r == h[n].right
      l == h[n].left
      R == rotateR(h, r)
      L == rotateL(h, l)
  IN  CASE MissesChild(h, n) -> [heap |-> h, node |-> Nowhere]
        [] bFactor(h, n) = 2 /\ ~MissesChild(h, n) ->
             rotateL(IF bFactor(h, r) < 0 THEN [R.heap EXCEPT ![n].right = R.node] ELSE h, n)
        [] bFactor(h, n) = -2 /\ ~MissesChild(h, n) ->
             rotateR(IF bFactor(h, l) > 0 THEN [L.heap EXCEPT ![n].left = L.node] ELSE h, n)
        [] OTHER -> [heap |-> h, node |-> n]

(***************************************************************************)
(* insert(Key, node).  A key that is met returns 0, and the caller stores  *)
(* the 0 in the field that pointed to the node.                            *)
(***************************************************************************)
insert(h, Key, node) ==
  LET down[n \in Nat] ==
        LET child  == IF Key > h[n].key THEN h[n].right ELSE h[n].left
            below  == IF child = Null
                      THEN [heap |-> Append(h, NewNode(Key)), node |-> Len(h) + 1]
                      ELSE down[child]
            linked == IF Key > h[n].key THEN [below.heap EXCEPT ![n].right = below.node]
                                        ELSE [below.heap EXCEPT ![n].left = below.node]
        IN  IF Key = h[n].key THEN [heap |-> h, node |-> Null]
            ELSE IF below.node = Nowhere THEN below ELSE balance(linked, n)
  IN  down[node]

(***************************************************************************)
(* removeNode(cur_node, par), but for the balancing of the root.  The case *)
(* of two children takes the greatest node on the left, and links its left *)
(* child to the node above, for which it takes par when it went down once. *)
(***************************************************************************)
\* A mutant: the links of par are swapped.
Link_Swapped(h, par, cur, x) == IF h[par].right = cur THEN [h EXCEPT ![par].left = x]
                                                      ELSE [h EXCEPT ![par].right = x]

\* The field of par that points to cur, the right one if neither does, now points to x.
Link(h, par, cur, x) == IF h[par].left = cur THEN [h EXCEPT ![par].left = x]
                                             ELSE [h EXCEPT ![par].right = x]

removeNode(h, cur, par) ==
  LET l == h[cur].left
      r == h[cur].right
      greatest[n \in Nat, fpar \in Nat] ==
        IF h[n].right = Null THEN [node |-> n, fpar |-> fpar] ELSE greatest[h[n].right, n]
      g == greatest[l, par]
      x == h[g.node].left
  IN  CASE l = Null /\ r = Null ->
             [Link(h, par, cur, Null) EXCEPT ![par].size = @ - 1, ![par].height = @ - 1]
        [] l # Null /\ r = Null -> Link(h, par, cur, l)
        [] l = Null /\ r # Null -> Link(h, par, cur, r)
        [] l # Null /\ r # Null ->
             [(IF g.fpar # par THEN [h EXCEPT ![g.fpar].right = x]
                               ELSE [h EXCEPT ![g.fpar].left = x])
              EXCEPT ![cur].key = h[g.node].key]

(***************************************************************************)
(* Where removeNode() does what it is meant to: below the root unless the  *)
(* greatest node on the left is the left child itself, since par is not    *)
(* the node above it then; at the root, which is its own par, if there are *)
(* two children.  A root without children is used after it is freed, one   *)
(* with a single child stays.                                              *)
(***************************************************************************)
Removable(h, cur) ==
  LET l == h[cur].left
      r == h[cur].right
  IN  IF cur = root THEN l # Null /\ r # Null
                    ELSE l = Null \/ r = Null \/ h[l].right # Null
-----------------------------------------------------------------------------
\* The nodes of the subtree n in the order of a search tree.
InOrder(n) ==
  LET walk[m \in Nat] ==
        IF m = Null THEN <<>> ELSE walk[heap[m].left] \o <<m>> \o walk[heap[m].right]
  IN  walk[n]

Reached == LET order == InOrder(root) IN {order[i] : i \in DOMAIN order}

KeysOf(nodes) == {heap[n].key : n \in nodes}

InsertFirst(Key) == /\ root = Null
                    /\ heap' = Append(heap, NewNode(Key))
                    /\ root' = Len(heap')
                    /\ expected' = {Key}
                    /\ UNCHANGED history

InsertBelow(Key) ==
  LET res == insert(heap, Key, root)
  IN  /\ root # Null
      /\ Len(res.heap) <= MaxNodes
      /\ heap' = res.heap
      /\ root' = IF res.node \in {Null, Nowhere} THEN root ELSE res.node
      /\ expected' = expected \cup {Key}
      /\ repeated' = (repeated \/ Key \in KeysOf(Reached \ {root}))
      /\ broken' = (res.node = Nowhere)
      /\ UNCHANGED removed

Insert(Key) == InsertFirst(Key) \/ InsertBelow(Key)

\* removeNode() and balance(root).
Remove(cur, par) ==
  LET freed == cur = root /\ heap[cur].left = Null /\ heap[cur].right = Null
      res   == balance(removeNode(heap, cur, par), root)
      lost  == ~freed /\ res.node = Nowhere
  IN  /\ IF freed \/ lost THEN UNCHANGED <<heap, root>>
                       ELSE heap' = res.heap /\ root' = res.node
      /\ expected' = expected \ {heap[cur].key}
      /\ removed' = TRUE
      /\ broken' = (lost \/ ~Removable(heap, cur))
      /\ UNCHANGED repeated

\* Delete(Key): the way down, with the node above; nothing happens without the key.
Delete(Key) ==
  LET down[n \in Nat, par \in Nat] ==
        IF n = Null \/ heap[n].key = Key THEN <<n, par>>
        ELSE IF Key > heap[n].key THEN down[heap[n].right, n] ELSE down[heap[n].left, n]
      at == down[root, root]
  IN  IF at[1] = Null THEN UNCHANGED vars ELSE Remove(at[1], at[2])

(***************************************************************************)
(* kstaticsNode(): the way down by ranks, counted from 1.  With ranks that *)
(* have gone stale it may run into a null pointer; at the root par is not  *)
(* initialized.                                                            *)
(***************************************************************************)
kstaticsNode(num0) ==
  LET down[num \in Int, n \in Nat, par \in Nat] ==
        LET pos == getSize(heap, heap[n].left) + 1
        IN  CASE n = Null  -> <<Null, par>>
              [] n # Null /\ pos = num -> <<n, par>>
              [] n # Null /\ pos > num -> down[num, heap[n].left, n]
              [] n # Null /\ pos < num -> down[num - pos, heap[n].right, n]
  IN  down[num0, root, Null]

DeleteByNum(num) ==
  LET at == kstaticsNode(num)
  IN  IF at[1] = Null \/ at[2] = Null
      THEN broken' = TRUE /\ UNCHANGED <<heap, root, expected, repeated, removed>>
      ELSE Remove(at[1], at[2])

Next == /\ ~broken
        /\ \/ \E Key \in Keys : Insert(Key)
           \/ root # Null /\ \E Key \in Keys : Delete(Key)
           \/ \E num \in 1..Len(InOrder(root)) : DeleteByNum(num)

Spec == Init /\ [][Next]_vars

(***************************************************************************)
(* What tells states apart for TLC: the tree, how much memory is used and  *)
(* the history.  Where a node lies, and what lost nodes hold, is of no     *)
(* consequence.                                                            *)
(***************************************************************************)
View ==
  LET shape[n \in Nat] ==
        IF n = Null THEN <<>>
        ELSE <<heap[n].key, heap[n].height, heap[n].size,
               shape[heap[n].left], shape[heap[n].right]>>
  IN  <<shape[root], Len(heap), expected, history>>
-----------------------------------------------------------------------------
\* The nearest node; the code returns nothing when the tree is empty.
find(Key) ==
  LET down[n \in Nat] ==
        LET child == IF Key > heap[n].key THEN heap[n].right ELSE heap[n].left
        IN  IF Key = heap[n].key \/ child = Null THEN n ELSE down[child]
  IN  down[root]

Find(Key) == heap[find(Key)].key = Key

\* Ranks count from 0 here and from 1 inside.
KStatics(num) ==
  LET kstatics[k \in Int, n \in Nat] ==
        LET pos == getSize(heap, heap[n].left) + 1
        IN  CASE pos = k -> heap[n].key
              [] pos > k -> kstatics[k, heap[n].left]
              [] pos < k -> kstatics[k - pos, heap[n].right]
  IN  kstatics[num + 1, root]

\* The loop of GetPos() from the root, where pos is the number of smaller keys.
Down(Key, start) ==
  LET round[n \in Nat, pos \in Int] ==
        LET r == heap[n].right
            l == heap[n].left
        IN  CASE Key = heap[n].key -> getSize(heap, root) - 1 - pos
              [] Key > heap[n].key -> round[r, pos + getSize(heap, heap[r].left) + 1]
              [] Key < heap[n].key -> round[l, pos - (getSize(heap, heap[l].right) + 1)]
  IN  round[root, start]

\* A mutant: the position of the root is counted from 1, as inside KStatics().
GetPos_FromOne(Key) == Down(Key, getSize(heap, heap[root].left) + 1)

GetPos(Key) == Down(Key, getSize(heap, heap[root].left))
-----------------------------------------------------------------------------
(***************************************************************************)
(* The nodes reached form a search tree: each is reached once and the keys *)
(* ascend.  Heights and sizes are those of the subtrees until something is *)
(* removed; then a size may be too great, never too small.  This holds     *)
(* after repeated keys, too, which drop subtrees.  As long as there is     *)
(* neither, balance() on the way up keeps every node balanced.             *)
(***************************************************************************)
WellFormed ==
  LET order == InOrder(root)
  IN  ~broken =>
    /\ Cardinality(Reached) = Len(order)
    /\ \A i \in 1..(Len(order) - 1) : heap[order[i]].key < heap[order[i + 1]].key
    /\ \A n \in Reached :
         LET hs == {height(heap, heap[n].left), height(heap, heap[n].right)}
         IN  /\ heap[n].size >= Len(InOrder(n))
             /\ ~removed => /\ heap[n].size = Len(InOrder(n))
                            /\ heap[n].height - 1 \in hs
                            /\ \A k \in hs : k < heap[n].height
             /\ ~removed /\ ~repeated => bFactor(heap, n) \in -1..1

(***************************************************************************)
(* As long as no key is given to insert() twice, no call loses a key that  *)
(* it was not to remove, nor leaves one that it was, where removeNode() is *)
(* not broken.                                                             *)
(***************************************************************************)
KeysAreExpected == ~repeated /\ ~broken => KeysOf(Reached) = expected

(***************************************************************************)
(* In a tree that is not empty, the queries agree with the set of its      *)
(* keys: Find() is membership; before removals, KStatics(num) is the key   *)
(* with num smaller ones, GetPos() the number of greater ones, and         *)
(* DeleteByNum(num) would find the same key as KStatics(num - 1).          *)
(***************************************************************************)
OrderStatistics ==
  LET keys == KeysOf(Reached)
      below(k) == Cardinality({j \in keys : j < k})
  IN  root # Null /\ ~broken =>
        /\ \A k \in Keys : Find(k) <=> k \in keys
        /\ ~removed => \A k \in keys :
             /\ KStatics(below(k)) = k
             /\ heap[kstaticsNode(below(k) + 1)[1]].key = k
             /\ GetPos(k) = Cardinality(keys) - 1 - below(k)
=============================================================================
