------------------------------- MODULE EmsKfc -------------------------------
(***************************************************************************)
(* The free-chunk store of the EMS allocator: one last-in first-out list   *)
(* per small size (kfc_normal_list) and a binary search tree of the larger *)
(* chunks (kfc_tree_root), with the links of remove_tree_node, gci_add_fc, *)
(* unlink_hmu and the search of alloc_hmu.  The caller cuts chunks and     *)
(* merges them (EmsHeap); here a chunk is a node with a size.              *)
(***************************************************************************)
EXTENDS Integers, FiniteSets, Sequences, SequencesExt

CONSTANTS Chunks,     \* addresses chunks may have
          Sizes,      \* sizes, in units, of chunks and requests
          NormalCnt,  \* HMU_NORMAL_NODE_CNT
          Root,       \* kfc_tree_root, the node embedded in the heap structure
          Null

ASSUME KfcAssumption ==
  /\ NormalCnt \in Nat /\ NormalCnt > 2 /\ Sizes \subseteq Nat \ {0}
  /\ IsFiniteSet(Chunks) /\ Root \notin Chunks /\ Null \notin Chunks \cup {Root}

IsNormal(n) == n < NormalCnt - 1   \* HMU_IS_FC_NORMAL
Bins == 1 .. NormalCnt - 2
BinBelow(n) == IF n = 1 THEN 1 ELSE n - 1
BinOf(n) == n                      \* node_idx: size >> 3
Nodes == Chunks \cup {Root}
Links == Chunks \cup {Null}

VARIABLES list,    \* bin |-> its chunks, head first
          tree,    \* the left, right and parent links of every node
          size,    \* chunk |-> the size in its header
          taken    \* the last request to alloc_hmu and the chunk it answered

vars == <<list, tree, size, taken>>

NoLinks == [n \in Nodes |-> Null]
NoSizes == [c \in Chunks |-> 0]

\* gc_init_internal: the whole pool is the root's right child, whatever its size.
Init == \E c \in Chunks, n \in Sizes :
          /\ list = [i \in Bins |-> << >>]
          /\ tree = [left   |-> NoLinks,
                     right  |-> [NoLinks EXCEPT ![Root] = c],
                     parent |-> [NoLinks EXCEPT ![c] = Root]]
          /\ size = [NoSizes EXCEPT ![c] = n]
          /\ taken = [units |-> 0, at |-> Null]

InList == UNION {ToSet(list[i]) : i \in Bins}
InTree == {c \in Chunks : tree.parent[c] # Null}
Linked == InList \cup InTree

\* Chunks are added and unlinked while one is allocated or freed, so that some
\* chunk has left the store; and only then.
Outside == {c \in Chunks \ Linked : size[c] # 0}

-----------------------------------------------------------------------------
(* The tree *)

\* The slot of p in its parent is made to hold q; p loses its links.
Replace(t, p, q) ==
  LET up     == t.parent[p]
      moved  == IF q = Null THEN t.parent ELSE [t.parent EXCEPT ![q] = up]
      onRight == t.right[up] = p
  IN  [left   |-> [t.left EXCEPT ![up] = IF onRight THEN @ ELSE q, ![p] = Null],
       right  |-> [t.right EXCEPT ![up] = IF onRight THEN q ELSE @, ![p] = Null],
       parent |-> [moved EXCEPT ![p] = Null]]

\* What a loop from x comes to that stops where down[x] = x: it passes no
\* value twice.
Descend(down, x) ==
  LET steps == Cardinality(DOMAIN down)
      at[i \in 0 .. steps] == IF i = 0 THEN x ELSE down[at[i - 1]]
  IN  at[steps]

Rightmost(t, q) ==
  Descend([x \in Nodes |-> IF t.right[x] = Null THEN x ELSE t.right[x]], q)

\* A node with at most one child is replaced by that child.
Splice(t, p) == Replace(t, p, IF t.left[p] = Null THEN t.right[p] ELSE t.left[p])

\* TakePlace without the parent links of the adopted children.
TakePlaceOrphans(t, p, q) ==
  LET r == Replace(t, p, q)
  IN  [r EXCEPT !.left[q] = t.left[p], !.right[q] = t.right[p]]

\* q, spliced out before, takes the place and the children of p.
TakePlace(t, p, q) ==
  LET r == Replace(t, p, q)
      adopted == {t.left[p], t.right[p]} \ {Null}
  IN  [left   |-> [r.left EXCEPT ![q] = t.left[p]],
       right  |-> [r.right EXCEPT ![q] = t.right[p]],
       parent |-> [n \in Nodes |-> IF n \in adopted THEN q ELSE r.parent[n]]]

\* remove_tree_node: with two children the predecessor takes over, so that
\* left <= node < right stays true among equal sizes.
RemoveTreeNode(t, p) ==
  IF t.left[p] = Null \/ t.right[p] = Null THEN Splice(t, p)
  ELSE LET q == Rightmost(t, t.left[p]) IN TakePlace(Splice(t, q), p, q)

\* gci_add_fc descends right past smaller nodes, the root among them, and left
\* otherwise, until the slot is empty.
NotLarger(x, n) == x = Root \/ size[x] <= n
Smaller(x, n) == x = Root \/ size[x] < n
Slot(t, x, n) == IF Smaller(x, n) THEN t.right[x] ELSE t.left[x]
Leaf(t, n) == Descend([x \in Nodes |-> IF Slot(t, x, n) = Null THEN x ELSE Slot(t, x, n)], Root)

Insert(t, c, n) ==
  LET at == Leaf(t, n)
  IN  [left   |-> [t.left EXCEPT ![c] = Null, ![at] = IF Smaller(at, n) THEN @ ELSE c],
       right  |-> [t.right EXCEPT ![c] = Null, ![at] = IF Smaller(at, n) THEN c ELSE @],
       parent |-> [t.parent EXCEPT ![c] = at]]

\* alloc_hmu keeps the last node that is large enough while it descends.
Searches == [at : Links, best : Links]
FirstFit(n) == [s \in Searches |->
  IF s.at = Null THEN s
  ELSE IF size[s.at] < n THEN [at |-> tree.right[s.at], best |-> s.best]
  ELSE [at |-> Null, best |-> s.at]]
SmallestFit(n) == [s \in Searches |->
  IF s.at = Null THEN s
  ELSE IF size[s.at] < n THEN [at |-> tree.right[s.at], best |-> s.best]
  ELSE [at |-> tree.left[s.at], best |-> s.at]]

BestFit(n) == Descend(SmallestFit(n), [at |-> tree.right[Root], best |-> Null]).best

-----------------------------------------------------------------------------
(* The operations *)

\* gci_add_fc
AddFc(c, n) ==
  /\ Outside # {} /\ c \notin Linked
  /\ size' = [size EXCEPT ![c] = n]
  /\ IF IsNormal(n)
     THEN list' = [list EXCEPT ![BinOf(n)] = <<c>> \o @] /\ UNCHANGED tree
     ELSE tree' = Insert(tree, c, n) /\ UNCHANGED list
  /\ UNCHANGED taken

\* The bins a request of n units may be answered from.
BinsFor(n) == {i \in Bins : IsNormal(n) /\ i >= n /\ list[i] # << >>}

\* alloc_hmu, answered by the head of the first bin that is not empty.
TakeFromList(n) ==
  /\ BinsFor(n) # {}
  /\ LET i == CHOOSE i \in BinsFor(n) : \A j \in BinsFor(n) : i <= j
     IN  /\ taken' = [units |-> n, at |-> Head(list[i])]
         /\ list' = [list EXCEPT ![i] = Tail(@)]
  /\ UNCHANGED <<tree, size>>

\* alloc_hmu, answered by the tree.
TakeFromTree(n) ==
  /\ BinsFor(n) = {}
  /\ taken' = [units |-> n, at |-> BestFit(n)]
  /\ tree' = IF taken'.at = Null THEN tree ELSE RemoveTreeNode(tree, taken'.at)
  /\ UNCHANGED <<list, size>>

\* A list whose first occurrence of c is taken out, when it has one.
Unlinked(s, c) ==
  IF c \in ToSet(s)
  THEN LET k == CHOOSE k \in DOMAIN s : s[k] = c /\ \A j \in 1 .. k - 1 : s[j] # c
       IN  [j \in 1 .. Len(s) - 1 |-> IF j < k THEN s[j] ELSE s[j + 1]]
  ELSE s

\* unlink_hmu: the header's size says where the chunk is linked.
UnlinkHmu(c) ==
  /\ Outside # {} /\ c \in Linked
  /\ IF IsNormal(size[c])
     THEN /\ list' = [list EXCEPT ![BinOf(size[c])] = Unlinked(@, c)]
          /\ UNCHANGED tree
     ELSE tree' = RemoveTreeNode(tree, c) /\ UNCHANGED list
  /\ UNCHANGED <<size, taken>>

Next == \/ \E c \in Chunks, n \in Sizes : AddFc(c, n)
        \/ \E n \in Sizes : TakeFromList(n) \/ TakeFromTree(n)
        \/ \E c \in Chunks : UnlinkHmu(c)

Spec == Init /\ [][Next]_vars

-----------------------------------------------------------------------------
(* Properties *)

\* Types of the lists and of the tree's links.
TypeOK ==
  /\ list \in [Bins -> Seq(Chunks)]
  /\ tree \in [left   : [Nodes -> Links],
               right  : [Nodes -> Links],
               parent : [Nodes -> Nodes \cup {Null}]]
  /\ taken \in [units : Sizes \cup {0}, at : Links]

\* Parents and children name each other: remove_tree_node, which reports
\* corruption for a node that is no child of its parent, always succeeds.
\* And a bin holds chunks of its own size, which alloc_hmu takes for granted
\* when it sizes what it answers by the bin.
LinksAgree ==
  /\ TypeOK
  /\ \A i \in Bins : \A c \in ToSet(list[i]) : size[c] = i
  /\ \A p \in Nodes : \A c \in {tree.left[p], tree.right[p]} \ {Null} :
       tree.parent[c] = p /\ tree.left[p] # tree.right[p] /\ c \notin InList

Children(S) == ({tree.left[x] : x \in S} \cup {tree.right[x] : x \in S}) \ {Null}
Subtree(n) == Descend([S \in SUBSET Chunks |-> S \cup Children(S)], {n} \ {Null})

\* Every chunk of the tree is found from its root, and
\* size[left] <= size[cur] < size[right] (ems_gc_internal.h) over whole
\* subtrees, after any order of insertions and removals of equal sizes.
TreeOrdered ==
  /\ InTree = Subtree(tree.right[Root])
  /\ \A p \in InTree : /\ \A c \in Subtree(tree.left[p]) : size[c] <= size[p]
                       /\ \A c \in Subtree(tree.right[p]) : size[c] > size[p]

\* The lists and the tree together are a store that loses no chunk, keeps no
\* chunk that was taken, and answers with a smallest sufficient chunk.
Store == INSTANCE KfcSpec WITH free <- [c \in Linked |-> size[c]]
ImplementsStore == Store!Spec
=============================================================================
