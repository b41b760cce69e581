---------------------------- MODULE EmsKfcProofs ----------------------------
(***************************************************************************)
(* The store of free chunks, for every number of chunks and all sizes: its *)
(* links agree (LinksInvariant), its tree is ordered and found from the    *)
(* root (OrderInvariant), and it implements the store of KfcSpec           *)
(* (KfcImplementsStore).                                                   *)
(***************************************************************************)
EXTENDS EmsKfc, FiniteSetTheorems, SequenceTheorems, WellFoundedInduction, TLAPS

-----------------------------------------------------------------------------
(* Numbers and loops *)

LEMMA LessIsWellFounded == IsWellFoundedOn({p \in Nat \X Nat : p[1] < p[2]}, Nat)
  BY NatLessThanWellFounded DEF OpToRel

LEMMA Least ==
  ASSUME NEW T \in SUBSET Nat, T # {}
  PROVE  \E m \in T : \A n \in T : m <= n
<1>. DEFINE R == {p \in Nat \X Nat : p[1] < p[2]}
<1>1. IsWellFoundedOn(R, Nat)
  BY LessIsWellFounded
<1>2. ASSUME NEW m \in Nat, NEW n \in Nat, <<n, m>> \notin R PROVE m <= n
  BY <1>2
<1>. HIDE DEF R
<1>3. PICK m \in T : \A n \in T : <<n, m>> \notin R
  BY <1>1, WFMin
<1>4. QED
  BY <1>2, <1>3

LEMMA UpTo ==
  ASSUME NEW n \in Nat, NEW S, 0 \in S, \A i \in 1 .. n : i - 1 \in S => i \in S
  PROVE  \A i \in 0 .. n : i \in S
<1>. DEFINE T == {i \in 0 .. n : i \notin S}
<1>1. SUFFICES ASSUME T # {} PROVE FALSE
  OBVIOUS
<1>2. T \in SUBSET Nat
  OBVIOUS
<1>3. PICK m \in T : \A k \in T : m <= k
  <2>. HIDE DEF T
  <2>1. QED
    BY <1>1, <1>2, Least
<1>4. m \in 1 .. n /\ m - 1 \in 0 .. n /\ m - 1 \notin T
  BY <1>3
<1>5. QED
  BY <1>3, <1>4

\* The recursion of Descend has a solution.
LEMMA DescendSteps ==
  ASSUME NEW down, NEW x, NEW n \in Nat, n = Cardinality(DOMAIN down)
  PROVE  \E at : /\ at[0] = x /\ Descend(down, x) = at[n]
                 /\ \A i \in 1 .. n : at[i] = down[at[i - 1]]
<1>. DEFINE Walk(at, m) == at = [i \in 0 .. m |-> IF i = 0 THEN x ELSE down[at[i - 1]]]
            S == {m \in 0 .. n : \E at : Walk(at, m)}
<1>1. 0 \in S
  <2>1. Walk([i \in 0 .. 0 |-> x], 0)
    OBVIOUS
  <2>. HIDE DEF Walk
  <2>2. QED
    BY <2>1
<1>2. ASSUME NEW m \in 1 .. n, m - 1 \in S PROVE m \in S
  <2>1. PICK g : Walk(g, m - 1)
    BY <1>2
  <2>. DEFINE h == [i \in 0 .. m |-> IF i = m THEN down[g[m - 1]] ELSE g[i]]
  <2>2. ASSUME NEW i \in 0 .. m PROVE h[i] = IF i = 0 THEN x ELSE down[h[i - 1]]
    <3>1. CASE i = m
      BY <3>1
    <3>2. CASE i # m
      <4>1. g[i] = IF i = 0 THEN x ELSE down[g[i - 1]]
        BY <3>2, <2>1
      <4>2. i # 0 => i - 1 \in 0 .. m /\ i - 1 # m
        OBVIOUS
      <4>3. QED
        BY <4>1, <4>2, <3>2
    <3>3. QED
      BY <3>1, <3>2
  <2>3. Walk(h, m)
    BY <2>2
  <2>. HIDE DEF Walk, h
  <2>4. QED
    BY <2>3
<1>3. \E g : Walk(g, n)
  <2>. HIDE DEF S
  <2>1. \A i \in 0 .. n : i \in S
    BY <1>1, <1>2, UpTo
  <2>2. n \in S
    BY <2>1
  <2>. HIDE DEF Walk
  <2>3. QED
    BY <2>2 DEF S
<1>. DEFINE at == CHOOSE at : Walk(at, n)
<1>4. Walk(at, n)
  <2>. HIDE DEF Walk
  <2>1. QED
    BY <1>3
<1>5. Descend(down, x) = at[n]
  BY DEF Descend
<1>. HIDE DEF at
<1>6. at[0] = x /\ \A i \in 1 .. n : at[i] = down[at[i - 1]]
  BY <1>4
<1>7. QED
  BY <1>5, <1>6

\* A loop whose steps increase a rank, or come to a stop ...
Climbs(S, down, x, rank) ==
  /\ IsFiniteSet(S) /\ down \in [S -> S] /\ x \in S /\ rank \in [S -> Nat]
  /\ \A s \in S : rank[down[s]] > rank[s] \/ down[down[s]] = down[s]

\* ... ends at a fixed point; v is what it passes.
Passes(S, down, x, v) ==
  /\ v \in SUBSET S /\ x \in v /\ Descend(down, x) \in v
  /\ down[Descend(down, x)] = Descend(down, x)
  /\ \A s \in v : down[s] \in v
  /\ \A s \in v : s = x \/ \E r \in v : r # s /\ down[r] = s
  /\ \A s \in v, W \in SUBSET S :
       s \in W /\ (\A r \in W : down[r] \in W) => Descend(down, x) \in W

LEMMA Descends ==
  ASSUME NEW S, NEW down, NEW x, NEW rank, Climbs(S, down, x, rank)
  PROVE  \E v : Passes(S, down, x, v)
<1>0. /\ IsFiniteSet(S) /\ down \in [S -> S] /\ x \in S /\ rank \in [S -> Nat]
      /\ \A s \in S : rank[down[s]] > rank[s] \/ down[down[s]] = down[s]
  BY DEF Climbs
<1>. USE <1>0
<1>. DEFINE n == Cardinality(S)
<1>1. n \in Nat
  BY <1>0, FS_CardinalityType
<1>2. DOMAIN down = S
  BY <1>0
<1>. HIDE DEF n
<1>3. PICK at : /\ at[0] = x /\ Descend(down, x) = at[n]
                /\ \A i \in 1 .. n : at[i] = down[at[i - 1]]
  BY <1>1, <1>2, DescendSteps DEF n
<1>4. \A i \in 0 .. n : at[i] \in S
  <2>. DEFINE T == {i \in 0 .. n : at[i] \in S}
  <2>1. 0 \in T
    BY <1>1, <1>3
  <2>2. ASSUME NEW i \in 1 .. n, i - 1 \in T PROVE i \in T
    BY <1>1, <1>3, <2>2
  <2>. HIDE DEF T
  <2>3. \A i \in 0 .. n : i \in T
    BY <1>1, <2>1, <2>2, UpTo
  <2>4. QED
    BY <2>3 DEF T
<1>5. down[at[n]] = at[n]
  <2>. DEFINE Higher(s) == {r \in S : rank[r] > rank[s]}
              T == {i \in 0 .. n : down[at[i]] = at[i] \/ Cardinality(Higher(at[i])) + i < n}
  <2>1. \A s \in S : IsFiniteSet(Higher(s)) /\ Cardinality(Higher(s)) \in Nat
    BY FS_Subset, FS_CardinalityType
  <2>2. ASSUME NEW s \in S, NEW A \in SUBSET S, IsFiniteSet(A), Higher(s) \subseteq A,
               \E r \in A : r \notin Higher(s)
        PROVE  Cardinality(Higher(s)) < Cardinality(A)
    <3>1. Higher(s) \in SUBSET A /\ Higher(s) # A
      BY <2>2
    <3>. HIDE DEF Higher
    <3>2. Cardinality(Higher(s)) <= Cardinality(A) /\ Cardinality(A) # Cardinality(Higher(s))
      BY <2>2, <3>1, FS_Subset
    <3>3. Cardinality(A) \in Nat /\ Cardinality(Higher(s)) \in Nat
      BY <2>1, <2>2, FS_CardinalityType
    <3>4. QED
      BY <3>2, <3>3
  <2>3. 0 \in T
    <3>1. Cardinality(Higher(x)) < Cardinality(S)
      <4>1. x \notin Higher(x) /\ Higher(x) \subseteq S
        OBVIOUS
      <4>. HIDE DEF Higher
      <4>2. QED
        BY <2>2, <4>1
    <3>2. Cardinality(Higher(x)) + 0 < n
      <4>. HIDE DEF Higher
      <4>1. QED
        BY <2>1, <3>1 DEF n
    <3>. HIDE DEF Higher
    <3>3. QED
      BY <1>1, <1>3, <3>2
  <2>4. ASSUME NEW i \in 1 .. n, i - 1 \in T PROVE i \in T
    <3>. DEFINE s == at[i - 1]
                r == at[i]
    <3>1. s \in S /\ r \in S /\ r = down[s]
      BY <1>1, <1>3, <1>4
    <3>2. CASE down[r] = r
      BY <1>1, <3>2
    <3>3. CASE down[r] # r
      <4>1. down[s] # s /\ down[down[s]] # down[s]
        BY <3>1, <3>3
      <4>2. rank[r] > rank[s]
        BY <3>1, <4>1
      <4>3. Higher(r) \subseteq Higher(s) /\ r \in Higher(s) /\ r \notin Higher(r)
            /\ Higher(s) \in SUBSET S
        BY <3>1, <4>2
      <4>4. Cardinality(Higher(s)) + (i - 1) < n
        BY <1>1, <2>4, <4>1
      <4>. HIDE DEF Higher, s, r
      <4>5. Cardinality(Higher(r)) < Cardinality(Higher(s))
        BY <2>1, <2>2, <3>1, <4>3
      <4>6. Cardinality(Higher(r)) + i < n
        BY <1>1, <2>1, <3>1, <4>4, <4>5
      <4>7. QED
        BY <4>6 DEF r
    <3>4. QED
      BY <3>2, <3>3
  <2>. HIDE DEF T
  <2>5. \A i \in 0 .. n : i \in T
    BY <1>1, <2>3, <2>4, UpTo
  <2>6. n \in T
    BY <1>1, <2>5
  <2>7. at[n] \in S
    BY <1>1, <1>4
  <2>. HIDE DEF Higher
  <2>8. QED
    BY <1>1, <2>1, <2>6, <2>7 DEF T
<1>. DEFINE v == {at[i] : i \in 0 .. n}
<1>6. v \in SUBSET S /\ x \in v /\ at[n] \in v
  BY <1>1, <1>3, <1>4
<1>7. ASSUME NEW s \in v PROVE down[s] \in v
  <2>1. PICK i \in 0 .. n : s = at[i]
    OBVIOUS
  <2>2. CASE i = n
    BY <1>5, <2>1, <2>2
  <2>3. CASE i # n
    <3>1. i + 1 \in 1 .. n /\ i + 1 \in 0 .. n /\ (i + 1) - 1 = i
      BY <1>1, <2>3
    <3>2. at[i + 1] = down[s]
      BY <1>3, <2>1, <3>1
    <3>3. QED
      BY <3>1, <3>2
  <2>4. QED
    BY <2>2, <2>3
<1>8. ASSUME NEW s \in v PROVE s = x \/ \E r \in v : r # s /\ down[r] = s
  <2>. DEFINE T == {i \in 0 .. n : at[i] = x \/ \E r \in v : r # at[i] /\ down[r] = at[i]}
  <2>1. 0 \in T
    BY <1>1, <1>3
  <2>2. ASSUME NEW i \in 1 .. n, i - 1 \in T PROVE i \in T
    <3>1. at[i] = down[at[i - 1]] /\ at[i - 1] \in v
      BY <1>1, <1>3
    <3>2. CASE at[i - 1] = at[i]
      BY <2>2, <3>2
    <3>3. CASE at[i - 1] # at[i]
      BY <3>1, <3>3
    <3>4. QED
      BY <3>2, <3>3
  <2>. HIDE DEF T
  <2>3. \A i \in 0 .. n : i \in T
    BY <1>1, <2>1, <2>2, UpTo
  <2>4. PICK i \in 0 .. n : s = at[i]
    OBVIOUS
  <2>5. QED
    BY <2>3, <2>4 DEF T
<1>9. ASSUME NEW s \in v, NEW W \in SUBSET S, s \in W, \A r \in W : down[r] \in W
      PROVE  at[n] \in W
  <2>1. PICK i \in 0 .. n : s = at[i]
    OBVIOUS
  <2>. DEFINE T == {j \in 0 .. n : j >= i => at[j] \in W}
  <2>2. 0 \in T
    BY <1>1, <1>9, <2>1
  <2>3. ASSUME NEW j \in 1 .. n, j - 1 \in T PROVE j \in T
    <3>1. at[j] = down[at[j - 1]]
      BY <1>3
    <3>2. CASE j > i
      <4>1. at[j - 1] \in W
        BY <1>1, <2>3, <3>2
      <4>2. QED
        BY <1>1, <1>9, <3>1, <4>1
    <3>3. CASE j <= i
      BY <1>1, <1>9, <2>1, <3>3
    <3>4. QED
      BY <1>1, <3>2, <3>3
  <2>. HIDE DEF T
  <2>4. \A j \in 0 .. n : j \in T
    BY <1>1, <2>2, <2>3, UpTo
  <2>5. n \in T
    BY <1>1, <2>4
  <2>6. QED
    BY <1>1, <2>5 DEF T
<1>. HIDE DEF v
<1>10. QED
  BY <1>3, <1>5, <1>6, <1>7, <1>8, <1>9 DEF Passes

-----------------------------------------------------------------------------
(* The links *)

Trees == [left : [Nodes -> Links], right : [Nodes -> Links],
          parent : [Nodes -> Nodes \cup {Null}]]

\* Parents and children name each other, and a chunk out of the tree has none.
Wired(t) ==
  /\ t \in Trees /\ t.parent[Root] = Null /\ t.left[Root] = Null
  /\ \A p \in Nodes : t.left[p] # Null => t.parent[t.left[p]] = p /\ t.left[p] # t.right[p]
  /\ \A p \in Nodes : t.right[p] # Null => t.parent[t.right[p]] = p
  /\ \A c \in Chunks : t.parent[c] # Null =>
       t.left[t.parent[c]] = c \/ t.right[t.parent[c]] = c
  /\ \A c \in Chunks : t.parent[c] = Null => t.left[c] = Null /\ t.right[c] = Null

\* The links go down: no chunk is above itself.
Ranked(t, depth) ==
  /\ depth \in [Nodes -> Nat]
  /\ \A c \in Chunks : t.parent[c] # Null => depth[t.parent[c]] < depth[c]

\* below[x] bounds the sizes of the subtree of x.
Ordered(t, s, below) ==
  /\ below \in [Nodes -> SUBSET Int]
  /\ \A c \in Chunks : t.parent[c] # Null => s[c] \in below[c]
  /\ \A p \in Nodes : t.left[p] # Null =>
       \A n \in below[t.left[p]] : n \in below[p] /\ n <= s[p]
  /\ \A p \in Nodes : t.right[p] # Null =>
       \A n \in below[t.right[p]] : n \in below[p] /\ (p # Root => n > s[p])

LEMMA Distinct == Root \notin Chunks /\ Null \notin Nodes /\ Chunks \subseteq Nodes
                  /\ Nodes = Chunks \cup {Root} /\ Links = Chunks \cup {Null}
  BY KfcAssumption DEF Nodes, Links

\* k in the place of p.
Moved(t, u, p, k) ==
  /\ u \in Trees
  /\ u.left[p] = Null /\ u.right[p] = Null /\ u.parent[p] = Null
  /\ \A x \in Nodes \ {p} :
       /\ t.left[x] = p => u.left[x] = k
       /\ t.left[x] # p => u.left[x] = t.left[x]
       /\ t.right[x] = p => u.right[x] = k
       /\ t.right[x] # p => u.right[x] = t.right[x]
       /\ x = k => u.parent[x] = t.parent[p]
       /\ x # k => u.parent[x] = t.parent[x]

LEMMA ReplaceMoves ==
  ASSUME NEW t, Wired(t), NEW depth, Ranked(t, depth), NEW p \in Chunks, t.parent[p] # Null,
         NEW k \in Links, k # p, k # t.parent[p]
  PROVE  Moved(t, Replace(t, p, k), p, k)
<1>. DEFINE up == t.parent[p]
            u == Replace(t, p, k)
<1>1. /\ t.left \in [Nodes -> Links] /\ t.right \in [Nodes -> Links]
      /\ t.parent \in [Nodes -> Nodes \cup {Null}]
  BY DEF Wired, Trees
<1>2. up \in Nodes /\ up # p /\ p \in Nodes
  <2>1. depth[up] < depth[p] /\ depth \in [Nodes -> Nat]
    BY DEF Ranked
  <2>2. up \in Nodes /\ p \in Nodes
    BY <1>1, Distinct
  <2>3. QED
    BY <2>1, <2>2
<1>3. \A x \in Nodes : /\ t.left[x] = p => x = up /\ t.right[x] # p
                       /\ t.right[x] = p => x = up
  BY Distinct DEF Wired
<1>4. t.left[up] = p \/ t.right[up] = p
  BY DEF Wired
<1>. DEFINE onRight == t.right[up] = p
            moved == IF k = Null THEN t.parent ELSE [t.parent EXCEPT ![k] = up]
<1>5. /\ u.left = [t.left EXCEPT ![up] = IF onRight THEN @ ELSE k, ![p] = Null]
      /\ u.right = [t.right EXCEPT ![up] = IF onRight THEN k ELSE @, ![p] = Null]
      /\ u.parent = [moved EXCEPT ![p] = Null]
      /\ u = [left |-> u.left, right |-> u.right, parent |-> u.parent]
  BY DEF Replace
<1>6. moved \in [Nodes -> Nodes \cup {Null}] /\ \A x \in Nodes :
         /\ x = k => moved[x] = up
         /\ x # k => moved[x] = t.parent[x]
  BY <1>1, <1>2, Distinct
<1>. HIDE DEF moved, u, up
<1>7. u.left \in [Nodes -> Links] /\ u.left[p] = Null /\ \A x \in Nodes \ {p} :
         /\ t.left[x] = p => u.left[x] = k
         /\ t.left[x] # p => u.left[x] = t.left[x]
  BY <1>1, <1>2, <1>3, <1>4, <1>5, Distinct
<1>8. u.right \in [Nodes -> Links] /\ u.right[p] = Null /\ \A x \in Nodes \ {p} :
         /\ t.right[x] = p => u.right[x] = k
         /\ t.right[x] # p => u.right[x] = t.right[x]
  BY <1>1, <1>2, <1>3, <1>4, <1>5, Distinct
<1>9. u.parent \in [Nodes -> Nodes \cup {Null}] /\ u.parent[p] = Null
      /\ \A x \in Nodes \ {p} : /\ x = k => u.parent[x] = up
                                /\ x # k => u.parent[x] = t.parent[x]
  BY <1>2, <1>5, <1>6
<1>10. u \in Trees
  BY <1>5, <1>7, <1>8, <1>9 DEF Trees
<1>11. QED
  BY <1>7, <1>8, <1>9, <1>10 DEF Moved, u, up

\* Splicing p out keeps the rest, and every bound on the sizes below.
LEMMA SpliceKeeps ==
  ASSUME NEW t, Wired(t), NEW depth, Ranked(t, depth), NEW p \in Chunks, t.parent[p] # Null,
         t.left[p] = Null \/ t.right[p] = Null
  PROVE  \E k \in {t.left[p], t.right[p]} :
           /\ Moved(t, Splice(t, p), p, k)
           /\ Wired(Splice(t, p)) /\ Ranked(Splice(t, p), depth)
           /\ \A s, below : Ordered(t, s, below) => Ordered(Splice(t, p), s, below)
<1>. DEFINE k == IF t.left[p] = Null THEN t.right[p] ELSE t.left[p]
            up == t.parent[p]
            u == Splice(t, p)
<1>1. k \in Links /\ p \in Nodes /\ up \in Nodes
  BY Distinct DEF Wired, Trees
<1>2. /\ k # Null => t.parent[k] = p
      /\ t.left[p] \in {k, Null} /\ t.right[p] \in {k, Null} /\ k \in {t.left[p], t.right[p]}
  BY <1>1 DEF Wired
<1>3. depth[up] < depth[p] /\ (k # Null => k \in Chunks /\ depth[p] < depth[k])
      /\ \A x \in Nodes : depth[x] \in Nat
  BY <1>1, <1>2, Distinct DEF Ranked
<1>4. k # p /\ k # up /\ up # p
  BY <1>1, <1>3, Distinct
<1>5. u = Replace(t, p, k)
  BY DEF Splice
<1>. HIDE DEF k
<1>6. Moved(t, u, p, k)
  BY <1>1, <1>4, <1>5, ReplaceMoves
<1>. HIDE DEF u
<1>7. Wired(u)
  <2>1. u.parent[Root] = Null /\ u.left[Root] = Null
    BY <1>1, <1>3, <1>6, Distinct DEF Moved, Wired
  <2>2. ASSUME NEW x \in Nodes, u.left[x] # Null
        PROVE  u.parent[u.left[x]] = x /\ u.left[x] # u.right[x]
    <3>1. x # p /\ x \in Nodes
      BY <1>6, <2>2 DEF Moved
    <3>2. CASE t.left[x] = p
      <4>1. u.left[x] = k /\ x = up /\ k \in Chunks
        BY <1>1, <1>6, <2>2, <3>1, <3>2, Distinct DEF Moved, Wired
      <4>2. u.right[x] = t.right[x]
        BY <1>6, <3>1, <3>2, Distinct DEF Moved, Wired
      <4>3. u.parent[k] = up
        BY <1>4, <1>6, <4>1, Distinct DEF Moved
      <4>4. t.right[x] # k
        BY <1>2, <1>4, <3>1, <4>1, Distinct DEF Wired
      <4>5. QED
        BY <4>1, <4>2, <4>3, <4>4
    <3>3. CASE t.left[x] # p
      <4>1. u.left[x] = t.left[x]
        BY <1>6, <3>1, <3>3 DEF Moved
      <4>2. t.parent[t.left[x]] = x /\ t.left[x] # t.right[x] /\ t.left[x] \in Chunks
        BY <2>2, <4>1, Distinct DEF Wired, Trees
      <4>3. t.left[x] # k
        BY <1>2, <2>2, <3>1, <4>1, <4>2
      <4>4. u.parent[t.left[x]] = x
        BY <1>6, <3>3, <4>2, <4>3, Distinct DEF Moved
      <4>5. u.right[x] \in {k, t.right[x]}
        BY <1>6, <3>1 DEF Moved
      <4>6. QED
        BY <4>1, <4>2, <4>3, <4>4, <4>5
    <3>4. QED
      BY <3>2, <3>3
  <2>3. ASSUME NEW x \in Nodes, u.right[x] # Null PROVE u.parent[u.right[x]] = x
    <3>1. x # p /\ x \in Nodes
      BY <1>6, <2>3 DEF Moved
    <3>2. CASE t.right[x] = p
      <4>1. u.right[x] = k /\ x = up /\ k \in Chunks
        BY <1>1, <1>6, <2>3, <3>1, <3>2, Distinct DEF Moved, Wired
      <4>2. QED
        BY <1>4, <1>6, <4>1, Distinct DEF Moved
    <3>3. CASE t.right[x] # p
      <4>1. u.right[x] = t.right[x]
        BY <1>6, <3>1, <3>3 DEF Moved
      <4>2. t.parent[t.right[x]] = x /\ t.right[x] \in Chunks
        BY <2>3, <4>1, Distinct DEF Wired, Trees
      <4>3. t.right[x] # k
        BY <1>2, <2>3, <3>1, <4>1, <4>2
      <4>4. QED
        BY <1>6, <3>3, <4>1, <4>2, <4>3, Distinct DEF Moved
    <3>4. QED
      BY <3>2, <3>3
  <2>4. ASSUME NEW c \in Chunks, u.parent[c] # Null
        PROVE  u.left[u.parent[c]] = c \/ u.right[u.parent[c]] = c
    <3>1. c # p /\ c \in Nodes
      BY <1>6, <2>4, Distinct DEF Moved
    <3>2. CASE c = k
      <4>1. u.parent[c] = up /\ (t.left[up] = p \/ t.right[up] = p)
        BY <1>6, <3>1, <3>2 DEF Moved, Wired
      <4>2. QED
        BY <1>1, <1>4, <1>6, <3>2, <4>1 DEF Moved
    <3>3. CASE c # k
      <4>1. u.parent[c] = t.parent[c] /\ t.parent[c] \in Nodes
        BY <1>6, <2>4, <3>1, <3>3 DEF Moved, Wired, Trees
      <4>2. t.left[t.parent[c]] = c \/ t.right[t.parent[c]] = c
        BY <2>4, <4>1 DEF Wired
      <4>3. t.parent[c] # p
        BY <1>2, <3>3, <4>2, Distinct
      <4>4. QED
        BY <1>6, <3>1, <4>1, <4>2, <4>3 DEF Moved
    <3>4. QED
      BY <3>2, <3>3
  <2>5. ASSUME NEW c \in Chunks, u.parent[c] = Null
        PROVE  u.left[c] = Null /\ u.right[c] = Null
    <3>1. CASE c = p
      BY <1>6, <3>1 DEF Moved
    <3>2. CASE c # p
      <4>1. c # k
        BY <1>1, <1>6, <2>5, <3>2, Distinct DEF Moved
      <4>2. t.parent[c] = Null
        BY <1>6, <2>5, <3>2, <4>1, Distinct DEF Moved
      <4>3. t.left[c] = Null /\ t.right[c] = Null
        BY <4>2 DEF Wired
      <4>4. QED
        BY <1>6, <3>2, <4>3, Distinct DEF Moved
    <3>3. QED
      BY <3>1, <3>2
  <2>6. u \in Trees
    BY <1>6 DEF Moved
  <2>7. QED
    BY <2>1, <2>2, <2>3, <2>4, <2>5, <2>6 DEF Wired
<1>8. Ranked(u, depth)
  <2>1. ASSUME NEW c \in Chunks, u.parent[c] # Null PROVE depth[u.parent[c]] < depth[c]
    <3>1. c # p /\ c \in Nodes
      BY <1>6, <2>1, Distinct DEF Moved
    <3>2. CASE c = k
      BY <1>1, <1>3, <1>6, <3>1, <3>2, Distinct DEF Moved
    <3>3. CASE c # k
      BY <1>6, <2>1, <3>1, <3>3 DEF Moved, Ranked
    <3>4. QED
      BY <3>2, <3>3
  <2>2. QED
    BY <2>1 DEF Ranked
<1>9. ASSUME NEW s, NEW below, Ordered(t, s, below) PROVE Ordered(u, s, below)
  <2>1. ASSUME NEW c \in Chunks, u.parent[c] # Null PROVE s[c] \in below[c]
    <3>1. t.parent[c] # Null
      BY <1>1, <1>2, <1>6, <2>1, Distinct DEF Moved
    <3>2. QED
      BY <1>9, <3>1 DEF Ordered
  <2>2. \A n : k # Null /\ n \in below[k] => n \in below[p]
    BY <1>1, <1>2, <1>9 DEF Ordered
  <2>3. ASSUME NEW x \in Nodes, u.left[x] # Null, NEW n \in below[u.left[x]]
        PROVE  n \in below[x] /\ n <= s[x]
    <3>1. x # p
      BY <1>6, <2>3 DEF Moved
    <3>2. t.left[x] # Null /\ n \in below[t.left[x]]
      BY <1>6, <2>2, <2>3, <3>1, Distinct DEF Moved
    <3>3. QED
      BY <1>9, <3>2 DEF Ordered
  <2>4. ASSUME NEW x \in Nodes, u.right[x] # Null, NEW n \in below[u.right[x]]
        PROVE  n \in below[x] /\ (x # Root => n > s[x])
    <3>1. x # p
      BY <1>6, <2>4 DEF Moved
    <3>2. t.right[x] # Null /\ n \in below[t.right[x]]
      BY <1>6, <2>2, <2>4, <3>1, Distinct DEF Moved
    <3>3. QED
      BY <1>9, <3>2 DEF Ordered
  <2>5. QED
    BY <1>9, <2>1, <2>3, <2>4 DEF Ordered
<1>10. QED
  BY <1>2, <1>6, <1>7, <1>8, <1>9 DEF u

\* q with the links of p.
Swapped(t, u, p, q) ==
  /\ u \in Trees
  /\ u.left[p] = Null /\ u.right[p] = Null /\ u.parent[p] = Null
  /\ u.left[q] = t.left[p] /\ u.right[q] = t.right[p] /\ u.parent[q] = t.parent[p]
  /\ \A x \in Nodes \ {p, q} :
       /\ t.left[x] = p => u.left[x] = q
       /\ t.left[x] # p => u.left[x] = t.left[x]
       /\ t.right[x] = p => u.right[x] = q
       /\ t.right[x] # p => u.right[x] = t.right[x]
       /\ t.parent[x] = p => u.parent[x] = q
       /\ t.parent[x] # p => u.parent[x] = t.parent[x]

LEMMA TakePlaceSwaps ==
  ASSUME NEW t, Wired(t), NEW depth, Ranked(t, depth), NEW p \in Chunks, t.parent[p] # Null,
         NEW q \in Chunks, q # p, t.parent[q] = Null
  PROVE  Swapped(t, TakePlace(t, p, q), p, q)
<1>. DEFINE up == t.parent[p]
            r == Replace(t, p, q)
            u == TakePlace(t, p, q)
            adopted == {t.left[p], t.right[p]} \ {Null}
<1>1. /\ t.left \in [Nodes -> Links] /\ t.right \in [Nodes -> Links]
      /\ t.parent \in [Nodes -> Nodes \cup {Null}] /\ p \in Nodes /\ q \in Nodes /\ up \in Nodes
  BY Distinct DEF Wired, Trees
<1>2. t.left[up] = p \/ t.right[up] = p
  BY DEF Wired
<1>3. q # up /\ q \in Links
  BY <1>2, Distinct DEF Wired
<1>4. Moved(t, r, p, q)
  BY <1>3, ReplaceMoves
<1>5. \A x \in Nodes : x \in adopted <=> t.parent[x] = p
  BY <1>1, Distinct DEF Wired
<1>6. p \notin adopted /\ q \notin adopted
  BY <1>1, <1>5, Distinct DEF Ranked
<1>7. u.left = [r.left EXCEPT ![q] = t.left[p]] /\ u.right = [r.right EXCEPT ![q] = t.right[p]]
      /\ u.parent = [x \in Nodes |-> IF x \in adopted THEN q ELSE r.parent[x]]
      /\ u = [left |-> u.left, right |-> u.right, parent |-> u.parent]
  BY DEF TakePlace
<1>. HIDE DEF u, r, adopted, up
<1>8. /\ r.left \in [Nodes -> Links] /\ r.right \in [Nodes -> Links]
      /\ r.parent \in [Nodes -> Nodes \cup {Null}]
  BY <1>4 DEF Moved, Trees
<1>9. /\ u.left \in [Nodes -> Links] /\ u.left[q] = t.left[p]
      /\ \A x \in Nodes \ {q} : u.left[x] = r.left[x]
      /\ u.right \in [Nodes -> Links] /\ u.right[q] = t.right[p]
      /\ \A x \in Nodes \ {q} : u.right[x] = r.right[x]
  BY <1>1, <1>7, <1>8
<1>10. u.parent \in [Nodes -> Nodes \cup {Null}]
  BY <1>1, <1>7, <1>8
<1>11. \A x \in Nodes : /\ x \in adopted => u.parent[x] = q
                        /\ x \notin adopted => u.parent[x] = r.parent[x]
  BY <1>7
<1>12. u \in Trees
  BY <1>7, <1>9, <1>10 DEF Trees
<1>13. /\ u.left[p] = Null /\ u.right[p] = Null /\ u.parent[p] = Null /\ u.parent[q] = t.parent[p]
  BY <1>1, <1>4, <1>6, <1>9, <1>11 DEF Moved, up
<1>14. \A x \in Nodes \ {p, q} :
         /\ t.left[x] = p => u.left[x] = q
         /\ t.left[x] # p => u.left[x] = t.left[x]
         /\ t.right[x] = p => u.right[x] = q
         /\ t.right[x] # p => u.right[x] = t.right[x]
  BY <1>4, <1>9 DEF Moved
<1>15. \A x \in Nodes \ {p, q} : /\ t.parent[x] = p => u.parent[x] = q
                                 /\ t.parent[x] # p => u.parent[x] = t.parent[x]
  BY <1>4, <1>5, <1>11 DEF Moved
<1>16. QED
  BY <1>9, <1>12, <1>13, <1>14, <1>15 DEF Swapped, u

LEMMA TakePlaceKeeps ==
  ASSUME NEW t, Wired(t), NEW depth, Ranked(t, depth), NEW p \in Chunks, t.parent[p] # Null,
         NEW q \in Chunks, q # p, t.parent[q] = Null
  PROVE  LET u == TakePlace(t, p, q)
         IN  /\ Wired(u) /\ Ranked(u, [depth EXCEPT ![q] = depth[p]])
             /\ \A c \in Chunks : u.parent[c] = Null <=> c = p \/ (c # q /\ t.parent[c] = Null)
             /\ \A s, below :
                  /\ Ordered(t, s, below) /\ s[q] \in below[p]
                  /\ t.left[p] # Null => \A n \in below[t.left[p]] : n <= s[q]
                  /\ t.right[p] # Null => \A n \in below[t.right[p]] : n > s[q]
                  => Ordered(u, s, [below EXCEPT ![q] = below[p]])
<1>. DEFINE u == TakePlace(t, p, q)
            up == t.parent[p]
            deep == [depth EXCEPT ![q] = depth[p]]
<1>1. Swapped(t, u, p, q)
  BY TakePlaceSwaps
<1>2. p \in Nodes /\ q \in Nodes /\ up \in Nodes /\ p # Root /\ q # Root /\ up # p /\ up # q
  <2>1. depth[up] < depth[p] /\ depth[p] \in Nat
    BY Distinct DEF Ranked
  <2>2. t.left[up] = p \/ t.right[up] = p
    BY DEF Wired
  <2>3. QED
    BY <2>1, <2>2, Distinct DEF Wired, Trees
<1>. HIDE DEF u
<1>3. \A x \in Nodes : t.left[x] # q /\ t.right[x] # q
  BY <1>2, Distinct DEF Wired
<1>4. t.left[q] = Null /\ t.right[q] = Null
  BY DEF Wired
<1>5. t \in Trees /\ \A x \in Nodes : t.left[x] \in Links /\ t.right[x] \in Links
  BY DEF Wired, Trees
<1>6. ASSUME NEW x \in Nodes, u.left[x] # Null
      PROVE  u.parent[u.left[x]] = x /\ u.left[x] # u.right[x]
  <2>1. x # p
    BY <1>1, <1>6 DEF Swapped
  <2>2. CASE x = q
    <3>1. u.left[x] = t.left[p] /\ u.right[x] = t.right[p]
      BY <1>1, <2>2 DEF Swapped
    <3>2. t.parent[t.left[p]] = p /\ t.left[p] # t.right[p] /\ t.left[p] \in Nodes \ {p, q}
      BY <1>2, <1>3, <1>5, <1>6, <3>1, Distinct DEF Wired, Ranked
    <3>3. QED
      BY <1>1, <2>2, <3>1, <3>2 DEF Swapped
  <2>3. CASE x # q /\ t.left[x] = p
    <3>1. u.left[x] = q /\ u.parent[q] = up /\ x = up
      BY <1>1, <1>2, <2>1, <2>3, Distinct DEF Swapped, Wired
    <3>2. u.right[x] = t.right[x]
      BY <1>1, <1>2, <2>1, <2>3, Distinct DEF Swapped, Wired
    <3>3. QED
      BY <1>3, <3>1, <3>2
  <2>4. CASE x # q /\ t.left[x] # p
    <3>1. u.left[x] = t.left[x]
      BY <1>1, <2>1, <2>4 DEF Swapped
    <3>2. t.parent[t.left[x]] = x /\ t.left[x] # t.right[x] /\ t.left[x] \in Nodes \ {p, q}
      BY <1>3, <1>5, <1>6, <2>4, <3>1, Distinct DEF Wired
    <3>3. u.parent[t.left[x]] = x
      BY <1>1, <2>1, <3>2 DEF Swapped
    <3>4. u.right[x] \in {q, t.right[x]}
      BY <1>1, <2>1, <2>4 DEF Swapped
    <3>5. QED
      BY <3>1, <3>2, <3>3, <3>4
  <2>5. QED
    BY <2>2, <2>3, <2>4
<1>7. ASSUME NEW x \in Nodes, u.right[x] # Null PROVE u.parent[u.right[x]] = x
  <2>1. x # p
    BY <1>1, <1>7 DEF Swapped
  <2>2. CASE x = q
    <3>1. u.right[x] = t.right[p]
      BY <1>1, <2>2 DEF Swapped
    <3>2. t.parent[t.right[p]] = p /\ t.right[p] \in Nodes \ {p, q}
      BY <1>2, <1>3, <1>5, <1>7, <3>1, Distinct DEF Wired, Ranked
    <3>3. QED
      BY <1>1, <2>2, <3>1, <3>2 DEF Swapped
  <2>3. CASE x # q /\ t.right[x] = p
    BY <1>1, <1>2, <2>1, <2>3, Distinct DEF Swapped, Wired
  <2>4. CASE x # q /\ t.right[x] # p
    <3>1. u.right[x] = t.right[x]
      BY <1>1, <2>1, <2>4 DEF Swapped
    <3>2. t.parent[t.right[x]] = x /\ t.right[x] \in Nodes \ {p, q}
      BY <1>3, <1>5, <1>7, <2>4, <3>1, Distinct DEF Wired
    <3>3. QED
      BY <1>1, <2>1, <3>1, <3>2 DEF Swapped
  <2>5. QED
    BY <2>2, <2>3, <2>4
<1>8. ASSUME NEW c \in Chunks, u.parent[c] # Null
      PROVE  u.left[u.parent[c]] = c \/ u.right[u.parent[c]] = c
  <2>1. c # p /\ c \in Nodes
    BY <1>1, <1>8, Distinct DEF Swapped
  <2>2. CASE c = q
    <3>1. u.parent[c] = up /\ (t.left[up] = p \/ t.right[up] = p)
      BY <1>1, <2>2 DEF Swapped, Wired
    <3>2. QED
      BY <1>1, <1>2, <2>2, <3>1 DEF Swapped
  <2>3. CASE c # q /\ t.parent[c] = p
    <3>1. u.parent[c] = q /\ (t.left[p] = c \/ t.right[p] = c)
      BY <1>1, <1>2, <2>1, <2>3, Distinct DEF Swapped, Wired
    <3>2. QED
      BY <1>1, <3>1 DEF Swapped
  <2>4. CASE c # q /\ t.parent[c] # p
    <3>1. u.parent[c] = t.parent[c] /\ t.parent[c] \in Nodes
      BY <1>1, <1>8, <2>1, <2>4 DEF Swapped, Wired, Trees
    <3>2. t.left[t.parent[c]] = c \/ t.right[t.parent[c]] = c
      BY <1>8, <3>1 DEF Wired
    <3>3. t.parent[c] # q
      BY <1>4, <2>1, <3>2, Distinct
    <3>4. QED
      BY <1>1, <2>1, <2>4, <3>1, <3>2, <3>3 DEF Swapped
  <2>5. QED
    BY <2>2, <2>3, <2>4
<1>9. \A c \in Chunks : u.parent[c] = Null <=> c = p \/ (c # q /\ t.parent[c] = Null)
  BY <1>1, <1>2, Distinct DEF Swapped
<1>10. Wired(u)
  <2>1. u.parent[Root] = Null /\ u.left[Root] = Null
    BY <1>1, <1>2, Distinct DEF Swapped, Wired
  <2>2. ASSUME NEW c \in Chunks, u.parent[c] = Null PROVE u.left[c] = Null /\ u.right[c] = Null
    <3>1. CASE c = p
      BY <1>1, <3>1 DEF Swapped
    <3>2. CASE c # p
      <4>1. c # q /\ t.parent[c] = Null
        BY <1>9, <2>2, <3>2
      <4>2. t.left[c] = Null /\ t.right[c] = Null
        BY <4>1 DEF Wired
      <4>3. QED
        BY <1>1, <3>2, <4>1, <4>2, Distinct DEF Swapped
    <3>3. QED
      BY <3>1, <3>2
  <2>3. QED
    BY <1>1, <1>6, <1>7, <1>8, <2>1, <2>2 DEF Wired, Swapped
<1>11. Ranked(u, deep)
  <2>1. deep \in [Nodes -> Nat] /\ deep[q] = depth[p] /\ \A x \in Nodes \ {q} : deep[x] = depth[x]
    BY <1>2 DEF Ranked
  <2>. HIDE DEF deep
  <2>2. ASSUME NEW c \in Chunks, u.parent[c] # Null PROVE deep[u.parent[c]] < deep[c]
    <3>1. c # p /\ c \in Nodes
      BY <1>1, <2>2, Distinct DEF Swapped
    <3>2. CASE c = q
      BY <1>1, <1>2, <2>1, <3>2 DEF Swapped, Ranked
    <3>3. CASE c # q /\ t.parent[c] = p
      BY <1>1, <1>2, <2>1, <3>1, <3>3, Distinct DEF Swapped, Ranked
    <3>4. CASE c # q /\ t.parent[c] # p
      <4>1. u.parent[c] = t.parent[c] /\ t.parent[c] \in Nodes
        BY <1>1, <2>2, <3>1, <3>4 DEF Swapped, Wired, Trees
      <4>2. t.parent[c] # q
        BY <1>4, <2>2, <4>1, Distinct DEF Wired
      <4>3. QED
        BY <2>1, <2>2, <3>1, <3>4, <4>1, <4>2, Distinct DEF Ranked
    <3>5. QED
      BY <3>2, <3>3, <3>4
  <2>3. QED
    BY <2>1, <2>2 DEF Ranked
<1>12. ASSUME NEW s, NEW below, Ordered(t, s, below), s[q] \in below[p],
              t.left[p] # Null => \A n \in below[t.left[p]] : n <= s[q],
              t.right[p] # Null => \A n \in below[t.right[p]] : n > s[q]
       PROVE  Ordered(u, s, [below EXCEPT ![q] = below[p]])
  <2>. DEFINE b == [below EXCEPT ![q] = below[p]]
  <2>1. b \in [Nodes -> SUBSET Int] /\ b[q] = below[p] /\ \A x \in Nodes \ {q} : b[x] = below[x]
    BY <1>2, <1>12 DEF Ordered
  <2>. HIDE DEF b
  <2>2. ASSUME NEW c \in Chunks, u.parent[c] # Null PROVE s[c] \in b[c]
    <3>1. CASE c = q
      BY <1>12, <2>1, <3>1
    <3>2. CASE c # q
      BY <1>9, <1>12, <2>1, <2>2, <3>2, Distinct DEF Ordered
    <3>3. QED
      BY <3>1, <3>2
  <2>3. ASSUME NEW x \in Nodes, u.left[x] # Null, NEW n \in b[u.left[x]]
        PROVE  n \in b[x] /\ n <= s[x]
    <3>1. x # p
      BY <1>1, <2>3 DEF Swapped
    <3>2. CASE x = q
      <4>1. u.left[x] = t.left[p] /\ t.left[p] \in Nodes \ {q}
        BY <1>1, <1>2, <1>3, <1>5, <2>3, <3>2, Distinct DEF Swapped
      <4>2. QED
        BY <1>2, <1>12, <2>1, <2>3, <3>2, <4>1 DEF Ordered
    <3>3. CASE x # q /\ t.left[x] = p
      <4>1. u.left[x] = q
        BY <1>1, <3>1, <3>3 DEF Swapped
      <4>2. QED
        BY <1>12, <2>1, <2>3, <3>3, <4>1, Distinct DEF Ordered
    <3>4. CASE x # q /\ t.left[x] # p
      <4>1. u.left[x] = t.left[x] /\ t.left[x] \in Nodes \ {q}
        BY <1>1, <1>3, <1>5, <2>3, <3>1, <3>4, Distinct DEF Swapped
      <4>2. QED
        BY <1>12, <2>1, <2>3, <3>4, <4>1 DEF Ordered
    <3>5. QED
      BY <3>2, <3>3, <3>4
  <2>4. ASSUME NEW x \in Nodes, u.right[x] # Null, NEW n \in b[u.right[x]]
        PROVE  n \in b[x] /\ (x # Root => n > s[x])
    <3>1. x # p
      BY <1>1, <2>4 DEF Swapped
    <3>2. CASE x = q
      <4>1. u.right[x] = t.right[p] /\ t.right[p] \in Nodes \ {q}
        BY <1>1, <1>2, <1>3, <1>5, <2>4, <3>2, Distinct DEF Swapped
      <4>2. QED
        BY <1>2, <1>12, <2>1, <2>4, <3>2, <4>1 DEF Ordered
    <3>3. CASE x # q /\ t.right[x] = p
      <4>1. u.right[x] = q
        BY <1>1, <3>1, <3>3 DEF Swapped
      <4>2. QED
        BY <1>12, <2>1, <2>4, <3>3, <4>1, Distinct DEF Ordered
    <3>4. CASE x # q /\ t.right[x] # p
      <4>1. u.right[x] = t.right[x] /\ t.right[x] \in Nodes \ {q}
        BY <1>1, <1>3, <1>5, <2>4, <3>1, <3>4, Distinct DEF Swapped
      <4>2. QED
        BY <1>12, <2>1, <2>4, <3>4, <4>1 DEF Ordered
    <3>5. QED
      BY <3>2, <3>3, <3>4
  <2>5. QED
    BY <2>1, <2>2, <2>3, <2>4 DEF Ordered, b
<1>13. QED
  BY <1>9, <1>10, <1>11, <1>12 DEF u

LEMMA NodesFinite == IsFiniteSet(Nodes)
  BY KfcAssumption, FS_AddElement DEF Nodes

\* The rightmost node below the left child of p is the largest there: bounds on
\* the sizes can be lowered to its size.
LEMMA RightmostIsLargest ==
  ASSUME NEW t, Wired(t), NEW depth, Ranked(t, depth), NEW p \in Chunks, t.parent[p] # Null,
         t.left[p] # Null
  PROVE  LET q == Rightmost(t, t.left[p])
         IN  /\ q \in Chunks /\ q # p /\ t.parent[q] # Null /\ t.right[q] = Null
             /\ \A s \in [Chunks -> Int] : \A below : Ordered(t, s, below) =>
                  \E lower : /\ Ordered(t, s, lower) /\ lower[p] = below[p]
                             /\ s[q] \in lower[t.left[p]]
                             /\ \A n \in lower[t.left[p]] : n <= s[q]
<1>. DEFINE down == [x \in Nodes |-> IF t.right[x] = Null THEN x ELSE t.right[x]]
            q == Rightmost(t, t.left[p])
            W == {x \in Chunks : t.parent[x] # Null /\ depth[x] > depth[p]}
<1>1. \A x \in Nodes : /\ t.left[x] \in Links /\ t.right[x] \in Links /\ depth[x] \in Nat
                       /\ t.right[x] # Null => t.right[x] \in Chunks /\ t.parent[t.right[x]] = x
                                               /\ depth[t.right[x]] > depth[x]
  BY Distinct DEF Wired, Trees, Ranked
<1>2. t.left[p] \in W /\ t.left[p] \in Nodes
  BY <1>1, Distinct DEF Wired, Ranked
<1>3. down \in [Nodes -> Nodes] /\ \A x \in Nodes : down[x] = x \/ depth[down[x]] > depth[x]
  BY <1>1, Distinct
<1>4. q = Descend(down, t.left[p])
  BY DEF Rightmost
<1>5. \A x \in W : down[x] \in W
  BY <1>1, Distinct
<1>6. W \in SUBSET Nodes
  BY Distinct
<1>7. \A x \in Nodes : /\ t.right[x] # Null => down[x] = t.right[x]
                       /\ t.right[x] = Null => down[x] = x
  OBVIOUS
<1>8. depth \in [Nodes -> Nat]
  BY DEF Ranked
<1>. HIDE DEF down, q
<1>9. \A x \in Nodes : depth[down[x]] > depth[x] \/ down[down[x]] = down[x]
  BY <1>3
<1>10. PICK v \in SUBSET Nodes :
         /\ t.left[p] \in v /\ q \in v /\ down[q] = q
         /\ \A x \in v : down[x] \in v
         /\ \A x \in v, Z \in SUBSET Nodes : x \in Z /\ (\A y \in Z : down[y] \in Z) => q \in Z
  <2>1. Climbs(Nodes, down, t.left[p], depth)
    BY <1>2, <1>3, <1>8, <1>9, NodesFinite DEF Climbs
  <2>2. PICK v : Passes(Nodes, down, t.left[p], v)
    BY <2>1, Descends
  <2>3. QED
    BY <1>4, <2>2 DEF Passes
<1>11. q \in W
  BY <1>2, <1>5, <1>6, <1>10
<1>12. t.right[q] = Null
  <2>1. q \in Nodes /\ (t.right[q] # Null => t.right[q] # q)
    BY <1>1, <1>6, <1>11
  <2>2. QED
    BY <1>7, <1>10, <2>1
<1>13. q \in Chunks /\ q # p /\ t.parent[q] # Null
  BY <1>1, <1>11, Distinct
<1>14. ASSUME NEW s \in [Chunks -> Int], NEW below, Ordered(t, s, below)
       PROVE  \E lower : /\ Ordered(t, s, lower) /\ lower[p] = below[p]
                         /\ s[q] \in lower[t.left[p]]
                         /\ \A n \in lower[t.left[p]] : n <= s[q]
  <2>1. below \in [Nodes -> SUBSET Int] /\ s[q] \in below[q]
    BY <1>13, <1>14 DEF Ordered
  <2>2. ASSUME NEW x \in v PROVE s[q] \in below[x]
    <3>. DEFINE Z == {y \in Nodes : below[y] \subseteq below[x]}
    <3>1. ASSUME NEW y \in Z PROVE down[y] \in Z
      <4>1. y \in Nodes /\ down[y] \in Nodes /\ below[y] \subseteq below[x]
        BY <1>3
      <4>2. below[down[y]] \subseteq below[y]
        BY <1>7, <1>14, <4>1 DEF Ordered
      <4>3. QED
        BY <4>1, <4>2
    <3>2. x \in Z /\ Z \in SUBSET Nodes
      OBVIOUS
    <3>3. q \in Z
      <4>. HIDE DEF Z
      <4>1. QED
        BY <1>10, <3>1, <3>2
    <3>4. QED
      BY <2>1, <3>3
  <2>3. ASSUME NEW x \in v, x \in W, x # q
        PROVE  s[x] < s[q] /\ t.right[x] \in v \cap W
    <3>1. x \in Nodes /\ x # Root /\ x \in Chunks
      BY <2>3, Distinct
    <3>2. t.right[x] # Null
      <4>1. ASSUME t.right[x] = Null PROVE FALSE
        <5>1. down[x] = x
          BY <1>7, <3>1, <4>1
        <5>2. \A y \in {x} : down[y] \in {x}
          BY <5>1
        <5>3. q \in {x}
          BY <1>10, <3>1, <5>2
        <5>4. QED
          BY <2>3, <5>3
      <4>2. QED
        BY <4>1
    <3>3. t.right[x] \in v \cap W
      BY <1>5, <1>7, <1>10, <2>3, <3>1, <3>2
    <3>4. s[q] \in below[t.right[x]]
      BY <2>2, <3>3
    <3>5. s[q] > s[x]
      BY <1>14, <3>1, <3>2, <3>4 DEF Ordered
    <3>6. QED
      BY <1>13, <3>1, <3>3, <3>5
  <2>. DEFINE lower == [x \in Nodes |-> IF x \in v \cap W THEN {n \in below[x] : n <= s[q]}
                                        ELSE below[x]]
  <2>4. s[q] \in Int /\ \A x \in Chunks : s[x] \in Int
    BY <1>13
  <2>5. lower \in [Nodes -> SUBSET Int]
        /\ \A x \in Nodes : /\ lower[x] \subseteq below[x]
                            /\ \A n \in lower[x] : x \in v \cap W => n <= s[q]
                            /\ \A n \in below[x] : (x \in v \cap W => n <= s[q]) => n \in lower[x]
    BY <2>1
  <2>. HIDE DEF lower, W
  <2>6. ASSUME NEW c \in Chunks, t.parent[c] # Null PROVE s[c] \in lower[c]
    <3>1. s[c] \in below[c] /\ c \in Nodes
      BY <1>14, <2>6, Distinct DEF Ordered
    <3>2. c \in v \cap W => s[c] <= s[q]
      BY <2>3, <2>4
    <3>3. QED
      BY <2>5, <3>1, <3>2
  <2>7. ASSUME NEW x \in Nodes, t.left[x] # Null, NEW n \in lower[t.left[x]]
        PROVE  n \in lower[x] /\ n <= s[x]
    <3>1. n \in below[t.left[x]] /\ x # Root
      BY <1>1, <2>5, <2>7, Distinct DEF Wired
    <3>2. n \in below[x] /\ n <= s[x] /\ n \in Int /\ x \in Chunks
      BY <1>14, <2>1, <2>7, <3>1, Distinct DEF Ordered
    <3>3. x \in v \cap W => s[x] <= s[q]
      BY <2>3, <2>4, <3>2
    <3>4. QED
      BY <2>4, <2>5, <3>2, <3>3
  <2>8. ASSUME NEW x \in Nodes, t.right[x] # Null, NEW n \in lower[t.right[x]]
        PROVE  n \in lower[x] /\ (x # Root => n > s[x])
    <3>1. n \in below[t.right[x]] /\ t.right[x] \in Nodes
      BY <1>1, <2>5, <2>8, Distinct
    <3>2. n \in below[x] /\ (x # Root => n > s[x])
      BY <1>14, <2>8, <3>1 DEF Ordered
    <3>3. x \in v \cap W => t.right[x] \in v \cap W
      BY <1>12, <2>3, <2>8
    <3>4. QED
      BY <2>5, <2>8, <3>1, <3>2, <3>3
  <2>9. Ordered(t, s, lower)
    BY <2>5, <2>6, <2>7, <2>8 DEF Ordered
  <2>10. t.left[p] \in v \cap W
    BY <1>2, <1>10
  <2>11. lower[p] = below[p]
    <3>1. p \notin W /\ p \in Nodes
      BY <1>1, Distinct DEF W
    <3>2. QED
      BY <3>1 DEF lower
  <2>12. s[q] \in lower[t.left[p]]
    BY <1>2, <2>2, <2>4, <2>5, <2>10
  <2>13. QED
    BY <1>2, <2>5, <2>9, <2>10, <2>11, <2>12
<1>15. QED
  BY <1>12, <1>13, <1>14 DEF q

\* What removing p leaves: the other chunks of the tree, in order.
Removed(t, u, p) ==
  /\ Wired(u) /\ \E depth : Ranked(u, depth)
  /\ \A c \in Chunks : u.parent[c] = Null <=> c = p \/ t.parent[c] = Null
  /\ \A s \in [Chunks -> Int] : (\E below : Ordered(t, s, below)) =>
        \E below : Ordered(u, s, below)

LEMMA RemoveKeeps ==
  ASSUME NEW t, Wired(t), NEW depth, Ranked(t, depth), NEW p \in Chunks, t.parent[p] # Null
  PROVE  Removed(t, RemoveTreeNode(t, p), p)
<1>. DEFINE u == RemoveTreeNode(t, p)
<1>1. t \in Trees /\ \A x \in Nodes : t.left[x] \in Links /\ t.right[x] \in Links
  BY DEF Wired, Trees
<1>2. CASE t.left[p] = Null \/ t.right[p] = Null
  <2>. DEFINE w == Splice(t, p)
  <2>1. u = w
    BY <1>2 DEF RemoveTreeNode
  <2>. HIDE DEF w
  <2>2. PICK k \in {t.left[p], t.right[p]} :
          /\ Moved(t, w, p, k) /\ Wired(w) /\ Ranked(w, depth)
          /\ \A s, below : Ordered(t, s, below) => Ordered(w, s, below)
    BY <1>2, SpliceKeeps DEF w
  <2>3. \A c \in Chunks : w.parent[c] = Null <=> c = p \/ t.parent[c] = Null
    BY <1>1, <2>2, Distinct DEF Moved, Wired
  <2>4. QED
    BY <2>1, <2>2, <2>3 DEF Removed
<1>3. CASE t.left[p] # Null /\ t.right[p] # Null
  <2>. DEFINE q == Rightmost(t, t.left[p])
              w == Splice(t, q)
  <2>1. u = TakePlace(w, p, q)
    BY <1>3 DEF RemoveTreeNode
  <2>. HIDE DEF u, q
  <2>2. /\ q \in Chunks /\ q # p /\ t.parent[q] # Null /\ t.right[q] = Null
        /\ \A s \in [Chunks -> Int] : \A below : Ordered(t, s, below) =>
             \E lower : /\ Ordered(t, s, lower) /\ lower[p] = below[p]
                        /\ s[q] \in lower[t.left[p]]
                        /\ \A n \in lower[t.left[p]] : n <= s[q]
    BY <1>3, RightmostIsLargest DEF q
  <2>. HIDE DEF w
  <2>3. PICK k \in {t.left[q], t.right[q]} :
          /\ Moved(t, w, q, k) /\ Wired(w) /\ Ranked(w, depth)
          /\ \A s, below : Ordered(t, s, below) => Ordered(w, s, below)
    BY <2>2, SpliceKeeps DEF w
  <2>4. \A c \in Chunks : w.parent[c] = Null <=> c = q \/ t.parent[c] = Null
    BY <1>1, <2>2, <2>3, Distinct DEF Moved, Wired
  <2>5. LET d == [depth EXCEPT ![q] = depth[p]]
        IN  /\ Wired(u) /\ Ranked(u, d)
            /\ \A c \in Chunks : u.parent[c] = Null <=> c = p \/ (c # q /\ w.parent[c] = Null)
            /\ \A s, below :
                 /\ Ordered(w, s, below) /\ s[q] \in below[p]
                 /\ w.left[p] # Null => \A n \in below[w.left[p]] : n <= s[q]
                 /\ w.right[p] # Null => \A n \in below[w.right[p]] : n > s[q]
                 => Ordered(u, s, [below EXCEPT ![q] = below[p]])
    BY <2>1, <2>2, <2>3, <2>4, TakePlaceKeeps
  <2>6. ASSUME NEW s \in [Chunks -> Int], NEW b, Ordered(t, s, b)
        PROVE  \E below : Ordered(u, s, below)
    <3>1. PICK below : /\ Ordered(t, s, below) /\ s[q] \in below[t.left[p]]
                       /\ \A n \in below[t.left[p]] : n <= s[q]
      BY <2>2, <2>6
    <3>2. Ordered(w, s, below)
      BY <2>3, <3>1
    <3>3. p \in Nodes /\ q \in Nodes /\ p # Root /\ s[p] \in Int /\ s[q] \in Int
      BY <2>2, Distinct
    <3>4. s[q] \in below[p] /\ s[q] <= s[p]
      BY <1>3, <3>1, <3>3 DEF Ordered
    <3>5. w.left[p] # Null => \A n \in below[w.left[p]] : n <= s[q]
      <4>1. CASE t.left[p] = q
        <5>1. w.left[p] = k
          BY <2>2, <2>3, <3>3, <4>1 DEF Moved
        <5>2. k # Null => k = t.left[q]
          BY <2>2
        <5>3. k # Null => \A n \in below[k] : n \in below[q]
          BY <3>1, <3>3, <5>2 DEF Ordered
        <5>4. QED
          BY <3>1, <4>1, <5>1, <5>3
      <4>2. CASE t.left[p] # q
        BY <2>2, <2>3, <3>1, <3>3, <4>2 DEF Moved
      <4>3. QED
        BY <4>1, <4>2
    <3>6. w.right[p] # Null => \A n \in below[w.right[p]] : n > s[q]
      <4>1. w.right[p] \in {k, t.right[p]}
        BY <2>2, <2>3, <3>3 DEF Moved
      <4>2. t.right[p] # q
        <5>1. ASSUME t.right[p] = q PROVE FALSE
          <6>1. s[q] \in below[q]
            BY <2>2, <3>1 DEF Ordered
          <6>2. s[q] > s[p]
            BY <1>3, <3>1, <3>3, <5>1, <6>1 DEF Ordered
          <6>3. QED
            BY <3>3, <3>4, <6>2
        <5>2. QED
          BY <5>1
      <4>3. w.right[p] = t.right[p]
        BY <2>2, <2>3, <3>3, <4>2 DEF Moved
      <4>4. \A n \in below[t.right[p]] : n \in Int /\ n > s[p]
        <5>1. t.right[p] \in Nodes /\ below \in [Nodes -> SUBSET Int]
          BY <1>1, <1>3, <3>1, <3>3, Distinct DEF Ordered
        <5>2. QED
          BY <1>3, <3>1, <3>3, <5>1 DEF Ordered
      <4>5. QED
        BY <3>3, <3>4, <4>3, <4>4
    <3>7. QED
      BY <2>5, <3>2, <3>4, <3>5, <3>6
  <2>7. \A c \in Chunks : u.parent[c] = Null <=> c = p \/ t.parent[c] = Null
    BY <2>2, <2>4, <2>5
  <2>8. QED
    BY <2>5, <2>6, <2>7 DEF Removed, u
<1>4. QED
  BY <1>2, <1>3

\* c hangs below at, where the search for its size ends.
Hung(t, u, at, c, n) ==
  /\ u \in Trees /\ at \in Nodes \ {c} /\ u.parent[c] = at
  /\ u.left[c] = Null /\ u.right[c] = Null
  /\ \A x \in Nodes \ {c} :
       /\ u.parent[x] = t.parent[x]
       /\ x = at /\ ~Smaller(x, n) => u.left[x] = c /\ t.left[x] = Null
       /\ x # at \/ Smaller(x, n) => u.left[x] = t.left[x]
       /\ x = at /\ Smaller(x, n) => u.right[x] = c /\ t.right[x] = Null
       /\ x # at \/ ~Smaller(x, n) => u.right[x] = t.right[x]

\* The nodes v the search passes, from the root to at.
SearchPath(t, at, n, v) ==
  /\ v \subseteq {x \in Nodes : x = Root \/ t.parent[x] # Null} /\ at \in v
  /\ Slot(t, at, n) = Null
  /\ \A x \in v : x = Root \/ \E y \in v : x = Slot(t, y, n)

LEMMA LeafFound ==
  ASSUME NEW t, Wired(t), NEW depth, Ranked(t, depth), NEW n
  PROVE  \E v : SearchPath(t, Leaf(t, n), n, v)
<1>. DEFINE down == [x \in Nodes |-> IF Slot(t, x, n) = Null THEN x ELSE Slot(t, x, n)]
            at == Leaf(t, n)
<1>1. \A x \in Nodes : /\ Slot(t, x, n) \in Links
                       /\ Slot(t, x, n) # Null => /\ t.parent[Slot(t, x, n)] = x
                                                  /\ depth[Slot(t, x, n)] > depth[x]
  BY Distinct DEF Wired, Trees, Ranked, Slot
<1>2. down \in [Nodes -> Nodes] /\ \A x \in Nodes : down[x] = x \/ depth[down[x]] > depth[x]
  BY <1>1, Distinct
<1>3. at = Descend(down, Root)
  BY DEF Leaf
<1>4. \A x \in Nodes : /\ Slot(t, x, n) # Null => down[x] = Slot(t, x, n)
                       /\ Slot(t, x, n) = Null => down[x] = x
  OBVIOUS
<1>. HIDE DEF down, at
<1>5. Climbs(Nodes, down, Root, depth)
  BY <1>2, NodesFinite, Distinct DEF Climbs, Ranked
<1>6. PICK v : Passes(Nodes, down, Root, v)
  BY <1>5, Descends
<1>7. v \in SUBSET Nodes /\ at \in v /\ down[at] = at
      /\ \A x \in v : x = Root \/ \E y \in v : y # x /\ down[y] = x
  BY <1>3, <1>6 DEF Passes
<1>8. \A x \in v : x = Root \/ \E y \in v : x = Slot(t, y, n) /\ x # Null
  BY <1>4, <1>7, Distinct
<1>9. v \subseteq {x \in Nodes : x = Root \/ t.parent[x] # Null}
  BY <1>1, <1>7, <1>8, Distinct
<1>10. Slot(t, at, n) = Null
  <2>1. Slot(t, at, n) # Null => Slot(t, at, n) # at
    BY <1>1, <1>7, <1>2 DEF Ranked
  <2>2. QED
    BY <1>4, <1>7, <2>1
<1>11. QED
  BY <1>7, <1>8, <1>9, <1>10 DEF SearchPath, at

LEMMA InsertHangs ==
  ASSUME NEW t, Wired(t), NEW c \in Chunks, t.parent[c] = Null, NEW n, NEW v,
         SearchPath(t, Leaf(t, n), n, v)
  PROVE  Hung(t, Insert(t, c, n), Leaf(t, n), c, n)
<1>. DEFINE at == Leaf(t, n)
            u == Insert(t, c, n)
<1>1. /\ t.left \in [Nodes -> Links] /\ t.right \in [Nodes -> Links]
      /\ t.parent \in [Nodes -> Nodes \cup {Null}] /\ c \in Nodes /\ c \in Links
  BY Distinct DEF Wired, Trees
<1>2. at \in Nodes /\ at # c /\ Slot(t, at, n) = Null
  BY Distinct DEF SearchPath
<1>3. /\ u.left = [t.left EXCEPT ![c] = Null, ![at] = IF Smaller(at, n) THEN @ ELSE c]
      /\ u.right = [t.right EXCEPT ![c] = Null, ![at] = IF Smaller(at, n) THEN c ELSE @]
      /\ u.parent = [t.parent EXCEPT ![c] = at]
      /\ u = [left |-> u.left, right |-> u.right, parent |-> u.parent]
  BY DEF Insert
<1>. HIDE DEF at, u
<1>4. u.parent \in [Nodes -> Nodes \cup {Null}] /\ u.parent[c] = at
      /\ \A x \in Nodes \ {c} : u.parent[x] = t.parent[x]
  BY <1>1, <1>2, <1>3
<1>5. u.left \in [Nodes -> Links] /\ u.left[c] = Null /\ \A x \in Nodes \ {c} :
         /\ x = at /\ ~Smaller(x, n) => u.left[x] = c
         /\ x # at \/ Smaller(x, n) => u.left[x] = t.left[x]
  BY <1>1, <1>2, <1>3, Distinct
<1>6. u.right \in [Nodes -> Links] /\ u.right[c] = Null /\ \A x \in Nodes \ {c} :
         /\ x = at /\ Smaller(x, n) => u.right[x] = c
         /\ x # at \/ ~Smaller(x, n) => u.right[x] = t.right[x]
  BY <1>1, <1>2, <1>3, Distinct
<1>7. (~Smaller(at, n) => t.left[at] = Null) /\ (Smaller(at, n) => t.right[at] = Null)
  BY <1>2 DEF Slot
<1>8. u \in Trees
  BY <1>3, <1>4, <1>5, <1>6 DEF Trees
<1>9. QED
  BY <1>2, <1>4, <1>5, <1>6, <1>7, <1>8 DEF Hung, u, at

\* What adding c with size n leaves: one chunk more in the tree, in order.
Added(t, u, c, n) ==
  /\ Wired(u) /\ \E depth : Ranked(u, depth)
  /\ \A x \in Chunks : u.parent[x] = Null <=> x # c /\ t.parent[x] = Null
  /\ (\E below : Ordered(t, size, below)) =>
       \E below : Ordered(u, [size EXCEPT ![c] = n], below)

LEMMA InsertKeeps ==
  ASSUME NEW t, Wired(t), NEW depth, Ranked(t, depth), NEW c \in Chunks, t.parent[c] = Null,
         NEW n \in Int, size \in [Chunks -> Int]
  PROVE  Added(t, Insert(t, c, n), c, n)
<1>. DEFINE u == Insert(t, c, n)
            at == Leaf(t, n)
<1>1. PICK v : SearchPath(t, at, n, v)
  BY LeafFound
<1>2. Hung(t, u, at, c, n)
  BY <1>1, InsertHangs
<1>. HIDE DEF u, at
<1>3. at \in Nodes /\ at # c /\ c \in Nodes /\ c # Root /\ c # Null
  BY <1>2, Distinct DEF Hung
<1>4. \A x \in Nodes : t.left[x] # c /\ t.right[x] # c
  BY <1>3, Distinct DEF Wired
<1>5. \A x \in Nodes : t.left[x] \in Links /\ t.right[x] \in Links
  BY DEF Wired, Trees
<1>6. \A x \in Chunks : u.parent[x] = Null <=> x # c /\ t.parent[x] = Null
  BY <1>2, <1>3, Distinct DEF Hung
<1>7. ASSUME NEW x \in Nodes, u.left[x] # Null
      PROVE  \/ u.left[x] = c /\ x = at /\ ~Smaller(x, n)
             \/ u.left[x] = t.left[x] /\ x # c /\ u.left[x] \in Nodes \ {c}
  BY <1>2, <1>4, <1>5, <1>7, Distinct DEF Hung
<1>8. ASSUME NEW x \in Nodes, u.right[x] # Null
      PROVE  \/ u.right[x] = c /\ x = at /\ Smaller(x, n)
             \/ u.right[x] = t.right[x] /\ x # c /\ u.right[x] \in Nodes \ {c}
  BY <1>2, <1>4, <1>5, <1>8, Distinct DEF Hung
<1>9. Wired(u)
  <2>1. u \in Trees /\ u.parent[Root] = Null /\ u.left[Root] = Null
    BY <1>2, <1>3, Distinct DEF Hung, Wired, Smaller
  <2>2. ASSUME NEW x \in Nodes, u.left[x] # Null
        PROVE  u.parent[u.left[x]] = x /\ u.left[x] # u.right[x]
    <3>1. CASE u.left[x] = c /\ x = at /\ ~Smaller(x, n)
      BY <1>2, <1>3, <1>4, <3>1 DEF Hung
    <3>2. CASE u.left[x] = t.left[x] /\ x # c /\ u.left[x] \in Nodes \ {c}
      <4>1. t.parent[t.left[x]] = x /\ t.left[x] # t.right[x]
        BY <2>2, <3>2 DEF Wired
      <4>2. u.right[x] \in {c, t.right[x]}
        BY <1>2, <3>2 DEF Hung
      <4>3. QED
        BY <1>2, <3>2, <4>1, <4>2 DEF Hung
    <3>3. QED
      BY <1>7, <2>2, <3>1, <3>2
  <2>3. ASSUME NEW x \in Nodes, u.right[x] # Null PROVE u.parent[u.right[x]] = x
    <3>1. CASE u.right[x] = c /\ x = at /\ Smaller(x, n)
      BY <1>2, <3>1 DEF Hung
    <3>2. CASE u.right[x] = t.right[x] /\ x # c /\ u.right[x] \in Nodes \ {c}
      BY <1>2, <2>3, <3>2 DEF Hung, Wired
    <3>3. QED
      BY <1>8, <2>3, <3>1, <3>2
  <2>4. ASSUME NEW x \in Chunks, u.parent[x] # Null
        PROVE  u.left[u.parent[x]] = x \/ u.right[u.parent[x]] = x
    <3>1. CASE x = c
      BY <1>2, <1>3, <3>1 DEF Hung
    <3>2. CASE x # c
      <4>1. u.parent[x] = t.parent[x] /\ x \in Nodes
        BY <1>2, <3>2, Distinct DEF Hung
      <4>2. (t.left[t.parent[x]] = x \/ t.right[t.parent[x]] = x) /\ t.parent[x] \in Nodes
        BY <2>4, <4>1 DEF Wired, Trees
      <4>3. t.parent[x] # c
        BY <1>3, <3>2, <4>2, Distinct DEF Wired
      <4>4. QED
        BY <1>2, <4>1, <4>2, <4>3, Distinct DEF Hung
    <3>3. QED
      BY <3>1, <3>2
  <2>5. ASSUME NEW x \in Chunks, u.parent[x] = Null PROVE u.left[x] = Null /\ u.right[x] = Null
    <3>1. x # c /\ t.parent[x] = Null /\ x \in Nodes
      BY <1>6, <2>5, Distinct
    <3>2. t.left[x] = Null /\ t.right[x] = Null /\ x # at
      BY <1>1, <3>1, <2>5, Distinct DEF Wired, SearchPath
    <3>3. QED
      BY <1>2, <3>1, <3>2 DEF Hung
  <2>6. QED
    BY <2>1, <2>2, <2>3, <2>4, <2>5 DEF Wired
<1>10. \E d : Ranked(u, d)
  <2>. DEFINE d == [depth EXCEPT ![c] = depth[at] + 1]
  <2>1. d \in [Nodes -> Nat] /\ d[c] = depth[at] + 1 /\ \A x \in Nodes \ {c} : d[x] = depth[x]
    BY <1>3 DEF Ranked
  <2>. HIDE DEF d
  <2>2. ASSUME NEW x \in Chunks, u.parent[x] # Null PROVE d[u.parent[x]] < d[x]
    <3>1. CASE x = c
      BY <1>2, <1>3, <2>1, <3>1 DEF Hung, Ranked
    <3>2. CASE x # c
      <4>1. u.parent[x] = t.parent[x] /\ x \in Nodes
        BY <1>2, <3>2, Distinct DEF Hung
      <4>2. (t.left[t.parent[x]] = x \/ t.right[t.parent[x]] = x) /\ t.parent[x] \in Nodes
        BY <2>2, <4>1 DEF Wired, Trees
      <4>3. t.parent[x] # c
        BY <1>3, <3>2, <4>2, Distinct DEF Wired
      <4>4. QED
        BY <2>1, <2>2, <3>2, <4>1, <4>2, <4>3 DEF Ranked
    <3>3. QED
      BY <3>1, <3>2
  <2>3. QED
    BY <2>1, <2>2 DEF Ranked
<1>11. ASSUME NEW below, Ordered(t, size, below)
       PROVE  \E b : Ordered(u, [size EXCEPT ![c] = n], b)
  <2>. DEFINE s == [size EXCEPT ![c] = n]
              b == [x \in Nodes |-> IF x = c THEN {n}
                                    ELSE IF x \in v THEN below[x] \cup {n} ELSE below[x]]
  <2>1. s[c] = n /\ \A x \in Chunks \ {c} : s[x] = size[x]
    OBVIOUS
  <2>2. c \notin v
    BY <1>1, <1>3 DEF SearchPath
  <2>3. below \in [Nodes -> SUBSET Int]
    BY <1>11 DEF Ordered
  <2>4. /\ b \in [Nodes -> SUBSET Int] /\ b[c] = {n}
        /\ \A x \in Nodes \ {c} : /\ below[x] \subseteq b[x]
                                  /\ x \in v => n \in b[x]
                                  /\ \A m \in b[x] : m \in below[x] \/ (m = n /\ x \in v)
    BY <1>3, <2>2, <2>3
  <2>. HIDE DEF b, s
  <2>5. ASSUME NEW x \in Chunks, u.parent[x] # Null PROVE s[x] \in b[x]
    <3>1. CASE x = c
      BY <2>1, <2>4, <3>1
    <3>2. CASE x # c
      <4>1. t.parent[x] # Null /\ x \in Nodes
        BY <1>6, <2>5, <3>2, Distinct
      <4>2. QED
        BY <1>11, <2>1, <2>4, <3>2, <4>1 DEF Ordered
    <3>3. QED
      BY <3>1, <3>2
  <2>6. at \in v /\ \A x \in v : x = Root \/ \E y \in v : x = Slot(t, y, n)
    BY <1>1 DEF SearchPath
  <2>7. v \subseteq Nodes
    BY <1>1 DEF SearchPath
  <2>8. ASSUME NEW x \in Nodes, u.left[x] # Null, NEW m \in b[u.left[x]]
        PROVE  m \in b[x] /\ m <= s[x]
    <3>1. CASE u.left[x] = c /\ x = at /\ ~Smaller(x, n)
      <4>1. m = n /\ n \in b[x] /\ x # Root /\ x \in Chunks \ {c}
        BY <1>3, <2>4, <2>6, <2>8, <3>1, Distinct DEF Smaller
      <4>2. size[x] >= n
        BY <3>1, <4>1 DEF Smaller
      <4>3. QED
        BY <2>1, <4>1, <4>2
    <3>2. CASE u.left[x] = t.left[x] /\ x # c /\ u.left[x] \in Nodes \ {c}
      <4>. DEFINE y == t.left[x]
      <4>1. y # Null /\ y # Root /\ x # Root /\ x \in Chunks \ {c} /\ m \in b[y] /\ y \in Nodes \ {c}
        BY <1>5, <2>8, <3>2, Distinct DEF Wired
      <4>2. CASE m \in below[y]
        BY <1>11, <2>1, <2>4, <3>2, <4>1, <4>2 DEF Ordered
      <4>3. CASE m = n /\ y \in v
        <5>1. PICK z \in v : y = Slot(t, z, n)
          BY <2>6, <4>1, <4>3
        <5>2. z = x
          BY <2>7, <4>1, <5>1 DEF Wired, Slot
        <5>3. ~Smaller(x, n)
          BY <4>1, <5>1, <5>2 DEF Slot, Wired
        <5>4. QED
          BY <2>1, <2>4, <4>1, <4>3, <5>2, <5>3 DEF Smaller
      <4>. HIDE DEF y
      <4>4. QED
        BY <2>4, <4>1, <4>2, <4>3
    <3>3. QED
      BY <1>7, <2>8, <3>1, <3>2
  <2>9. ASSUME NEW x \in Nodes, u.right[x] # Null, NEW m \in b[u.right[x]]
        PROVE  m \in b[x] /\ (x # Root => m > s[x])
    <3>1. CASE u.right[x] = c /\ x = at /\ Smaller(x, n)
      <4>1. m = n /\ n \in b[x] /\ x # c
        BY <1>3, <2>4, <2>6, <2>9, <3>1
      <4>2. x # Root => size[x] < n /\ s[x] = size[x]
        BY <2>1, <3>1, <4>1, Distinct DEF Smaller
      <4>3. x # Root => size[x] \in Int
        BY Distinct
      <4>4. QED
        BY <4>1, <4>2, <4>3
    <3>2. CASE u.right[x] = t.right[x] /\ x # c /\ u.right[x] \in Nodes \ {c}
      <4>. DEFINE y == t.right[x]
      <4>1. y # Null /\ y # Root /\ m \in b[y] /\ y \in Nodes \ {c}
            /\ (x # Root => s[x] = size[x] /\ size[x] \in Int)
        BY <1>5, <2>1, <2>9, <3>2, Distinct DEF Wired
      <4>2. CASE m \in below[y]
        BY <1>11, <2>4, <3>2, <4>1, <4>2 DEF Ordered
      <4>3. CASE m = n /\ y \in v
        <5>1. PICK z \in v : y = Slot(t, z, n)
          BY <2>6, <4>1, <4>3
        <5>2. z = x
          BY <2>7, <4>1, <5>1 DEF Wired, Slot
        <5>3. Smaller(x, n)
          BY <4>1, <5>1, <5>2 DEF Slot, Wired
        <5>4. QED
          BY <2>4, <3>2, <4>1, <4>3, <5>2, <5>3 DEF Smaller
      <4>. HIDE DEF y
      <4>4. QED
        BY <2>4, <4>1, <4>2, <4>3
    <3>3. QED
      BY <1>8, <2>9, <3>1, <3>2
  <2>10. Ordered(u, s, b)
    BY <2>4, <2>5, <2>8, <2>9 DEF Ordered
  <2>11. QED
    BY <2>10 DEF s
<1>12. QED
  BY <1>6, <1>9, <1>10, <1>11 DEF Added, u

-----------------------------------------------------------------------------
(* The order *)

LEMMA SearchesFinite == IsFiniteSet(Searches)
<1>. DEFINE f == [p \in Links \X Links |-> [at |-> p[1], best |-> p[2]]]
<1>1. IsFiniteSet(Links)
  BY KfcAssumption, FS_AddElement DEF Links
<1>2. IsFiniteSet(Links \X Links)
  BY <1>1, FS_Product
<1>3. f \in [Links \X Links -> Searches]
  BY DEF Searches
<1>4. \A s \in Searches : \E p \in Links \X Links : f[p] = s
  <2>1. ASSUME NEW s \in Searches PROVE \E p \in Links \X Links : f[p] = s
    <3>1. <<s.at, s.best>> \in Links \X Links /\ s = [at |-> s.at, best |-> s.best]
      BY DEF Searches
    <3>2. f[<<s.at, s.best>>] = s
      BY <3>1
    <3>3. QED
      BY <3>1, <3>2
  <2>2. QED
    BY <2>1
<1>. HIDE DEF f
<1>5. f \in Surjection(Links \X Links, Searches)
  BY <1>3, <1>4 DEF Surjection
<1>6. QED
  BY <1>2, <1>5, FS_Surjection

\* A subtree is the least set with its root and the children of its nodes.
LEMMA SubtreeLeast ==
  ASSUME Wired(tree), NEW n \in Links
  PROVE  /\ Subtree(n) \in SUBSET Chunks
         /\ n # Null => n \in Subtree(n)
         /\ \A x \in Subtree(n) : /\ tree.left[x] # Null => tree.left[x] \in Subtree(n)
                                  /\ tree.right[x] # Null => tree.right[x] \in Subtree(n)
         /\ \A X \in SUBSET Chunks :
              /\ n # Null => n \in X
              /\ \A x \in X : /\ tree.left[x] # Null => tree.left[x] \in X
                              /\ tree.right[x] # Null => tree.right[x] \in X
              => Subtree(n) \subseteq X
<1>. DEFINE All == SUBSET Chunks
            down == [S \in SUBSET Chunks |-> S \cup Children(S)]
            from == {n} \ {Null}
            rank == [S \in SUBSET Chunks |-> Cardinality(S)]
<1>1. \A x \in Chunks : tree.left[x] \in Links /\ tree.right[x] \in Links
  BY Distinct DEF Wired, Trees
<1>2. \A S \in All : Children(S) \in All
  BY <1>1, Distinct DEF Children
<1>3. down \in [All -> All] /\ from \in All
  BY <1>2, Distinct
<1>4. \A S \in All : down[S] = S \cup Children(S)
  OBVIOUS
<1>5. IsFiniteSet(Chunks) /\ IsFiniteSet(All)
  BY KfcAssumption, FS_SUBSET
<1>6. \A S \in All : IsFiniteSet(S) /\ Cardinality(S) \in Nat
  BY <1>5, FS_Subset, FS_CardinalityType
<1>7. rank \in [All -> Nat] /\ \A S \in All : rank[S] = Cardinality(S)
  BY <1>6
<1>8. Subtree(n) = Descend(down, from)
  BY DEF Subtree
<1>. HIDE DEF down, from, rank, All
<1>9. ASSUME NEW S \in All PROVE rank[down[S]] > rank[S] \/ down[down[S]] = down[S]
  <2>1. down[S] \in All /\ S \subseteq down[S]
    BY <1>3, <1>4
  <2>2. CASE down[S] = S
    BY <2>2
  <2>3. CASE down[S] # S
    <3>1. Cardinality(S) <= Cardinality(down[S]) /\ Cardinality(S) # Cardinality(down[S])
      BY <1>6, <2>1, <2>3, FS_Subset
    <3>2. QED
      BY <1>6, <1>7, <2>1, <3>1
  <2>4. QED
    BY <2>2, <2>3
<1>10. Climbs(All, down, from, rank)
  BY <1>3, <1>5, <1>7, <1>9 DEF Climbs
<1>11. PICK v : Passes(All, down, from, v)
  BY <1>10, Descends
<1>. DEFINE T == Subtree(n)
<1>12. T \in All /\ down[T] = T /\ \A W \in SUBSET All :
         from \in W /\ (\A S \in W : down[S] \in W) => T \in W
  <2>1. from \in v /\ v \in SUBSET All
    BY <1>11 DEF Passes
  <2>2. T \in v /\ down[T] = T
    BY <1>8, <1>11 DEF Passes
  <2>3. ASSUME NEW W \in SUBSET All, from \in W, \A S \in W : down[S] \in W PROVE T \in W
    BY <1>8, <1>11, <2>1, <2>3 DEF Passes
  <2>4. QED
    BY <2>1, <2>2, <2>3
<1>. HIDE DEF T
<1>13. n # Null => n \in T
  <2>. DEFINE W == {S \in All : from \subseteq S}
  <2>1. \A S \in W : down[S] \in W
    BY <1>3, <1>4
  <2>2. from \in W /\ W \in SUBSET All
    BY <1>3
  <2>. HIDE DEF W
  <2>3. T \in W
    BY <1>12, <2>1, <2>2
  <2>4. QED
    BY <2>3 DEF W, from
<1>14. \A x \in T : /\ tree.left[x] # Null => tree.left[x] \in T
                    /\ tree.right[x] # Null => tree.right[x] \in T
  <2>1. Children(T) \subseteq T
    BY <1>4, <1>12
  <2>2. QED
    BY <2>1 DEF Children
<1>15. ASSUME NEW X \in SUBSET Chunks, n # Null => n \in X,
              \A x \in X : /\ tree.left[x] # Null => tree.left[x] \in X
                           /\ tree.right[x] # Null => tree.right[x] \in X
       PROVE  T \subseteq X
  <2>. DEFINE W == {S \in All : S \subseteq X}
  <2>1. ASSUME NEW S \in W PROVE down[S] \in W
    <3>1. S \in All /\ S \subseteq X
      OBVIOUS
    <3>2. Children(S) \subseteq X
      BY <1>15, <3>1 DEF Children
    <3>3. QED
      BY <1>3, <1>4, <3>1, <3>2
  <2>2. from \in W /\ W \in SUBSET All
    BY <1>3, <1>15 DEF from
  <2>. HIDE DEF W
  <2>3. T \in W
    BY <1>12, <2>1, <2>2
  <2>4. QED
    BY <2>3 DEF W
<1>16. T \in SUBSET Chunks
  BY <1>12 DEF All
<1>17. QED
  BY <1>13, <1>14, <1>15, <1>16 DEF T

LEMMA SubtreeOfNull ==
  ASSUME Wired(tree)
  PROVE  Subtree(Null) = {}
<1>1. Null \in Links /\ {} \in SUBSET Chunks
  BY Distinct
<1>2. Subtree(Null) \subseteq {}
  BY <1>1, SubtreeLeast
<1>3. QED
  BY <1>2

LEMMA SubtreeBounded ==
  ASSUME Wired(tree), NEW below, Ordered(tree, size, below), NEW x \in InTree
  PROVE  \A c \in Subtree(x) : c \in InTree /\ size[c] \in below[x]
<1>. DEFINE X == {c \in InTree : below[c] \subseteq below[x]}
<1>1. x \in X /\ X \in SUBSET Chunks
  BY DEF InTree
<1>2. ASSUME NEW c \in X
      PROVE  /\ tree.left[c] # Null => tree.left[c] \in X
             /\ tree.right[c] # Null => tree.right[c] \in X
  <2>1. c \in Nodes /\ c \in InTree /\ below[c] \subseteq below[x] /\ Null \notin Nodes
    BY Distinct DEF InTree
  <2>2. tree.left[c] \in Links /\ tree.right[c] \in Links
    BY <2>1 DEF Wired, Trees
  <2>3. tree.left[c] # Null => /\ tree.left[c] \in InTree
                               /\ below[tree.left[c]] \subseteq below[c]
    <3>1. tree.left[c] # Null => tree.left[c] \in Chunks /\ tree.parent[tree.left[c]] = c
      BY <2>1, <2>2 DEF Wired, Links
    <3>2. tree.left[c] # Null => tree.left[c] \in InTree
      BY <2>1, <3>1 DEF InTree
    <3>3. QED
      BY <2>1, <3>2 DEF Ordered
  <2>4. tree.right[c] # Null => /\ tree.right[c] \in InTree
                                /\ below[tree.right[c]] \subseteq below[c]
    <3>1. tree.right[c] # Null => tree.right[c] \in Chunks /\ tree.parent[tree.right[c]] = c
      BY <2>1, <2>2 DEF Wired, Links
    <3>2. tree.right[c] # Null => tree.right[c] \in InTree
      BY <2>1, <3>1 DEF InTree
    <3>3. QED
      BY <2>1, <3>2 DEF Ordered
  <2>5. QED
    BY <2>1, <2>3, <2>4
<1>. HIDE DEF X
<1>3. x \in Links
  BY DEF InTree, Links
<1>4. Subtree(x) \subseteq X
  BY <1>1, <1>2, <1>3, SubtreeLeast
<1>5. \A c \in X : c \in InTree /\ size[c] \in below[c] /\ below[c] \subseteq below[x]
  BY DEF X, Ordered, InTree
<1>6. QED
  BY <1>4, <1>5

LEMMA TreeReached ==
  ASSUME Wired(tree), NEW depth, Ranked(tree, depth)
  PROVE  InTree = Subtree(tree.right[Root])
<1>. DEFINE top == tree.right[Root]
            T == Subtree(top)
<1>1. Root \in Nodes /\ top \in Links
  BY Distinct DEF Wired, Trees
<1>2. /\ T \in SUBSET Chunks /\ (top # Null => top \in T)
      /\ \A x \in T : /\ tree.left[x] # Null => tree.left[x] \in T
                      /\ tree.right[x] # Null => tree.right[x] \in T
  BY <1>1, SubtreeLeast
<1>3. T \subseteq InTree
  <2>1. top # Null => top \in InTree
    BY <1>1, Distinct DEF Wired, InTree
  <2>2. \A x \in InTree : /\ tree.left[x] # Null => tree.left[x] \in InTree
                          /\ tree.right[x] # Null => tree.right[x] \in InTree
    BY Distinct DEF Wired, Trees, InTree
  <2>3. InTree \in SUBSET Chunks
    BY DEF InTree
  <2>4. QED
    BY <1>1, <2>1, <2>2, <2>3, SubtreeLeast
<1>. HIDE DEF T
<1>4. ASSUME NEW c \in InTree, c \notin T PROVE FALSE
  <2>. DEFINE D == {depth[x] : x \in InTree \ T}
  <2>1. D \in SUBSET Nat /\ D # {}
    BY <1>4, Distinct DEF InTree, Ranked
  <2>. HIDE DEF D
  <2>2. PICK m \in D : \A k \in D : m <= k
    BY <2>1, Least
  <2>3. PICK x \in InTree \ T : m = depth[x]
    BY DEF D
  <2>. DEFINE p == tree.parent[x]
  <2>4. x \in Chunks /\ p # Null /\ p \in Nodes
    BY Distinct DEF InTree, Wired, Trees
  <2>5. tree.left[p] = x \/ tree.right[p] = x
    BY <2>4 DEF Wired
  <2>6. depth[p] < depth[x] /\ depth[p] \in Nat /\ depth[x] \in Nat
    BY <2>4, Distinct DEF Ranked
  <2>7. p # Root
    BY <1>2, <2>4, <2>5, Distinct DEF Wired
  <2>8. p \in InTree
    BY <2>4, <2>5, <2>7, Distinct DEF Wired, InTree
  <2>9. p \notin T
    BY <1>2, <2>4, <2>5, Distinct
  <2>10. depth[p] \in D
    BY <2>8, <2>9 DEF D
  <2>11. QED
    BY <2>2, <2>3, <2>6, <2>10
<1>5. QED
  BY <1>3, <1>4 DEF T

LEMMA OrderHolds ==
  ASSUME Wired(tree), NEW depth, Ranked(tree, depth), NEW below, Ordered(tree, size, below)
  PROVE  TreeOrdered
<1>1. ASSUME NEW p \in InTree
      PROVE  /\ \A c \in Subtree(tree.left[p]) : size[c] <= size[p]
             /\ \A c \in Subtree(tree.right[p]) : size[c] > size[p]
  <2>1. p \in Nodes /\ p # Root /\ tree.left[p] \in Links /\ tree.right[p] \in Links
    BY Distinct DEF InTree, Wired, Trees
  <2>2. tree.left[p] # Null => tree.left[p] \in InTree
    BY <2>1, Distinct DEF InTree, Wired
  <2>3. tree.right[p] # Null => tree.right[p] \in InTree
    BY <2>1, Distinct DEF InTree, Wired
  <2>4. \A c \in Subtree(tree.left[p]) : size[c] <= size[p]
    <3>1. CASE tree.left[p] = Null
      BY <3>1, SubtreeOfNull
    <3>2. CASE tree.left[p] # Null
      <4>1. \A n \in below[tree.left[p]] : n <= size[p]
        BY <2>1, <3>2 DEF Ordered
      <4>2. QED
        BY <2>2, <3>2, <4>1, SubtreeBounded
    <3>3. QED
      BY <3>1, <3>2
  <2>5. \A c \in Subtree(tree.right[p]) : size[c] > size[p]
    <3>1. CASE tree.right[p] = Null
      BY <3>1, SubtreeOfNull
    <3>2. CASE tree.right[p] # Null
      <4>1. \A n \in below[tree.right[p]] : n > size[p]
        BY <2>1, <3>2 DEF Ordered
      <4>2. QED
        BY <2>3, <3>2, <4>1, SubtreeBounded
    <3>3. QED
      BY <3>1, <3>2
  <2>6. QED
    BY <2>4, <2>5
<1>2. QED
  BY <1>1, TreeReached DEF TreeOrdered

\* A search that has come to s has passed nothing that fits better than what
\* it found or may still find.
Fits(n, below, s) ==
  /\ s \in Searches
  /\ s.at # Null => s.at \in InTree
  /\ s.best # Null => s.best \in InTree /\ size[s.best] >= n
  /\ \A y \in InTree : size[y] >= n =>
       y \in Subtree(s.at) \/ (s.best # Null /\ size[s.best] <= size[y])
  /\ s.at # Null /\ s.best # Null => \A m \in below[s.at] : m <= size[s.best]

LEMMA FitsOn ==
  ASSUME Wired(tree), NEW below, Ordered(tree, size, below), size \in [Chunks -> Int],
         NEW n \in Int, NEW s, Fits(n, below, s), s.at # Null
  PROVE  /\ size[s.at] < n => Fits(n, below, [at |-> tree.right[s.at], best |-> s.best])
         /\ size[s.at] >= n => Fits(n, below, [at |-> tree.left[s.at], best |-> s.at])
<1>. DEFINE p == s.at
            l == tree.left[p]
            r == tree.right[p]
<1>1. p \in InTree /\ p \in Nodes /\ p \in Chunks /\ p # Root /\ s \in Searches
  BY Distinct DEF Fits, InTree
<1>2. l \in Links /\ r \in Links
  BY <1>1 DEF Wired, Trees
<1>3. (l # Null => l \in InTree) /\ (r # Null => r \in InTree)
  BY <1>1, <1>2, Distinct DEF Wired, InTree
<1>4. /\ l # Null => \A m \in below[l] : m \in below[p] /\ m <= size[p]
      /\ r # Null => \A m \in below[r] : m \in below[p] /\ m > size[p]
  BY <1>1 DEF Ordered
<1>5. \A y \in Subtree(p) : y = p \/ y \in Subtree(l) \/ y \in Subtree(r)
  <2>. DEFINE X == {p} \cup Subtree(l) \cup Subtree(r)
  <2>1. /\ Subtree(l) \in SUBSET Chunks /\ (l # Null => l \in Subtree(l))
        /\ \A x \in Subtree(l) : /\ tree.left[x] # Null => tree.left[x] \in Subtree(l)
                                 /\ tree.right[x] # Null => tree.right[x] \in Subtree(l)
    BY <1>2, SubtreeLeast
  <2>2. /\ Subtree(r) \in SUBSET Chunks /\ (r # Null => r \in Subtree(r))
        /\ \A x \in Subtree(r) : /\ tree.left[x] # Null => tree.left[x] \in Subtree(r)
                                 /\ tree.right[x] # Null => tree.right[x] \in Subtree(r)
    BY <1>2, SubtreeLeast
  <2>3. \A x \in X : /\ tree.left[x] # Null => tree.left[x] \in X
                     /\ tree.right[x] # Null => tree.right[x] \in X
    BY <2>1, <2>2
  <2>4. X \in SUBSET Chunks /\ p \in X /\ p \in Links
    BY <1>1, <2>1, <2>2, Distinct
  <2>. HIDE DEF X
  <2>5. Subtree(p) \subseteq X
    BY <2>3, <2>4, SubtreeLeast
  <2>6. QED
    BY <2>5 DEF X
<1>6. ASSUME NEW y \in InTree
      PROVE  /\ y \in Subtree(l) => size[y] <= size[p]
             /\ y \in Subtree(r) => size[y] > size[p]
  <2>1. y \in Subtree(l) => size[y] <= size[p]
    <3>1. CASE l = Null
      BY <3>1, SubtreeOfNull
    <3>2. CASE l # Null
      BY <1>3, <1>4, <3>2, SubtreeBounded
    <3>3. QED
      BY <3>1, <3>2
  <2>2. y \in Subtree(r) => size[y] > size[p]
    <3>1. CASE r = Null
      BY <3>1, SubtreeOfNull
    <3>2. CASE r # Null
      BY <1>3, <1>4, <3>2, SubtreeBounded
    <3>3. QED
      BY <3>1, <3>2
  <2>3. QED
    BY <2>1, <2>2
<1>7. \A y \in InTree : size[y] \in Int /\ y \in Chunks
  BY DEF InTree
<1>8. s.best \in Links /\ (s.best # Null => s.best \in InTree /\ size[s.best] >= n)
      /\ \A y \in InTree : size[y] >= n =>
           y \in Subtree(p) \/ (s.best # Null /\ size[s.best] <= size[y])
  BY DEF Fits, Searches
<1>9. s.best # Null => \A m \in below[p] : m <= size[s.best]
  BY DEF Fits
<1>10. size[p] \in below[p]
  BY <1>1 DEF Ordered, InTree
<1>. HIDE DEF p, l, r
<1>11. ASSUME size[p] < n PROVE Fits(n, below, [at |-> r, best |-> s.best])
  <2>1. \A y \in InTree : size[y] >= n =>
          y \in Subtree(r) \/ (s.best # Null /\ size[s.best] <= size[y])
    BY <1>1, <1>5, <1>6, <1>7, <1>8, <1>11
  <2>2. r # Null /\ s.best # Null => \A m \in below[r] : m <= size[s.best]
    BY <1>4, <1>9
  <2>3. [at |-> r, best |-> s.best] \in Searches
    BY <1>2, <1>8 DEF Searches
  <2>4. QED
    BY <1>3, <1>8, <2>1, <2>2, <2>3 DEF Fits
<1>12. ASSUME size[p] >= n PROVE Fits(n, below, [at |-> l, best |-> p])
  <2>1. \A y \in InTree : size[y] >= n =>
          y \in Subtree(l) \/ (p # Null /\ size[p] <= size[y])
    <3>1. ASSUME NEW y \in InTree, size[y] >= n
          PROVE  y \in Subtree(l) \/ size[p] <= size[y]
      <4>1. CASE y \in Subtree(p)
        BY <1>1, <1>5, <1>6, <1>7, <4>1
      <4>2. CASE s.best # Null /\ size[s.best] <= size[y]
        <5>1. size[p] <= size[s.best] /\ s.best \in InTree
          BY <1>8, <1>9, <1>10, <4>2
        <5>2. QED
          BY <1>1, <1>7, <3>1, <4>2, <5>1
      <4>3. QED
        BY <1>8, <3>1, <4>1, <4>2
    <3>2. QED
      BY <1>1, <3>1, Distinct
  <2>2. l # Null => \A m \in below[l] : m <= size[p]
    BY <1>4
  <2>3. [at |-> l, best |-> p] \in Searches
    BY <1>1, <1>2, Distinct DEF Searches
  <2>4. QED
    BY <1>1, <1>3, <1>12, <2>1, <2>2, <2>3 DEF Fits
<1>13. QED
  BY <1>11, <1>12 DEF p, l, r

\* What the search of the tree answers.
LEMMA BestFitFits ==
  ASSUME Wired(tree), NEW depth, Ranked(tree, depth), NEW below, Ordered(tree, size, below),
         size \in [Chunks -> Int], NEW n \in Int
  PROVE  /\ BestFit(n) = Null => \A y \in InTree : size[y] < n
         /\ BestFit(n) # Null => /\ BestFit(n) \in InTree /\ size[BestFit(n)] >= n
                                 /\ \A y \in InTree : size[y] >= n =>
                                      size[BestFit(n)] <= size[y]
<1>. DEFINE down == SmallestFit(n)
            from == [at |-> tree.right[Root], best |-> Null]
            rank == [s \in Searches |-> IF s.at = Null THEN 0 ELSE depth[s.at]]
            end == Descend(down, from)
<1>1. \A x \in Nodes : /\ tree.left[x] \in Links /\ tree.right[x] \in Links
                       /\ tree.left[x] # Null => depth[tree.left[x]] > depth[x]
                       /\ tree.right[x] # Null => depth[tree.right[x]] > depth[x]
                       /\ depth[x] \in Nat
  BY Distinct DEF Wired, Trees, Ranked
<1>2. from \in Searches
  BY <1>1, Distinct DEF Searches
<1>3. \A s \in Searches : /\ s.at \in Links /\ s.best \in Links
                          /\ s.at # Null => s.at \in Nodes /\ s.at \in Chunks
                                            /\ size[s.at] \in Int
  BY Distinct DEF Searches
<1>4. ASSUME NEW s \in Searches
      PROVE  /\ s.at = Null => down[s] = s
             /\ s.at # Null /\ size[s.at] < n =>
                  down[s] = [at |-> tree.right[s.at], best |-> s.best]
             /\ s.at # Null /\ ~(size[s.at] < n) =>
                  down[s] = [at |-> tree.left[s.at], best |-> s.at]
  BY DEF SmallestFit
<1>. DEFINE right(s) == [at |-> tree.right[s.at], best |-> s.best]
            left(s) == [at |-> tree.left[s.at], best |-> s.at]
<1>5. down \in [Searches -> Searches]
  <2>1. DOMAIN down = Searches /\ down = [s \in Searches |-> down[s]]
    BY DEF SmallestFit
  <2>2. ASSUME NEW s \in Searches PROVE down[s] \in Searches
    <3>. HIDE DEF down
    <3>1. s.at # Null => right(s) \in Searches /\ left(s) \in Searches
      BY <1>1, <1>3 DEF Searches
    <3>. HIDE DEF right, left
    <3>2. down[s] = s \/ (s.at # Null /\ down[s] \in {right(s), left(s)})
      BY <1>3, <1>4 DEF right, left
    <3>3. QED
      BY <3>1, <3>2
  <2>. HIDE DEF down
  <2>3. QED
    BY <2>1, <2>2
<1>6. rank \in [Searches -> Nat]
      /\ \A s \in Searches : s.at # Null => rank[s] = depth[s.at]
  BY <1>1, <1>3
<1>. HIDE DEF down, from, rank, end
<1>7. ASSUME NEW s \in Searches, s.at # Null
      PROVE  down[s].at = Null \/ rank[down[s]] > rank[s]
  <2>1. s.at \in Nodes /\ down[s] \in Searches
    BY <1>3, <1>5, <1>7
  <2>2. down[s].at \in {tree.left[s.at], tree.right[s.at]}
    <3>1. down[s] \in {right(s), left(s)}
      BY <1>3, <1>4, <1>7
    <3>2. QED
      BY <3>1
  <2>3. down[s].at # Null => depth[down[s].at] > depth[s.at]
    BY <1>1, <2>1, <2>2
  <2>4. QED
    BY <1>6, <1>7, <2>1, <2>3
<1>8. \A s \in Searches : rank[down[s]] > rank[s] \/ down[down[s]] = down[s]
  BY <1>4, <1>5, <1>7
<1>9. Climbs(Searches, down, from, rank)
  BY <1>2, <1>5, <1>6, <1>8, SearchesFinite DEF Climbs
<1>10. PICK v : Passes(Searches, down, from, v)
  BY <1>9, Descends
<1>11. end \in Searches /\ down[end] = end
  BY <1>10 DEF Passes, end
<1>12. end.at = Null
  <2>1. \A k \in Nat : ~(k > k)
    OBVIOUS
  <2>2. QED
    BY <1>6, <1>7, <1>11, <2>1
<1>13. Fits(n, below, end)
  <2>. DEFINE W == {s \in Searches : Fits(n, below, s)}
  <2>1. ASSUME NEW s \in W PROVE down[s] \in W
    <3>1. s \in Searches /\ Fits(n, below, s) /\ down[s] \in Searches
      BY <1>5
    <3>2. CASE s.at = Null
      BY <1>4, <3>1, <3>2
    <3>3. CASE s.at # Null /\ size[s.at] < n
      <4>1. Fits(n, below, right(s))
        BY <3>1, <3>3, FitsOn
      <4>2. down[s] = right(s)
        BY <1>4, <3>1, <3>3
      <4>. HIDE DEF right
      <4>3. QED
        BY <3>1, <4>1, <4>2
    <3>4. CASE s.at # Null /\ ~(size[s.at] < n)
      <4>1. size[s.at] >= n
        BY <1>3, <3>1, <3>4
      <4>2. Fits(n, below, left(s))
        BY <3>1, <3>4, <4>1, FitsOn
      <4>3. down[s] = left(s)
        BY <1>4, <3>1, <3>4
      <4>. HIDE DEF left
      <4>4. QED
        BY <3>1, <4>2, <4>3
    <3>5. QED
      BY <3>2, <3>3, <3>4
  <2>2. from \in W
    <3>1. from.at = tree.right[Root] /\ from.best = Null
      BY DEF from
    <3>2. from.at # Null => from.at \in InTree
      BY <1>1, <3>1, Distinct DEF Wired, InTree
    <3>3. \A y \in InTree : y \in Subtree(from.at)
      BY <3>1, TreeReached
    <3>4. QED
      BY <1>2, <3>1, <3>2, <3>3 DEF Fits
  <2>3. W \in SUBSET Searches
    OBVIOUS
  <2>. HIDE DEF W
  <2>4. from \in v
    BY <1>10 DEF Passes
  <2>5. end \in W
    BY <1>10, <2>1, <2>2, <2>3, <2>4 DEF Passes, end
  <2>6. QED
    BY <2>5 DEF W
<1>14. BestFit(n) = end.best
  BY DEF BestFit, end, down, from
<1>15. \A y \in InTree : size[y] >= n => end.best # Null /\ size[end.best] <= size[y]
  BY <1>12, <1>13, SubtreeOfNull DEF Fits
<1>16. \A y \in InTree : size[y] \in Int
  BY DEF InTree
<1>17. QED
  BY <1>13, <1>14, <1>15, <1>16 DEF Fits

-----------------------------------------------------------------------------
(* The lists *)

Unrepeated(s) == \A j, k \in 1 .. Len(s) : s[j] = s[k] => j = k

LEMMA InSeq ==
  ASSUME NEW s \in Seq(Chunks)
  PROVE  ToSet(s) \subseteq Chunks /\ \A c : c \in ToSet(s) <=> \E k \in 1 .. Len(s) : s[k] = c
<1>1. DOMAIN s = 1 .. Len(s) /\ \A k \in 1 .. Len(s) : s[k] \in Chunks
  BY ElementOfSeq, LenProperties
<1>2. QED
  BY <1>1 DEF ToSet

LEMMA Pushed ==
  ASSUME NEW s \in Seq(Chunks), Unrepeated(s), NEW c \in Chunks, c \notin ToSet(s)
  PROVE  LET r == <<c>> \o s
         IN  r \in Seq(Chunks) /\ Unrepeated(r) /\ ToSet(r) = ToSet(s) \cup {c}
<1>1. PICK one : one = <<c>>
  OBVIOUS
<1>2. one \in Seq(Chunks) /\ Len(one) = 1 /\ one[1] = c
  BY <1>1
<1>3. PICK r : r = one \o s
  OBVIOUS
<1>4. Len(s) \in Nat
  BY LenProperties
<1>5. r \in Seq(Chunks) /\ Len(r) = Len(s) + 1
      /\ \A i \in 1 .. Len(s) + 1 : r[i] = IF i <= 1 THEN one[i] ELSE s[i - 1]
  <2>1. /\ r \in Seq(Chunks) /\ Len(r) = Len(one) + Len(s)
        /\ \A i \in 1 .. Len(one) + Len(s) : r[i] = IF i <= Len(one) THEN one[i] ELSE s[i - Len(one)]
    BY ONLY <1>2, <1>3, ConcatProperties, s \in Seq(Chunks)
  <2>2. QED
    BY <1>2, <1>4, <2>1
<1>6. r[1] = c /\ \A i \in 2 .. Len(r) : i - 1 \in 1 .. Len(s) /\ r[i] = s[i - 1]
  BY <1>2, <1>4, <1>5
<1>7. \A k \in 1 .. Len(s) : k + 1 \in 2 .. Len(r) /\ r[k + 1] = s[k]
  BY <1>4, <1>5, <1>6
<1>8. ToSet(r) = ToSet(s) \cup {c}
  <2>1. 1 \in 1 .. Len(r) /\ \A i \in 1 .. Len(r) : i = 1 \/ i \in 2 .. Len(r)
    BY <1>4, <1>5
  <2>2. \A i \in 2 .. Len(r) : i \in 1 .. Len(r)
    BY <1>4, <1>5
  <2>3. \A x : x \in ToSet(r) <=> \E k \in 1 .. Len(r) : r[k] = x
    BY <1>5, InSeq
  <2>4. \A x : x \in ToSet(s) <=> \E k \in 1 .. Len(s) : s[k] = x
    BY InSeq
  <2>5. ASSUME NEW x PROVE x \in ToSet(r) <=> x \in ToSet(s) \/ x = c
    <3>1. x \in ToSet(r) => x \in ToSet(s) \/ x = c
      BY <1>6, <2>1, <2>3, <2>4
    <3>2. x \in ToSet(s) => x \in ToSet(r)
      BY <1>7, <2>2, <2>3, <2>4
    <3>3. c \in ToSet(r)
      BY <1>6, <2>1, <2>3
    <3>4. QED
      BY <3>1, <3>2, <3>3
  <2>6. QED
    BY <2>5
<1>9. Unrepeated(r)
  <2>1. ASSUME NEW j \in 1 .. Len(r), NEW k \in 1 .. Len(r), r[j] = r[k] PROVE j = k
    <3>1. \A i \in 1 .. Len(s) : s[i] # c
      BY InSeq
    <3>2. CASE j = 1 \/ k = 1
      <4>1. \A i \in 1 .. Len(r) : i # 1 => i \in 2 .. Len(r)
        BY <1>4, <1>5
      <4>2. \A i \in 1 .. Len(r) : r[i] = c => i = 1
        BY <1>6, <3>1, <4>1
      <4>3. QED
        BY <1>6, <2>1, <3>2, <4>2
    <3>3. CASE j # 1 /\ k # 1
      <4>1. j - 1 \in 1 .. Len(s) /\ k - 1 \in 1 .. Len(s) /\ s[j - 1] = s[k - 1]
        BY <1>4, <1>5, <1>6, <2>1, <3>3
      <4>2. j - 1 = k - 1
        BY <4>1 DEF Unrepeated
      <4>3. QED
        BY <1>4, <1>5, <4>2
    <3>4. QED
      BY <3>2, <3>3
  <2>2. QED
    BY <2>1 DEF Unrepeated
<1>10. QED
  BY <1>1, <1>3, <1>5, <1>8, <1>9

LEMMA Popped ==
  ASSUME NEW s \in Seq(Chunks), Unrepeated(s), s # << >>
  PROVE  /\ Head(s) \in ToSet(s) /\ Tail(s) \in Seq(Chunks) /\ Unrepeated(Tail(s))
         /\ ToSet(Tail(s)) = ToSet(s) \ {Head(s)}
<1>1. Len(s) \in Nat /\ Len(s) > 0 /\ Head(s) = s[1]
  BY EmptySeq, LenProperties
<1>2. PICK r : r = Tail(s)
  OBVIOUS
<1>3. r \in Seq(Chunks) /\ Len(r) = Len(s) - 1 /\ \A i \in 1 .. Len(r) : r[i] = s[i + 1]
  BY <1>2, HeadTailProperties
<1>4. \A i \in 2 .. Len(s) : i - 1 \in 1 .. Len(r) /\ r[i - 1] = s[i] /\ s[i] # s[1]
  BY <1>1, <1>3 DEF Unrepeated
<1>5. 1 \in 1 .. Len(s) /\ \A i \in 1 .. Len(s) : i = 1 \/ i \in 2 .. Len(s)
  BY <1>1
<1>6. \A i \in 1 .. Len(r) : i + 1 \in 2 .. Len(s) /\ i + 1 \in 1 .. Len(s)
  BY <1>1, <1>3
<1>7. ToSet(r) = ToSet(s) \ {s[1]}
  <2>1. \A x : x \in ToSet(r) <=> \E k \in 1 .. Len(r) : r[k] = x
    BY <1>3, InSeq
  <2>2. \A x : x \in ToSet(s) <=> \E k \in 1 .. Len(s) : s[k] = x
    BY InSeq
  <2>3. ASSUME NEW x \in ToSet(r) PROVE x \in ToSet(s) /\ x # s[1]
    <3>1. PICK k \in 1 .. Len(r) : r[k] = x
      BY <2>1
    <3>2. x = s[k + 1] /\ k + 1 \in 1 .. Len(s) /\ k + 1 # 1
      BY <1>1, <1>3, <1>6, <3>1
    <3>3. QED
      BY <1>5, <2>2, <3>2 DEF Unrepeated
  <2>4. ASSUME NEW x \in ToSet(s), x # s[1] PROVE x \in ToSet(r)
    <3>1. PICK k \in 1 .. Len(s) : s[k] = x
      BY <2>2
    <3>2. k \in 2 .. Len(s)
      BY <1>5, <2>4, <3>1
    <3>3. QED
      BY <1>4, <2>1, <3>1, <3>2
  <2>5. QED
    BY <2>3, <2>4
<1>8. Unrepeated(r)
  <2>1. ASSUME NEW j \in 1 .. Len(r), NEW k \in 1 .. Len(r), r[j] = r[k] PROVE j = k
    <3>1. j + 1 = k + 1
      BY <1>3, <1>6, <2>1 DEF Unrepeated
    <3>2. QED
      BY <1>1, <1>3, <3>1
  <2>2. QED
    BY <2>1 DEF Unrepeated
<1>9. Head(s) \in ToSet(s)
  BY <1>1, <1>5, InSeq
<1>10. QED
  BY <1>1, <1>2, <1>3, <1>7, <1>8, <1>9

LEMMA TakenOut ==
  ASSUME NEW s \in Seq(Chunks), Unrepeated(s), NEW c
  PROVE  /\ Unlinked(s, c) \in Seq(Chunks) /\ Unrepeated(Unlinked(s, c))
         /\ ToSet(Unlinked(s, c)) = ToSet(s) \ {c}
<1>1. CASE c \notin ToSet(s)
  <2>1. Unlinked(s, c) = s
    BY <1>1 DEF Unlinked
  <2>2. QED
    BY <1>1, <2>1
<1>2. CASE c \in ToSet(s)
  <2>1. Len(s) \in Nat /\ DOMAIN s = 1 .. Len(s) /\ \A i \in 1 .. Len(s) : s[i] \in Chunks
    BY ElementOfSeq, LenProperties
  <2>2. PICK i \in 1 .. Len(s) : s[i] = c
    BY <1>2, InSeq
  <2>3. \A j \in 1 .. i - 1 : s[j] # c
    BY <2>1, <2>2 DEF Unrepeated
  <2>. DEFINE k == CHOOSE k \in DOMAIN s : s[k] = c /\ \A j \in 1 .. k - 1 : s[j] # c
  <2>4. k \in 1 .. Len(s) /\ s[k] = c
    BY <2>1, <2>2, <2>3
  <2>. DEFINE r == [j \in 1 .. Len(s) - 1 |-> IF j < k THEN s[j] ELSE s[j + 1]]
  <2>5. Unlinked(s, c) = r
    BY <1>2 DEF Unlinked
  <2>. HIDE DEF k
  <2>6. \A j \in 1 .. Len(s) - 1 : r[j] \in Chunks
    BY <2>1, <2>4
  <2>7. r \in Seq(Chunks) /\ Len(r) = Len(s) - 1
    <3>1. Len(s) - 1 \in Nat
      BY <2>1, <2>4
    <3>2. PICK m \in Nat : m = Len(s) - 1
      BY <3>1
    <3>3. r \in [1 .. m -> Chunks]
      BY <2>6, <3>2
    <3>. HIDE DEF r
    <3>4. QED
      BY <3>2, <3>3
  <2>8. \A j \in 1 .. Len(r) : /\ j < k => r[j] = s[j]
                               /\ j >= k => r[j] = s[j + 1]
                               /\ j \in 1 .. Len(s) /\ j + 1 \in 1 .. Len(s)
    BY <2>1, <2>4, <2>7
  <2>. HIDE DEF r
  <2>9. ToSet(r) = ToSet(s) \ {c}
    <3>1. ASSUME NEW j \in 1 .. Len(s), j # k PROVE \E l \in 1 .. Len(r) : r[l] = s[j]
      <4>1. CASE j < k
        BY <2>1, <2>4, <2>7, <2>8, <4>1
      <4>2. CASE j > k
        <5>1. j - 1 \in 1 .. Len(r) /\ j - 1 >= k /\ (j - 1) + 1 = j
          BY <2>1, <2>4, <2>7, <4>2
        <5>2. QED
          BY <2>8, <5>1
      <4>3. QED
        BY <2>1, <2>4, <3>1, <4>1, <4>2
    <3>2. ASSUME NEW l \in 1 .. Len(r) PROVE \E j \in 1 .. Len(s) : j # k /\ s[j] = r[l]
      BY <2>1, <2>4, <2>7, <2>8
    <3>3. \A j \in 1 .. Len(s) : s[j] = c => j = k
      BY <2>4 DEF Unrepeated
    <3>4. \A x : x \in ToSet(r) <=> \E l \in 1 .. Len(r) : r[l] = x
      BY <2>7, InSeq
    <3>5. \A x : x \in ToSet(s) <=> \E j \in 1 .. Len(s) : s[j] = x
      BY InSeq
    <3>6. ASSUME NEW x \in ToSet(r) PROVE x \in ToSet(s) /\ x # c
      BY <3>2, <3>3, <3>4, <3>5, <3>6
    <3>7. ASSUME NEW x \in ToSet(s), x # c PROVE x \in ToSet(r)
      BY <2>4, <3>1, <3>4, <3>5, <3>7
    <3>8. QED
      BY <3>6, <3>7
  <2>10. Unrepeated(r)
    <3>1. ASSUME NEW i1 \in 1 .. Len(r), NEW i2 \in 1 .. Len(r), r[i1] = r[i2] PROVE i1 = i2
      <4>. DEFINE f(j) == IF j < k THEN j ELSE j + 1
      <4>1. f(i1) \in 1 .. Len(s) /\ f(i2) \in 1 .. Len(s) /\ s[f(i1)] = r[i1] /\ s[f(i2)] = r[i2]
        BY <2>1, <2>4, <2>7, <2>8
      <4>2. f(i1) = f(i2)
        <5>. HIDE DEF f
        <5>1. QED
          BY <3>1, <4>1 DEF Unrepeated
      <4>3. QED
        BY <2>1, <2>4, <2>7, <4>2
    <3>2. QED
      BY <3>1 DEF Unrepeated
  <2>11. QED
    BY <2>5, <2>7, <2>9, <2>10
<1>3. QED
  BY <1>1, <1>2

-----------------------------------------------------------------------------
(* The inductive invariant *)

Shaped(t, s) ==
  Wired(t) /\ (\E depth : Ranked(t, depth)) /\ \E below : Ordered(t, s, below)

\* A list holds the chunks of one size, each once and none of the tree.
Listed ==
  /\ list \in [Bins -> Seq(Chunks)]
  /\ \A i \in Bins : /\ Unrepeated(list[i])
                     /\ \A c \in ToSet(list[i]) : size[c] = i /\ tree.parent[c] = Null

\* Only the pool, while nothing has been allocated, may be of a size for the
\* lists and in the tree.
Settled ==
  \/ \A c \in InTree : ~IsNormal(size[c])
  \/ Outside = {} /\ InList = {} /\ \E c : InTree = {c}

KInv ==
  /\ taken \in [units : Sizes \cup {0}, at : Links]
  /\ size \in [Chunks -> Sizes \cup {0}]
  /\ Listed /\ Shaped(tree, size) /\ Settled
  /\ \A c \in Linked : size[c] # 0

LEMMA SizesAreNumbers ==
  /\ Sizes \subseteq Int /\ \A n \in Sizes : n >= 1
  /\ KInv => /\ size \in [Chunks -> Int]
             /\ \A c \in Linked : size[c] \in Sizes /\ size[c] >= 1 /\ c \in Chunks
<1>1. Sizes \subseteq Int /\ \A n \in Sizes : n >= 1
  BY KfcAssumption
<1>2. KInv => size \in [Chunks -> Int]
  <2>1. Sizes \cup {0} \subseteq Int
    BY <1>1
  <2>2. KInv => size \in [Chunks -> Sizes \cup {0}]
    BY DEF KInv
  <2>3. QED
    BY <2>1, <2>2
<1>3. KInv => Linked \subseteq Chunks
  BY InSeq DEF KInv, Listed, Linked, InList, InTree
<1>4. QED
  BY <1>1, <1>2, <1>3 DEF KInv

LEMMA InitKInv == Init => KInv
<1>. SUFFICES ASSUME NEW c \in Chunks, NEW n \in Sizes,
                     list = [i \in Bins |-> << >>],
                     tree = [left   |-> NoLinks,
                             right  |-> [NoLinks EXCEPT ![Root] = c],
                             parent |-> [NoLinks EXCEPT ![c] = Root]],
                     size = [NoSizes EXCEPT ![c] = n],
                     taken = [units |-> 0, at |-> Null]
              PROVE  KInv
  BY DEF Init
<1>1. NoLinks \in [Nodes -> {Null}] /\ c \in Nodes /\ Root \in Nodes /\ c # Root /\ c # Null
      /\ Root # Null
  BY Distinct DEF NoLinks
<1>2. /\ tree.left \in [Nodes -> Links] /\ \A x \in Nodes : tree.left[x] = Null
      /\ tree.right \in [Nodes -> Links] /\ tree.right[Root] = c
      /\ \A x \in Nodes \ {Root} : tree.right[x] = Null
      /\ tree.parent \in [Nodes -> Nodes \cup {Null}] /\ tree.parent[c] = Root
      /\ \A x \in Nodes \ {c} : tree.parent[x] = Null
  BY <1>1, Distinct
<1>3. tree \in Trees
  BY <1>2 DEF Trees
<1>4. Wired(tree)
  BY <1>1, <1>2, <1>3, Distinct DEF Wired
<1>5. \E depth : Ranked(tree, depth)
  <2>. DEFINE d == [x \in Nodes |-> IF x = Root THEN 0 ELSE 1]
  <2>1. Ranked(tree, d)
    BY <1>1, <1>2, Distinct DEF Ranked
  <2>2. QED
    BY <2>1
<1>6. size \in [Chunks -> Sizes \cup {0}] /\ size[c] = n /\ \A x \in Chunks \ {c} : size[x] = 0
  BY DEF NoSizes
<1>7. \E below : Ordered(tree, size, below)
  <2>. DEFINE b == [x \in Nodes |-> Int]
  <2>1. b \in [Nodes -> SUBSET Int] /\ \A x \in Nodes : b[x] = Int
    OBVIOUS
  <2>2. \A x \in Chunks : size[x] \in Int
    BY <1>6, SizesAreNumbers
  <2>. HIDE DEF b
  <2>3. Ordered(tree, size, b)
    BY <1>1, <1>2, <2>1, <2>2, Distinct DEF Ordered
  <2>4. QED
    BY <2>3
<1>8. InTree = {c}
  BY <1>1, <1>2, Distinct DEF InTree
<1>9. \A i \in Bins : list[i] = << >> /\ << >> \in Seq(Chunks) /\ ToSet(<< >>) = {}
                      /\ Unrepeated(<< >>)
  BY DEF ToSet, Unrepeated
<1>10. InList = {} /\ Listed
  BY <1>9 DEF InList, Listed
<1>11. Linked = {c} /\ Outside = {}
  BY <1>6, <1>8, <1>10 DEF Linked, Outside
<1>12. n # 0 /\ n \in Int
  BY KfcAssumption
<1>13. taken \in [units : Sizes \cup {0}, at : Links]
  BY DEF Links
<1>14. QED
  BY <1>4, <1>5, <1>6, <1>7, <1>8, <1>10, <1>11, <1>12, <1>13 DEF KInv, Shaped, Settled

\* Sizes that only change out of the tree leave it in shape.
LEMMA ShapeStays ==
  ASSUME NEW t, NEW s, NEW r, Shaped(t, s), \A c \in Chunks : t.parent[c] # Null => r[c] = s[c]
  PROVE  Shaped(t, r)
<1>1. PICK below : Ordered(t, s, below)
  BY DEF Shaped
<1>2. \A p \in Nodes \ {Root} : /\ t.left[p] # Null => r[p] = s[p]
                                /\ t.right[p] # Null => r[p] = s[p]
  BY Distinct DEF Shaped, Wired
<1>3. t.left[Root] = Null
  BY DEF Shaped, Wired
<1>4. Ordered(t, r, below)
  BY <1>1, <1>2, <1>3, Distinct DEF Ordered
<1>5. QED
  BY <1>4 DEF Shaped

LEMMA ListOf ==
  ASSUME KInv
  PROVE  /\ \A c : c \in InList <=> \E i \in Bins : c \in ToSet(list[i])
         /\ \A i \in Bins, j \in Bins : i # j => ToSet(list[i]) \cap ToSet(list[j]) = {}
         /\ InList \subseteq Chunks /\ InTree \subseteq Chunks
         /\ \A c \in InList : size[c] \in Bins /\ c \in ToSet(list[size[c]]) /\ c \notin InTree
<1>1. \A c : c \in InList <=> \E i \in Bins : c \in ToSet(list[i])
  BY DEF InList
<1>2. \A i \in Bins : list[i] \in Seq(Chunks) /\ ToSet(list[i]) \subseteq Chunks
  BY InSeq DEF KInv, Listed
<1>3. InList \subseteq Chunks /\ InTree \subseteq Chunks
  BY <1>1, <1>2 DEF InTree
<1>4. \A i \in Bins : \A c \in ToSet(list[i]) : size[c] = i /\ c \notin InTree
  BY DEF KInv, Listed, InTree
<1>5. QED
  BY <1>1, <1>3, <1>4

\* One list is replaced: what the lists hold then.
LEMMA ListsAfter ==
  ASSUME KInv, NEW i \in Bins, NEW s, list' = [list EXCEPT ![i] = s]
  PROVE  \A c : c \in InList' <=> c \in ToSet(s) \/ (c \in InList /\ c \notin ToSet(list[i]))
<1>1. list'[i] = s /\ \A j \in Bins \ {i} : list'[j] = list[j]
  BY DEF KInv, Listed
<1>2. \A c : c \in InList' <=> \E j \in Bins : c \in ToSet(list'[j])
  BY DEF InList
<1>3. ASSUME NEW c PROVE c \in InList' <=> c \in ToSet(s) \/ (c \in InList /\ c \notin ToSet(list[i]))
  <2>1. c \in InList' => c \in ToSet(s) \/ (c \in InList /\ c \notin ToSet(list[i]))
    BY <1>1, <1>2, ListOf
  <2>2. c \in ToSet(s) => c \in InList'
    BY <1>1, <1>2
  <2>3. c \in InList /\ c \notin ToSet(list[i]) => c \in InList'
    BY <1>1, <1>2, ListOf
  <2>4. QED
    BY <2>1, <2>2, <2>3
<1>4. QED
  BY <1>3

-----------------------------------------------------------------------------
(* The steps *)

LEMMA AddToList ==
  ASSUME KInv, NEW c \in Chunks, NEW n \in Sizes, AddFc(c, n), IsNormal(n)
  PROVE  KInv' /\ Linked' = Linked \cup {c}
<1>1. /\ Outside # {} /\ c \notin InList /\ c \notin InTree /\ tree' = tree /\ taken' = taken
      /\ size' = [size EXCEPT ![c] = n] /\ list' = [list EXCEPT ![n] = <<c>> \o list[n]]
  BY DEF AddFc, Linked, BinOf
<1>2. n \in Bins /\ n # 0
  BY KfcAssumption DEF IsNormal, Bins
<1>3. /\ list \in [Bins -> Seq(Chunks)] /\ size \in [Chunks -> Sizes \cup {0}]
      /\ \A i \in Bins : /\ Unrepeated(list[i])
                         /\ \A x \in ToSet(list[i]) : size[x] = i /\ tree.parent[x] = Null
  BY DEF KInv, Listed
<1>4. PICK s : s = <<c>> \o list[n]
  OBVIOUS
<1>5. s \in Seq(Chunks) /\ Unrepeated(s) /\ ToSet(s) = ToSet(list[n]) \cup {c}
  BY <1>1, <1>2, <1>3, <1>4, ListOf, Pushed
<1>6. list' = [list EXCEPT ![n] = s]
  BY <1>1, <1>4
<1>7. \A x : x \in InList' <=> x \in InList \/ x = c
  BY <1>2, <1>5, <1>6, ListOf, ListsAfter
<1>8. InTree' = InTree
  BY <1>1 DEF InTree
<1>9. /\ size' \in [Chunks -> Sizes \cup {0}] /\ size'[c] = n
      /\ \A x \in Chunks \ {c} : size'[x] = size[x]
  BY <1>1, <1>3
<1>10. Listed'
  <2>1. list' \in [Bins -> Seq(Chunks)]
    BY <1>3, <1>5, <1>6
  <2>2. list'[n] = s /\ \A i \in Bins \ {n} : list'[i] = list[i]
    BY <1>2, <1>3, <1>6
  <2>3. tree.parent[c] = Null
    BY <1>1 DEF InTree
  <2>4. \A i \in Bins : \A x \in ToSet(list[i]) : x \in InList /\ x \in Chunks
    BY ListOf
  <2>5. ASSUME NEW i \in Bins
        PROVE  /\ Unrepeated(list'[i])
               /\ \A x \in ToSet(list'[i]) : size'[x] = i /\ tree'.parent[x] = Null
    <3>0. \A x \in ToSet(list[i]) : x # c /\ size'[x] = i /\ tree'.parent[x] = Null
      BY <1>1, <1>3, <1>9, <2>4
    <3>1. CASE i = n
      <4>1. list'[i] = s /\ ToSet(list'[i]) = ToSet(list[i]) \cup {c}
        BY <1>5, <2>2, <3>1
      <4>2. size'[c] = i /\ tree'.parent[c] = Null
        BY <1>1, <1>9, <2>3, <3>1
      <4>3. QED
        BY <1>5, <3>0, <4>1, <4>2
    <3>2. CASE i # n
      BY <1>3, <2>2, <3>0, <3>2
    <3>3. QED
      BY <3>1, <3>2
  <2>6. QED
    BY <2>1, <2>5 DEF Listed
<1>11. Shaped(tree', size')
  <2>1. \A x \in Chunks : tree.parent[x] # Null => size'[x] = size[x]
    BY <1>1, <1>9 DEF InTree
  <2>2. Shaped(tree, size)
    BY DEF KInv
  <2>3. PICK r : r = size'
    OBVIOUS
  <2>4. Shaped(tree, r)
    BY <2>1, <2>2, <2>3, ShapeStays
  <2>5. QED
    BY <1>1, <2>3, <2>4
<1>12. Settled'
  <2>1. \A x \in InTree : ~IsNormal(size[x]) /\ x \in Chunks \ {c}
    BY <1>1 DEF KInv, Settled, InTree
  <2>2. \A x \in InTree' : ~IsNormal(size'[x])
    BY <1>8, <1>9, <2>1
  <2>3. QED
    BY <2>2 DEF Settled, IsNormal
<1>13. Linked' = Linked \cup {c}
  BY <1>7, <1>8 DEF Linked
<1>14. \A x \in Linked' : size'[x] # 0
  <2>1. \A x \in Linked : size[x] # 0 /\ x \in Chunks
    BY SizesAreNumbers DEF KInv
  <2>2. QED
    BY <1>2, <1>9, <1>13, <2>1
<1>15. QED
  BY <1>1, <1>9, <1>10, <1>11, <1>12, <1>13, <1>14 DEF KInv

LEMMA AddToTree ==
  ASSUME KInv, NEW c \in Chunks, NEW n \in Sizes, AddFc(c, n), ~IsNormal(n)
  PROVE  KInv' /\ Linked' = Linked \cup {c}
<1>1. /\ Outside # {} /\ c \notin InList /\ c \notin InTree /\ list' = list /\ taken' = taken
      /\ size' = [size EXCEPT ![c] = n] /\ tree' = Insert(tree, c, n)
  BY DEF AddFc, Linked
<1>2. /\ list \in [Bins -> Seq(Chunks)] /\ size \in [Chunks -> Sizes \cup {0}]
      /\ \A i \in Bins : /\ Unrepeated(list[i])
                         /\ \A x \in ToSet(list[i]) : size[x] = i /\ tree.parent[x] = Null
  BY DEF KInv, Listed
<1>3. n \in Int /\ n # 0 /\ tree.parent[c] = Null
  BY <1>1, SizesAreNumbers DEF InTree
<1>4. Added(tree, tree', c, n)
  <2>1. Wired(tree) /\ \E depth : Ranked(tree, depth)
    BY DEF KInv, Shaped
  <2>2. size \in [Chunks -> Int]
    BY SizesAreNumbers
  <2>3. QED
    BY <1>1, <1>3, <2>1, <2>2, InsertKeeps
<1>5. InTree' = InTree \cup {c}
  BY <1>4 DEF Added, InTree
<1>6. /\ size' \in [Chunks -> Sizes \cup {0}] /\ size'[c] = n
      /\ \A x \in Chunks \ {c} : size'[x] = size[x]
  BY <1>1, <1>2
<1>7. InList' = InList
  BY <1>1 DEF InList
<1>8. \A i \in Bins : \A x \in ToSet(list[i]) : x \in Chunks \ {c} /\ tree'.parent[x] = Null
  <2>1. \A i \in Bins : \A x \in ToSet(list[i]) : x \in InList /\ x \in Chunks
    BY ListOf
  <2>2. QED
    BY <1>1, <1>2, <1>4, <2>1 DEF Added
<1>9. Listed'
  BY <1>1, <1>2, <1>6, <1>8 DEF Listed
<1>10. Shaped(tree', size')
  BY <1>1, <1>4 DEF KInv, Shaped, Added
<1>11. Settled'
  <2>1. \A x \in InTree : ~IsNormal(size[x]) /\ x \in Chunks \ {c}
    BY <1>1 DEF KInv, Settled, InTree
  <2>2. \A x \in InTree' : ~IsNormal(size'[x])
    BY <1>5, <1>6, <2>1
  <2>3. QED
    BY <2>2 DEF Settled, IsNormal
<1>12. Linked' = Linked \cup {c}
  BY <1>5, <1>7 DEF Linked
<1>13. \A x \in Linked' : size'[x] # 0
  <2>1. \A x \in Linked : size[x] # 0 /\ x \in Chunks
    BY SizesAreNumbers DEF KInv
  <2>2. QED
    BY <1>3, <1>6, <1>12, <2>1
<1>14. QED
  BY <1>1, <1>6, <1>9, <1>10, <1>11, <1>12, <1>13 DEF KInv

LEMMA ListLoses ==
  ASSUME KInv, NEW i \in Bins, NEW c \in ToSet(list[i]), NEW s \in Seq(Chunks), Unrepeated(s),
         ToSet(s) = ToSet(list[i]) \ {c}, list' = [list EXCEPT ![i] = s],
         tree' = tree, size' = size, taken' \in [units : Sizes \cup {0}, at : Links]
  PROVE  KInv' /\ Linked' = Linked \ {c}
<1>1. /\ list \in [Bins -> Seq(Chunks)] /\ size \in [Chunks -> Sizes \cup {0}]
      /\ \A j \in Bins : /\ Unrepeated(list[j])
                         /\ \A x \in ToSet(list[j]) : size[x] = j /\ tree.parent[x] = Null
      /\ c \in InList /\ c \notin InTree
  BY ListOf DEF KInv, Listed
<1>2. \A x : x \in InList' <=> x \in InList /\ x # c
  <2>1. \A x : x \in InList' <=> x \in ToSet(s) \/ (x \in InList /\ x \notin ToSet(list[i]))
    BY ListsAfter
  <2>2. \A x \in ToSet(list[i]) : x \in InList
    BY ListOf
  <2>3. \A x : x \in ToSet(s) <=> x \in ToSet(list[i]) /\ x # c
    OBVIOUS
  <2>4. QED
    BY <2>1, <2>2, <2>3
<1>3. InTree' = InTree
  BY DEF InTree
<1>4. Listed'
  <2>1. list' \in [Bins -> Seq(Chunks)]
    BY <1>1
  <2>2. list'[i] = s /\ \A j \in Bins \ {i} : list'[j] = list[j]
    BY <1>1
  <2>3. ASSUME NEW j \in Bins
        PROVE  /\ Unrepeated(list'[j])
               /\ \A x \in ToSet(list'[j]) : size[x] = j /\ tree.parent[x] = Null
    BY <1>1, <2>2
  <2>4. QED
    BY <2>1, <2>3 DEF Listed
<1>5. Settled'
  <2>1. \A x \in InTree : ~IsNormal(size[x])
    BY <1>1 DEF KInv, Settled
  <2>2. \A x \in InTree' : ~IsNormal(size'[x])
    BY <1>3, <2>1
  <2>3. QED
    BY <2>2 DEF Settled, IsNormal
<1>6. Linked' = Linked \ {c}
  BY <1>1, <1>2, <1>3 DEF Linked
<1>7. QED
  BY <1>1, <1>4, <1>5, <1>6 DEF KInv

LEMMA TreeLoses ==
  ASSUME KInv, NEW c \in InTree, tree' = RemoveTreeNode(tree, c),
         list' = list, size' = size, taken' \in [units : Sizes \cup {0}, at : Links]
  PROVE  KInv' /\ Linked' = Linked \ {c}
<1>1. /\ list \in [Bins -> Seq(Chunks)] /\ size \in [Chunks -> Sizes \cup {0}]
      /\ \A j \in Bins : /\ Unrepeated(list[j])
                         /\ \A x \in ToSet(list[j]) : size[x] = j /\ tree.parent[x] = Null
      /\ c \in Chunks /\ tree.parent[c] # Null /\ c \notin InList
  BY ListOf DEF KInv, Listed, InTree
<1>2. Removed(tree, tree', c)
  <2>1. Wired(tree) /\ \E depth : Ranked(tree, depth)
    BY DEF KInv, Shaped
  <2>2. QED
    BY <1>1, <2>1, RemoveKeeps
<1>3. InTree' = InTree \ {c}
  BY <1>2 DEF Removed, InTree
<1>4. InList' = InList
  BY DEF InList
<1>5. Listed'
  <2>1. \A j \in Bins : \A x \in ToSet(list[j]) : x \in Chunks
    BY ListOf
  <2>2. \A j \in Bins : \A x \in ToSet(list[j]) : tree'.parent[x] = Null
    BY <1>1, <1>2, <2>1 DEF Removed
  <2>3. QED
    BY <1>1, <2>2 DEF Listed
<1>6. Shaped(tree', size')
  <2>1. size \in [Chunks -> Int]
    BY SizesAreNumbers
  <2>2. QED
    BY <1>2, <2>1 DEF KInv, Shaped, Removed
<1>7. Settled'
  <2>1. (\A x \in InTree : ~IsNormal(size[x])) \/ \E x : InTree = {x}
    BY DEF KInv, Settled
  <2>2. \A x \in InTree' : ~IsNormal(size'[x])
    BY <1>3, <2>1
  <2>3. QED
    BY <2>2 DEF Settled, IsNormal
<1>8. Linked' = Linked \ {c}
  BY <1>1, <1>3, <1>4 DEF Linked
<1>9. QED
  BY <1>1, <1>5, <1>6, <1>7, <1>8 DEF KInv

\* What TakeFromList takes: the head of the least bin that answers.
LEMMA ListTaken ==
  ASSUME KInv, NEW n \in Sizes, TakeFromList(n)
  PROVE  /\ KInv' /\ size' = size
         /\ \E c \in Linked : /\ Linked' = Linked \ {c} /\ taken' = [units |-> n, at |-> c]
                              /\ size[c] >= n
                              /\ \A d \in Linked : size[d] >= n => size[c] <= size[d]
<1>. DEFINE i == CHOOSE i \in BinsFor(n) : \A j \in BinsFor(n) : i <= j
<1>1. BinsFor(n) \in SUBSET Nat /\ BinsFor(n) # {}
  BY DEF TakeFromList, BinsFor, Bins
<1>2. i \in BinsFor(n) /\ \A j \in BinsFor(n) : i <= j
  BY <1>1, Least
<1>3. /\ taken' = [units |-> n, at |-> Head(list[i])]
      /\ list' = [list EXCEPT ![i] = Tail(list[i])] /\ tree' = tree /\ size' = size
  BY DEF TakeFromList
<1>. HIDE DEF i
<1>4. i \in Bins /\ IsNormal(n) /\ i >= n /\ list[i] # << >>
  BY <1>2 DEF BinsFor
<1>5. list[i] \in Seq(Chunks) /\ Unrepeated(list[i])
  BY <1>4 DEF KInv, Listed
<1>6. PICK c : c = Head(list[i])
  OBVIOUS
<1>7. PICK s : s = Tail(list[i])
  OBVIOUS
<1>8. /\ c \in ToSet(list[i]) /\ s \in Seq(Chunks) /\ Unrepeated(s)
      /\ ToSet(s) = ToSet(list[i]) \ {c}
  BY <1>4, <1>5, <1>6, <1>7, Popped
<1>9. c \in InList /\ c \in Chunks /\ c \in Linked /\ size[c] = i
  BY <1>4, <1>8, ListOf DEF KInv, Listed, Linked
<1>10. taken' = [units |-> n, at |-> c] /\ taken' \in [units : Sizes \cup {0}, at : Links]
  BY <1>3, <1>6, <1>9, Distinct
<1>11. KInv' /\ Linked' = Linked \ {c}
  <2>1. list' = [list EXCEPT ![i] = s]
    BY <1>3, <1>7
  <2>2. QED
    BY <1>3, <1>4, <1>8, <1>10, <2>1, ListLoses
<1>12. ASSUME NEW d \in Linked, size[d] >= n PROVE size[c] <= size[d]
  <2>1. CASE d \in InList
    <3>1. size[d] \in Bins /\ d \in ToSet(list[size[d]])
      BY <2>1, ListOf
    <3>2. list[size[d]] \in Seq(Chunks) /\ list[size[d]] # << >>
      <4>1. list[size[d]] \in Seq(Chunks)
        BY <3>1 DEF KInv, Listed
      <4>2. ToSet(<< >>) = {}
        BY DEF ToSet
      <4>3. QED
        BY <3>1, <4>1, <4>2
    <3>3. size[d] \in BinsFor(n)
      BY <1>4, <1>12, <3>1, <3>2 DEF BinsFor
    <3>4. QED
      BY <1>2, <1>9, <3>3
  <2>2. CASE d \in InTree
    <3>1. ~IsNormal(size[d])
      BY <1>9, <2>2 DEF KInv, Settled
    <3>2. size[d] \in Int
      BY SizesAreNumbers
    <3>3. QED
      BY <1>4, <1>9, <3>1, <3>2, KfcAssumption DEF IsNormal, Bins
  <2>3. QED
    BY <2>1, <2>2 DEF Linked
<1>13. QED
  BY <1>3, <1>4, <1>9, <1>10, <1>11, <1>12

\* What TakeFromTree takes, if anything.
LEMMA TreeTaken ==
  ASSUME KInv, NEW n \in Sizes, TakeFromTree(n)
  PROVE  /\ KInv' /\ size' = size
         /\ \/ /\ \A d \in Linked : size[d] < n
               /\ Linked' = Linked /\ taken' = [units |-> n, at |-> Null]
            \/ \E c \in Linked : /\ Linked' = Linked \ {c} /\ taken' = [units |-> n, at |-> c]
                                 /\ size[c] >= n
                                 /\ \A d \in Linked : size[d] >= n => size[c] <= size[d]
<1>1. PICK c : c = BestFit(n)
  OBVIOUS
<1>2. /\ BinsFor(n) = {} /\ taken' = [units |-> n, at |-> c] /\ list' = list /\ size' = size
      /\ c = Null => tree' = tree
      /\ c # Null => tree' = RemoveTreeNode(tree, c)
  BY <1>1 DEF TakeFromTree
<1>3. n \in Int /\ n >= 1 /\ size \in [Chunks -> Int]
  BY SizesAreNumbers
<1>4. /\ c = Null => \A y \in InTree : size[y] < n
      /\ c # Null => /\ c \in InTree /\ size[c] >= n
                     /\ \A y \in InTree : size[y] >= n => size[c] <= size[y]
  BY <1>1, <1>3, BestFitFits DEF KInv, Shaped
<1>5. \A d \in InList : size[d] < n
  <2>1. ASSUME NEW d \in InList, size[d] >= n PROVE FALSE
    <3>1. size[d] \in Bins /\ d \in ToSet(list[size[d]])
      BY ListOf
    <3>2. list[size[d]] # << >>
      <4>1. ToSet(<< >>) = {}
        BY DEF ToSet
      <4>2. QED
        BY <3>1, <4>1
    <3>3. IsNormal(n)
      BY <1>3, <2>1, <3>1, KfcAssumption DEF IsNormal, Bins
    <3>4. QED
      BY <1>2, <2>1, <3>1, <3>2, <3>3 DEF BinsFor
  <2>2. \A d \in InList : size[d] \in Int
    BY <1>3, ListOf
  <2>3. QED
    BY <1>3, <2>1, <2>2
<1>6. CASE c = Null
  <2>1. KInv'
    <3>1. taken' \in [units : Sizes \cup {0}, at : Links]
      BY <1>2, <1>6, Distinct
    <3>2. InList' = InList /\ InTree' = InTree /\ Linked' = Linked /\ Outside' = Outside
      BY <1>2, <1>6 DEF InList, InTree, Linked, Outside
    <3>3. Listed'
      BY <1>2, <1>6 DEF KInv, Listed
    <3>4. Settled'
      BY <1>2, <3>2 DEF KInv, Settled, IsNormal
    <3>5. QED
      BY <1>2, <1>6, <3>1, <3>2, <3>3, <3>4 DEF KInv
  <2>2. Linked' = Linked
    BY <1>2, <1>6 DEF Linked, InList, InTree
  <2>3. QED
    BY <1>2, <1>4, <1>5, <1>6, <2>1, <2>2 DEF Linked
<1>7. CASE c # Null
  <2>1. taken' \in [units : Sizes \cup {0}, at : Links] /\ c \in InTree /\ c \in Linked
    BY <1>2, <1>4, <1>7, Distinct DEF InTree, Linked
  <2>2. KInv' /\ Linked' = Linked \ {c}
    BY <1>2, <1>7, <2>1, TreeLoses
  <2>3. \A d \in Linked : size[d] >= n => size[c] <= size[d]
    <3>1. \A d \in InList : ~(size[d] >= n)
      BY <1>3, <1>5, ListOf
    <3>2. QED
      BY <1>4, <1>7, <3>1 DEF Linked
  <2>4. QED
    BY <1>2, <1>4, <1>7, <2>1, <2>2, <2>3
<1>8. QED
  BY <1>6, <1>7

LEMMA ChunkUnlinked ==
  ASSUME KInv, NEW c \in Chunks, UnlinkHmu(c)
  PROVE  KInv' /\ size' = size /\ taken' = taken /\ c \in Linked /\ Linked' = Linked \ {c}
<1>1. Outside # {} /\ c \in Linked /\ size' = size /\ taken' = taken
  BY DEF UnlinkHmu
<1>2. taken' \in [units : Sizes \cup {0}, at : Links]
  BY <1>1 DEF KInv
<1>3. CASE IsNormal(size[c])
  <2>1. c \notin InTree
    BY <1>1, <1>3 DEF KInv, Settled
  <2>2. PICK i : i = size[c]
    OBVIOUS
  <2>3. i \in Bins /\ c \in ToSet(list[i])
    BY <1>1, <2>1, <2>2, ListOf DEF Linked
  <2>4. list[i] \in Seq(Chunks) /\ Unrepeated(list[i])
    BY <2>3 DEF KInv, Listed
  <2>5. PICK s : s = Unlinked(list[i], c)
    OBVIOUS
  <2>6. s \in Seq(Chunks) /\ Unrepeated(s) /\ ToSet(s) = ToSet(list[i]) \ {c}
    BY <2>4, <2>5, TakenOut
  <2>7. list' = [list EXCEPT ![i] = s] /\ tree' = tree
    BY <1>3, <2>2, <2>5 DEF UnlinkHmu, BinOf
  <2>8. QED
    BY <1>1, <1>2, <2>3, <2>6, <2>7, ListLoses
<1>4. CASE ~IsNormal(size[c])
  <2>1. tree' = RemoveTreeNode(tree, c) /\ list' = list
    BY <1>4 DEF UnlinkHmu
  <2>2. c \in InTree
    <3>1. c \notin InList
      BY <1>4, KfcAssumption, ListOf DEF Bins, IsNormal
    <3>2. QED
      BY <1>1, <3>1 DEF Linked
  <2>3. QED
    BY <1>1, <1>2, <2>1, <2>2, TreeLoses
<1>5. QED
  BY <1>3, <1>4

-----------------------------------------------------------------------------
(* Theorems *)

LEMMA StepKInv == KInv /\ [Next]_vars => KInv'
<1>. SUFFICES ASSUME KInv, [Next]_vars PROVE KInv'
  OBVIOUS
<1>1. CASE \E c \in Chunks, n \in Sizes : AddFc(c, n)
  BY <1>1, AddToList, AddToTree
<1>2. CASE \E n \in Sizes : TakeFromList(n)
  BY <1>2, ListTaken
<1>3. CASE \E n \in Sizes : TakeFromTree(n)
  BY <1>3, TreeTaken
<1>4. CASE \E c \in Chunks : UnlinkHmu(c)
  BY <1>4, ChunkUnlinked
<1>5. CASE UNCHANGED vars
  <2>1. list' = list /\ tree' = tree /\ size' = size /\ taken' = taken
    BY <1>5 DEF vars
  <2>2. InList' = InList /\ InTree' = InTree /\ Linked' = Linked /\ Outside' = Outside
    BY <2>1 DEF InList, InTree, Linked, Outside
  <2>3. Listed'
    BY <2>1 DEF KInv, Listed
  <2>4. Settled'
    BY <2>1, <2>2 DEF KInv, Settled, IsNormal
  <2>5. QED
    BY <2>1, <2>2, <2>3, <2>4 DEF KInv
<1>6. QED
  BY <1>1, <1>2, <1>3, <1>4, <1>5 DEF Next

THEOREM AlwaysKInv == Spec => []KInv
  BY InitKInv, StepKInv, PTL DEF Spec

LEMMA LinksHold == KInv => LinksAgree
<1>. SUFFICES ASSUME KInv PROVE LinksAgree
  OBVIOUS
<1>1. Wired(tree) /\ tree \in Trees
  BY DEF KInv, Shaped, Wired
<1>2. TypeOK
  BY <1>1 DEF KInv, Listed, TypeOK, Trees
<1>3. \A i \in Bins : \A c \in ToSet(list[i]) : size[c] = i
  BY DEF KInv, Listed
<1>4. ASSUME NEW p \in Nodes, NEW c \in {tree.left[p], tree.right[p]} \ {Null}
      PROVE  tree.parent[c] = p /\ tree.left[p] # tree.right[p] /\ c \notin InList
  <2>1. tree.parent[c] = p /\ tree.left[p] # tree.right[p]
    BY <1>1, <1>4 DEF Wired
  <2>2. c \in Chunks
    BY <1>1, <1>4, Distinct DEF Trees
  <2>3. c \in InTree
    BY <2>1, <2>2, Distinct DEF InTree
  <2>4. QED
    BY <2>1, <2>3, ListOf
<1>5. QED
  BY <1>2, <1>3, <1>4 DEF LinksAgree

LEMMA TreeOrderHolds == KInv => TreeOrdered
  BY OrderHolds DEF KInv, Shaped

\* The links of the tree and of the lists agree (LinksAgree) in every state: what
\* remove_tree_node and unlink_hmu find is a child of its parent, and a list
\* holds chunks of its own size.
THEOREM LinksInvariant == Spec => []LinksAgree
  BY AlwaysKInv, LinksHold, PTL

\* The tree stays a search tree, reached whole from its root (TreeOrdered), after any
\* order of insertions and removals, equal sizes among them.
THEOREM OrderInvariant == Spec => []TreeOrdered
  BY AlwaysKInv, TreeOrderHolds, PTL

\* The chunks of the store with their sizes, which KfcSpec calls free.
LEMMA StoreInit == Init => Store!Init
<1>. SUFFICES ASSUME NEW c \in Chunks, NEW n \in Sizes,
                     list = [i \in Bins |-> << >>],
                     tree = [left   |-> NoLinks,
                             right  |-> [NoLinks EXCEPT ![Root] = c],
                             parent |-> [NoLinks EXCEPT ![c] = Root]],
                     size = [NoSizes EXCEPT ![c] = n],
                     taken = [units |-> 0, at |-> Null]
              PROVE  Store!Init
  BY DEF Init
<1>1. \A i \in Bins : ToSet(list[i]) = {}
  BY DEF ToSet
<1>2. InList = {}
  BY <1>1 DEF InList
<1>3. InTree = {c}
  <2>1. c \in Nodes /\ Root # Null
    BY Distinct
  <2>2. tree.parent[c] = Root /\ \A x \in Chunks \ {c} : tree.parent[x] = Null
    BY <2>1, Distinct DEF NoLinks
  <2>3. QED
    BY <2>1, <2>2 DEF InTree
<1>4. Linked = {c}
  BY <1>2, <1>3 DEF Linked
<1>5. size[c] = n
  BY DEF NoSizes
<1>6. [x \in Linked |-> size[x]] = [x \in {c} |-> n]
  BY <1>4, <1>5
<1>7. QED
  BY <1>6 DEF Store!Init

LEMMA StoreStep == KInv /\ [Next]_vars => [Store!Next]_<<[c \in Linked |-> size[c]], taken>>
<1>. SUFFICES ASSUME KInv, [Next]_vars
              PROVE  [Store!Next]_<<[c \in Linked |-> size[c]], taken>>
  OBVIOUS
<1>. DEFINE free == [c \in Linked |-> size[c]]
<1>0. DOMAIN free = Linked /\ (\A c \in Linked : free[c] = size[c]) /\ Linked \subseteq Chunks
      /\ free' = [c \in Linked' |-> size'[c]]
  BY SizesAreNumbers
<1>1. ASSUME NEW c \in Chunks, NEW n \in Sizes, AddFc(c, n) PROVE Store!Add(c, n)
  <2>1. Linked' = Linked \cup {c}
    BY <1>1, AddToList, AddToTree
  <2>2. c \notin Linked /\ taken' = taken /\ size' = [size EXCEPT ![c] = n]
        /\ size \in [Chunks -> Sizes \cup {0}]
    BY <1>1 DEF AddFc, KInv
  <2>3. free' = [x \in Linked \cup {c} |-> IF x = c THEN n ELSE free[x]]
    BY <1>0, <2>1, <2>2
  <2>4. QED
    BY <1>0, <2>2, <2>3 DEF Store!Add
<1>2. ASSUME NEW n \in Sizes, NEW c \in Linked, Linked' = Linked \ {c}, size' = size,
             taken' = [units |-> n, at |-> c], size[c] >= n,
             \A d \in Linked : size[d] >= n => size[c] <= size[d]
      PROVE  Store!Take(n)
  <2>1. free' = [x \in Linked \ {c} |-> free[x]]
    BY <1>0, <1>2
  <2>2. QED
    BY <1>0, <1>2, <2>1 DEF Store!Take, Store!Without
<1>3. ASSUME NEW n \in Sizes, TakeFromList(n) PROVE Store!Take(n)
  BY <1>2, <1>3, ListTaken
<1>4. ASSUME NEW n \in Sizes, TakeFromTree(n) PROVE Store!Take(n) \/ Store!Refuse(n)
  <2>1. CASE /\ \A d \in Linked : size[d] < n
             /\ Linked' = Linked /\ size' = size /\ taken' = [units |-> n, at |-> Null]
    BY <1>0, <2>1 DEF Store!Refuse
  <2>2. QED
    BY <1>2, <1>4, <2>1, TreeTaken
<1>5. ASSUME NEW c \in Chunks, UnlinkHmu(c) PROVE Store!Unlink(c)
  <2>1. size' = size /\ taken' = taken /\ c \in Linked /\ Linked' = Linked \ {c}
    BY <1>5, ChunkUnlinked
  <2>2. free' = [x \in Linked \ {c} |-> free[x]]
    BY <1>0, <2>1
  <2>3. QED
    BY <1>0, <2>1, <2>2 DEF Store!Unlink, Store!Without
<1>6. CASE UNCHANGED vars
  <2>1. free' = free /\ taken' = taken
    BY <1>6 DEF vars, Linked, InList, InTree
  <2>2. QED
    BY <2>1
<1>7. CASE Next
  <2>1. Store!Next
    BY <1>1, <1>3, <1>4, <1>5, <1>7 DEF Next, Store!Next
  <2>2. QED
    BY <2>1
<1>8. QED
  BY <1>6, <1>7

\* The lists and the tree implement the store of KfcSpec: no chunk is lost or
\* answered twice, and alloc_hmu answers with a smallest chunk that is large
\* enough, or with none when there is none.
THEOREM KfcImplementsStore == Spec => ImplementsStore
  BY StoreInit, StoreStep, AlwaysKInv, PTL DEF Spec, ImplementsStore, Store!Spec

=============================================================================
