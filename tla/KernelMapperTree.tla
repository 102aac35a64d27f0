-------------------------- MODULE KernelMapperTree --------------------------
(***************************************************************************)
(* The page tables are a tree: what a walk meets when one entry is         *)
(* written, a new table is linked or cleared, or half of the root is       *)
(* cleared, and that every step keeps the part of the inductive invariant  *)
(* about them.                                                             *)
(***************************************************************************)
EXTENDS KernelMapperInvariant

(* Quotient and remainder. *)
LEMMA Division ==
  ASSUME NEW x \in Nat, NEW p \in Nat \ {0}
  PROVE  /\ x \div p \in Nat /\ x % p \in 0..(p - 1)
         /\ x = p * (x \div p) + (x % p)
  OBVIOUS

----------------------------------------------------------------------------
(* An index of a page is an index of a table. *)
LEMMA IndexType ==
  \A p \in Page, l \in 1..4 : Above(p, l) \in Nat /\ Index(p, l) \in Indices
<1> SUFFICES ASSUME NEW p \in Page PROVE \A l \in 1..4 : Above(p, l) \in Nat /\ Index(p, l) \in Indices
  BY Zenon
<1>0. p \in Nat /\ ENTRIES \in Nat \ {0}
  BY Zenon, MapperAssumption
<1>1. /\ Above(p, 1) = p /\ Above(p, 2) = Above(p, 1) \div ENTRIES
      /\ Above(p, 3) = Above(p, 2) \div ENTRIES /\ Above(p, 4) = Above(p, 3) \div ENTRIES
  BY DEF Above
<1>2. Above(p, 2) \in Nat
  BY Zenon, <1>0, <1>1, Division
<1>3. Above(p, 3) \in Nat
  BY Zenon, <1>0, <1>1, <1>2, Division
<1>4. Above(p, 4) \in Nat
  BY Zenon, <1>0, <1>1, <1>3, Division
<1>5. \A l \in 1..4 : Above(p, l) \in Nat
  <2>1. \A l \in 1..4 : l \in {1, 2, 3, 4}
    OBVIOUS
  <2> QED
    BY Zenon, <1>0, <1>1, <1>2, <1>3, <1>4, <2>1
<1>6. ASSUME NEW l \in 1..4 PROVE Index(p, l) \in Indices
  BY Zenon, <1>0, <1>5, Division DEF Index, Indices
<1> QED
  BY Zenon, <1>5, <1>6

(* The indices of a page determine it. *)
LEMMA SamePage ==
  ASSUME NEW p \in Page, NEW q \in Page, Shares(p, q, 1)
  PROVE  p = q
<1>0. p \in Nat /\ q \in Nat /\ ENTRIES \in Nat \ {0}
  BY Zenon, MapperAssumption
<1>1. /\ Index(p, 1) = Index(q, 1) /\ Index(p, 2) = Index(q, 2)
      /\ Index(p, 3) = Index(q, 3) /\ Index(p, 4) = Index(q, 4)
  BY DEF Shares
<1>2. \A r \in Page :
        /\ Above(r, 1) = r /\ Above(r, 2) = Above(r, 1) \div ENTRIES
        /\ Above(r, 3) = Above(r, 2) \div ENTRIES /\ Above(r, 4) = Above(r, 3) \div ENTRIES
  BY DEF Above
<1>3. ASSUME NEW x \in Nat, NEW y \in Nat, x \div ENTRIES = y \div ENTRIES,
             x % ENTRIES = y % ENTRIES
      PROVE  x = y
  <2>1. x = ENTRIES * (x \div ENTRIES) + (x % ENTRIES)
    BY Zenon, <1>0, Division
  <2>2. y = ENTRIES * (y \div ENTRIES) + (y % ENTRIES)
    BY Zenon, <1>0, Division
  <2> QED
    BY Zenon, <1>3, <2>1, <2>2
<1>4. Above(p, 4) = Above(q, 4)
  BY Zenon, <1>1, MapperAssumption
<1>5. \A l \in 1..4 : Above(p, l) \in Nat /\ Above(q, l) \in Nat
  BY Zenon, IndexType
<1>6. ASSUME NEW l \in 1..3, Above(p, l) \div ENTRIES = Above(q, l) \div ENTRIES,
             Index(p, l) = Index(q, l)
      PROVE  Above(p, l) = Above(q, l)
  BY <1>3, <1>5, <1>6 DEF Index
<1>7. Above(p, 3) = Above(q, 3)
  BY <1>1, <1>2, <1>4, <1>6
<1>8. Above(p, 2) = Above(q, 2)
  BY <1>1, <1>2, <1>7, <1>6
<1>9. Above(p, 1) = Above(q, 1)
  BY <1>1, <1>2, <1>8, <1>6
<1> QED
  BY Zenon, <1>2, <1>9

(* One step of a walk. *)
LEMMA NodeStep ==
  ASSUME NEW mem, NEW p
  PROVE  /\ Node(mem, p, 4) = ROOT
         /\ \A k \in 0..3 : Node(mem, p, k) = Step(mem, Node(mem, p, k + 1), p, k + 1)
<1>1. /\ Node(mem, p, 4) = ROOT
      /\ Node(mem, p, 3) = Step(mem, Node(mem, p, 4), p, 4)
      /\ Node(mem, p, 2) = Step(mem, Node(mem, p, 3), p, 3)
      /\ Node(mem, p, 1) = Step(mem, Node(mem, p, 2), p, 2)
      /\ Node(mem, p, 0) = Step(mem, Node(mem, p, 1), p, 1)
  BY DEF Node
<1>2. ASSUME NEW k \in 0..3
      PROVE  Node(mem, p, k) = Step(mem, Node(mem, p, k + 1), p, k + 1)
  <2>1. CASE k = 0
    BY <1>1, <2>1
  <2>2. CASE k = 1
    BY <1>1, <2>2
  <2>3. CASE k = 2
    BY <1>1, <2>3
  <2>4. CASE k = 3
    BY <1>1, <2>4
  <2> QED
    BY <2>1, <2>2, <2>3, <2>4
<1> QED
  BY Zenon, <1>1, <1>2

(* A walk stops at what is not a table. *)
LEMMA Ends ==
  ASSUME NEW mem, NEW p, NEW k \in 0..4, Node(mem, p, k) \notin TableFrames
  PROVE  \A j \in 0..k : Node(mem, p, j) = Node(mem, p, k)
<1> DEFINE P(j) == j <= k => Node(mem, p, j) = Node(mem, p, k)
<1>1. ASSUME NEW j \in 0..3, P(j + 1) PROVE P(j)
  <2> SUFFICES ASSUME j <= k, j # k PROVE Node(mem, p, j) = Node(mem, p, k)
    BY Zenon
  <2>1. j + 1 <= k
    OBVIOUS
  <2> QED
    BY Zenon, <1>1, <2>1, NodeStep DEF Step
<1>2. P(4)
  OBVIOUS
<1>3. P(3) /\ P(2) /\ P(1) /\ P(0)
  <2> HIDE DEF P
  <2>1. P(3)
    BY <1>1, <1>2
  <2>2. P(2)
    BY <1>1, <2>1
  <2>3. P(1)
    BY <1>1, <2>2
  <2> QED
    BY <1>1, <2>1, <2>2, <2>3
<1>4. \A j \in 0..k : j \in {0, 1, 2, 3, 4}
  OBVIOUS
<1> QED
  BY <1>2, <1>3, <1>4

(* Two pages that share the entries down to level l share the tables. *)
LEMMA SharedTables ==
  ASSUME NEW mem, NEW p \in Page, NEW q \in Page, NEW l \in 1..5, Shares(p, q, l)
  PROVE  \A k \in (l - 1)..4 : Node(mem, p, k) = Node(mem, q, k)
<1> DEFINE P(j) == l - 1 <= j => Node(mem, p, j) = Node(mem, q, j)
<1>1. ASSUME NEW j \in 0..3, P(j + 1) PROVE P(j)
  <2> SUFFICES ASSUME l - 1 <= j PROVE Node(mem, p, j) = Node(mem, q, j)
    BY Zenon
  <2>1. j + 1 \in l..4 /\ l - 1 <= j + 1
    OBVIOUS
  <2>2. Index(p, j + 1) = Index(q, j + 1)
    BY Zenon, <2>1 DEF Shares
  <2> QED
    BY Zenon, <1>1, <2>1, <2>2, NodeStep DEF Step
<1>2. P(4)
  BY Zenon, NodeStep
<1>3. P(3) /\ P(2) /\ P(1) /\ P(0)
  <2> HIDE DEF P
  <2>1. P(3)
    BY <1>1, <1>2
  <2>2. P(2)
    BY <1>1, <2>1
  <2>3. P(1)
    BY <1>1, <2>2
  <2> QED
    BY <1>1, <2>1, <2>2, <2>3
<1>4. \A j \in (l - 1)..4 : j \in {0, 1, 2, 3, 4}
  OBVIOUS
<1> QED
  BY <1>2, <1>3, <1>4

(* No entry that the walk to p meets down to level m differs in mem2. *)
Unwritten(mem, mem2, p, m) ==
  \A k \in m..4 : Node(mem, p, k) \in TableFrames =>
    mem2[Node(mem, p, k)][Index(p, k)] = mem[Node(mem, p, k)][Index(p, k)]

(* Then the walk is the same so far. *)
LEMMA SameWalk ==
  ASSUME NEW mem, NEW mem2, NEW p \in Page, NEW m \in 1..5, Unwritten(mem, mem2, p, m)
  PROVE  \A k \in (m - 1)..4 : Node(mem2, p, k) = Node(mem, p, k)
<1> DEFINE P(j) == m - 1 <= j => Node(mem2, p, j) = Node(mem, p, j)
<1>1. ASSUME NEW j \in 0..3, P(j + 1) PROVE P(j)
  <2> SUFFICES ASSUME m - 1 <= j PROVE Node(mem2, p, j) = Node(mem, p, j)
    BY Zenon
  <2>1. j + 1 \in m..4 /\ m - 1 <= j + 1
    OBVIOUS
  <2>2. Node(mem2, p, j + 1) = Node(mem, p, j + 1)
    BY Zenon, <1>1, <2>1
  <2>3. Step(mem2, Node(mem2, p, j + 1), p, j + 1) = Step(mem, Node(mem, p, j + 1), p, j + 1)
    BY Zenon, <2>1, <2>2 DEF Step, Unwritten
  <2> QED
    BY Zenon, <2>3, NodeStep
<1>2. P(4)
  BY Zenon, NodeStep
<1>3. P(3) /\ P(2) /\ P(1) /\ P(0)
  <2> HIDE DEF P
  <2>1. P(3)
    BY <1>1, <1>2
  <2>2. P(2)
    BY <1>1, <2>1
  <2>3. P(1)
    BY <1>1, <2>2
  <2> QED
    BY <1>1, <2>1, <2>2, <2>3
<1>4. \A j \in (m - 1)..4 : j \in {0, 1, 2, 3, 4}
  OBVIOUS
<1> QED
  BY <1>2, <1>3, <1>4

(* A tree from which entries are taken is a tree. *)
LEMMA Pruned ==
  ASSUME NEW mem, NEW mem2, NEW free, IsTree(mem, free),
         mem2 \in [TableFrames -> [Indices -> Content]],
         \A p \in Page, k \in 0..4 :
           Node(mem2, p, k) = Node(mem, p, k) \/ Node(mem2, p, k) \notin TableFrames,
         \A f \in free : mem2[f] = mem[f]
  PROVE  IsTree(mem2, free)
<1>1. ASSUME NEW p \in Page, NEW q \in Page, NEW j \in 1..4, NEW k \in 1..4,
             Node(mem2, p, j) \in TableFrames, Node(mem2, p, j) = Node(mem2, q, k)
      PROVE  j = k /\ Shares(p, q, j + 1)
  <2>1. j \in 0..4 /\ k \in 0..4
    OBVIOUS
  <2>2. Node(mem2, p, j) = Node(mem, p, j) /\ Node(mem2, q, k) = Node(mem, q, k)
    BY Zenon, <1>1, <2>1
  <2> QED
    BY Zenon, <1>1, <2>2 DEF IsTree
<1>2. ASSUME NEW p \in Page PROVE Node(mem2, p, 0) \notin TableFrames
  BY DEF IsTree
<1>3. ASSUME NEW p \in Page, NEW k \in 1..4 PROVE Node(mem2, p, k) \notin free
  <2>1. k \in 0..4
    OBVIOUS
  <2> QED
    BY Zenon, <2>1 DEF IsTree
<1> QED
  BY Zenon, <1>1, <1>2, <1>3 DEF IsTree

(* What two walks share at level l + 1 and in the entry of level l, they share at
   level l. *)
LEMMA SharesMore ==
  ASSUME NEW p \in Page, NEW q \in Page, NEW l \in 1..4
  PROVE  /\ Shares(p, q, l) <=> Shares(p, q, l + 1) /\ Index(p, l) = Index(q, l)
         /\ Shares(p, q, l) <=> Shares(q, p, l)
<1>1. \A j : j \in l..4 <=> j = l \/ j \in (l + 1)..4
  OBVIOUS
<1> QED
  BY Zenon, <1>1 DEF Shares

(* mem2 is the tree mem with v in the entry of level l on the walk to r. *)
Written(mem, mem2, free, r, l, v) ==
  /\ IsTree(mem, free) /\ Node(mem, r, l) \in TableFrames
  /\ mem2 = [mem EXCEPT ![Node(mem, r, l)][Index(r, l)] = v]

(* The walks to the pages that share the entry lead to v, the others and what is
   above it are the same. *)
Leads(mem, mem2, r, l, v) ==
  /\ \A q \in Page : ~Shares(q, r, l) => \A k \in 0..4 : Node(mem2, q, k) = Node(mem, q, k)
  /\ \A q \in Page, k \in l..4 : Node(mem2, q, k) = Node(mem, q, k)
  /\ \A q \in Page : Shares(q, r, l) => Node(mem2, q, l - 1) = v

(* To write an entry changes no more than that. *)
LEMMA WriteEntry ==
  ASSUME NEW mem, NEW mem2, NEW free, NEW r \in Page, NEW l \in 1..4, NEW v,
         Written(mem, mem2, free, r, l, v)
  PROVE  Leads(mem, mem2, r, l, v)
<1> DEFINE t == Node(mem, r, l) i == Index(r, l)
<1>1. /\ IsTree(mem, free)
      /\ mem \in [TableFrames -> [Indices -> Content]] /\ t \in TableFrames /\ i \in Indices
  BY Zenon, IndexType DEF IsTree, Written
<1>2. mem2[t][i] = v
  BY Zenon, <1>1 DEF Written
<1>3. ASSUME NEW f \in TableFrames, NEW x \in Indices, f # t \/ x # i
      PROVE  mem2[f][x] = mem[f][x]
  BY Zenon, <1>1, <1>3 DEF Written
<1>4. ASSUME NEW q \in Page, NEW k \in 1..4, Node(mem, q, k) \in TableFrames,
             ~(k = l /\ Shares(q, r, l))
      PROVE  mem2[Node(mem, q, k)][Index(q, k)] = mem[Node(mem, q, k)][Index(q, k)]
  <2>1. CASE Node(mem, q, k) = t /\ Index(q, k) = i
    <3>1. k = l /\ Shares(q, r, k + 1)
      BY Zenon, <1>1, <1>4, <2>1 DEF IsTree
    <3> QED
      BY Zenon, <1>4, <2>1, <3>1, SharesMore
  <2>2. CASE ~(Node(mem, q, k) = t /\ Index(q, k) = i)
    BY Zenon, <1>3, <1>4, <2>2, IndexType
  <2> QED
    BY Zenon, <2>1, <2>2
<1>5. t = Node(mem, r, l) /\ i = Index(r, l)
  BY Zenon
<1> HIDE DEF t, i
<1>6. ASSUME NEW q \in Page, ~Shares(q, r, l), NEW k \in 0..4
      PROVE  Node(mem2, q, k) = Node(mem, q, k)
  <2>1. Unwritten(mem, mem2, q, 1)
    BY Zenon, <1>4, <1>6 DEF Unwritten
  <2>2. \A j \in (1 - 1)..4 : Node(mem2, q, j) = Node(mem, q, j)
    BY <2>1, SameWalk
  <2> QED
    BY <2>2
<1>7. ASSUME NEW q \in Page, NEW k \in l..4 PROVE Node(mem2, q, k) = Node(mem, q, k)
  <2>1. Unwritten(mem, mem2, q, l + 1)
    <3>1. \A j \in (l + 1)..4 : j \in 1..4 /\ j # l
      OBVIOUS
    <3> QED
      BY Zenon, <1>4, <3>1 DEF Unwritten
  <2>2. l + 1 \in 1..5 /\ k \in ((l + 1) - 1)..4
    OBVIOUS
  <2>3. \A j \in ((l + 1) - 1)..4 : Node(mem2, q, j) = Node(mem, q, j)
    BY <2>1, <2>2, SameWalk
  <2> QED
    BY Zenon, <2>2, <2>3
<1>8. ASSUME NEW q \in Page, Shares(q, r, l) PROVE Node(mem2, q, l - 1) = v
  <2>1. l \in (l - 1)..4 /\ l \in 1..5 /\ l - 1 \in 0..3 /\ (l - 1) + 1 = l /\ l \in l..4
    OBVIOUS
  <2>2. Node(mem2, q, l) = t
    <3>1. Node(mem, q, l) = t
      BY Zenon, <1>5, <1>8, <2>1, SharedTables
    <3> QED
      BY Zenon, <1>7, <2>1, <3>1
  <2>3. Index(q, l) = i
    BY Zenon, <1>5, <1>8, <2>1 DEF Shares
  <2>4. Node(mem2, q, l - 1) = Step(mem2, t, q, l)
    BY Zenon, <2>1, <2>2, NodeStep
  <2> QED
    BY Zenon, <1>1, <1>2, <2>3, <2>4 DEF Step
<1> QED
  BY Zenon, <1>6, <1>7, <1>8 DEF Leads

(* To write an entry keeps the type of memory. *)
LEMMA WriteType ==
  ASSUME NEW mem \in [TableFrames -> [Indices -> Content]], NEW t \in TableFrames,
         NEW i \in Indices, NEW v \in Content
  PROVE  /\ [mem EXCEPT ![t][i] = v] \in [TableFrames -> [Indices -> Content]]
         /\ \A f \in TableFrames \ {t} : [mem EXCEPT ![t][i] = v][f] = mem[f]
  BY Zenon

(* v is the table of level l - 1 of the pages that had none, and what it holds is
   what they are mapped to. *)
Linked(mem, mem2, free, r, l, v) ==
  /\ IsTree(mem2, free \ {v})
  /\ \A q \in Page : ~Shares(q, r, l) => \A k \in 0..4 : Node(mem2, q, k) = Node(mem, q, k)
  /\ \A q \in Page, k \in l..4 : Node(mem2, q, k) = Node(mem, q, k)
  /\ \A q \in Page : Shares(q, r, l) =>
       /\ Node(mem2, q, l - 1) = v
       /\ \A k \in 0..(l - 2) : Node(mem2, q, k) = JUNK
       /\ Node(mem, q, 0) = NONE

(* ensure_allocated: a frame of the pool becomes the table of level l - 1 of the
   pages that had none. *)
LEMMA LinkTable ==
  ASSUME NEW mem, NEW mem2, NEW free, NEW r \in Page, NEW l \in 2..4, NEW v \in free,
         Written(mem, mem2, free, r, l, v), Node(mem, r, l - 1) = NONE
  PROVE  Linked(mem, mem2, free, r, l, v)
<1>0. /\ IsTree(mem, free)
      /\ mem \in [TableFrames -> [Indices -> Content]] /\ free \subseteq TableFrames
      /\ v \in TableFrames /\ l \in 1..4 /\ Node(mem, r, l) \in TableFrames
  BY DEF IsTree, Written
<1>l. l \in 1..4
  OBVIOUS
<1>1. /\ \A q \in Page : ~Shares(q, r, l) => \A k \in 0..4 : Node(mem2, q, k) = Node(mem, q, k)
      /\ \A q \in Page, k \in l..4 : Node(mem2, q, k) = Node(mem, q, k)
      /\ \A q \in Page : Shares(q, r, l) => Node(mem2, q, l - 1) = v
  <2>1. Leads(mem, mem2, r, l, v)
    BY Zenon, <1>l, WriteEntry
  <2> QED
    BY Zenon, <2>1 DEF Leads
<1>2. /\ mem2 \in [TableFrames -> [Indices -> Content]]
      /\ \A f \in TableFrames \ {Node(mem, r, l)} : mem2[f] = mem[f]
  <2>1. v \in Content /\ Index(r, l) \in Indices
    BY Zenon, <1>0, Layout, IndexType DEF Content
  <2> QED
    BY <1>0, <2>1, WriteType DEF Written
<1>3. Node(mem, r, l) \notin free
  BY Zenon, <1>0 DEF IsTree
<1>4. \A f \in free : mem2[f] = mem[f]
  BY Zenon, <1>0, <1>2, <1>3
<1>5. ASSUME NEW q \in Page, Shares(q, r, l)
      PROVE  /\ \A k \in 0..(l - 2) : Node(mem2, q, k) = JUNK
             /\ Node(mem, q, 0) = NONE
  <2>1. Node(mem2, q, l - 2) = JUNK
    <3>1. l - 2 \in 0..3 /\ (l - 2) + 1 = l - 1 /\ l - 1 \in 1..4
      OBVIOUS
    <3>2. Node(mem2, q, l - 1) = v
      BY Zenon, <1>1, <1>5
    <3>3. Node(mem2, q, l - 2) = mem2[v][Index(q, l - 1)]
      <4>1. Node(mem2, q, l - 2) = Step(mem2, v, q, l - 1)
        BY Zenon, <3>1, <3>2, NodeStep
      <4> QED
        BY Zenon, <1>0, <4>1 DEF Step
    <3>4. mem[v][Index(q, l - 1)] = JUNK
      BY Zenon, <1>0, <3>1, IndexType DEF IsTree
    <3> QED
      BY Zenon, <1>4, <3>3, <3>4
  <2>2. \A k \in 0..(l - 2) : Node(mem2, q, k) = JUNK
    <3>1. l - 2 \in 0..4
      OBVIOUS
    <3> QED
      BY Zenon, <2>1, <3>1, Ends, MapperAssumption
  <2>3. Node(mem, q, 0) = NONE
    <3>1. l - 1 \in (l - 1)..4 /\ l \in 1..5 /\ l - 1 \in 0..4 /\ 0 \in 0..(l - 1)
      OBVIOUS
    <3>2. Node(mem, q, l - 1) = NONE
      BY Zenon, <1>5, <3>1, SharedTables
    <3> QED
      BY Zenon, <3>1, <3>2, Ends, MapperAssumption
  <2> QED
    BY Zenon, <2>2, <2>3
<1>6. ASSUME NEW q \in Page, NEW k \in 0..4
      PROVE  \/ Node(mem2, q, k) = Node(mem, q, k)
             \/ k = l - 1 /\ Shares(q, r, l) /\ Node(mem2, q, k) = v
             \/ k < l - 1 /\ Node(mem2, q, k) = JUNK
  <2>1. k \in l..4 \/ k = l - 1 \/ (k \in 0..(l - 2) /\ k < l - 1)
    OBVIOUS
  <2>2. CASE ~Shares(q, r, l)
    BY Zenon, <1>1, <2>2
  <2>3. CASE Shares(q, r, l)
    BY Zenon, <1>1, <1>5, <2>1, <2>3
  <2> QED
    BY Zenon, <2>2, <2>3
<1>7. \A q \in Page, k \in 1..4 : Node(mem, q, k) \notin free
  BY Zenon, <1>0 DEF IsTree
<1>8. ASSUME NEW p \in Page, NEW q \in Page, NEW j \in 1..4, NEW k \in 1..4,
             Node(mem2, p, j) \in TableFrames, Node(mem2, p, j) = Node(mem2, q, k)
      PROVE  j = k /\ Shares(p, q, j + 1)
  <2>0. j \in 0..4 /\ k \in 0..4 /\ JUNK \notin TableFrames
    BY MapperAssumption
  <2>1. \/ Node(mem2, p, j) = Node(mem, p, j)
        \/ j = l - 1 /\ Shares(p, r, l) /\ Node(mem2, p, j) = v
    BY Zenon, <1>6, <1>8, <2>0
  <2>2. \/ Node(mem2, q, k) = Node(mem, q, k)
        \/ k = l - 1 /\ Shares(q, r, l) /\ Node(mem2, q, k) = v
    BY Zenon, <1>6, <1>8, <2>0
  <2>3. CASE Node(mem2, p, j) = v
    <3>1. j = l - 1 /\ Shares(p, r, l)
      BY Zenon, <1>7, <2>1, <2>3
    <3>2. k = l - 1 /\ Shares(q, r, l)
      BY Zenon, <1>7, <1>8, <2>2, <2>3
    <3>3. Shares(p, q, l)
      BY Zenon, <3>1, <3>2 DEF Shares
    <3>4. j + 1 = l
      BY <3>1
    <3> QED
      BY Zenon, <3>1, <3>2, <3>3, <3>4
  <2>4. CASE Node(mem2, p, j) # v
    <3>1. Node(mem2, p, j) = Node(mem, p, j) /\ Node(mem2, q, k) = Node(mem, q, k)
      BY Zenon, <1>8, <2>1, <2>2, <2>4
    <3> QED
      BY Zenon, <1>0, <1>8, <3>1 DEF IsTree
  <2> QED
    BY Zenon, <2>3, <2>4
<1>9. ASSUME NEW p \in Page PROVE Node(mem2, p, 0) \notin TableFrames
  <2>1. 0 \in 0..4 /\ 0 # l - 1
    OBVIOUS
  <2>2. Node(mem2, p, 0) = Node(mem, p, 0) \/ Node(mem2, p, 0) = JUNK
    BY Zenon, <1>6, <2>1
  <2>3. Node(mem, p, 0) \notin TableFrames
    BY Zenon, <1>0 DEF IsTree
  <2> QED
    BY Zenon, <2>2, <2>3, MapperAssumption
<1>10. ASSUME NEW p \in Page, NEW k \in 1..4 PROVE Node(mem2, p, k) \notin free \ {v}
  <2>1. k \in 0..4 /\ JUNK \notin free
    BY <1>0, MapperAssumption
  <2> QED
    BY Zenon, <1>6, <1>7, <2>1
<1>11. \A f \in free \ {v}, i \in Indices : mem2[f][i] = JUNK
  BY Zenon, <1>0, <1>4 DEF IsTree
<1>12. IsTree(mem2, free \ {v})
  BY Zenon, <1>0, <1>2, <1>8, <1>9, <1>10, <1>11 DEF IsTree
<1> QED
  BY Zenon, <1>1, <1>5, <1>12 DEF Linked

(* mem2 is the tree mem in which the table below the entry of level l on the walk
   to r is cleared. *)
Emptied(mem, mem2, free, r, l) ==
  /\ IsTree(mem, free) /\ Node(mem, r, l - 1) \in TableFrames
  /\ mem2 = [mem EXCEPT ![Node(mem, r, l - 1)] = [i \in Indices |-> NONE]]

(* Nothing is mapped below the entry, the rest is the same. *)
LeadsNowhere(mem, mem2, free, r, l) ==
  /\ IsTree(mem2, free)
  /\ \A q \in Page : ~Shares(q, r, l) => \A k \in 0..4 : Node(mem2, q, k) = Node(mem, q, k)
  /\ \A q \in Page, k \in (l - 1)..4 : Node(mem2, q, k) = Node(mem, q, k)
  /\ \A q \in Page : Shares(q, r, l) => \A k \in 0..(l - 2) : Node(mem2, q, k) = NONE

(* ensure_allocated: a table that is cleared leads nowhere. *)
LEMMA ClearTable ==
  ASSUME NEW mem, NEW mem2, NEW free, NEW r \in Page, NEW l \in 2..4,
         Emptied(mem, mem2, free, r, l)
  PROVE  LeadsNowhere(mem, mem2, free, r, l)
<1> DEFINE f == Node(mem, r, l - 1)
<1>0. IsTree(mem, free) /\ f \in TableFrames /\ l - 1 \in 1..4
  BY DEF Emptied
<1>1. mem \in [TableFrames -> [Indices -> Content]] /\ free \subseteq TableFrames /\ f \notin free
  BY Zenon, <1>0 DEF IsTree
<1>2. mem2 = [mem EXCEPT ![f] = [i \in Indices |-> NONE]]
  BY Zenon DEF Emptied
<1>3. f = Node(mem, r, l - 1)
  BY Zenon
<1> HIDE DEF f
<1>4. /\ mem2 \in [TableFrames -> [Indices -> Content]]
      /\ \A g \in TableFrames \ {f} : mem2[g] = mem[g]
      /\ \A i \in Indices : mem2[f][i] = NONE
  <2>1. NONE \in Content
    BY Zenon DEF Content
  <2> QED
    BY Zenon, <1>0, <1>1, <1>2, <2>1
<1>5. ASSUME NEW q \in Page, NEW k \in 1..4, Node(mem, q, k) = f
      PROVE  k = l - 1 /\ Shares(q, r, l)
  <2>1. k = l - 1 /\ Shares(q, r, k + 1)
    BY <1>0, <1>3, <1>5 DEF IsTree
  <2>2. k + 1 = l
    BY <2>1
  <2> QED
    BY Zenon, <2>1, <2>2
<1>6. ASSUME NEW q \in Page, ~Shares(q, r, l)
      PROVE  \A k \in 0..4 : Node(mem2, q, k) = Node(mem, q, k)
  <2>1. Unwritten(mem, mem2, q, 1)
    BY Zenon, <1>4, <1>5, <1>6 DEF Unwritten
  <2>2. \A j \in (1 - 1)..4 : Node(mem2, q, j) = Node(mem, q, j)
    BY <2>1, SameWalk
  <2> QED
    BY <2>2
<1>7. ASSUME NEW q \in Page
      PROVE  \A k \in (l - 1)..4 : Node(mem2, q, k) = Node(mem, q, k)
  <2>1. Unwritten(mem, mem2, q, l)
    <3>1. \A k \in l..4 : k \in 1..4 /\ k # l - 1
      OBVIOUS
    <3> QED
      BY Zenon, <1>4, <1>5, <3>1 DEF Unwritten
  <2>2. l \in 1..5
    OBVIOUS
  <2> QED
    BY <2>1, <2>2, SameWalk
<1>8. ASSUME NEW q \in Page, Shares(q, r, l)
      PROVE  \A k \in 0..(l - 2) : Node(mem2, q, k) = NONE
  <2>1. /\ l - 1 \in (l - 1)..4 /\ l \in 1..5 /\ l - 2 \in 0..3 /\ (l - 2) + 1 = l - 1
        /\ l - 2 \in 0..4
    OBVIOUS
  <2>2. Node(mem, q, l - 1) = f
    BY Zenon, <1>3, <1>8, <2>1, SharedTables
  <2>3. Node(mem2, q, l - 1) = f
    BY Zenon, <1>7, <2>1, <2>2
  <2>4. Node(mem2, q, l - 2) = Step(mem2, f, q, l - 1)
    BY Zenon, <2>1, <2>3, NodeStep
  <2>5. Node(mem2, q, l - 2) = NONE
    BY Zenon, <1>0, <1>4, <2>4, IndexType DEF Step
  <2> QED
    BY <2>1, <2>5, Ends, MapperAssumption
<1>9. ASSUME NEW q \in Page, NEW k \in 0..4
      PROVE  Node(mem2, q, k) = Node(mem, q, k) \/ Node(mem2, q, k) \notin TableFrames
  <2>1. k \in (l - 1)..4 \/ k \in 0..(l - 2)
    OBVIOUS
  <2>2. CASE ~Shares(q, r, l)
    BY Zenon, <1>6, <2>2
  <2>3. CASE Shares(q, r, l)
    BY Zenon, <1>7, <1>8, <2>1, <2>3, MapperAssumption
  <2> QED
    BY Zenon, <2>2, <2>3
<1>10. IsTree(mem2, free)
  <2>1. \A g \in free : mem2[g] = mem[g]
    BY Zenon, <1>1, <1>4
  <2> QED
    BY <1>0, <1>4, <1>9, <2>1, Pruned
<1> QED
  BY Zenon, <1>6, <1>7, <1>8, <1>10 DEF LeadsNowhere

(* Page r is mapped to v, the tables and the other pages are the same. *)
MapsOne(mem, mem2, free, r, v) ==
  /\ IsTree(mem2, free)
  /\ \A q \in Page \ {r} : \A k \in 0..4 : Node(mem2, q, k) = Node(mem, q, k)
  /\ \A q \in Page, k \in 1..4 : Node(mem2, q, k) = Node(mem, q, k)
  /\ Node(mem2, r, 0) = v

(* The entry of the P1 table maps one page. *)
LEMMA SetLeaf ==
  ASSUME NEW mem, NEW mem2, NEW free, NEW r \in Page, NEW v \in Nat \ TableFrames,
         Written(mem, mem2, free, r, 1, v)
  PROVE  MapsOne(mem, mem2, free, r, v)
<1> DEFINE t == Node(mem, r, 1)
<1>0. /\ IsTree(mem, free) /\ t \in TableFrames
      /\ mem \in [TableFrames -> [Indices -> Content]] /\ free \subseteq TableFrames
      /\ t \notin free
  <2>1. IsTree(mem, free) /\ t \in TableFrames
    BY Zenon DEF Written
  <2> QED
    BY <2>1 DEF IsTree
<1>1. Leads(mem, mem2, r, 1, v)
  BY WriteEntry
<1>2. ASSUME NEW q \in Page \ {r} PROVE \A k \in 0..4 : Node(mem2, q, k) = Node(mem, q, k)
  <2>1. ~Shares(q, r, 1)
    BY Zenon, SamePage
  <2> QED
    BY Zenon, <1>1, <2>1 DEF Leads
<1>3. \A q \in Page, k \in 1..4 : Node(mem2, q, k) = Node(mem, q, k)
  BY Zenon, <1>1 DEF Leads
<1>4. Node(mem2, r, 0) = v
  <2>1. Shares(r, r, 1) /\ 1 - 1 = 0
    BY DEF Shares
  <2> QED
    BY Zenon, <1>1, <2>1 DEF Leads
<1>5. /\ mem2 \in [TableFrames -> [Indices -> Content]]
      /\ \A f \in TableFrames \ {t} : mem2[f] = mem[f]
  <2>1. v \in Content /\ Index(r, 1) \in Indices
    BY IndexType DEF Content
  <2> QED
    BY <1>0, <2>1, WriteType DEF Written
<1>6. ASSUME NEW q \in Page, NEW k \in 0..4
      PROVE  Node(mem2, q, k) = Node(mem, q, k) \/ Node(mem2, q, k) \notin TableFrames
  <2>1. k = 0 \/ k \in 1..4
    OBVIOUS
  <2> QED
    BY Zenon, <1>2, <1>3, <1>4, <2>1
<1>7. \A f \in free : mem2[f] = mem[f]
  BY Zenon, <1>0, <1>5
<1>8. IsTree(mem2, free)
  BY <1>0, <1>5, <1>6, <1>7, Pruned
<1> QED
  BY Zenon, <1>2, <1>3, <1>4, <1>8 DEF MapsOne

(* mem2 is the tree mem in which the lower half of the P4 table is cleared. *)
Halved(mem, mem2, free) ==
  /\ IsTree(mem, free)
  /\ mem2 = [mem EXCEPT ![ROOT] =
               [i \in Indices |-> IF i < ENTRIES \div 2 THEN NONE ELSE mem[ROOT][i]]]

(* remove_identity takes user space away and nothing else. *)
LEMMA ClearHalf ==
  ASSUME NEW mem, NEW mem2, NEW free, Halved(mem, mem2, free)
  PROVE  /\ IsTree(mem2, free)
         /\ \A q \in Page \ UserPages, k \in 0..4 : Node(mem2, q, k) = Node(mem, q, k)
         /\ \A q \in UserPages, k \in 0..3 : Node(mem2, q, k) = NONE
<1>0. /\ IsTree(mem, free) /\ ROOT \in TableFrames
      /\ mem \in [TableFrames -> [Indices -> Content]] /\ free \subseteq TableFrames
  BY Zenon, Layout DEF IsTree, Halved
<1>1. /\ mem2 \in [TableFrames -> [Indices -> Content]]
      /\ \A g \in TableFrames \ {ROOT} : mem2[g] = mem[g]
      /\ \A i \in Indices :
           mem2[ROOT][i] = IF i < ENTRIES \div 2 THEN NONE ELSE mem[ROOT][i]
  <2> DEFINE row == [i \in Indices |-> IF i < ENTRIES \div 2 THEN NONE ELSE mem[ROOT][i]]
  <2>1. NONE \in Content
    BY Zenon DEF Content
  <2>2. row \in [Indices -> Content]
    BY Zenon, <1>0, <2>1
  <2>3. \A i \in Indices : row[i] = IF i < ENTRIES \div 2 THEN NONE ELSE mem[ROOT][i]
    BY Zenon
  <2>4. mem2 = [mem EXCEPT ![ROOT] = row]
    BY Zenon DEF Halved
  <2> HIDE DEF row
  <2> QED
    BY Zenon, <1>0, <2>2, <2>3, <2>4
<1>2. \A q \in Page : Node(mem, q, 4) = ROOT /\ Node(mem2, q, 4) = ROOT
  BY Zenon, NodeStep
<1>3. ASSUME NEW q \in Page \ UserPages PROVE \A k \in 0..4 : Node(mem2, q, k) = Node(mem, q, k)
  <2>1. ~(Index(q, 4) < ENTRIES \div 2) /\ Index(q, 4) \in Indices
    BY MapperAssumption, IndexType
  <2>2. ASSUME NEW k \in 1..4, Node(mem, q, k) \in TableFrames
        PROVE  mem2[Node(mem, q, k)][Index(q, k)] = mem[Node(mem, q, k)][Index(q, k)]
    <3>1. CASE Node(mem, q, k) = ROOT
      <4>1. k = 4
        BY <1>0, <1>2, <3>1 DEF IsTree
      <4> QED
        BY Zenon, <1>1, <2>1, <3>1, <4>1
    <3>2. CASE Node(mem, q, k) # ROOT
      BY Zenon, <1>1, <2>2, <3>2
    <3> QED
      BY Zenon, <3>1, <3>2
  <2>3. Unwritten(mem, mem2, q, 1)
    BY Zenon, <2>2 DEF Unwritten
  <2>4. \A j \in (1 - 1)..4 : Node(mem2, q, j) = Node(mem, q, j)
    BY <2>3, SameWalk
  <2> QED
    BY <2>4
<1>4. ASSUME NEW q \in UserPages PROVE \A k \in 0..3 : Node(mem2, q, k) = NONE
  <2>1. q \in Page /\ Index(q, 4) < ENTRIES \div 2 /\ Index(q, 4) \in Indices
    BY MapperAssumption, IndexType DEF UserPages
  <2>2. Node(mem2, q, 3) = Step(mem2, ROOT, q, 4)
    BY <1>2, <2>1, NodeStep
  <2>3. Node(mem2, q, 3) = NONE
    BY Zenon, <1>0, <1>1, <2>1, <2>2 DEF Step
  <2> QED
    BY <2>3, Ends, MapperAssumption
<1>5. ASSUME NEW q \in Page, NEW k \in 0..4
      PROVE  Node(mem2, q, k) = Node(mem, q, k) \/ Node(mem2, q, k) \notin TableFrames
  <2>1. k = 4 \/ k \in 0..3
    OBVIOUS
  <2> QED
    BY Zenon, <1>2, <1>3, <1>4, <2>1, MapperAssumption
<1>6. \A f \in free : mem2[f] = mem[f]
  BY Zenon, <1>0, <1>1 DEF IsTree
<1>7. IsTree(mem2, free)
  BY <1>0, <1>1, <1>5, <1>6, Pruned
<1> QED
  BY Zenon, <1>3, <1>4, <1>7

----------------------------------------------------------------------------
(* At the start the P4 table is the only one, and leads nowhere in kernel space. *)
LEMMA InitPath == Init => PathInv
<1> SUFFICES ASSUME Init PROVE PathInv
  BY Zenon
<1>0. at = "idle" /\ booted = 0 /\ pool = TableFrames \ {ROOT}
  BY Zenon DEF Init
<1>1. /\ memory \in [TableFrames -> [Indices -> Content]]
      /\ \A f \in pool, i \in Indices : memory[f][i] = JUNK
      /\ \A i \in Indices : memory[ROOT][i] = IF i >= ENTRIES \div 2 THEN NONE ELSE JUNK
  <2>1. memory = [f \in TableFrames |->
                    [i \in Indices |-> IF f = ROOT /\ i >= ENTRIES \div 2 THEN NONE ELSE JUNK]]
    BY Zenon DEF Init
  <2>2. NONE \in Content /\ JUNK \in Content
    BY Zenon DEF Content
  <2> QED
    BY Zenon, <1>0, <2>1, <2>2, Layout
<1>2. ASSUME NEW p \in Page
      PROVE  /\ Node(memory, p, 4) = ROOT
             /\ \A k \in 0..3 : Node(memory, p, k) = IF p \in UserPages THEN JUNK ELSE NONE
  <2>1. Node(memory, p, 4) = ROOT /\ Node(memory, p, 3) = Step(memory, ROOT, p, 4)
    BY NodeStep
  <2>2. Node(memory, p, 3) = memory[ROOT][Index(p, 4)]
    BY Zenon, <2>1, Layout DEF Step
  <2>3. Index(p, 4) \in Indices /\ (p \in UserPages <=> Index(p, 4) < ENTRIES \div 2)
    BY IndexType, MapperAssumption
  <2>4. Index(p, 4) < ENTRIES \div 2 <=> ~(Index(p, 4) >= ENTRIES \div 2)
    <3>1. ENTRIES \div 2 \in Nat /\ Index(p, 4) \in Nat
      BY <2>3, MapperAssumption, Division DEF Indices
    <3> QED
      BY <3>1
  <2>5. Node(memory, p, 3) = IF p \in UserPages THEN JUNK ELSE NONE
    BY Zenon, <1>1, <2>2, <2>3, <2>4
  <2>6. Node(memory, p, 3) \notin TableFrames
    BY Zenon, <2>5, MapperAssumption
  <2> QED
    BY <2>1, <2>5, <2>6, Ends
<1>3. ASSUME NEW p \in Page, NEW k \in 0..4
      PROVE  Node(memory, p, k) \in TableFrames => k = 4
  <2>1. k = 4 \/ k \in 0..3
    OBVIOUS
  <2> QED
    BY Zenon, <1>2, <2>1, MapperAssumption
<1>4. IsTree(memory, pool)
  <2>1. ASSUME NEW p \in Page, NEW q \in Page, NEW j \in 1..4, NEW k \in 1..4,
               Node(memory, p, j) \in TableFrames, Node(memory, p, j) = Node(memory, q, k)
        PROVE  j = k /\ Shares(p, q, j + 1)
    <3>1. j = 4 /\ k = 4
      BY <1>3, <2>1
    <3>2. Shares(p, q, 4 + 1)
      BY DEF Shares
    <3> QED
      BY Zenon, <3>1, <3>2
  <2>2. ASSUME NEW p \in Page PROVE Node(memory, p, 0) \notin TableFrames
    BY <1>3
  <2>3. ASSUME NEW p \in Page, NEW k \in 1..4 PROVE Node(memory, p, k) \notin pool
    <3>1. Node(memory, p, k) \in TableFrames => Node(memory, p, k) = ROOT
      BY <1>2, <1>3
    <3> QED
      BY Zenon, <1>0, <3>1
  <2> QED
    BY Zenon, <1>0, <1>1, <2>1, <2>2, <2>3 DEF IsTree
<1>5. OnPath
  BY Zenon, <1>0 DEF OnPath, Walking
<1>6. Interior
  <2>1. booted <= P2PAGE_COUNT + 1
    BY <1>0, Layout
  <2> QED
    BY <1>2, <2>1 DEF Interior
<1>7. MappedInv
  <2>1. \A p \in Page : ~OnNew(p)
    BY Zenon, <1>0 DEF OnNew, Uncleared
  <2>2. \A p \in Page : mapped[p] = IF p \in UserPages THEN JUNK ELSE NONE
    BY Zenon DEF Init
  <2> QED
    BY <1>2, <2>1, <2>2 DEF MappedInv
<1> QED
  BY Zenon, <1>4, <1>5, <1>6, <1>7 DEF PathInv

(* A step that writes no entry. *)
LEMMA SamePath ==
  ASSUME PathInv, UNCHANGED <<memory, pool, mapped>>, ~Uncleared, ~Uncleared', OnPath',
         booted <= P2PAGE_COUNT + 1 => booted' <= P2PAGE_COUNT + 1
  PROVE  PathInv'
<1>1. \A p \in Page : ~OnNew(p) /\ ~OnNew(p)'
  BY Zenon DEF OnNew
<1>2. IsTree(memory, pool)'
  BY Zenon DEF PathInv
<1>3. Interior'
  BY Zenon, <1>1 DEF PathInv, Interior
<1>4. MappedInv'
  BY Zenon, <1>1 DEF PathInv, MappedInv
<1> QED
  BY Zenon, <1>2, <1>3, <1>4 DEF PathInv

(* The page and the frame that the mapper is at. *)
LEMMA CurrentPage ==
  ASSUME BaseInv, Requesting
  PROVE  /\ req.page \in Page /\ req.frame \in Nat \ TableFrames
         /\ booted > P2PAGE_COUNT
         /\ ~(req.page \in UserPages /\ booted <= P2PAGE_COUNT + 1)
         /\ entry[P4Slot] = ROOT
<1>1. /\ req \in [page : Nat, frame : Nat, pages : Nat, detail : BOOLEAN] /\ req.pages > 0
      /\ \A i \in 0..(req.pages - 1) : req.page + i \in Page /\ req.frame + i \notin TableFrames
      /\ booted = P2PAGE_COUNT + 1 => req.page \notin UserPages
  BY Zenon DEF BaseInv, RequestInv
<1>2. 0 \in 0..(req.pages - 1) /\ req.page + 0 = req.page /\ req.frame + 0 = req.frame
  BY <1>1
<1>3. booted \in Nat /\ P2PAGE_COUNT \in Nat /\ ~(booted <= P2PAGE_COUNT)
  BY Layout DEF BaseInv, TypeOK, SlotsInv, Requesting, Walking
<1> QED
  BY <1>1, <1>2, <1>3 DEF BaseInv, RequestInv

(* What the mapper reads is the next node of the walk. *)
LEMMA CurrentEntry ==
  ASSUME BaseInv, PathInv, Walking
  PROVE  /\ CurrentTable = Node(memory, req.page, level) /\ CurrentTable \in TableFrames
         /\ memory[CurrentTable][CurrentIndex] = Node(memory, req.page, level - 1)
         /\ level - 1 \in 0..3 /\ level \in 1..4
<1>1. CurrentTable = Node(memory, req.page, level) /\ CurrentTable \in TableFrames
  BY Zenon DEF PathInv, OnPath
<1>2. level - 1 \in 0..3 /\ (level - 1) + 1 = level /\ level \in 1..4
  BY DEF BaseInv, TypeOK
<1>3. Node(memory, req.page, level - 1) = Step(memory, Node(memory, req.page, level), req.page, level)
  BY Zenon, <1>2, NodeStep
<1> QED
  BY Zenon, <1>1, <1>2, <1>3 DEF Step, CurrentIndex

(* Descend. *)
LEMMA DescendPath ==
  ASSUME BaseInv, PathInv, Descend
  PROVE  PathInv'
<1>0. at = "descend" /\ Walking /\ ~Uncleared /\ UNCHANGED <<entry, booted, level, tmp, req, mapped>>
  BY Zenon DEF Descend, Walking, Uncleared, vcacheVars
<1>1. /\ CurrentTable = Node(memory, req.page, level) /\ CurrentTable \in TableFrames
      /\ memory[CurrentTable][CurrentIndex] = Node(memory, req.page, level - 1)
  BY Zenon, <1>0, CurrentEntry
<1>2. level \in 2..4 /\ req.page \in Page
      /\ ~(req.page \in UserPages /\ booted <= P2PAGE_COUNT + 1)
  BY Zenon, <1>0, CurrentPage DEF BaseInv, RequestInv, Requesting
<1>3. CurrentTable' = CurrentTable
  BY Zenon, <1>0 DEF CurrentTable, SlotOf
<1> PICK r, l : r = req.page /\ l = level
  BY Zenon
<1>4. r \in Page /\ l \in 2..4 /\ l - 1 \in 1..3
  BY <1>2
<1>5. Node(memory, r, l - 1) \in TableFrames \cup {NONE}
  BY Zenon, <1>0, <1>2, <1>4 DEF PathInv, Interior, OnNew
<1>6. CASE ~created'
  <2>1. at' = "remap" /\ UNCHANGED <<pool, memory>> /\ ~Uncleared'
    BY Zenon, <1>6 DEF Descend, Uncleared
  <2>2. Node(memory, r, l - 1) # NONE
    BY Zenon, <1>1, <1>6 DEF Descend
  <2>3. OnPath'
    BY Zenon, <1>0, <1>1, <1>3, <1>5, <2>1, <2>2 DEF OnPath
  <2> QED
    BY Zenon, <1>0, <2>1, <2>3, SamePath
<1>7. CASE created' /\ pool = {}
  <2>1. at' = "panic_memory" /\ UNCHANGED <<pool, memory>>
    BY Zenon, <1>7 DEF Descend
  <2>2. ~Uncleared' /\ OnPath'
    BY Zenon, <2>1 DEF Uncleared, OnPath, Walking
  <2> QED
    BY Zenon, <1>0, <2>1, <2>2, SamePath
<1>8. CASE created' /\ pool # {}
  <2> PICK v : v = NewFrame
    BY Zenon
  <2>1. /\ memory' = [memory EXCEPT ![Node(memory, r, l)][Index(r, l)] = v]
        /\ pool' = pool \ {v} /\ at' = "remap" /\ created'
    BY Zenon, <1>1, <1>8 DEF Descend, CurrentIndex
  <2>2. v \in pool
    BY Zenon, <1>8 DEF NewFrame
  <2>3. Node(memory, r, l - 1) = NONE
    BY Zenon, <1>1, <1>8 DEF Descend
  <2>4. Written(memory, memory', pool, r, l, v)
    BY Zenon, <1>1, <2>1 DEF Written, PathInv
  <2>5. /\ IsTree(memory', pool \ {v})
        /\ \A q \in Page : ~Shares(q, r, l) => \A k \in 0..4 : Node(memory', q, k) = Node(memory, q, k)
        /\ \A q \in Page, k \in l..4 : Node(memory', q, k) = Node(memory, q, k)
        /\ \A q \in Page : Shares(q, r, l) =>
             /\ Node(memory', q, l - 1) = v
             /\ \A k \in 0..(l - 2) : Node(memory', q, k) = JUNK
             /\ Node(memory, q, 0) = NONE
    <3>1. Linked(memory, memory', pool, r, l, v)
      BY Zenon, <1>4, <2>2, <2>3, <2>4, LinkTable
    <3> QED
      BY Zenon, <3>1 DEF Linked
  <2>6. \A q \in Page : OnNew(q)' <=> Shares(q, r, l)
    BY Zenon, <1>0, <2>1 DEF OnNew, Uncleared
  <2>7. \A q \in Page : ~OnNew(q)
    BY Zenon, <1>0 DEF OnNew
  <2>8. v \in TableFrames
    BY Zenon, <2>2 DEF PathInv, IsTree
  <2>9. IsTree(memory, pool)'
    BY Zenon, <2>1, <2>5
  <2>10. OnPath'
    <3>1. Node(memory', r, l) = Node(memory, r, l)
      BY <1>4, <2>5
    <3>2. Node(memory', r, l - 1) \in TableFrames
      <4>1. Shares(r, r, l)
        BY Zenon DEF Shares
      <4> QED
        BY Zenon, <1>4, <2>5, <2>8, <4>1
    <3> QED
      BY Zenon, <1>0, <1>1, <1>3, <3>1, <3>2 DEF OnPath
  <2>11. Interior'
    <3> SUFFICES ASSUME NEW p \in Page, NEW k \in 1..3
                 PROVE  \/ Node(memory', p, k) \in TableFrames \cup {NONE}
                        \/ p \in UserPages /\ booted <= P2PAGE_COUNT + 1
                        \/ OnNew(p)' /\ k < l - 1
      BY Zenon, <1>0 DEF Interior
    <3>1. k \in l..4 \/ k = l - 1 \/ k < l - 1
      BY <1>4
    <3>2. \/ Node(memory, p, k) \in TableFrames \cup {NONE}
          \/ p \in UserPages /\ booted <= P2PAGE_COUNT + 1
      BY Zenon, <2>7 DEF PathInv, Interior
    <3>3. CASE ~Shares(p, r, l)
      BY <2>5, <3>2, <3>3
    <3>4. CASE Shares(p, r, l)
      BY Zenon, <2>5, <2>6, <2>8, <3>1, <3>2, <3>4
    <3> QED
      BY Zenon, <3>3, <3>4
  <2>12. MappedInv'
    <3> SUFFICES ASSUME NEW p \in Page
                 PROVE  mapped[p] = IF OnNew(p)' THEN NONE ELSE Node(memory', p, 0)
      BY Zenon, <1>0 DEF MappedInv
    <3>1. mapped[p] = Node(memory, p, 0)
      BY Zenon, <2>7 DEF PathInv, MappedInv
    <3> QED
      BY <2>5, <2>6, <3>1
  <2> QED
    BY Zenon, <2>9, <2>10, <2>11, <2>12 DEF PathInv
<1> QED
  BY Zenon, <1>6, <1>7, <1>8 DEF Descend

(* Remap. *)
LEMMA RemapPath ==
  ASSUME BaseInv, PathInv, Remap
  PROVE  PathInv'
<1> DEFINE frame == memory[CurrentTable][CurrentIndex]
<1>0. /\ at = "remap" /\ remap(holder, SlotOf(level - 1), frame) /\ memory' = Cleared(frame)
      /\ level' = level - 1 /\ at' # "remap"
      /\ UNCHANGED <<booted, created, tmp, req, pool, mapped>>
  BY Zenon DEF Remap
<1>1. Walking /\ Walking' /\ ~Uncleared'
  BY Zenon DEF Remap, Walking, Uncleared
<1>2. frame = Node(memory, req.page, level - 1) /\ frame \in TableFrames
  BY Zenon, <1>0, <1>1, CurrentEntry DEF PathInv, OnPath
<1>3. level \in 2..4 /\ req.page \in Page
  BY Zenon, <1>0, <1>1, CurrentPage DEF BaseInv, RequestInv, Requesting
<1> HIDE DEF frame
<1>4. CurrentTable' = frame
  <2>1. tmp \in Slot \X Slot /\ DOMAIN entry = Slot
    BY Zenon DEF BaseInv, TypeOK, VCacheTypeOK
  <2>2. SlotOf(level - 1) \in Slot /\ SlotOf(level)' = SlotOf(level - 1)
    BY <1>0, <1>3, <2>1 DEF SlotOf
  <2>3. entry'[SlotOf(level - 1)] = frame
    BY Zenon, <1>0, <2>1, <2>2 DEF remap, vcacheVars
  <2> QED
    BY Zenon, <2>2, <2>3 DEF CurrentTable
<1> PICK r, l : r = req.page /\ l = level
  BY Zenon
<1>5. r \in Page /\ l \in 2..4 /\ frame = Node(memory, r, l - 1)
  BY Zenon, <1>2, <1>3
<1>6. \A p \in Page : ~OnNew(p)'
  BY Zenon, <1>1 DEF OnNew
<1>7. CASE ~created
  <2>1. UNCHANGED memory /\ ~Uncleared
    BY Zenon, <1>0, <1>7 DEF Cleared, Uncleared
  <2>2. OnPath'
    BY Zenon, <1>0, <1>2, <1>4, <2>1 DEF OnPath
  <2> QED
    BY Zenon, <1>0, <1>1, <2>1, <2>2, SamePath
<1>8. CASE created
  <2>1. Emptied(memory, memory', pool, r, l)
    BY Zenon, <1>0, <1>2, <1>5, <1>8 DEF Emptied, Cleared, PathInv
  <2>2. /\ IsTree(memory', pool)
        /\ \A q \in Page : ~Shares(q, r, l) => \A k \in 0..4 : Node(memory', q, k) = Node(memory, q, k)
        /\ \A q \in Page, k \in (l - 1)..4 : Node(memory', q, k) = Node(memory, q, k)
        /\ \A q \in Page : Shares(q, r, l) => \A k \in 0..(l - 2) : Node(memory', q, k) = NONE
    <3>1. LeadsNowhere(memory, memory', pool, r, l)
      BY Zenon, <1>5, <2>1, ClearTable
    <3> QED
      BY Zenon, <3>1 DEF LeadsNowhere
  <2>3. \A q \in Page : OnNew(q) <=> Shares(q, r, l)
    BY Zenon, <1>0, <1>8 DEF OnNew, Uncleared
  <2>4. IsTree(memory, pool)'
    BY Zenon, <1>0, <2>2
  <2>5. OnPath'
    <3>1. l - 1 \in (l - 1)..4
      BY <1>5
    <3>2. Node(memory', r, l - 1) = frame
      BY Zenon, <1>5, <2>2, <3>1
    <3> QED
      BY Zenon, <1>0, <1>2, <1>4, <3>2 DEF OnPath
  <2>6. Interior'
    <3> SUFFICES ASSUME NEW p \in Page, NEW k \in 1..3
                 PROVE  \/ Node(memory', p, k) \in TableFrames \cup {NONE}
                        \/ p \in UserPages /\ booted <= P2PAGE_COUNT + 1
      BY Zenon, <1>0 DEF Interior
    <3>1. (k \in (l - 1)..4 /\ ~(k < l - 1)) \/ k \in 0..(l - 2)
      BY <1>5
    <3>2. \/ Node(memory, p, k) \in TableFrames \cup {NONE}
          \/ p \in UserPages /\ booted <= P2PAGE_COUNT + 1
          \/ OnNew(p) /\ k < l - 1
      BY Zenon DEF PathInv, Interior
    <3>3. CASE ~Shares(p, r, l)
      <4>1. Node(memory', p, k) = Node(memory, p, k)
        BY <2>2, <3>3
      <4> QED
        BY Zenon, <2>3, <3>2, <3>3, <4>1
    <3>4. CASE Shares(p, r, l)
      BY Zenon, <2>2, <3>1, <3>2, <3>4
    <3> QED
      BY Zenon, <3>3, <3>4
  <2>7. MappedInv'
    <3> SUFFICES ASSUME NEW p \in Page PROVE mapped[p] = Node(memory', p, 0)
      BY Zenon, <1>0, <1>6 DEF MappedInv
    <3>1. mapped[p] = IF Shares(p, r, l) THEN NONE ELSE Node(memory, p, 0)
      BY Zenon, <2>3 DEF PathInv, MappedInv
    <3>2. 0 \in 0..(l - 2)
      BY <1>5
    <3>3. Node(memory', p, 0) = IF Shares(p, r, l) THEN NONE ELSE Node(memory, p, 0)
      BY <2>2, <3>2
    <3> QED
      BY <3>1, <3>3
  <2> QED
    BY Zenon, <2>4, <2>5, <2>6, <2>7 DEF PathInv
<1> QED
  BY Zenon, <1>7, <1>8

(* Leaf. *)
LEMMA LeafPath ==
  ASSUME BaseInv, BaseInv', PathInv, Leaf
  PROVE  PathInv'
<1>0. /\ at = "leaf" /\ Walking /\ ~Uncleared /\ level = 1 /\ level' = 4
      /\ memory' = [memory EXCEPT ![CurrentTable][CurrentIndex] = req.frame]
      /\ mapped' = [mapped EXCEPT ![req.page] = req.frame]
      /\ at' \in {"return", "descend"} /\ UNCHANGED <<entry, booted, tmp, pool>>
  BY Zenon DEF Leaf, Walking, Uncleared, BaseInv, RequestInv, vcacheVars
<1>1. CurrentTable = Node(memory, req.page, level) /\ CurrentTable \in TableFrames
  BY Zenon, <1>0, CurrentEntry
<1>2. /\ req.page \in Page /\ req.frame \in Nat \ TableFrames /\ entry[P4Slot] = ROOT
  BY Zenon, <1>0, CurrentPage DEF Requesting
<1> PICK r, v : r = req.page /\ v = req.frame
  BY Zenon
<1>3. r \in Page /\ v \in Nat \ TableFrames
  BY Zenon, <1>2
<1>4. Written(memory, memory', pool, r, 1, v)
  BY Zenon, <1>0, <1>1 DEF Written, PathInv, CurrentIndex
<1>5. /\ IsTree(memory', pool)
      /\ \A q \in Page \ {r} : \A k \in 0..4 : Node(memory', q, k) = Node(memory, q, k)
      /\ \A q \in Page, k \in 1..4 : Node(memory', q, k) = Node(memory, q, k)
      /\ Node(memory', r, 0) = v
  <2>1. MapsOne(memory, memory', pool, r, v)
    BY Zenon, <1>3, <1>4, SetLeaf
  <2> QED
    BY Zenon, <2>1 DEF MapsOne
<1>6. \A q \in Page : ~OnNew(q) /\ ~OnNew(q)'
  BY Zenon, <1>0 DEF OnNew, Uncleared
<1>7. IsTree(memory, pool)'
  BY Zenon, <1>0, <1>5
<1>8. OnPath'
  <2>1. CurrentTable' = ROOT /\ Node(memory', req'.page, level') = ROOT
    BY <1>0, <1>2, NodeStep DEF CurrentTable, SlotOf
  <2> QED
    BY Zenon, <1>0, <2>1, Layout DEF OnPath
<1>9. Interior'
  <2> SUFFICES ASSUME NEW p \in Page, NEW k \in 1..3
               PROVE  \/ Node(memory', p, k) \in TableFrames \cup {NONE}
                      \/ p \in UserPages /\ booted <= P2PAGE_COUNT + 1
    BY Zenon, <1>0 DEF Interior
  <2>1. \/ Node(memory, p, k) \in TableFrames \cup {NONE}
        \/ p \in UserPages /\ booted <= P2PAGE_COUNT + 1
    BY Zenon, <1>6 DEF PathInv, Interior
  <2>2. Node(memory', p, k) = Node(memory, p, k)
    BY <1>5
  <2> QED
    BY Zenon, <2>1, <2>2
<1>10. MappedInv'
  <2> SUFFICES ASSUME NEW p \in Page PROVE mapped'[p] = Node(memory', p, 0)
    BY Zenon, <1>6 DEF MappedInv
  <2>1. mapped[p] = Node(memory, p, 0)
    BY Zenon, <1>6 DEF PathInv, MappedInv
  <2>2. DOMAIN mapped = Page
    BY Zenon DEF BaseInv, TypeOK
  <2>3. mapped'[p] = IF p = r THEN v ELSE mapped[p]
    BY Zenon, <1>0, <1>3, <2>2
  <2>4. CASE p = r
    BY Zenon, <1>5, <2>3, <2>4
  <2>5. CASE p # r
    <3>1. Node(memory', p, 0) = Node(memory, p, 0)
      BY <1>5, <2>5
    <3> QED
      BY Zenon, <2>1, <2>3, <2>5, <3>1
  <2> QED
    BY Zenon, <2>4, <2>5
<1> QED
  BY Zenon, <1>7, <1>8, <1>9, <1>10 DEF PathInv

(* remove_identity. *)
LEMMA IdentityPath ==
  ASSUME BaseInv, PathInv, NEW c \in Core, remove_identity(c)
  PROVE  PathInv'
<1>0. /\ at = "idle" /\ at' = "idle" /\ UNCHANGED pool
      /\ mapped' = [p \in Page |-> IF p \in UserPages THEN NONE ELSE mapped[p]]
  <2>1. at = "idle"
    BY Zenon DEF remove_identity
  <2>2. UNCHANGED <<at, pool>>
    BY Zenon DEF remove_identity
  <2>3. mapped' = [p \in Page |-> IF p \in UserPages THEN NONE ELSE mapped[p]]
    BY Zenon DEF remove_identity
  <2> QED
    BY Zenon, <2>1, <2>2, <2>3
<1>1. entry[P4Slot] = ROOT
  <2>1. booted > P2PAGE_COUNT
    BY Layout DEF remove_identity
  <2>2. RequestInv
    BY Zenon DEF BaseInv
  <2> QED
    BY Zenon, <2>1, <2>2 DEF RequestInv
<1>2. Halved(memory, memory', pool)
  <2>1. IsTree(memory, pool)
    BY Zenon DEF PathInv
  <2>2. memory' = [memory EXCEPT ![ROOT] =
                     [i \in Indices |-> IF i < ENTRIES \div 2 THEN NONE ELSE @[i]]]
    BY Zenon, <1>1 DEF remove_identity
  <2>3. [memory EXCEPT ![ROOT] = [i \in Indices |-> IF i < ENTRIES \div 2 THEN NONE ELSE @[i]]]
        = [memory EXCEPT ![ROOT] =
             [i \in Indices |-> IF i < ENTRIES \div 2 THEN NONE ELSE memory[ROOT][i]]]
    <3>1. ROOT \in DOMAIN memory
      BY Zenon, <2>1, Layout DEF IsTree
    <3> QED
      BY Zenon, <3>1
  <2> QED
    BY Zenon, <2>1, <2>2, <2>3 DEF Halved
<1>3. /\ IsTree(memory', pool)
      /\ \A q \in Page \ UserPages, k \in 0..4 : Node(memory', q, k) = Node(memory, q, k)
      /\ \A q \in UserPages, k \in 0..3 : Node(memory', q, k) = NONE
  BY Zenon, <1>2, ClearHalf
<1>4. \A q \in Page : ~OnNew(q) /\ ~OnNew(q)'
  BY Zenon, <1>0 DEF OnNew, Uncleared
<1>5. IsTree(memory, pool)'
  BY Zenon, <1>0, <1>3
<1>6. OnPath'
  BY Zenon, <1>0 DEF OnPath, Walking
<1>7. Interior'
  <2> SUFFICES ASSUME NEW p \in Page, NEW k \in 1..3
               PROVE  Node(memory', p, k) \in TableFrames \cup {NONE}
    BY Zenon DEF Interior
  <2>1. CASE p \in UserPages
    BY <1>3, <2>1
  <2>2. CASE p \notin UserPages
    <3>1. Node(memory, p, k) \in TableFrames \cup {NONE}
      BY Zenon, <1>4, <2>2 DEF PathInv, Interior
    <3> QED
      BY <1>3, <2>2, <3>1
  <2> QED
    BY Zenon, <2>1, <2>2
<1>8. MappedInv'
  <2> SUFFICES ASSUME NEW p \in Page PROVE mapped'[p] = Node(memory', p, 0)
    BY Zenon, <1>4 DEF MappedInv
  <2>1. mapped[p] = Node(memory, p, 0)
    BY Zenon, <1>4 DEF PathInv, MappedInv
  <2>2. CASE p \in UserPages
    BY <1>0, <1>3, <2>2
  <2>3. CASE p \notin UserPages
    BY <1>0, <1>3, <2>1, <2>3
  <2> QED
    BY Zenon, <2>2, <2>3
<1> QED
  BY Zenon, <1>5, <1>6, <1>7, <1>8 DEF PathInv

(* Every step. *)
LEMMA NextPath == BaseInv /\ BaseInv' /\ PathInv /\ [Next]_vars => PathInv'
<1>s. SUFFICES ASSUME BaseInv, BaseInv', PathInv, [Next]_vars PROVE PathInv'
  BY Zenon
<1>0. booted \in Nat /\ P2PAGE_COUNT \in Nat
  BY <1>s, Layout DEF BaseInv, TypeOK
<1>1. ASSUME NEW c \in Core, Boot(c) \/ vmap(c) PROVE PathInv'
  <2>1. /\ UNCHANGED <<memory, pool, mapped>> /\ at = "idle"
        /\ at' \in {"idle", "panic_vcache", "tmp1"}
        /\ booted' = booted \/ (booted <= P2PAGE_COUNT /\ booted' = booted + 1)
    BY Zenon, <1>1 DEF Boot, vmap
  <2>2. ~Uncleared /\ ~Uncleared' /\ OnPath'
    BY Zenon, <2>1 DEF Uncleared, OnPath, Walking
  <2>3. booted <= P2PAGE_COUNT + 1 => booted' <= P2PAGE_COUNT + 1
    BY <1>0, <2>1
  <2> QED
    BY Zenon, <1>s, <2>1, <2>2, <2>3, SamePath
<1>2. ASSUME MapTmp1 \/ MapTmp2 PROVE PathInv'
  <2>1. /\ UNCHANGED <<memory, pool, mapped, booted>> /\ at \in {"tmp1", "tmp2"}
        /\ at' \in {"tmp2", "descend", "panic_vcache"} /\ (at' = "descend" => level' = 4)
    BY Zenon, <1>2 DEF MapTmp1, MapTmp2, MapTmp
  <2>2. ~Uncleared /\ ~Uncleared'
    BY Zenon, <2>1 DEF Uncleared
  <2>3. entry'[P4Slot] = ROOT
    <3>1. booted' > P2PAGE_COUNT
      BY Zenon, <1>s, <2>1, CurrentPage DEF Requesting
    <3> QED
      BY Zenon, <1>s, <3>1 DEF BaseInv, RequestInv
  <2>4. OnPath'
    <3>1. CASE at' = "descend"
      <4>1. CurrentTable' = ROOT /\ Node(memory', req'.page, level') = ROOT
        BY <2>1, <2>3, <3>1, NodeStep DEF CurrentTable, SlotOf
      <4> QED
        BY Zenon, <3>1, <4>1, Layout DEF OnPath
    <3>2. CASE at' # "descend"
      BY Zenon, <2>1, <3>2 DEF OnPath, Walking
    <3> QED
      BY Zenon, <3>1, <3>2
  <2> QED
    BY Zenon, <1>s, <2>1, <2>2, <2>4, SamePath
<1>3. ASSUME Return PROVE PathInv'
  <2>1. UNCHANGED <<memory, pool, mapped, booted>> /\ at = "return" /\ at' = "idle"
    BY Zenon, <1>3 DEF Return
  <2>2. ~Uncleared /\ ~Uncleared' /\ OnPath'
    BY Zenon, <2>1 DEF Uncleared, OnPath, Walking
  <2> QED
    BY Zenon, <1>s, <2>1, <2>2, SamePath
<1>4. CASE UNCHANGED vars
  <2>1. UNCHANGED <<memory, pool, mapped, booted, at, created, req, level, entry, tmp>>
    BY Zenon, <1>4 DEF vars, mapperVars, vcacheVars
  <2>2. IsTree(memory, pool)'
    BY Zenon, <1>s, <2>1 DEF PathInv
  <2>3. OnPath'
    BY Zenon, <1>s, <2>1 DEF PathInv, OnPath, Walking, CurrentTable, SlotOf
  <2>4. \A p \in Page : OnNew(p)' <=> OnNew(p)
    BY Zenon, <2>1 DEF OnNew, Uncleared
  <2>5. Interior' /\ MappedInv'
    BY Zenon, <1>s, <2>1, <2>4 DEF PathInv, Interior, MappedInv
  <2> QED
    BY Zenon, <2>2, <2>3, <2>5 DEF PathInv
<1> QED
  BY Zenon, <1>s, <1>1, <1>2, <1>3, <1>4, IdentityPath, DescendPath, RemapPath, LeafPath DEF Next
=============================================================================
