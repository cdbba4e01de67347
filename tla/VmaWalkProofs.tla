---------------------------- MODULE VmaWalkProofs ----------------------------
(***************************************************************************)
(* The VMA walk keeps its limits and returns what it has read in order,    *)
(* whatever it reads; and over every tree the kernel builds, of any size,  *)
(* shape and node formats, it returns the whole address space.             *)
(*                                                                         *)
(* A frame of the stack stands for the slots of its node that were not yet *)
(* read.  The VMAs below those slots and the VMAs collected are together   *)
(* all VMAs, and no VMA is in two of these places: that no VMA comes twice *)
(* is what keeps the limit on their number from hiding one.                *)
(***************************************************************************)
EXTENDS VmaWalk, FiniteSetTheorems, WellFoundedInduction, TLAPS

----------------------------------------------------------------------------
(* Numbers and sequences *)

\* A set of numbers that is not empty has a least element.
LEMMA LeastNumber ==
  ASSUME NEW T, T \subseteq Nat, T # {}
  PROVE  \E i \in T : \A j \in T : i <= j
<1>1. PICK i \in T : \A j \in T : ~(<<j, i>> \in OpToRel(<, Nat))
  BY NatLessThanWellFounded, WFMin
<1>2. \A j \in T : ~(j < i)
  BY <1>1 DEF OpToRel
<1>. QED BY <1>2

\* The lesser of two numbers.
LEMMA MinOfTwo ==
  ASSUME NEW a \in Nat, NEW b \in Nat
  PROVE  Min({a, b}) = IF a <= b THEN a ELSE b
<1>1. CASE a <= b
  BY <1>1 DEF Min
<1>2. CASE ~(a <= b)
  BY <1>2 DEF Min
<1>. QED BY <1>1, <1>2

\* saturating_sub.
LEMMA SubNotBelowZero ==
  ASSUME NEW a \in Nat, NEW b \in Nat
  PROVE  SaturatingSub(a, b) = IF b <= a THEN a - b ELSE 0
<1>1. CASE b <= a
  <2>1. a - b \in Nat
    BY <1>1
  <2>. QED BY <1>1, <2>1 DEF SaturatingSub, Max
<1>2. CASE ~(b <= a)
  <2>1. a - b < 0 /\ a - b \in Int
    BY <1>2
  <2>. QED BY <1>2, <2>1 DEF SaturatingSub, Max
<1>. QED BY <1>1, <1>2

\* The last element of a sequence is removed.
LEMMA LastRemoved ==
  ASSUME NEW S, NEW s \in Seq(S), s # <<>>
  PROVE  /\ Front(s) \in Seq(S) /\ Len(Front(s)) = Len(s) - 1
         /\ DOMAIN Front(s) = DOMAIN s \ {Len(s)} /\ DOMAIN s = 1 .. Len(s)
         /\ Len(s) \in DOMAIN s /\ Last(s) = s[Len(s)] /\ Last(s) \in S
         /\ \A i \in DOMAIN Front(s) : Front(s)[i] = s[i]
<1>1. Len(s) \in Nat /\ Len(s) > 0 /\ DOMAIN s = 1 .. Len(s)
  OBVIOUS
<1>2. Len(s) \in DOMAIN s /\ Last(s) = s[Len(s)] /\ Last(s) \in S
  BY <1>1 DEF Last
<1>3. Front(s) \in Seq(S) /\ Len(Front(s)) = Len(s) - 1
  BY <1>1 DEF Front
<1>4. DOMAIN Front(s) = 1 .. Len(s) - 1
  BY <1>3
<1>5. \A i \in DOMAIN Front(s) : Front(s)[i] = s[i]
  BY <1>1, <1>4 DEF Front
<1>6. DOMAIN Front(s) = DOMAIN s \ {Len(s)}
  BY <1>1, <1>4
<1>. QED BY <1>1, <1>2, <1>3, <1>5, <1>6

\* The last element of a sequence is replaced.
LEMMA LastReplaced ==
  ASSUME NEW S, NEW s \in Seq(S), s # <<>>, NEW x \in S
  PROVE  /\ Append(Front(s), x) \in Seq(S) /\ Len(Append(Front(s), x)) = Len(s)
         /\ DOMAIN Append(Front(s), x) = DOMAIN s
         /\ Len(s) \in DOMAIN s /\ Last(s) = s[Len(s)] /\ Last(s) \in S
         /\ Append(Front(s), x)[Len(s)] = x
         /\ \A i \in DOMAIN s : i # Len(s) => Append(Front(s), x)[i] = s[i]
<1>1. /\ Front(s) \in Seq(S) /\ Len(Front(s)) = Len(s) - 1
      /\ DOMAIN Front(s) = DOMAIN s \ {Len(s)} /\ DOMAIN s = 1 .. Len(s)
      /\ Len(s) \in DOMAIN s /\ Last(s) = s[Len(s)] /\ Last(s) \in S
      /\ \A i \in DOMAIN Front(s) : Front(s)[i] = s[i]
  BY LastRemoved, Zenon
<1>. DEFINE f == Front(s)
            t == Append(f, x)
<1>2. /\ t \in Seq(S) /\ Len(t) = Len(f) + 1 /\ t[Len(f) + 1] = x
      /\ \A i \in 1 .. Len(f) : t[i] = f[i]
  BY <1>1
<1>3. Len(t) = Len(s) /\ DOMAIN t = 1 .. Len(t) /\ DOMAIN f = 1 .. Len(f)
  BY <1>1, <1>2
<1>. QED BY <1>1, <1>2, <1>3

----------------------------------------------------------------------------
(* The order of VMAs *)

\* The VMA structures of a memory are well typed.
VmasTyped ==
  \A v \in DOMAIN mem.vma : v \in Nat \ {NULL} /\ mem.vma[v] \in [start : Nat, end : Nat]

\* VMAs as they were read.
Entries == [vma : Nat, start : Nat, end : Nat]

\* Before is a strict total order.
LEMMA BeforeIsOrder ==
  \A u, v, w \in Entries :
    /\ ~Before(v, v)
    /\ Before(v, w) => ~Before(w, v)
    /\ v = w \/ Before(v, w) \/ Before(w, v)
    /\ Before(u, v) /\ Before(v, w) => Before(u, w)
<1>. TAKE u, v, w \in Entries
<1>1. ~Before(v, v) /\ (Before(v, w) => ~Before(w, v)) /\ (Before(u, v) /\ Before(v, w) => Before(u, w))
  BY DEF Entries, Before
<1>2. v = w \/ Before(v, w) \/ Before(w, v)
  BY DEF Entries, Before
<1>. QED BY <1>1, <1>2

\* What sorting does.
LEMMA SortedVmas ==
  ASSUME NEW S, NEW s \in Seq(S), NEW t \in SortVmas(s)
  PROVE  /\ t \in Seq(S) /\ Len(t) = Len(s) /\ ToSet(t) = ToSet(s)
         /\ \A j, k \in DOMAIN t : j < k => ~Before(t[k], t[j])
         /\ Found(t) = Found(s)
         /\ (\A j, k \in DOMAIN s : s[j].vma = s[k].vma => j = k)
              => \A j, k \in DOMAIN t : t[j].vma = t[k].vma => j = k
<1>1. PICK p \in Bijection(DOMAIN s, DOMAIN s) :
        /\ t = [k \in DOMAIN s |-> s[p[k]]]
        /\ \A j, k \in DOMAIN s : j < k => ~Before(s[p[k]], s[p[j]])
  BY DEF SortVmas
<1>2. /\ p \in [DOMAIN s -> DOMAIN s]
      /\ \A j \in DOMAIN s : \E k \in DOMAIN s : p[k] = j
      /\ \A j, k \in DOMAIN s : p[j] = p[k] => j = k
  BY DEF Bijection, Injection, Surjection, IsInjective
<1>3. DOMAIN s = 1 .. Len(s) /\ Len(s) \in Nat /\ \A k \in DOMAIN s : s[k] \in S
  OBVIOUS
<1>4. t \in Seq(S) /\ Len(t) = Len(s) /\ DOMAIN t = DOMAIN s
  BY <1>1, <1>2, <1>3
<1>5. ToSet(t) = ToSet(s)
  BY <1>1, <1>2 DEF ToSet
<1>6. \A j, k \in DOMAIN t : j < k => ~Before(t[k], t[j])
  BY <1>1, <1>4
<1>7. (\A j, k \in DOMAIN s : s[j].vma = s[k].vma => j = k)
        => \A j, k \in DOMAIN t : t[j].vma = t[k].vma => j = k
  BY <1>1, <1>2, <1>4
<1>8. Found(t) = Found(s)
  BY <1>1, <1>2, <1>4 DEF Found
<1>. QED BY <1>4, <1>5, <1>6, <1>7, <1>8

\* No two neighbours are of the same VMA.
Apart(s) == \A k \in 2 .. Len(s) : s[k].vma # s[k - 1].vma

\* A run starts at or before each place of a sequence.
LEMMA RunStart ==
  ASSUME NEW s \in Seq(Entries), NEW k \in DOMAIN s
  PROVE  \E j \in RunStarts(s) : j <= k /\ \A i \in j .. k : s[i].vma = s[k].vma
<1>1. DOMAIN s = 1 .. Len(s) /\ Len(s) \in Nat /\ k \in Nat
  OBVIOUS
<1>. DEFINE same == {j \in 1 .. k : \A i \in j .. k : s[i].vma = s[k].vma}
<1>2. same \subseteq Nat /\ k \in same
  BY <1>1
<1>3. PICK j \in same : \A i \in same : j <= i
  BY <1>2, LeastNumber
<1>4. j \in 1 .. k /\ (\A i \in j .. k : s[i].vma = s[k].vma) /\ j \in Nat
  BY <1>1
<1>5. j = 1 \/ s[j].vma # s[j - 1].vma
  <2>. SUFFICES ASSUME j # 1, s[j].vma = s[j - 1].vma PROVE FALSE
    OBVIOUS
  <2>1. s[j].vma = s[k].vma
    BY <1>1, <1>4
  <2>2. \A i \in j - 1 .. k : i = j - 1 \/ i \in j .. k
    BY <1>1, <1>4
  <2>3. j - 1 \in 1 .. k
    BY <1>1, <1>4
  <2>4. j - 1 \in same
    BY <1>4, <2>1, <2>2, <2>3
  <2>5. j <= j - 1
    BY <1>3, <2>4
  <2>. QED BY <1>4, <2>5
<1>6. j \in RunStarts(s)
  BY <1>1, <1>4, <1>5 DEF RunStarts
<1>. QED BY <1>1, <1>4, <1>6

\* What dedup_by_key does to a sorted sequence.
LEMMA DedupedVmas ==
  ASSUME NEW s \in Seq(Entries), NEW t \in DedupVmas(s),
         \A j, k \in DOMAIN s : j < k => ~Before(s[k], s[j])
  PROVE  /\ t \in Seq(Entries) /\ Len(t) <= Len(s) /\ ToSet(t) \subseteq ToSet(s)
         /\ Found(t) = Found(s) /\ InOrder(t) /\ Apart(t)
<1>. DEFINE starts == RunStarts(s)
            n == Cardinality(starts)
<1>1. DOMAIN s = 1 .. Len(s) /\ Len(s) \in Nat /\ \A k \in DOMAIN s : s[k] \in Entries
  OBVIOUS
<1>2. n \in Nat /\ n <= Len(s)
  <2>1. IsFiniteSet(1 .. Len(s)) /\ Cardinality(1 .. Len(s)) = Len(s)
    <3>1. Len(s) \in Int /\ Len(s) >= 0
      BY <1>1
    <3>2. /\ IsFiniteSet(1 .. Len(s))
          /\ Cardinality(1 .. Len(s)) = IF 1 > Len(s) THEN 0 ELSE Len(s) - 1 + 1
      BY <3>1, FS_Interval
    <3>. QED BY <3>1, <3>2
  <2>2. starts \subseteq 1 .. Len(s)
    BY <1>1 DEF RunStarts
  <2>. QED BY <2>1, <2>2, FS_Subset, FS_CardinalityType
<1>3. PICK p \in Bijection(1 .. n, starts) :
        t = [k \in 1 .. n |-> s[p[k]]] /\ \A j, k \in 1 .. n : j < k => p[j] < p[k]
  BY DEF DedupVmas
<1>4. p \in [1 .. n -> starts] /\ \A j \in starts : \E k \in 1 .. n : p[k] = j
  BY DEF Bijection, Injection, Surjection
<1>5. starts \subseteq DOMAIN s
  BY DEF RunStarts
<1>6. t \in Seq(Entries) /\ Len(t) = n /\ DOMAIN t = 1 .. n
  <2>1. \A k \in 1 .. n : p[k] \in DOMAIN s /\ t[k] \in Entries
    BY <1>1, <1>3, <1>4, <1>5
  <2>. HIDE DEF n, starts
  <2>. QED BY <1>2, <1>3, <2>1
<1>7. \A k \in 1 .. n : t[k] = s[p[k]] /\ p[k] \in DOMAIN s /\ p[k] \in starts
  BY <1>3, <1>4, <1>5
<1>. HIDE DEF n, starts
<1>8. ToSet(t) \subseteq ToSet(s)
  BY <1>6, <1>7 DEF ToSet
<1>9. Found(t) = Found(s)
  <2>1. Found(t) \subseteq Found(s)
    BY <1>6, <1>7 DEF Found
  <2>2. ASSUME NEW k \in DOMAIN s PROVE s[k].vma \in Found(t)
    <3>1. PICK j \in starts : j <= k /\ \A i \in j .. k : s[i].vma = s[k].vma
      BY RunStart DEF starts
    <3>2. j \in j .. k
      BY <1>1, <1>5, <3>1
    <3>3. PICK i \in 1 .. n : p[i] = j
      BY <1>4
    <3>4. s[k].vma = t[i].vma /\ i \in DOMAIN t
      BY <1>6, <1>7, <3>1, <3>2, <3>3
    <3>. QED BY <3>4 DEF Found
  <2>. QED BY <2>1, <2>2 DEF Found
<1>10. ASSUME NEW k \in 1 .. n, p[k] # 1
       PROVE  p[k] - 1 \in DOMAIN s /\ s[p[k]].vma # s[p[k] - 1].vma
  <2>1. p[k] - 1 \in DOMAIN s
    BY <1>1, <1>7, <1>10
  <2>2. s[p[k]].vma # s[p[k] - 1].vma
    BY <1>7, <1>10 DEF starts, RunStarts
  <2>. QED BY <2>1, <2>2
<1>11. InOrder(t)
  <2>. SUFFICES ASSUME NEW j \in 1 .. n, NEW k \in 1 .. n, j < k
                PROVE  Before(t[j], t[k])
    BY <1>6 DEF InOrder
  <2>1. /\ p[j] \in DOMAIN s /\ p[k] \in DOMAIN s /\ p[j] < p[k]
        /\ t[j] = s[p[j]] /\ t[k] = s[p[k]]
    BY <1>3, <1>7
  <2>2. p[k] - 1 \in DOMAIN s /\ p[j] <= p[k] - 1 /\ p[k] # 1
    BY <1>1, <2>1
  <2>3. s[p[k]] # s[p[k] - 1]
    BY <1>10, <2>2
  <2>4. Before(s[p[k] - 1], s[p[k]])
    <3>1. p[k] - 1 < p[k]
      BY <1>1, <2>1
    <3>2. ~Before(s[p[k]], s[p[k] - 1])
      BY <2>1, <2>2, <3>1
    <3>. QED BY <1>1, <2>1, <2>2, <2>3, <3>2, BeforeIsOrder
  <2>5. s[p[j]] = s[p[k] - 1] \/ Before(s[p[j]], s[p[k] - 1])
    <3>1. CASE p[j] = p[k] - 1
      BY <3>1
    <3>2. CASE p[j] # p[k] - 1
      <4>1. p[j] < p[k] - 1
        BY <1>1, <2>1, <2>2, <3>2
      <4>2. ~Before(s[p[k] - 1], s[p[j]])
        BY <2>1, <2>2, <4>1
      <4>. QED BY <1>1, <2>1, <2>2, <4>2, BeforeIsOrder
    <3>. QED BY <3>1, <3>2
  <2>. QED BY <1>1, <2>1, <2>2, <2>4, <2>5, BeforeIsOrder
<1>12. Apart(t)
  <2>. SUFFICES ASSUME NEW k \in 2 .. n PROVE t[k].vma # t[k - 1].vma
    BY <1>6 DEF Apart
  <2>1. k \in 1 .. n /\ k - 1 \in 1 .. n /\ k - 1 < k
    BY <1>2
  <2>2. p[k - 1] < p[k] /\ p[k] \in Nat /\ p[k - 1] \in Nat /\ p[k] \in DOMAIN s /\ p[k - 1] \in DOMAIN s
    BY <1>1, <1>3, <1>7, <2>1
  <2>3. p[k] # 1
    BY <1>1, <2>2
  <2>4. p[k] - 1 \in DOMAIN s /\ s[p[k]].vma # s[p[k] - 1].vma
    BY <1>10, <2>1, <2>3
  <2>. DEFINE i == p[k] - 1
  <2>5. PICK m \in starts : m <= i /\ \A l \in m .. i : s[l].vma = s[i].vma
    BY <2>4, RunStart DEF starts
  <2>6. PICK q \in 1 .. n : p[q] = m
    BY <1>4
  <2>7. m \in Nat /\ m < p[k]
    BY <1>1, <1>5, <2>2, <2>5
  <2>8. q < k
    <3>. SUFFICES ASSUME k <= q PROVE FALSE
      BY <1>2, <2>1
    <3>1. p[k] <= p[q]
      <4>1. k = q \/ k < q
        BY <1>2, <2>1
      <4>2. k < q => p[k] < p[q]
        BY <1>3, <2>1
      <4>. QED BY <2>2, <2>6, <2>7, <4>1, <4>2
    <3>. QED BY <2>2, <2>6, <2>7, <3>1
  <2>9. m <= p[k - 1]
    <3>1. q = k - 1 \/ q < k - 1
      BY <1>2, <2>1, <2>8
    <3>2. q < k - 1 => p[q] < p[k - 1]
      BY <1>3, <2>1
    <3>. QED BY <2>2, <2>6, <2>7, <3>1, <3>2
  <2>10. p[k - 1] \in m .. i
    BY <2>2, <2>7, <2>9
  <2>11. s[p[k - 1]].vma = s[i].vma
    BY <2>5, <2>10
  <2>. QED BY <1>7, <2>1, <2>4, <2>11
<1>. QED BY <1>2, <1>6, <1>8, <1>9, <1>11, <1>12

\* What collect_vmas_maple returns of what the walk collected.
LEMMA TidyVmas ==
  ASSUME NEW s \in Seq(Entries), NEW t \in Tidy(s)
  PROVE  /\ t \in Seq(Entries) /\ Len(t) <= Len(s) /\ ToSet(t) \subseteq ToSet(s)
         /\ Found(t) = Found(s) /\ InOrder(t) /\ Apart(t)
<1>1. PICK u \in SortVmas(s) : t \in DedupVmas(u)
  BY DEF Tidy
<1>2. /\ u \in Seq(Entries) /\ Len(u) = Len(s) /\ ToSet(u) = ToSet(s) /\ Found(u) = Found(s)
      /\ \A j, k \in DOMAIN u : j < k => ~Before(u[k], u[j])
  BY SortedVmas
<1>. QED BY <1>1, <1>2, DedupedVmas

----------------------------------------------------------------------------
(* Nodes of a tree the kernel has built *)

\* The memory is one of those assumed.
MemInv ==
  \/ world = "stable" /\ mem \in Mems
  \/ world = "torn" /\ mem = None

\* What is assumed of the memory.
LEMMA MemTyped ==
  ASSUME MemInv
  PROVE  ~Torn => VmasTyped /\ mem \in Mems /\ KernelBuilt(mem)
BY MemAssumption DEF MemInv, VmasTyped, Torn

\* A VMA of a stable target, as a read returns it.
Area(v) == VmaInfo(v, mem.vma[v])
MappedVmas == {v \in DOMAIN mem.vma : HasInfo(mem.vma[v])}

\* What a read of a VMA returns is well typed.
LEMMA ReadTyped ==
  ASSUME MemInv, NEW v \in Readable, NEW b \in ReadVma(v)
  PROVE  /\ v \in Nat \ {NULL} /\ VmaInfo(v, b) \in Entries
         /\ VmaInfo(v, b).vma = v /\ (HasInfo(b) => HasInfo(VmaInfo(v, b)))
         /\ ~Torn => v \in DOMAIN mem.vma /\ b = mem.vma[v] /\ VmaInfo(v, b) = Area(v)
<1>1. v \in Nat \ {NULL} /\ b \in [start : Nat, end : Nat]
  <2>1. CASE Torn
    BY <2>1, ConstAssumption DEF Readable, ReadVma, NULL
  <2>2. CASE ~Torn
    BY <2>2, MemTyped DEF Readable, ReadVma, VmasTyped
  <2>. QED BY <2>1, <2>2
<1>2. /\ VmaInfo(v, b) \in Entries /\ VmaInfo(v, b).vma = v
      /\ VmaInfo(v, b).start = b.start /\ VmaInfo(v, b).end = b.end
  BY <1>1 DEF VmaInfo, Entries
<1>3. HasInfo(b) => HasInfo(VmaInfo(v, b))
  BY <1>2 DEF HasInfo
<1>4. ~Torn => v \in DOMAIN mem.vma /\ b = mem.vma[v] /\ VmaInfo(v, b) = Area(v)
  BY DEF Readable, ReadVma, Area
<1>. QED BY <1>1, <1>2, <1>3, <1>4

\* The VMAs of a stable target and their entries.
LEMMA AreaTyped ==
  ASSUME MemInv, ~Torn, NEW v \in DOMAIN mem.vma
  PROVE  /\ v \in Nat \ {NULL} /\ Area(v) \in Entries /\ Area(v).vma = v
         /\ HasInfo(Area(v)) <=> HasInfo(mem.vma[v])
<1>1. v \in Nat \ {NULL} /\ mem.vma[v] \in [start : Nat, end : Nat]
  BY MemTyped DEF VmasTyped
<1>. QED BY <1>1 DEF Area, VmaInfo, Entries, HasInfo

\* The numbers of slots and pivots are positive, and in a stable world the kernel's.
LEMMA LayoutTyped ==
  ASSUME NEW t \in NodeTypes
  PROVE  /\ Slots(t) \in Nat \ {0} /\ Pivots(t) \in Nat \ {0}
         /\ ~Torn => /\ Pivots(t) >= 2 /\ Slots(t) = Pivots(t) + 1
                     /\ Pivots(t) = LayoutIn(Maple, t).pivots
BY ConstAssumption DEF Slots, Pivots, Layout, LayoutIn, Offsets

\* The last slot in use, as the walk computes it from what it reads.
LEMMA DataEndTyped ==
  ASSUME NEW t \in NodeTypes, NEW last_pivot, NEW meta_end \in Nat, NEW max
  PROVE  DataEnd(t, last_pivot, meta_end, max) \in Nat
<1>1. Slots(t) - 1 \in Nat /\ Pivots(t) - 1 \in Nat
  BY LayoutTyped
<1>2. Min({meta_end, Slots(t) - 1}) \in Nat
  BY <1>1, MinOfTwo
<1>. QED BY <1>1, <1>2 DEF DataEnd

(***************************************************************************)
(* In a node the kernel has built it is the last slot in use; if meta_end  *)
(* is needed and taken for 0, it is not behind that.                       *)
(***************************************************************************)
LEMMA DataEndRight ==
  ASSUME MemInv, ~Torn, NEW n \in DOMAIN mem.tree, mem.tree[n].type # "dense",
         NEW meta_end \in {mem.node[n].meta_end, 0}
  PROVE  LET t == mem.tree[n]
             last_pivot == mem.node[n].pivot[Pivots(t.type)]
             end == DataEnd(t.type, last_pivot, meta_end, t.max)
         IN  /\ end <= t.end
             /\ meta_end = mem.node[n].meta_end => end = t.end
             /\ ~(t.type = "arange64" \/ last_pivot = 0) => end = t.end
<1>. DEFINE t == mem.tree[n]
            node == mem.node[n]
            P == Pivots(t.type)
            last_pivot == node.pivot[P]
            end == DataEnd(t.type, last_pivot, meta_end, t.max)
<1>1. TreeNode(mem, n)
  BY MemTyped DEF KernelBuilt
<1>2. /\ t.type \in NodeTypes /\ t.end \in Nat /\ t.min \in Nat /\ t.max \in Nat
      /\ RangeNode(mem, n)
  BY <1>1, ConstAssumption DEF TreeNode
<1>3. P \in Nat /\ P >= 2 /\ Slots(t.type) = P + 1 /\ P = LayoutIn(Maple, t.type).pivots
  BY <1>2, LayoutTyped
<1>4. /\ t.end <= P
      /\ \A k \in 1 .. P : node.pivot[k] \in Nat
      /\ \A k \in 1 .. t.end : SlotMin(mem, n, k - 1) <= node.pivot[k] /\ node.pivot[k] < t.max
      /\ t.end < P => node.pivot[t.end + 1] = t.max
      /\ \A k \in t.end + 2 .. P : node.pivot[k] = 0
      /\ node.meta_end \in Nat
      /\ (t.type = "arange64" \/ t.end < P - 1) => node.meta_end = t.end
  <2>1. /\ t.end \in 0 .. P /\ node.pivot \in [1 .. P -> 0 .. MaxIndex]
        /\ \A k \in 1 .. t.end : SlotMin(mem, n, k - 1) <= node.pivot[k] /\ node.pivot[k] < t.max
        /\ t.end < P => node.pivot[t.end + 1] = t.max
        /\ \A k \in t.end + 2 .. P : node.pivot[k] = 0
        /\ node.meta_end \in Nat
        /\ (t.type = "arange64" \/ t.end < P - 1) => node.meta_end = t.end
    <3>1. /\ t.end \in 0 .. P /\ node.pivot \in [1 .. P -> 0 .. MaxIndex]
          /\ \A k \in 1 .. t.end : SlotMin(mem, n, k - 1) <= node.pivot[k] /\ node.pivot[k] < t.max
      BY <1>2, <1>3, Zenon DEF RangeNode
    <3>2. /\ t.end < P => node.pivot[t.end + 1] = t.max
          /\ \A k \in t.end + 2 .. P : node.pivot[k] = 0
      BY <1>2, <1>3, Zenon DEF RangeNode
    <3>3. /\ node.meta_end \in Nat
          /\ (t.type = "arange64" \/ t.end < P - 1) => node.meta_end = t.end
      BY <1>2, <1>3, Zenon DEF RangeNode
    <3>. QED BY <3>1, <3>2, <3>3, Zenon
  <2>2. t.end <= P
    <3>1. t.end \in 0 .. P
      BY <2>1, Zenon
    <3>. QED BY <1>3, <3>1
  <2>3. \A k \in 1 .. P : node.pivot[k] \in 0 .. MaxIndex
    <3>1. node.pivot \in [1 .. P -> 0 .. MaxIndex]
      BY <2>1, Zenon
    <3>. QED BY <3>1
  <2>4. \A i \in 0 .. MaxIndex : i \in Nat
    BY ConstAssumption
  <2>. QED BY <2>1, <2>2, <2>3, <2>4, Zenon
<1>5. \A k \in 2 .. t.end : 0 < node.pivot[k]
  <2>. SUFFICES ASSUME NEW k \in 2 .. t.end PROVE 0 < node.pivot[k]
    OBVIOUS
  <2>1. SlotMin(mem, n, k - 1) = node.pivot[k - 1] + 1
    BY DEF SlotMin
  <2>2. node.pivot[k - 1] \in Nat /\ node.pivot[k] \in Nat
    BY <1>2, <1>3, <1>4
  <2>3. SlotMin(mem, n, k - 1) <= node.pivot[k]
    BY <1>2, <1>4
  <2>. QED BY <2>1, <2>2, <2>3
<1>. HIDE DEF t, node, P
<1>6. end = IF t.type = "arange64" \/ last_pivot = 0 THEN Min({meta_end, P})
            ELSE IF last_pivot = t.max THEN P - 1 ELSE P
  BY <1>3 DEF DataEnd, P
<1>7. meta_end = node.meta_end \/ meta_end = 0
  BY DEF node
<1>8. Min({meta_end, P}) = IF meta_end <= P THEN meta_end ELSE P
  BY <1>3, <1>4, <1>7, MinOfTwo
<1>9. last_pivot \in Nat
  BY <1>3, <1>4
<1>10. CASE t.end < P - 1
  <2>1. last_pivot = 0
    BY <1>2, <1>3, <1>4, <1>10
  <2>2. end = meta_end
    BY <1>2, <1>3, <1>4, <1>6, <1>7, <1>8, <1>10, <2>1
  <2>3. node.meta_end = t.end
    BY <1>4, <1>10
  <2>. QED BY <1>2, <1>7, <2>1, <2>2, <2>3 DEF t, node, P
<1>11. CASE t.end = P - 1
  <2>1. last_pivot = t.max
    BY <1>2, <1>3, <1>4, <1>11
  <2>2. last_pivot # 0
    BY <1>2, <1>3, <1>4, <1>5, <1>11, <2>1
  <2>3. t.type = "arange64" => end = meta_end /\ node.meta_end = t.end
    BY <1>2, <1>3, <1>4, <1>6, <1>7, <1>8, <1>11
  <2>4. t.type # "arange64" => end = t.end
    BY <1>6, <1>11, <2>1, <2>2
  <2>. QED BY <1>2, <1>7, <2>2, <2>3, <2>4 DEF t, node, P
<1>12. CASE t.end = P
  <2>1. last_pivot # 0 /\ last_pivot < t.max
    BY <1>2, <1>3, <1>4, <1>5, <1>12
  <2>2. last_pivot # t.max
    BY <1>2, <1>9, <2>1
  <2>3. t.type = "arange64" => end = meta_end /\ node.meta_end = t.end
    BY <1>2, <1>3, <1>4, <1>6, <1>7, <1>8, <1>12
  <2>4. t.type # "arange64" => end = t.end
    BY <1>6, <1>12, <2>1, <2>2
  <2>5. end = t.end \/ (end = meta_end /\ node.meta_end = t.end)
    BY <2>3, <2>4
  <2>6. end <= t.end
    BY <1>2, <1>7, <2>5
  <2>7. meta_end = node.meta_end => end = t.end
    BY <2>5
  <2>8. ~(t.type = "arange64" \/ last_pivot = 0) => end = t.end
    BY <2>4
  <2>. QED BY <2>6, <2>7, <2>8 DEF t, node, P
<1>13. t.end < P - 1 \/ t.end = P - 1 \/ t.end = P
  BY <1>2, <1>3, <1>4
<1>. QED BY <1>10, <1>11, <1>12, <1>13

----------------------------------------------------------------------------
(* Entering a node *)

FrameType ==
  [node : Int, type : NodeTypes, max : 0 .. MaxIndex, current_min : 0 .. MaxIndex,
   index : Nat, data_end : Nat]

\* In a stable world, the frame at this place of the stack walks its node as the kernel built it.
FrameFits(f, place, lossy) ==
  LET t == mem.tree[f.node]
  IN  /\ f.node \in DOMAIN mem.tree
      /\ f.type = t.type /\ f.max = t.max /\ t.level + place <= MaxDepth + 1
      /\ f.data_end <= t.end /\ (~lossy => f.data_end = t.end)
      /\ f.index <= f.data_end =>
           f.current_min = IF f.type = "dense" THEN t.min ELSE SlotMin(mem, f.node, f.index)

Frames(s, lossy) ==
  /\ s \in Seq(FrameType) /\ Len(s) <= MaxDepth + 1
  /\ \A i \in DOMAIN s : /\ s[i].index <= s[i].data_end + 1
                         /\ Torn \/ FrameFits(s[i], i, lossy)

Collected ==
  /\ out \in Seq(Entries) /\ Len(out) <= MaxVma
  /\ \A k \in DOMAIN out : /\ HasInfo(out[k]) /\ out[k].vma \in Readable
                           /\ ~Torn => out[k] = Area(out[k].vma)

\* What is collected stays so.
LEMMA CollectedKept ==
  ASSUME Collected, UNCHANGED <<world, mem, out>>
  PROVE  Collected'
BY DEF Collected, Readable, Torn, Area

\* A VMA is read and collected.
LEMMA VmaCollected ==
  ASSUME MemInv, Collected, Len(out) < MaxVma, world' = world, mem' = mem,
         NEW v \in Readable, NEW b \in ReadVma(v), out' = Collect(v, b)
  PROVE  Collected' /\ Len(out') <= Len(out) + 1
<1>1. out \in Seq(Entries) /\ Len(out) \in Nat /\ MaxVma \in Nat
  BY ConstAssumption DEF Collected
<1>2. CASE ~HasInfo(b)
  <2>1. out' = out
    BY <1>2 DEF Collect
  <2>. QED BY <1>1, <2>1, CollectedKept
<1>3. CASE HasInfo(b)
  <2>. DEFINE x == VmaInfo(v, b)
  <2>1. /\ x \in Entries /\ x.vma = v /\ HasInfo(x) /\ (~Torn => x = Area(v))
    BY <1>3, ReadTyped
  <2>2. out' = Append(out, x)
    BY <1>3 DEF Collect
  <2>. HIDE DEF x
  <2>3. /\ out' \in Seq(Entries) /\ Len(out') = Len(out) + 1
        /\ \A k \in DOMAIN out' : out'[k] = x \/ (k \in DOMAIN out /\ out'[k] = out[k])
    BY <1>1, <2>1, <2>2
  <2>4. \A k \in DOMAIN out' : /\ HasInfo(out'[k]) /\ out'[k].vma \in Readable
                               /\ ~Torn => out'[k] = Area(out'[k].vma)
    BY <2>1, <2>3 DEF Collected
  <2>5. Len(out') <= MaxVma
    BY <1>1, <2>3
  <2>6. Collected'
    BY <2>3, <2>4, <2>5 DEF Collected, Readable, Torn, Area
  <2>. QED BY <1>1, <2>3, <2>6
<1>. QED BY <1>2, <1>3

\* A new frame on top of others.
LEMMA Pushed ==
  ASSUME NEW s, NEW was, NEW now, Frames(s, was), was => now, Len(s) <= MaxDepth,
         NEW f \in FrameType, f.index <= f.data_end + 1, Torn \/ FrameFits(f, Len(s) + 1, now)
  PROVE  Frames(Append(s, f), now)
<1>. DEFINE t == Append(s, f)
<1>1. s \in Seq(FrameType) /\ Len(s) \in Nat /\ MaxDepth \in Nat
  BY ConstAssumption DEF Frames
<1>2. /\ t \in Seq(FrameType) /\ Len(t) = Len(s) + 1 /\ DOMAIN t = 1 .. Len(s) + 1
      /\ t[Len(s) + 1] = f /\ \A i \in DOMAIN s : t[i] = s[i]
  BY <1>1
<1>3. \A i \in DOMAIN t : i = Len(s) + 1 \/ i \in DOMAIN s
  BY <1>1, <1>2
<1>4. \A i \in DOMAIN s : s[i].index <= s[i].data_end + 1 /\ (Torn \/ FrameFits(s[i], i, now))
  BY DEF Frames, FrameFits
<1>. HIDE DEF t
<1>5. \A i \in DOMAIN t : t[i].index <= t[i].data_end + 1 /\ (Torn \/ FrameFits(t[i], i, now))
  BY <1>2, <1>3, <1>4
<1>6. Len(t) <= MaxDepth + 1
  BY <1>1, <1>2
<1>. QED BY <1>2, <1>5, <1>6 DEF Frames, t

\* What is read of a node's head gives a frame that fits.
LEMMA FrameEntered ==
  ASSUME MemInv, NEW e \in Nat, NEW min \in 0 .. MaxIndex, NEW max \in 0 .. MaxIndex, NEW level \in Nat,
         NEW place \in Nat,
         Torn \/ (Fits(mem, e, min, max, level) /\ level + place <= MaxDepth + 2),
         e # NULL, maple_type(e) \in NodeTypes
  PROVE  /\ maple_type(e) = "dense" =>
              LET f == Frame(e, min, max, Min({DenseSlots - 1, SaturatingSub(max, min)}))
              IN  f \in FrameType /\ f.index <= f.data_end + 1 /\ (Torn \/ FrameFits(f, place, FALSE))
         /\ maple_type(e) # "dense" =>
              \A last_pivot \in ReadPivot(Node(e), Pivots(maple_type(e)) - 1) :
              \A meta_end \in ReadMetaEnd(Node(e)) \cup {0} :
                LET t == maple_type(e)
                    f == Frame(e, min, max, DataEnd(t, last_pivot, meta_end, max))
                    lossy == meta_end \notin ReadMetaEnd(Node(e)) /\ (t = "arange64" \/ last_pivot = 0)
                IN  /\ f \in FrameType /\ f.index <= f.data_end + 1
                    /\ Torn \/ FrameFits(f, place, lossy)
<1>. DEFINE n == Node(e)
            t == maple_type(e)
<1>1. n \in Int
  BY DEF Node
<1>2. MaxIndex \in Nat /\ min \in Nat /\ max \in Nat /\ DenseSlots - 1 \in Nat /\ MaxDepth \in Nat
  BY ConstAssumption
<1>3. \A d \in Nat :
        LET f == Frame(e, min, max, d)
        IN  /\ f \in FrameType /\ f.index <= f.data_end + 1
            /\ f.node = n /\ f.type = t /\ f.max = max /\ f.current_min = min
            /\ f.index = 0 /\ f.data_end = d
  BY <1>1, <1>2 DEF Frame, FrameType
<1>4. ASSUME ~Torn
      PROVE  /\ n \in DOMAIN mem.tree /\ TreeNode(mem, n)
             /\ mem.tree[n].type = t /\ mem.tree[n].min = min /\ mem.tree[n].max = max
             /\ mem.tree[n].level + place <= MaxDepth + 1
             /\ mem.tree[n].end \in Nat /\ mem.tree[n].level \in Nat
  <2>1. Fits(mem, e, min, max, level) /\ t # "none" /\ level + place <= MaxDepth + 2
    BY <1>4 DEF NodeTypes
  <2>2. /\ n \in DOMAIN mem.tree /\ mem.tree[n].type = t /\ mem.tree[n].min = min
        /\ mem.tree[n].max = max /\ mem.tree[n].level < level
    BY <2>1 DEF Fits
  <2>3. TreeNode(mem, n)
    BY <1>4, <2>2, MemTyped DEF KernelBuilt
  <2>4. mem.tree[n].end \in Nat /\ mem.tree[n].level \in Nat
    BY <2>3 DEF TreeNode
  <2>. QED BY <1>2, <2>1, <2>2, <2>3, <2>4
<1>5. CASE t = "dense"
  <2>. DEFINE d == Min({DenseSlots - 1, SaturatingSub(max, min)})
  <2>1. d \in Nat /\ (min <= max /\ max - min < DenseSlots => d = max - min)
    <3>1. SaturatingSub(max, min) \in Nat /\ (min <= max => SaturatingSub(max, min) = max - min)
      BY <1>2, SubNotBelowZero
    <3>2. d = IF DenseSlots - 1 <= SaturatingSub(max, min) THEN DenseSlots - 1
              ELSE SaturatingSub(max, min)
      BY <1>2, <3>1, MinOfTwo
    <3>. QED BY <1>2, <3>1, <3>2, ConstAssumption
  <2>. HIDE DEF d
  <2>2. ASSUME ~Torn PROVE d = mem.tree[n].end
    BY <1>4, <1>5, <2>1, <2>2 DEF TreeNode, DenseNode
  <2>. DEFINE f == Frame(e, min, max, d)
  <2>3. ASSUME ~Torn PROVE FrameFits(f, place, FALSE)
    BY <1>2, <1>3, <1>4, <1>5, <2>1, <2>2, <2>3 DEF FrameFits
  <2>. QED BY <1>3, <1>5, <2>1, <2>3 DEF d
<1>6. CASE t # "dense"
  <2>. SUFFICES ASSUME NEW last_pivot \in ReadPivot(n, Pivots(t) - 1),
                       NEW meta_end \in ReadMetaEnd(n) \cup {0}
                PROVE  LET f == Frame(e, min, max, DataEnd(t, last_pivot, meta_end, max))
                           lossy == meta_end \notin ReadMetaEnd(n) /\ (t = "arange64" \/ last_pivot = 0)
                       IN  /\ f \in FrameType /\ f.index <= f.data_end + 1
                           /\ Torn \/ FrameFits(f, place, lossy)
    BY <1>6
  <2>. DEFINE d == DataEnd(t, last_pivot, meta_end, max)
              f == Frame(e, min, max, d)
              lossy == meta_end \notin ReadMetaEnd(n) /\ (t = "arange64" \/ last_pivot = 0)
  <2>1. meta_end \in Nat
    <3>1. CASE Torn
      <4>1. Slots("range64") \in Nat
        BY LayoutTyped DEF NodeTypes
      <4>. QED BY <3>1, <4>1 DEF ReadMetaEnd
    <3>2. CASE ~Torn
      <4>1. mem.node[n].meta_end \in Nat
        BY <1>4, <1>6, <3>2 DEF TreeNode, RangeNode
      <4>. QED BY <3>2, <4>1 DEF ReadMetaEnd
    <3>. QED BY <3>1, <3>2
  <2>2. d \in Nat
    BY <2>1, DataEndTyped
  <2>3. ASSUME ~Torn PROVE d <= mem.tree[n].end /\ (~lossy => d = mem.tree[n].end)
    <3>1. ReadMetaEnd(n) = {mem.node[n].meta_end} /\ meta_end \in {mem.node[n].meta_end, 0}
      BY <2>3 DEF ReadMetaEnd
    <3>2. Pivots(t) \in Nat
      BY LayoutTyped
    <3>3. last_pivot = mem.node[n].pivot[Pivots(t)]
      <4>1. Pivots(t) - 1 + 1 = Pivots(t)
        BY <3>2
      <4>. QED BY <2>3, <4>1 DEF ReadPivot
    <3>4. /\ n \in DOMAIN mem.tree /\ mem.tree[n].type = t /\ mem.tree[n].max = max
      BY <1>4, <2>3
    <3>. QED BY <1>6, <2>3, <3>1, <3>3, <3>4, DataEndRight
  <2>. HIDE DEF d, lossy
  <2>4. ASSUME ~Torn PROVE FrameFits(f, place, lossy)
    <3>1. SlotMin(mem, n, 0) = min
      BY <1>4, <1>6, <2>4 DEF SlotMin
    <3>. QED BY <1>3, <1>4, <1>6, <2>2, <2>3, <2>4, <3>1 DEF FrameFits
  <2>5. f \in FrameType /\ f.index <= f.data_end + 1
    BY <1>3, <2>2
  <2>. QED BY <2>4, <2>5 DEF d, lossy
<1>. QED BY <1>5, <1>6

\* walk_maple_entry on a node pushes a frame.
LEMMA EntryPushes ==
  ASSUME MemInv, lost \in BOOLEAN,
         NEW e \in Nat, NEW min \in 0 .. MaxIndex, NEW max \in 0 .. MaxIndex, NEW level \in Nat,
         NEW below, Len(below) \in Nat,
         Torn \/ (Fits(mem, e, min, max, level) /\ level + Len(below) <= MaxDepth + 1),
         ~Ignored(e, Len(below)), maple_type(e) \in NodeTypes,
         EnterDense(e, min, max, below) \/ EnterRange(e, min, max, below)
  PROVE  /\ lost' \in BOOLEAN /\ (lost => lost')
         /\ \E f \in FrameType :
              /\ stack' = Append(below, f) /\ f.index <= f.data_end + 1
              /\ f.node = Node(e) /\ f.index = 0
              /\ Torn \/ FrameFits(f, Len(below) + 1, lost')
<1>1. e # NULL
  BY DEF Ignored
<1>2. Torn \/ (Fits(mem, e, min, max, level) /\ level + (Len(below) + 1) <= MaxDepth + 2)
  BY ConstAssumption
<1>3. Len(below) + 1 \in Nat
  OBVIOUS
<1>4. \A d : Frame(e, min, max, d).node = Node(e) /\ Frame(e, min, max, d).index = 0
  BY DEF Frame
<1>5. CASE EnterDense(e, min, max, below)
  <2>. DEFINE f == Frame(e, min, max, Min({DenseSlots - 1, SaturatingSub(max, min)}))
  <2>1. stack' = Append(below, f) /\ lost' = lost /\ maple_type(e) = "dense"
    BY <1>5 DEF EnterDense
  <2>2. f \in FrameType /\ f.index <= f.data_end + 1 /\ (Torn \/ FrameFits(f, Len(below) + 1, FALSE))
    BY <1>1, <1>2, <1>3, <2>1, FrameEntered
  <2>3. f.node = Node(e) /\ f.index = 0
    BY <1>4
  <2>. HIDE DEF f
  <2>4. Torn \/ FrameFits(f, Len(below) + 1, lost')
    BY <2>2 DEF FrameFits
  <2>. QED BY <2>1, <2>2, <2>3, <2>4
<1>6. CASE EnterRange(e, min, max, below)
  <2>. DEFINE t == maple_type(e)
  <2>1. PICK last_pivot \in ReadPivot(Node(e), Pivots(t) - 1),
             meta_end \in ReadMetaEnd(Node(e)) \cup {0} :
          /\ stack' = Append(below, Frame(e, min, max, DataEnd(t, last_pivot, meta_end, max)))
          /\ lost' = (lost \/ (meta_end \notin ReadMetaEnd(Node(e))
                               /\ (t = "arange64" \/ last_pivot = 0)))
    BY <1>6 DEF EnterRange
  <2>. DEFINE f == Frame(e, min, max, DataEnd(t, last_pivot, meta_end, max))
              lossy == meta_end \notin ReadMetaEnd(Node(e)) /\ (t = "arange64" \/ last_pivot = 0)
  <2>2. t # "dense"
    BY <1>6 DEF EnterRange
  <2>3. f \in FrameType /\ f.index <= f.data_end + 1 /\ (Torn \/ FrameFits(f, Len(below) + 1, lossy))
    BY <1>1, <1>2, <1>3, <2>2, FrameEntered
  <2>4. f.node = Node(e) /\ f.index = 0
    BY <1>4
  <2>5. stack' = Append(below, f) /\ lost' = (lost \/ lossy)
    BY <2>1
  <2>. HIDE DEF f, lossy
  <2>6. Torn \/ FrameFits(f, Len(below) + 1, lost')
    BY <2>3, <2>5 DEF FrameFits
  <2>. QED BY <2>3, <2>4, <2>5, <2>6
<1>. QED BY <1>5, <1>6

\* The four outcomes of walk_maple_entry.
LEMMA EntryCases ==
  ASSUME MemInv, lost \in BOOLEAN,
         NEW e \in Nat, NEW min \in 0 .. MaxIndex, NEW max \in 0 .. MaxIndex, NEW level \in Nat,
         NEW below, Len(below) \in Nat,
         Torn \/ (Fits(mem, e, min, max, level) /\ level + Len(below) <= MaxDepth + 1),
         walk_maple_entry(e, min, max, Len(below), below)
  PROVE  \/ Ignored(e, Len(below)) /\ stack' = below /\ out' = out /\ lost' = lost
         \/ /\ ~Ignored(e, Len(below)) /\ maple_type(e) \in NodeTypes /\ out' = out
            /\ lost' \in BOOLEAN /\ (lost => lost')
            /\ \E f \in FrameType :
                 /\ stack' = Append(below, f) /\ f.index <= f.data_end + 1
                 /\ f.node = Node(e) /\ f.index = 0
                 /\ Torn \/ FrameFits(f, Len(below) + 1, lost')
         \/ /\ ~Ignored(e, Len(below)) /\ maple_type(e) = "none"
            /\ push_vma_entry(e) /\ stack' = below /\ lost' = lost
<1>1. CASE Ignored(e, Len(below))
  BY <1>1 DEF walk_maple_entry
<1>2. CASE /\ ~Ignored(e, Len(below)) /\ UNCHANGED out
           /\ EnterDense(e, min, max, below) \/ EnterRange(e, min, max, below)
  <2>1. maple_type(e) \in NodeTypes
    BY <1>2 DEF EnterDense, EnterRange, NodeTypes
  <2>. QED BY <1>2, <2>1, EntryPushes
<1>. QED BY <1>1, <1>2 DEF walk_maple_entry

\* After walk_maple_entry the frames and the VMAs are what they should be.
LEMMA EntryWalked ==
  ASSUME MemInv, Collected, lost \in BOOLEAN, mem' = mem, world' = world,
         NEW e \in Nat, NEW min \in 0 .. MaxIndex, NEW max \in 0 .. MaxIndex, NEW level \in Nat,
         NEW below, Frames(below, lost),
         Torn \/ (Fits(mem, e, min, max, level) /\ level + Len(below) <= MaxDepth + 1),
         walk_maple_entry(e, min, max, Len(below), below)
  PROVE  Frames(stack', lost') /\ Collected' /\ lost' \in BOOLEAN /\ (lost => lost')
<1>1. below \in Seq(FrameType) /\ Len(below) \in Nat /\ MaxDepth \in Nat /\ MaxVma \in Nat
  BY ConstAssumption DEF Frames
<1>2. CASE Ignored(e, Len(below)) /\ stack' = below /\ out' = out /\ lost' = lost
  BY <1>2, CollectedKept
<1>3. CASE /\ ~Ignored(e, Len(below)) /\ maple_type(e) \in NodeTypes /\ out' = out
           /\ lost' \in BOOLEAN /\ (lost => lost')
           /\ \E f \in FrameType :
                /\ stack' = Append(below, f) /\ f.index <= f.data_end + 1
                /\ f.node = Node(e) /\ f.index = 0
                /\ Torn \/ FrameFits(f, Len(below) + 1, lost')
  <2>1. Len(below) <= MaxDepth
    BY <1>1, <1>3 DEF Ignored
  <2>2. Frames(stack', lost')
    BY <1>3, <2>1, Pushed
  <2>3. Collected'
    BY <1>3, CollectedKept
  <2>. QED BY <1>3, <2>2, <2>3
<1>4. CASE /\ ~Ignored(e, Len(below)) /\ maple_type(e) = "none"
           /\ push_vma_entry(e) /\ stack' = below /\ lost' = lost
  <2>1. Len(out) < MaxVma
    BY <1>1, <1>4 DEF Ignored, Collected
  <2>2. CASE out' = out
    BY <1>4, <2>2, CollectedKept
  <2>3. CASE e \in Readable /\ \E b \in ReadVma(e) : out' = Collect(e, b)
    <3>1. Collected'
      BY <2>1, <2>3, VmaCollected
    <3>. QED BY <1>4, <3>1
  <2>. QED BY <1>4, <2>2, <2>3 DEF push_vma_entry
<1>. QED BY <1>1, <1>2, <1>3, <1>4, EntryCases

----------------------------------------------------------------------------
(* Nothing is lost *)

\* The VMAs below the slots the frame has still to read.
Ahead(m, f) == UNION {Under(m, m.node[f.node].slot[k + 1]) : k \in f.index .. f.data_end}

\* Every VMA is collected, below "entry" (a set) or ahead of a frame, and only in one of them.
Covered(s, o, entry) ==
  /\ \A v \in MappedVmas : v \in Found(o) \/ v \in entry \/ \E i \in DOMAIN s : v \in Ahead(mem, s[i])
  /\ \A j, k \in DOMAIN o : o[j].vma = o[k].vma => j = k
  /\ entry \cap Found(o) = {}
  /\ \A i \in DOMAIN s : Ahead(mem, s[i]) \cap Found(o) = {} /\ Ahead(mem, s[i]) \cap entry = {}
  /\ \A i, j \in DOMAIN s : i # j => Ahead(mem, s[i]) \cap Ahead(mem, s[j]) = {}

\* A sequence without repetition has as many elements as its set.
LEMMA DistinctCount ==
  ASSUME NEW S, NEW s \in Seq(S), \A j, k \in DOMAIN s : s[j] = s[k] => j = k
  PROVE  IsFiniteSet(ToSet(s)) /\ Cardinality(ToSet(s)) = Len(s)
<1>1. DOMAIN s = 1 .. Len(s) /\ Len(s) \in Nat
  OBVIOUS
<1>2. IsFiniteSet(1 .. Len(s)) /\ Cardinality(1 .. Len(s)) = Len(s)
  BY <1>1, FS_Interval
<1>. DEFINE f == [k \in 1 .. Len(s) |-> s[k]]
<1>3. f \in Bijection(1 .. Len(s), ToSet(s))
  BY <1>1 DEF Bijection, Injection, Surjection, IsInjective, ToSet
<1>4. ExistsBijection(1 .. Len(s), ToSet(s))
  BY <1>3 DEF ExistsBijection
<1>. QED BY <1>2, <1>4, FS_Bijection

\* When the limit is reached there is nothing left to find.
LEMMA LimitHidesNone ==
  ASSUME MemInv, ~Torn, Collected, Len(mem.vmas) <= MaxVma, Len(out) >= MaxVma,
         \A j, k \in DOMAIN out : out[j].vma = out[k].vma => j = k,
         NEW U, U \subseteq DOMAIN mem.vma, U \cap Found(out) = {}
  PROVE  U = {}
<1>. SUFFICES ASSUME NEW v \in U PROVE FALSE
  OBVIOUS
<1>1. KernelBuilt(mem) /\ VmasTyped
  BY MemTyped
<1>2. mem.vmas \in Seq(Nat) /\ DOMAIN mem.vma = ToSet(mem.vmas) /\ Len(mem.vmas) \in Nat
  BY <1>1 DEF KernelBuilt
<1>3. IsFiniteSet(ToSet(mem.vmas)) /\ Cardinality(ToSet(mem.vmas)) = Len(mem.vmas)
  <2>1. \A j, k \in DOMAIN mem.vmas : j < k => mem.vmas[j] # mem.vmas[k]
    <3>1. \A j \in DOMAIN mem.vmas : mem.vmas[j] \in DOMAIN mem.vma
      BY <1>2 DEF ToSet
    <3>2. \A j, k \in DOMAIN mem.vmas : j < k => Before(Area(mem.vmas[j]), Area(mem.vmas[k]))
      BY <1>1 DEF KernelBuilt, Area
    <3>. QED BY <3>1, <3>2, AreaTyped, BeforeIsOrder
  <2>2. \A j, k \in DOMAIN mem.vmas : mem.vmas[j] = mem.vmas[k] => j = k
    <3>1. DOMAIN mem.vmas = 1 .. Len(mem.vmas)
      BY <1>2
    <3>. QED BY <1>2, <2>1, <3>1
  <2>. QED BY <1>2, <2>2, DistinctCount
<1>. DEFINE found == [k \in DOMAIN out |-> out[k].vma]
<1>4. /\ found \in Seq(DOMAIN mem.vma) /\ Len(found) = Len(out) /\ Len(out) \in Nat
      /\ ToSet(found) = Found(out) /\ \A j, k \in DOMAIN found : found[j] = found[k] => j = k
  <2>1. out \in Seq(Entries) /\ \A k \in DOMAIN out : out[k].vma \in DOMAIN mem.vma
    BY DEF Collected, Readable
  <2>2. DOMAIN out = 1 .. Len(out) /\ Len(out) \in Nat
    BY <2>1
  <2>3. found \in Seq(DOMAIN mem.vma) /\ Len(found) = Len(out)
    BY <2>1, <2>2
  <2>. QED BY <2>2, <2>3 DEF ToSet, Found
<1>. HIDE DEF found
<1>5. IsFiniteSet(Found(out)) /\ Cardinality(Found(out)) = Len(out)
  BY <1>4, DistinctCount
<1>6. Found(out) \cup {v} \subseteq ToSet(mem.vmas)
  BY <1>2, <1>4 DEF ToSet
<1>7. Cardinality(Found(out) \cup {v}) = Len(out) + 1
  BY <1>5, FS_AddElement
<1>8. Cardinality(Found(out) \cup {v}) <= Len(mem.vmas)
  BY <1>3, <1>6, FS_Subset
<1>9. Len(out) + 1 <= Len(mem.vmas)
  BY <1>7, <1>8
<1>10. Len(out) \in Nat /\ Len(mem.vmas) \in Nat /\ MaxVma \in Nat
  BY <1>2, <1>4, ConstAssumption
<1>. QED BY <1>9, <1>10

\* What lies below an entry is VMAs of the process.
LEMMA UnderVmas ==
  ASSUME MemInv, ~Torn, NEW e, NEW min, NEW max, NEW level, Fits(mem, e, min, max, level)
  PROVE  Under(mem, e) \subseteq DOMAIN mem.vma
<1>1. KernelBuilt(mem)
  BY MemTyped
<1>2. DOMAIN mem.vma = ToSet(mem.vmas)
  BY <1>1 DEF KernelBuilt
<1>3. CASE e = NULL
  BY <1>3 DEF Under
<1>4. CASE e # NULL /\ maple_type(e) = "none"
  BY <1>2, <1>4 DEF Under, Fits
<1>5. CASE e # NULL /\ maple_type(e) # "none"
  <2>1. Node(e) \in DOMAIN mem.tree
    BY <1>5 DEF Fits
  <2>2. TreeNode(mem, Node(e))
    BY <1>1, <2>1 DEF KernelBuilt
  <2>. QED BY <1>2, <1>5, <2>2 DEF Under, TreeNode
<1>. QED BY <1>3, <1>4, <1>5

\* walk_maple_entry collects what is below the entry or leaves it to a new frame.
LEMMA EntryCovered ==
  ASSUME MemInv, ~Torn, Collected, lost \in BOOLEAN, Len(mem.vmas) <= MaxVma,
         NEW e \in Nat, NEW min \in 0 .. MaxIndex, NEW max \in 0 .. MaxIndex, NEW level \in Nat,
         NEW below, Frames(below, lost),
         Fits(mem, e, min, max, level), level + Len(below) <= MaxDepth + 1,
         walk_maple_entry(e, min, max, Len(below), below),
         Covered(below, out, Under(mem, e)), ~lost'
  PROVE  Covered(stack', out', {})
<1>1. below \in Seq(FrameType) /\ Len(below) \in Nat /\ MaxDepth \in Nat /\ DOMAIN below = 1 .. Len(below)
  BY ConstAssumption DEF Frames
<1>2. CASE Ignored(e, Len(below)) /\ stack' = below /\ out' = out
  <2>1. Under(mem, e) = {}
    <3>1. CASE e = NULL
      BY <3>1 DEF Under
    <3>2. CASE e # NULL
      <4>1. Len(out) >= MaxVma
        BY <1>1, <1>2, <3>2 DEF Ignored, Fits
      <4>. QED BY <4>1, LimitHidesNone, UnderVmas DEF Covered
    <3>. QED BY <3>1, <3>2
  <2>. QED BY <1>2, <2>1
<1>3. CASE /\ ~Ignored(e, Len(below)) /\ maple_type(e) \in NodeTypes /\ out' = out
           /\ \E f \in FrameType :
                /\ stack' = Append(below, f) /\ f.index <= f.data_end + 1
                /\ f.node = Node(e) /\ f.index = 0
                /\ Torn \/ FrameFits(f, Len(below) + 1, lost')
  <2>1. PICK f \in FrameType :
          /\ stack' = Append(below, f) /\ f.node = Node(e) /\ f.index = 0
          /\ FrameFits(f, Len(below) + 1, lost')
    BY <1>3
  <2>2. Ahead(mem, f) = Under(mem, e)
    <3>1. f.node \in DOMAIN mem.tree /\ f.data_end = mem.tree[f.node].end
      BY <2>1 DEF FrameFits
    <3>2. TreeNode(mem, f.node)
      BY <3>1, MemTyped DEF KernelBuilt
    <3>3. Under(mem, e) = mem.tree[f.node].vmas
      BY <1>3, <2>1 DEF Under, NodeTypes, Ignored
    <3>. QED BY <2>1, <3>1, <3>2, <3>3 DEF TreeNode, Ahead
  <2>3. /\ DOMAIN stack' = 1 .. Len(below) + 1 /\ stack'[Len(below) + 1] = f
        /\ \A i \in DOMAIN below : stack'[i] = below[i]
    BY <1>1, <2>1
  <2>4. \A i \in DOMAIN stack' : i = Len(below) + 1 \/ i \in DOMAIN below
    BY <1>1, <2>3
  <2>5. Len(below) + 1 \in DOMAIN stack' /\ DOMAIN below \subseteq DOMAIN stack'
    BY <1>1, <2>3
  <2>6. out' = out
    BY <1>3
  <2>. QED BY <2>2, <2>3, <2>4, <2>5, <2>6 DEF Covered
<1>4. CASE /\ ~Ignored(e, Len(below)) /\ maple_type(e) = "none"
           /\ push_vma_entry(e) /\ stack' = below
  <2>1. Under(mem, e) = {e}
    BY <1>4 DEF Under, Ignored
  <2>2. e >= PageSize /\ e \in DOMAIN mem.vma /\ Area(e).vma = e
    BY <1>4, MemTyped, AreaTyped DEF Fits, Ignored, KernelBuilt
  <2>. DEFINE b == mem.vma[e]
  <2>3. out' = Collect(e, b)
    <3>1. ~(e < PageSize)
      BY <2>2, ConstAssumption
    <3>. QED BY <1>4, <3>1 DEF push_vma_entry, ReadVma
  <2>4. CASE ~HasInfo(b)
    <3>1. out' = out /\ e \notin MappedVmas
      BY <2>3, <2>4 DEF Collect, MappedVmas
    <3>. QED BY <1>4, <2>1, <3>1 DEF Covered
  <2>5. CASE HasInfo(b)
    <3>1. out \in Seq(Entries) /\ out' = Append(out, Area(e)) /\ Area(e) \in Entries
      BY <2>2, <2>3, <2>5, AreaTyped DEF Collect, Collected, Area
    <3>2. /\ DOMAIN out' = 1 .. Len(out) + 1 /\ DOMAIN out = 1 .. Len(out) /\ Len(out) \in Nat
          /\ out'[Len(out) + 1] = Area(e) /\ \A k \in DOMAIN out : out'[k] = out[k]
      BY <3>1
    <3>3. \A k \in DOMAIN out' : k = Len(out) + 1 \/ k \in DOMAIN out
      BY <3>2
    <3>4. Found(out') = Found(out) \cup {e}
      BY <2>2, <3>2, <3>3 DEF Found
    <3>5. e \notin Found(out)
      BY <2>1 DEF Covered
    <3>6. \A j, k \in DOMAIN out' : out'[j].vma = out'[k].vma => j = k
      BY <2>2, <3>2, <3>3, <3>5 DEF Covered, Found
    <3>. QED BY <1>4, <2>1, <3>4, <3>6 DEF Covered
  <2>. QED BY <2>4, <2>5
<1>. QED BY <1>1, <1>2, <1>3, <1>4, EntryCases

\* A slot is taken from the top frame: what is below it is next, the rest stays ahead.
LEMMA SlotTaken ==
  ASSUME NEW s \in Seq(FrameType), s # <<>>, NEW g \in FrameType, NEW o, NEW U,
         Covered(s, o, {}), Ahead(mem, Last(s)) = U \cup Ahead(mem, g), U \cap Ahead(mem, g) = {}
  PROVE  Covered(Append(Front(s), g), o, U)
<1>. DEFINE t == Append(Front(s), g)
            n == Len(s)
<1>1. /\ DOMAIN t = DOMAIN s /\ n \in DOMAIN s /\ Last(s) = s[n] /\ t[n] = g
      /\ \A i \in DOMAIN s : i # n => t[i] = s[i]
  BY LastReplaced
<1>. HIDE DEF t, n
<1>2. \A i \in DOMAIN t : IF i = n THEN Ahead(mem, t[i]) = Ahead(mem, g) ELSE Ahead(mem, t[i]) = Ahead(mem, s[i])
  BY <1>1
<1>3. Ahead(mem, s[n]) = U \cup Ahead(mem, g)
  BY <1>1
<1>4. \A v \in MappedVmas : v \in Found(o) \/ v \in U \/ \E i \in DOMAIN t : v \in Ahead(mem, t[i])
  BY <1>1, <1>2, <1>3 DEF Covered
<1>5. U \cap Found(o) = {}
  BY <1>1, <1>3 DEF Covered
<1>6. \A i \in DOMAIN t : Ahead(mem, t[i]) \cap Found(o) = {} /\ Ahead(mem, t[i]) \cap U = {}
  BY <1>1, <1>2, <1>3 DEF Covered
<1>7. \A i, j \in DOMAIN t : i # j => Ahead(mem, t[i]) \cap Ahead(mem, t[j]) = {}
  BY <1>1, <1>2, <1>3 DEF Covered
<1>. QED BY <1>4, <1>5, <1>6, <1>7 DEF Covered, t

----------------------------------------------------------------------------
(* Reading a slot *)

\* The top frame is replaced.
LEMMA FrameReplaced ==
  ASSUME NEW s, NEW lossy, Frames(s, lossy), s # <<>>, NEW g \in FrameType,
         g.index <= g.data_end + 1, Torn \/ FrameFits(g, Len(s), lossy)
  PROVE  Frames(Append(Front(s), g), lossy) /\ Len(Append(Front(s), g)) = Len(s)
<1>. DEFINE t == Append(Front(s), g)
<1>1. s \in Seq(FrameType)
  BY DEF Frames
<1>2. /\ t \in Seq(FrameType) /\ Len(t) = Len(s) /\ DOMAIN t = DOMAIN s /\ t[Len(s)] = g
      /\ \A i \in DOMAIN s : i # Len(s) => t[i] = s[i]
  BY <1>1, LastReplaced
<1>. HIDE DEF t
<1>3. \A i \in DOMAIN t : t[i].index <= t[i].data_end + 1 /\ (Torn \/ FrameFits(t[i], i, lossy))
  BY <1>2 DEF Frames
<1>4. Frames(t, lossy)
  BY <1>2, <1>3 DEF Frames
<1>. QED BY <1>2, <1>4 DEF t

\* The next slot of a node leaves the frame, with what is below it.
LEMMA AheadSplit ==
  ASSUME MemInv, ~Torn, NEW f \in FrameType, NEW g \in FrameType,
         f.node \in DOMAIN mem.tree, f.data_end = mem.tree[f.node].end, f.index <= f.data_end,
         g.node = f.node, g.data_end = f.data_end, g.index = f.index + 1
  PROVE  LET U == Under(mem, mem.node[f.node].slot[f.index + 1])
         IN  Ahead(mem, f) = U \cup Ahead(mem, g) /\ U \cap Ahead(mem, g) = {}
<1>. DEFINE B(k) == Under(mem, mem.node[f.node].slot[k + 1])
            U == B(f.index)
<1>1. f.index \in Nat /\ f.data_end \in Nat
  BY DEF FrameType
<1>2. TreeNode(mem, f.node)
  BY MemTyped DEF KernelBuilt
<1>3. \A j, k \in 0 .. f.data_end : j # k => B(j) \cap B(k) = {}
  BY <1>2 DEF TreeNode
<1>4. Ahead(mem, f) = UNION {B(k) : k \in f.index .. f.data_end}
  BY DEF Ahead
<1>5. Ahead(mem, g) = UNION {B(k) : k \in f.index + 1 .. f.data_end}
  BY DEF Ahead
<1>. HIDE DEF B
<1>6. \A k \in Int : k \in f.index .. f.data_end <=> (k = f.index \/ k \in f.index + 1 .. f.data_end)
  BY <1>1
<1>7. Ahead(mem, f) = U \cup Ahead(mem, g)
  BY <1>1, <1>4, <1>5, <1>6
<1>8. \A k \in f.index + 1 .. f.data_end : U \cap B(k) = {}
  BY <1>1, <1>3
<1>9. U \cap Ahead(mem, g) = {}
  BY <1>5, <1>8
<1>. QED BY <1>7, <1>9 DEF B

\* Advance, field by field.
LEMMA Advanced ==
  ASSUME NEW f \in FrameType, NEW last \in 0 .. MaxIndex, f.index <= f.data_end
  PROVE  LET g == Advance(f, last)
         IN  /\ g \in FrameType /\ g.index <= g.data_end + 1
             /\ g.node = f.node /\ g.type = f.type /\ g.max = f.max /\ g.data_end = f.data_end
             /\ last >= f.max => g.index = f.data_end + 1
             /\ ~(last >= f.max) => g.index = f.index + 1 /\ g.current_min = last + 1
<1>1. f.max \in 0 .. MaxIndex /\ f.index \in Nat /\ f.data_end \in Nat /\ MaxIndex \in Nat
  BY ConstAssumption DEF FrameType
<1>2. CASE last >= f.max
  <2>1. Advance(f, last) = [f EXCEPT !.index = f.data_end + 1]
    BY <1>2 DEF Advance
  <2>2. f.data_end + 1 \in Nat
    BY <1>1
  <2>. QED BY <1>1, <1>2, <2>1, <2>2 DEF FrameType
<1>3. CASE ~(last >= f.max)
  <2>. DEFINE h == [f EXCEPT !.index = f.index + 1]
  <2>1. Advance(f, last) = [h EXCEPT !.current_min = last + 1]
    BY <1>3, Zenon DEF Advance
  <2>2. f.index + 1 \in Nat /\ last + 1 \in 0 .. MaxIndex
    BY <1>1, <1>3
  <2>3. /\ h \in FrameType /\ h.index = f.index + 1 /\ h.node = f.node /\ h.type = f.type
        /\ h.max = f.max /\ h.data_end = f.data_end
    BY <2>2 DEF FrameType
  <2>. HIDE DEF h
  <2>. QED BY <1>1, <1>3, <2>1, <2>2, <2>3 DEF FrameType
<1>. QED BY <1>2, <1>3

\* An iteration of walk_maple_range64 or walk_maple_arange64, up to the call.
LEMMA RangeSlotRead ==
  ASSUME MemInv, Frames(stack, lost), stack # <<>>,
         NEW f, f = Last(stack), f.type # "dense", f.index <= f.data_end,
         NEW last \in IF f.index < Pivots(f.type) THEN ReadPivot(f.node, f.index) ELSE {f.max},
         NEW slot \in ReadSlot(f.node, f.index)
  PROVE  LET g == Advance(f, last)
             below == Append(Front(stack), g)
         IN  /\ slot \in Nat /\ last \in 0 .. MaxIndex /\ f.current_min \in 0 .. MaxIndex
             /\ g \in FrameType /\ Frames(below, lost) /\ Len(below) = Len(stack)
             /\ \E level \in Nat :
                  Torn \/ /\ Fits(mem, slot, f.current_min, last, level)
                          /\ level + Len(stack) <= MaxDepth + 1
             /\ ~Torn /\ ~lost => /\ Ahead(mem, f) = Under(mem, slot) \cup Ahead(mem, g)
                                  /\ Under(mem, slot) \cap Ahead(mem, g) = {}
<1>. DEFINE g == Advance(f, last)
            n == f.node
            k == f.index
<1>1. stack \in Seq(FrameType)
  BY DEF Frames
<1>2. /\ f \in FrameType /\ Len(stack) \in DOMAIN stack /\ f = stack[Len(stack)]
      /\ Torn \/ FrameFits(f, Len(stack), lost)
  <2>1. Len(stack) \in DOMAIN stack /\ Last(stack) = stack[Len(stack)] /\ Last(stack) \in FrameType
    BY <1>1, LastRemoved, Zenon
  <2>. QED BY <2>1 DEF Frames
<1>3. /\ f.type \in NodeTypes /\ f.max \in 0 .. MaxIndex /\ f.current_min \in 0 .. MaxIndex
      /\ k \in Nat /\ f.data_end \in Nat
  BY <1>2 DEF FrameType
<1>4. CASE Torn
  <2>1. slot \in Nat /\ last \in 0 .. MaxIndex
    BY <1>3, <1>4, ConstAssumption DEF ReadSlot, ReadPivot
  <2>2. g \in FrameType /\ g.index <= g.data_end + 1
    BY <1>2, <2>1, Advanced
  <2>. HIDE DEF g
  <2>3. Frames(Append(Front(stack), g), lost) /\ Len(Append(Front(stack), g)) = Len(stack)
    BY <1>4, <2>2, FrameReplaced
  <2>4. 0 \in Nat
    OBVIOUS
  <2>. QED BY <1>3, <1>4, <2>1, <2>2, <2>3, <2>4 DEF g
<1>5. CASE ~Torn
  <2>. DEFINE t == mem.tree[n]
              P == Pivots(f.type)
  <2>1. FrameFits(f, Len(stack), lost)
    BY <1>2, <1>5
  <2>2. /\ n \in DOMAIN mem.tree /\ f.type = t.type /\ f.max = t.max
        /\ t.level + Len(stack) <= MaxDepth + 1
        /\ f.data_end <= t.end /\ (~lost => f.data_end = t.end)
        /\ f.current_min = SlotMin(mem, n, k)
    BY <2>1 DEF FrameFits
  <2>3. TreeNode(mem, n)
    BY <1>5, <2>2, MemTyped DEF KernelBuilt
  <2>4. /\ t.end \in Nat /\ t.level \in Nat /\ RangeNode(mem, n)
        /\ \A j \in 0 .. t.end :
             /\ mem.node[n].slot[j + 1] \in Nat
             /\ Fits(mem, mem.node[n].slot[j + 1], SlotMin(mem, n, j), SlotMax(mem, n, j), t.level)
    BY <2>3 DEF TreeNode
  <2>5. P \in Nat /\ P = LayoutIn(Maple, t.type).pivots
    BY <1>3, <1>5, <2>2, LayoutTyped
  <2>6. /\ t.end \in 0 .. P /\ mem.node[n].pivot \in [1 .. P -> 0 .. MaxIndex]
        /\ \A j \in 1 .. t.end : mem.node[n].pivot[j] < t.max
        /\ t.end < P => mem.node[n].pivot[t.end + 1] = t.max
    BY <2>2, <2>4, <2>5, Zenon DEF RangeNode
  <2>7. k \in 0 .. t.end
    BY <1>3, <2>2, <2>4
  <2>8. slot = mem.node[n].slot[k + 1]
    BY <1>5 DEF ReadSlot
  <2>9. last = SlotMax(mem, n, k)
    <3>1. k < P => last = mem.node[n].pivot[k + 1]
      BY <1>5 DEF ReadPivot
    <3>2. ~(k < P) => last = f.max
      OBVIOUS
    <3>3. k = t.end \/ k < t.end
      BY <2>4, <2>7
    <3>4. CASE k = t.end
      BY <2>2, <2>6, <3>1, <3>2, <3>4 DEF SlotMax
    <3>5. CASE k < t.end
      <4>1. k < P /\ k # t.end
        <5>1. k \in Nat /\ t.end \in Nat /\ P \in Nat
          BY <1>3, <2>4, <2>5
        <5>2. t.end <= P
          BY <2>6
        <5>. HIDE DEF k, t, P
        <5>. QED BY <3>5, <5>1, <5>2
      <4>. QED BY <2>2, <3>1, <4>1 DEF SlotMax
    <3>. QED BY <3>3, <3>4, <3>5
  <2>10. last \in 0 .. MaxIndex /\ (last >= f.max => k = t.end)
    <3>1. CASE k = t.end
      BY <1>3, <2>2, <2>9, <3>1 DEF SlotMax
    <3>2. CASE k # t.end
      <4>1. k + 1 \in 1 .. t.end /\ k + 1 \in 1 .. P
        <5>1. k \in Nat /\ t.end \in Nat /\ P \in Nat
          BY <1>3, <2>4, <2>5
        <5>2. k <= t.end /\ t.end <= P
          BY <2>6, <2>7
        <5>. HIDE DEF k, t, P
        <5>. QED BY <3>2, <5>1, <5>2
      <4>2. last = mem.node[n].pivot[k + 1]
        BY <2>2, <2>9, <3>2 DEF SlotMax
      <4>3. last \in 0 .. MaxIndex /\ last < t.max
        BY <2>6, <4>1, <4>2
      <4>4. last \in Nat /\ f.max \in Nat /\ f.max = t.max
        <5>1. MaxIndex \in Nat
          BY ConstAssumption
        <5>. QED BY <1>3, <2>2, <4>3, <5>1
      <4>5. ~(last >= f.max)
        <5>. HIDE DEF t
        <5>. QED BY <4>3, <4>4
      <4>. QED BY <4>3, <4>5
    <3>. QED BY <3>1, <3>2
  <2>11. /\ g \in FrameType /\ g.index <= g.data_end + 1
         /\ g.node = f.node /\ g.type = f.type /\ g.max = f.max /\ g.data_end = f.data_end
         /\ last >= f.max => g.index = f.data_end + 1
         /\ ~(last >= f.max) => g.index = k + 1 /\ g.current_min = last + 1
    BY <1>2, <2>10, Advanced
  <2>. HIDE DEF g
  <2>12. g.index = k + 1
    BY <1>3, <2>2, <2>4, <2>10, <2>11
  <2>13. FrameFits(g, Len(stack), lost)
    <3>1. ASSUME g.index <= g.data_end PROVE g.current_min = SlotMin(mem, n, g.index)
      <4>1. ~(last >= f.max) /\ k # t.end
        BY <1>3, <2>2, <2>4, <2>11, <3>1
      <4>2. g.current_min = mem.node[n].pivot[k + 1] + 1
        BY <2>2, <2>9, <2>11, <4>1 DEF SlotMax
      <4>. QED BY <1>3, <2>2, <2>12, <4>2 DEF SlotMin
    <3>. QED BY <2>2, <2>11, <3>1 DEF FrameFits
  <2>14. Frames(Append(Front(stack), g), lost) /\ Len(Append(Front(stack), g)) = Len(stack)
    BY <2>11, <2>13, FrameReplaced
  <2>15. Fits(mem, slot, f.current_min, last, t.level) /\ slot \in Nat
    BY <2>2, <2>4, <2>7, <2>8, <2>9
  <2>16. ~lost => Ahead(mem, f) = Under(mem, slot) \cup Ahead(mem, g) /\ Under(mem, slot) \cap Ahead(mem, g) = {}
    BY <1>2, <1>5, <2>2, <2>8, <2>11, <2>12, AheadSplit
  <2>. QED BY <1>3, <1>5, <2>2, <2>4, <2>10, <2>11, <2>14, <2>15, <2>16 DEF g
<1>. QED BY <1>4, <1>5

\* An iteration of walk_maple_dense, up to the call.
LEMMA DenseSlotRead ==
  ASSUME MemInv, Frames(stack, lost), stack # <<>>,
         NEW f, f = Last(stack), f.type = "dense", f.index <= f.data_end,
         NEW slot \in ReadSlot(f.node, f.index)
  PROVE  LET g == [f EXCEPT !.index = @ + 1]
             at == Min({f.current_min + f.index, MaxIndex})
             below == Append(Front(stack), g)
         IN  /\ slot \in Nat /\ at \in 0 .. MaxIndex
             /\ g \in FrameType /\ Frames(below, lost) /\ Len(below) = Len(stack)
             /\ \E level \in Nat :
                  Torn \/ /\ Fits(mem, slot, at, at, level)
                          /\ level + Len(stack) <= MaxDepth + 1
             /\ ~Torn /\ ~lost => /\ Ahead(mem, f) = Under(mem, slot) \cup Ahead(mem, g)
                                  /\ Under(mem, slot) \cap Ahead(mem, g) = {}
<1>. DEFINE g == [f EXCEPT !.index = @ + 1]
            at == Min({f.current_min + f.index, MaxIndex})
            n == f.node
            k == f.index
<1>1. stack \in Seq(FrameType)
  BY DEF Frames
<1>2. /\ f \in FrameType /\ Len(stack) \in DOMAIN stack /\ f = stack[Len(stack)]
      /\ Torn \/ FrameFits(f, Len(stack), lost)
  <2>1. Len(stack) \in DOMAIN stack /\ Last(stack) = stack[Len(stack)] /\ Last(stack) \in FrameType
    BY <1>1, LastRemoved, Zenon
  <2>. QED BY <2>1 DEF Frames
<1>3. /\ f.max \in 0 .. MaxIndex /\ f.current_min \in 0 .. MaxIndex /\ f.current_min \in Nat
      /\ k \in Nat /\ f.data_end \in Nat /\ MaxIndex \in Nat
  BY <1>2, ConstAssumption DEF FrameType
<1>4. /\ g \in FrameType /\ g.index = k + 1 /\ g.index <= g.data_end + 1
      /\ g.node = n /\ g.type = f.type /\ g.max = f.max /\ g.data_end = f.data_end
      /\ g.current_min = f.current_min
  BY <1>2, <1>3 DEF FrameType
<1>. HIDE DEF g
<1>5. /\ at \in 0 .. MaxIndex
      /\ f.current_min + k <= MaxIndex => at = f.current_min + k
  <2>1. at = IF f.current_min + k <= MaxIndex THEN f.current_min + k ELSE MaxIndex
    BY <1>3, MinOfTwo
  <2>. QED BY <1>3, <2>1
<1>. HIDE DEF at
<1>6. CASE Torn
  <2>1. slot \in Nat
    BY <1>6, ConstAssumption DEF ReadSlot
  <2>2. Frames(Append(Front(stack), g), lost) /\ Len(Append(Front(stack), g)) = Len(stack)
    BY <1>4, <1>6, FrameReplaced
  <2>3. 0 \in Nat
    OBVIOUS
  <2>. QED BY <1>4, <1>5, <1>6, <2>1, <2>2, <2>3 DEF g, at
<1>7. CASE ~Torn
  <2>. DEFINE t == mem.tree[n]
  <2>1. /\ n \in DOMAIN mem.tree /\ f.type = t.type /\ f.max = t.max
        /\ t.level + Len(stack) <= MaxDepth + 1
        /\ f.data_end <= t.end /\ (~lost => f.data_end = t.end)
        /\ f.current_min = t.min
    BY <1>2, <1>7 DEF FrameFits
  <2>2. TreeNode(mem, n)
    BY <1>7, <2>1, MemTyped DEF KernelBuilt
  <2>3. /\ t.end \in Nat /\ t.level \in Nat /\ t.max \in 0 .. MaxIndex /\ t.min \in Nat
        /\ t.end = t.max - t.min
    <3>1. /\ t.end \in Nat /\ t.level \in Nat /\ t.min \in 0 .. MaxIndex /\ t.max \in t.min .. MaxIndex
          /\ t.end = t.max - t.min
      BY <2>1, <2>2 DEF TreeNode, DenseNode
    <3>. QED BY <1>3, <3>1
  <2>4. \A j \in 0 .. t.end :
          /\ mem.node[n].slot[j + 1] \in Nat
          /\ Fits(mem, mem.node[n].slot[j + 1], SlotMin(mem, n, j), SlotMax(mem, n, j), t.level)
    BY <2>2 DEF TreeNode
  <2>5. k \in 0 .. t.end
    BY <1>3, <2>1, <2>3
  <2>6. at = t.min + k
    BY <1>3, <1>5, <2>1, <2>3, <2>5
  <2>7. SlotMin(mem, n, k) = at /\ SlotMax(mem, n, k) = at
    BY <2>1, <2>6 DEF SlotMin, SlotMax
  <2>8. slot = mem.node[n].slot[k + 1]
    BY <1>7 DEF ReadSlot
  <2>9. FrameFits(g, Len(stack), lost)
    BY <1>4, <2>1 DEF FrameFits
  <2>10. Frames(Append(Front(stack), g), lost) /\ Len(Append(Front(stack), g)) = Len(stack)
    BY <1>4, <2>9, FrameReplaced
  <2>11. Fits(mem, slot, at, at, t.level) /\ slot \in Nat
    BY <2>4, <2>5, <2>7, <2>8
  <2>12. ~lost => Ahead(mem, f) = Under(mem, slot) \cup Ahead(mem, g) /\ Under(mem, slot) \cap Ahead(mem, g) = {}
    BY <1>2, <1>4, <1>7, <2>1, <2>8, AheadSplit
  <2>. QED BY <1>4, <1>5, <1>7, <2>1, <2>3, <2>10, <2>11, <2>12 DEF g, at
<1>. QED BY <1>6, <1>7

----------------------------------------------------------------------------
(* The invariant *)

WalkInv ==
  /\ MemInv
  /\ pc \in {"root", "maple", "head", "mmap", "neither", "done"}
  /\ lost \in BOOLEAN /\ Frames(stack, lost) /\ Collected
  /\ current \in Readable \cup {NULL} /\ iter \in 0 .. MaxVma
  /\ result \in {None, Err} \/ Len(result) <= MaxVma
  /\ pc # "maple" => stack = <<>>
  /\ pc \in {"root", "maple", "head", "neither"} => current = NULL /\ iter = 0
  /\ pc \in {"root", "head", "neither"} => out = <<>>
  /\ pc = "mmap" => Len(out) <= iter

\* Over a tree of the kernel, while nothing was lost to a read, every VMA is collected or ahead.
TreeInv ==
  (pc = "maple" /\ ~Torn /\ ~lost /\ Len(mem.vmas) <= MaxVma) => Covered(stack, out, {})

\* The first n VMAs of the list.
Listed(n) == {v \in MappedVmas : \E i \in 1 .. n : v = mem.vmas[i]}
Areas(n) == {Area(v) : v \in Listed(n)}

\* The walk of the list has passed n VMAs, has collected o and is about to read cur.
Along(n, cur, o, lossy) ==
  /\ n <= Len(mem.vmas)
  /\ ToSet(o) = Areas(n) /\ InOrder(o)
  /\ cur # NULL => n < Len(mem.vmas) /\ cur = mem.vmas[n + 1]
  /\ lossy = FALSE /\ cur = NULL => n = Len(mem.vmas)

\* Over the kernel's list, the VMAs passed are collected.
ListInv == (pc = "mmap" /\ ~Torn) => Along(iter, current, out, lost)

Answers == WholeSpace /\ ViewContract /\ SortedAsRead

IInv == WalkInv /\ TreeInv /\ ListInv /\ Answers

\* A step of the maple walk that leaves the frames and the VMAs in order keeps the invariant.
LEMMA MapleGoesOn ==
  ASSUME IInv, pc' = "maple", UNCHANGED <<target, current, iter, result>>, current = NULL, iter = 0,
         lost' \in BOOLEAN, Frames(stack', lost'), Collected',
         ~Torn /\ ~lost' /\ Len(mem.vmas) <= MaxVma => Covered(stack', out', {})
  PROVE  IInv'
<1>1. world' = world /\ mem' = mem
  BY DEF target
<1>2. Frames(stack, lost)'
  BY <1>1 DEF Frames, FrameFits, Torn
<1>3. MemInv'
  BY <1>1 DEF IInv, WalkInv, MemInv
<1>4. WalkInv'
  BY <1>1, <1>2, <1>3 DEF IInv, WalkInv, Readable, Torn
<1>5. TreeInv'
  <2>1. Covered(stack', out', {}) => Covered(stack, out, {})'
    <3>1. mem' = mem /\ MappedVmas' = MappedVmas
      BY <1>1 DEF MappedVmas
    <3>. QED BY <3>1 DEF Covered
  <2>. QED BY <1>1, <2>1 DEF TreeInv, Torn
<1>6. ListInv' /\ Answers'
  BY DEF ListInv, Answers, WholeSpace, ViewContract, SortedAsRead, Returned
<1>. QED BY <1>4, <1>5, <1>6 DEF IInv

\* No frames.
LEMMA NoFrames ==
  ASSUME NEW lossy
  PROVE  Frames(<<>>, lossy) /\ Len(<<>>) = 0 /\ DOMAIN <<>> = {}
BY ConstAssumption DEF Frames

\* The root is walked.
LEMMA RootStep ==
  ASSUME IInv, MapleRoot
  PROVE  IInv'
<1>1. /\ pc = "root" /\ pc' = "maple" /\ UNCHANGED <<target, current, iter, result>>
      /\ current = NULL /\ iter = 0 /\ out = <<>>
  BY DEF IInv, WalkInv, MapleRoot
<1>2. MemInv /\ Collected /\ lost \in BOOLEAN /\ mem' = mem /\ world' = world
  BY <1>1 DEF IInv, WalkInv, target
<1>3. PICK root \in IF Torn THEN TornEntries ELSE {mem.root} :
        walk_maple_entry(root, 0, MaxIndex, 0, <<>>)
  BY DEF MapleRoot
<1>4. root \in Nat /\ (Torn \/ Fits(mem, root, 0, MaxIndex, MaxDepth + 1))
  BY <1>2, <1>3, MemTyped, ConstAssumption DEF KernelBuilt
<1>5. 0 \in 0 .. MaxIndex /\ MaxIndex \in 0 .. MaxIndex /\ MaxDepth + 1 \in Nat /\ MaxDepth \in Nat
  BY ConstAssumption
<1>6. Frames(<<>>, lost) /\ Len(<<>>) = 0
  BY NoFrames
<1>7. walk_maple_entry(root, 0, MaxIndex, Len(<<>>), <<>>) /\ (MaxDepth + 1) + Len(<<>>) <= MaxDepth + 1
  BY <1>3, <1>5, <1>6
<1>8. Frames(stack', lost') /\ Collected' /\ lost' \in BOOLEAN /\ (lost => lost')
  BY <1>2, <1>4, <1>5, <1>6, <1>7, EntryWalked
<1>9. ASSUME ~Torn, ~lost', Len(mem.vmas) <= MaxVma PROVE Covered(stack', out', {})
  <2>1. KernelBuilt(mem) /\ root = mem.root
    BY <1>2, <1>3, <1>9, MemTyped
  <2>2. Under(mem, root) = DOMAIN mem.vma
    BY <2>1 DEF KernelBuilt
  <2>3. Found(out) = {} /\ DOMAIN out = {}
    BY <1>1, NoFrames DEF Found
  <2>4. Covered(<<>>, out, Under(mem, root))
    BY <2>2, <2>3, NoFrames DEF Covered, MappedVmas
  <2>. QED BY <1>2, <1>4, <1>5, <1>6, <1>7, <1>9, <2>4, EntryCovered
<1>. QED BY <1>1, <1>8, <1>9, MapleGoesOn

\* A slot of a range64 or arange64 node is walked.
LEMMA RangeSlotStep ==
  ASSUME IInv, MapleRangeSlot
  PROVE  IInv'
<1>1. /\ pc = "maple" /\ pc' = "maple" /\ UNCHANGED <<target, current, iter, result>>
      /\ current = NULL /\ iter = 0 /\ stack # <<>>
  BY DEF IInv, WalkInv, MapleRangeSlot
<1>2. MemInv /\ Collected /\ lost \in BOOLEAN /\ mem' = mem /\ world' = world /\ Frames(stack, lost)
  BY <1>1 DEF IInv, WalkInv, target
<1>. DEFINE f == Last(stack)
<1>3. f.type # "dense" /\ f.index <= f.data_end
  BY DEF MapleRangeSlot
<1>4. PICK last \in IF f.index < Pivots(f.type) THEN ReadPivot(f.node, f.index) ELSE {f.max},
           slot \in ReadSlot(f.node, f.index) :
        walk_maple_entry(slot, f.current_min, last, Len(stack), Append(Front(stack), Advance(f, last)))
  BY DEF MapleRangeSlot
<1>. HIDE DEF f
<1>. DEFINE g == Advance(f, last)
            below == Append(Front(stack), g)
<1>5. /\ slot \in Nat /\ last \in 0 .. MaxIndex /\ f.current_min \in 0 .. MaxIndex
      /\ g \in FrameType /\ Frames(below, lost) /\ Len(below) = Len(stack)
      /\ \E level \in Nat :
           Torn \/ /\ Fits(mem, slot, f.current_min, last, level)
                   /\ level + Len(stack) <= MaxDepth + 1
      /\ ~Torn /\ ~lost => /\ Ahead(mem, f) = Under(mem, slot) \cup Ahead(mem, g)
                           /\ Under(mem, slot) \cap Ahead(mem, g) = {}
  BY <1>1, <1>2, <1>3, <1>4, RangeSlotRead DEF f
<1>6. walk_maple_entry(slot, f.current_min, last, Len(below), below)
  BY <1>4, <1>5
<1>. HIDE DEF g, below
<1>7. PICK level \in Nat :
        Torn \/ (Fits(mem, slot, f.current_min, last, level) /\ level + Len(below) <= MaxDepth + 1)
  BY <1>5
<1>8. Frames(stack', lost') /\ Collected' /\ lost' \in BOOLEAN /\ (lost => lost')
  BY <1>2, <1>5, <1>6, <1>7, EntryWalked
<1>9. ASSUME ~Torn, ~lost', Len(mem.vmas) <= MaxVma PROVE Covered(stack', out', {})
  <2>1. ~lost
    BY <1>8, <1>9
  <2>2. Covered(stack, out, {})
    BY <1>1, <1>9, <2>1 DEF IInv, TreeInv
  <2>3. Covered(below, out, Under(mem, slot))
    BY <1>1, <1>2, <1>5, <1>9, <2>1, <2>2, SlotTaken DEF Frames, f, below
  <2>. QED BY <1>2, <1>5, <1>6, <1>7, <1>9, <2>3, EntryCovered
<1>. QED BY <1>1, <1>8, <1>9, MapleGoesOn

\* A slot of a dense node is walked.
LEMMA DenseSlotStep ==
  ASSUME IInv, MapleDenseSlot
  PROVE  IInv'
<1>1. /\ pc = "maple" /\ pc' = "maple" /\ UNCHANGED <<target, current, iter, result>>
      /\ current = NULL /\ iter = 0 /\ stack # <<>>
  BY DEF IInv, WalkInv, MapleDenseSlot
<1>2. MemInv /\ Collected /\ lost \in BOOLEAN /\ mem' = mem /\ world' = world /\ Frames(stack, lost)
  BY <1>1 DEF IInv, WalkInv, target
<1>. DEFINE f == Last(stack)
            at == Min({f.current_min + f.index, MaxIndex})
            g == [f EXCEPT !.index = @ + 1]
            below == Append(Front(stack), g)
<1>3. f.type = "dense" /\ f.index <= f.data_end
  BY DEF MapleDenseSlot
<1>4. PICK slot \in ReadSlot(f.node, f.index) : walk_maple_entry(slot, at, at, Len(stack), below)
  BY DEF MapleDenseSlot
<1>5. /\ slot \in Nat /\ at \in 0 .. MaxIndex
      /\ g \in FrameType /\ Frames(below, lost) /\ Len(below) = Len(stack)
      /\ \E level \in Nat :
           Torn \/ /\ Fits(mem, slot, at, at, level)
                   /\ level + Len(stack) <= MaxDepth + 1
      /\ ~Torn /\ ~lost => /\ Ahead(mem, f) = Under(mem, slot) \cup Ahead(mem, g)
                           /\ Under(mem, slot) \cap Ahead(mem, g) = {}
  BY <1>1, <1>2, <1>3, <1>4, DenseSlotRead
<1>. HIDE DEF f, at, g, below
<1>6. walk_maple_entry(slot, at, at, Len(below), below)
  BY <1>4, <1>5
<1>7. PICK level \in Nat :
        Torn \/ (Fits(mem, slot, at, at, level) /\ level + Len(below) <= MaxDepth + 1)
  BY <1>5
<1>8. Frames(stack', lost') /\ Collected' /\ lost' \in BOOLEAN /\ (lost => lost')
  BY <1>2, <1>5, <1>6, <1>7, EntryWalked
<1>9. ASSUME ~Torn, ~lost', Len(mem.vmas) <= MaxVma PROVE Covered(stack', out', {})
  <2>1. ~lost
    BY <1>8, <1>9
  <2>2. Covered(stack, out, {})
    BY <1>1, <1>9, <2>1 DEF IInv, TreeInv
  <2>3. Covered(below, out, Under(mem, slot))
    BY <1>1, <1>2, <1>5, <1>9, <2>1, <2>2, SlotTaken DEF Frames, f, below
  <2>. QED BY <1>2, <1>5, <1>6, <1>7, <1>9, <2>3, EntryCovered
<1>. QED BY <1>1, <1>8, <1>9, MapleGoesOn

\* A node is done; sorting what was collected changes no VMA of it.
LEMMA ReturnStep ==
  ASSUME IInv, MapleReturn
  PROVE  IInv'
<1>1. /\ pc = "maple" /\ pc' = "maple" /\ UNCHANGED <<target, current, iter, lost, result>>
      /\ current = NULL /\ iter = 0 /\ stack # <<>> /\ stack' = Front(stack)
      /\ Last(stack).index > Last(stack).data_end
      /\ out' = out \/ out' \in SortVmas(out)
  BY DEF IInv, WalkInv, MapleReturn
<1>2. MemInv /\ Collected /\ lost \in BOOLEAN /\ mem' = mem /\ world' = world /\ Frames(stack, lost)
  BY <1>1 DEF IInv, WalkInv, target
<1>3. /\ stack \in Seq(FrameType) /\ Len(stack) <= MaxDepth + 1 /\ out \in Seq(Entries)
  BY <1>2 DEF Frames, Collected
<1>4. /\ stack' \in Seq(FrameType) /\ Len(stack') = Len(stack) - 1
      /\ DOMAIN stack' = DOMAIN stack \ {Len(stack)}
      /\ Len(stack) \in DOMAIN stack /\ Last(stack) = stack[Len(stack)]
      /\ \A i \in DOMAIN stack' : stack'[i] = stack[i]
  BY <1>1, <1>3, LastRemoved
<1>5. Frames(stack', lost')
  <2>1. Len(stack') <= MaxDepth + 1
    BY <1>3, <1>4, ConstAssumption
  <2>. QED BY <1>1, <1>2, <1>4, <2>1 DEF Frames
<1>6. /\ out' \in Seq(Entries) /\ Len(out') = Len(out) /\ ToSet(out') = ToSet(out)
      /\ Found(out') = Found(out)
      /\ (\A j, k \in DOMAIN out : out[j].vma = out[k].vma => j = k)
           => \A j, k \in DOMAIN out' : out'[j].vma = out'[k].vma => j = k
  BY <1>1, <1>3, SortedVmas
<1>7. Collected'
  <2>1. \A x \in ToSet(out) : /\ HasInfo(x) /\ x.vma \in Readable
                              /\ ~Torn => x = Area(x.vma)
    BY <1>2 DEF Collected, ToSet
  <2>2. \A k \in DOMAIN out' : out'[k] \in ToSet(out)
    BY <1>6 DEF ToSet
  <2>3. Len(out') <= MaxVma
    BY <1>2, <1>6 DEF Collected
  <2>. QED BY <1>2, <1>6, <2>1, <2>2, <2>3 DEF Collected, Readable, Torn, Area
<1>8. ASSUME ~Torn, ~lost', Len(mem.vmas) <= MaxVma PROVE Covered(stack', out', {})
  <2>1. Covered(stack, out, {})
    BY <1>1, <1>8 DEF IInv, TreeInv
  <2>2. Ahead(mem, stack[Len(stack)]) = {}
    <3>1. stack[Len(stack)] \in FrameType
      BY <1>3, <1>4
    <3>2. stack[Len(stack)].index .. stack[Len(stack)].data_end = {}
      BY <1>1, <1>4, <3>1 DEF FrameType
    <3>. QED BY <3>2 DEF Ahead
  <2>. QED BY <1>4, <1>6, <2>1, <2>2 DEF Covered
<1>. QED BY <1>1, <1>2, <1>5, <1>7, <1>8, MapleGoesOn

----------------------------------------------------------------------------
(* Walking the list *)

\* The kernel's list has every VMA once, in order.
LEMMA KernelList ==
  ASSUME MemInv, ~Torn
  PROVE  /\ mem.vmas \in Seq(Nat) /\ Len(mem.vmas) \in Nat /\ DOMAIN mem.vmas = 1 .. Len(mem.vmas)
         /\ \A k \in DOMAIN mem.vmas : mem.vmas[k] \in DOMAIN mem.vma /\ mem.vmas[k] # NULL
         /\ \A j, k \in DOMAIN mem.vmas : j < k => Before(Area(mem.vmas[j]), Area(mem.vmas[k]))
         /\ \A j, k \in DOMAIN mem.vmas : mem.vmas[j] = mem.vmas[k] => j = k
         /\ \A v \in DOMAIN mem.vma : \E k \in DOMAIN mem.vmas : v = mem.vmas[k]
<1>1. VmasTyped /\ KernelBuilt(mem)
  BY MemTyped
<1>2. /\ mem.vmas \in Seq(Nat) /\ Len(mem.vmas) \in Nat /\ DOMAIN mem.vmas = 1 .. Len(mem.vmas)
      /\ DOMAIN mem.vma = ToSet(mem.vmas)
  BY <1>1 DEF KernelBuilt
<1>3. \A k \in DOMAIN mem.vmas : mem.vmas[k] \in DOMAIN mem.vma /\ mem.vmas[k] # NULL
  BY <1>1, <1>2 DEF ToSet, VmasTyped
<1>4. \A j, k \in DOMAIN mem.vmas : j < k => Before(Area(mem.vmas[j]), Area(mem.vmas[k]))
  BY <1>1 DEF KernelBuilt, Area
<1>5. \A j, k \in DOMAIN mem.vmas : mem.vmas[j] = mem.vmas[k] => j = k
  <2>. SUFFICES ASSUME NEW j \in DOMAIN mem.vmas, NEW k \in DOMAIN mem.vmas, mem.vmas[j] = mem.vmas[k],
                       j < k
                PROVE  FALSE
    BY <1>2
  <2>. QED BY <1>3, <1>4, AreaTyped, BeforeIsOrder
<1>6. \A v \in DOMAIN mem.vma : \E k \in DOMAIN mem.vmas : v = mem.vmas[k]
  BY <1>2 DEF ToSet
<1>. QED BY <1>2, <1>3, <1>4, <1>5, <1>6

\* Links lead from each VMA to the next.
LEMMA KernelLinks ==
  ASSUME MemInv, ~Torn
  PROVE  /\ Links(NULL) = {IF Len(mem.vmas) = 0 THEN NULL ELSE mem.vmas[1]}
         /\ \A k \in DOMAIN mem.vmas :
              Links(mem.vmas[k]) = {IF k = Len(mem.vmas) THEN NULL ELSE mem.vmas[k + 1]}
<1>. DEFINE s == mem.vmas
<1>1. /\ s \in Seq(Nat) /\ Len(s) \in Nat /\ DOMAIN s = 1 .. Len(s)
      /\ \A k \in DOMAIN s : s[k] # NULL
      /\ \A j, k \in DOMAIN s : s[j] = s[k] => j = k
  BY KernelList
<1>2. NULL \in Nat
  BY DEF NULL
<1>. HIDE DEF s
<1>3. \A k \in 1 .. Len(s) + 1 : Append(s, NULL)[k] = IF k = Len(s) + 1 THEN NULL ELSE s[k]
  BY <1>1, <1>2
<1>4. Links(NULL) = {Append(s, NULL)[1]}
  <2>1. Head(Append(s, NULL)) = Append(s, NULL)[1]
    BY <1>1, <1>2
  <2>. QED BY <2>1 DEF Links, s
<1>5. ASSUME NEW k \in DOMAIN s
      PROVE  Links(s[k]) = {Append(s, NULL)[k + 1]}
  <2>1. (CHOOSE j \in DOMAIN s : s[j] = s[k]) = k
    BY <1>1
  <2>. QED BY <1>1, <2>1 DEF Links, s
<1>6. Links(NULL) = {IF Len(s) = 0 THEN NULL ELSE s[1]}
  BY <1>1, <1>3, <1>4
<1>7. \A k \in DOMAIN s : Links(s[k]) = {IF k = Len(s) THEN NULL ELSE s[k + 1]}
  BY <1>1, <1>3, <1>5
<1>. QED BY <1>6, <1>7 DEF s

\* What the walk of the list has collected is a first part of the VMAs, in order.
LEMMA ListAnswer ==
  ASSUME MemInv, ~Torn, NEW n \in Nat, NEW cur, NEW o, NEW lossy, Along(n, cur, o, lossy)
  PROVE  /\ ToSet(o) \subseteq Mapped /\ InOrder(o)
         /\ \A v \in ToSet(o), w \in Mapped : Before(w, v) => w \in ToSet(o)
         /\ n = Len(mem.vmas) => ToSet(o) = Mapped
<1>. DEFINE s == mem.vmas
<1>1. /\ s \in Seq(Nat) /\ Len(s) \in Nat /\ DOMAIN s = 1 .. Len(s)
      /\ \A k \in DOMAIN s : s[k] \in DOMAIN mem.vma
      /\ \A j, k \in DOMAIN s : j < k => Before(Area(s[j]), Area(s[k]))
      /\ \A v \in DOMAIN mem.vma : \E k \in DOMAIN s : v = s[k]
  BY KernelList
<1>2. /\ n <= Len(s) /\ ToSet(o) = Areas(n) /\ InOrder(o)
  BY DEF Along
<1>3. Mapped = {Area(v) : v \in MappedVmas}
  BY DEF Mapped, MappedVmas, Area
<1>4. ToSet(o) \subseteq Mapped
  BY <1>2, <1>3 DEF Areas, Listed
<1>5. ASSUME NEW x \in ToSet(o), NEW y \in Mapped, Before(y, x) PROVE y \in ToSet(o)
  <2>1. PICK v \in MappedVmas : x = Area(v) /\ \E i \in 1 .. n : v = s[i]
    BY <1>2 DEF Areas, Listed
  <2>2. PICK i \in 1 .. n : v = s[i]
    BY <2>1
  <2>3. PICK w \in MappedVmas : y = Area(w)
    BY <1>3
  <2>4. w \in DOMAIN mem.vma /\ v \in DOMAIN mem.vma
    BY DEF MappedVmas
  <2>5. PICK k \in DOMAIN s : w = s[k]
    BY <1>1, <2>4
  <2>6. i \in DOMAIN s
    BY <1>1, <1>2
  <2>7. ~(i < k)
    <3>1. x \in Entries /\ y \in Entries
      BY <2>1, <2>3, <2>4, AreaTyped
    <3>2. ~Before(x, y)
      BY <1>5, <3>1, BeforeIsOrder
    <3>. QED BY <1>1, <2>1, <2>2, <2>3, <2>5, <2>6, <3>2
  <2>8. k \in 1 .. n
    BY <1>1, <2>2, <2>5, <2>7
  <2>9. w \in Listed(n)
    BY <2>5, <2>8 DEF Listed
  <2>. QED BY <1>2, <2>3, <2>9 DEF Areas
<1>6. n = Len(s) => ToSet(o) = Mapped
  <2>1. n = Len(s) => Listed(n) = MappedVmas
    BY <1>1 DEF Listed, MappedVmas
  <2>. QED BY <1>2, <1>3, <2>1 DEF Areas
<1>. QED BY <1>2, <1>4, <1>5, <1>6

\* A place that is not the last is followed by another.
LEMMA NextPlace ==
  ASSUME NEW n \in Nat, NEW len \in Nat, n + 1 <= len, n + 1 # len
  PROVE  n + 1 < len /\ n + 1 + 1 = n + 2 /\ n + 2 \in 1 .. len /\ n + 2 # n + 1
OBVIOUS

\* The walk of the list passes one VMA.
LEMMA ListPasses ==
  ASSUME MemInv, ~Torn, NEW n \in Nat, NEW o \in Seq(Entries), NEW cur, cur # NULL,
         NEW lossy, Along(n, cur, o, lossy),
         NEW p, p = IF HasInfo(mem.vma[cur]) THEN Append(o, Area(cur)) ELSE o,
         NEW link \in Links(cur) \cup {NULL}, NEW lossier,
         lossier = FALSE => lossy = FALSE /\ link \in Links(cur)
  PROVE  Along(n + 1, link, p, lossier) /\ link # cur
<1>. DEFINE s == mem.vmas
<1>1. /\ s \in Seq(Nat) /\ Len(s) \in Nat /\ DOMAIN s = 1 .. Len(s)
      /\ \A k \in DOMAIN s : s[k] \in DOMAIN mem.vma /\ s[k] # NULL
      /\ \A j, k \in DOMAIN s : j < k => Before(Area(s[j]), Area(s[k]))
      /\ \A j, k \in DOMAIN s : s[j] = s[k] => j = k
  BY KernelList
<1>2. /\ n < Len(s) /\ cur = s[n + 1] /\ InOrder(o)
      /\ ToSet(o) = Areas(n)
  BY DEF Along
<1>3. n + 1 \in DOMAIN s /\ cur \in DOMAIN mem.vma /\ Area(cur) \in Entries
  <2>1. n + 1 \in DOMAIN s
    <3>1. Len(s) \in Nat /\ DOMAIN s = 1 .. Len(s) /\ n < Len(s)
      BY <1>1, <1>2, Zenon
    <3>. HIDE DEF s
    <3>. QED BY <3>1
  <2>2. cur \in DOMAIN mem.vma
    BY <1>1, <1>2, <2>1, Zenon
  <2>. QED BY <2>1, <2>2, AreaTyped
<1>4. Links(cur) = {IF n + 1 = Len(s) THEN NULL ELSE s[n + 2]}
  <2>1. Links(s[n + 1]) = {IF n + 1 = Len(s) THEN NULL ELSE s[n + 1 + 1]}
    BY <1>3, KernelLinks
  <2>2. n + 1 + 1 = n + 2
    OBVIOUS
  <2>. QED BY <1>2, <2>1, <2>2
<1>5. Listed(n + 1) = Listed(n) \cup (MappedVmas \cap {cur})
  <2>1. \A i \in Int : i \in 1 .. n + 1 <=> (i \in 1 .. n \/ i = n + 1)
    OBVIOUS
  <2>. QED BY <1>2, <1>3, <2>1 DEF Listed
<1>6. ASSUME NEW x \in ToSet(o) PROVE Before(x, Area(cur))
  <2>1. PICK i \in 1 .. n : x = Area(s[i])
    BY <1>2 DEF Areas, Listed
  <2>2. i \in DOMAIN s /\ i < n + 1
    BY <1>1, <1>2
  <2>. QED BY <1>1, <1>2, <1>3, <2>1, <2>2
<1>7. ToSet(p) = Areas(n + 1) /\ InOrder(p)
  <2>1. CASE ~HasInfo(mem.vma[cur])
    <3>1. Listed(n + 1) = Listed(n)
      BY <1>5, <2>1 DEF MappedVmas
    <3>. QED BY <1>2, <2>1, <3>1 DEF Areas
  <2>2. CASE HasInfo(mem.vma[cur])
    <3>1. /\ p = Append(o, Area(cur)) /\ Len(o) \in Nat /\ DOMAIN o = 1 .. Len(o)
          /\ DOMAIN p = 1 .. Len(o) + 1 /\ p[Len(o) + 1] = Area(cur)
          /\ \A k \in DOMAIN o : p[k] = o[k]
      BY <1>3, <2>2
    <3>2. \A k \in DOMAIN p : k = Len(o) + 1 \/ k \in DOMAIN o
      BY <3>1
    <3>3. ToSet(p) = ToSet(o) \cup {Area(cur)}
      BY <3>1, <3>2 DEF ToSet
    <3>4. Areas(n + 1) = Areas(n) \cup {Area(cur)}
      <4>1. Listed(n + 1) = Listed(n) \cup {cur}
        BY <1>3, <1>5, <2>2 DEF MappedVmas
      <4>. QED BY <4>1 DEF Areas
    <3>5. \A j, k \in DOMAIN p : j < k => j \in DOMAIN o
      BY <3>1
    <3>6. InOrder(p)
      <4>. SUFFICES ASSUME NEW j \in DOMAIN p, NEW k \in DOMAIN p, j < k
                    PROVE  Before(p[j], p[k])
        BY DEF InOrder
      <4>1. j \in DOMAIN o /\ p[j] = o[j] /\ o[j] \in ToSet(o)
        BY <3>1, <3>5 DEF ToSet
      <4>2. CASE k \in DOMAIN o
        BY <1>2, <3>1, <4>1, <4>2 DEF InOrder
      <4>3. CASE k = Len(o) + 1
        BY <1>6, <3>1, <4>1, <4>3
      <4>. QED BY <3>2, <4>2, <4>3
    <3>. QED BY <1>2, <3>3, <3>4, <3>6
  <2>. QED BY <2>1, <2>2
<1>8. n + 1 <= Len(s)
  BY <1>1, <1>2
<1>9. ASSUME link # NULL
      PROVE  n + 1 < Len(s) /\ link = s[n + 1 + 1] /\ link # s[n + 1]
  <2>1. n + 1 # Len(s) /\ link = s[n + 2]
    BY <1>4, <1>9
  <2>2. n + 1 < Len(s) /\ n + 1 + 1 = n + 2 /\ n + 2 \in DOMAIN s /\ n + 2 # n + 1
    <3>1. Len(s) \in Nat /\ DOMAIN s = 1 .. Len(s) /\ n + 1 <= Len(s) /\ n + 1 # Len(s)
      BY <1>1, <1>8, <2>1, Zenon
    <3>2. /\ n + 1 < Len(s) /\ n + 1 + 1 = n + 2 /\ n + 2 \in 1 .. Len(s)
          /\ n + 2 # n + 1
      BY <3>1, NextPlace, Zenon
    <3>. QED BY <3>1, <3>2, Zenon
  <2>. QED BY <1>1, <1>3, <2>1, <2>2
<1>10. ASSUME link = NULL, link \in Links(cur) PROVE n + 1 = Len(s)
  <2>1. n + 1 # Len(s) => n + 2 \in DOMAIN s
    BY <1>1, <1>8
  <2>. QED BY <1>1, <1>4, <1>10, <2>1
<1>11. link # cur
  BY <1>2, <1>9
<1>. QED BY <1>7, <1>8, <1>9, <1>10, <1>11 DEF Along

----------------------------------------------------------------------------
(* Answers *)

\* An empty answer is in order.
LEMMA NothingInOrder ==
  /\ InOrder(<<>>) /\ Apart(<<>>) /\ ToSet(<<>>) = {} /\ Found(<<>>) = {}
  /\ Len(<<>>) = 0 /\ <<>> \in Seq(Entries)
BY NoFrames DEF InOrder, Apart, ToSet, Found

\* A step that returns keeps the invariant if what it returns is right.
LEMMA WalkReturns ==
  ASSUME IInv, pc' = "done", UNCHANGED target, stack' = <<>>, lost' \in BOOLEAN, Collected',
         current' \in Readable \cup {NULL}, iter' \in 0 .. MaxVma,
         result' = Err \/ Len(result') <= MaxVma,
         (result' # Err /\ current' = NULL /\ ~(iter' > 0)) =>
           /\ InOrder(result') /\ Apart(result')
           /\ ToSet(result') \subseteq ToSet(out') /\ Found(result') = Found(out'),
         (result' # Err /\ ~Torn) =>
           /\ ToSet(result') \subseteq Mapped /\ InOrder(result')
           /\ (current' # NULL \/ iter' > 0) =>
                \A v \in ToSet(result'), w \in Mapped : Before(w, v) => w \in ToSet(result')
           /\ (~lost' /\ result' # <<>> /\ Len(mem.vmas) <= MaxVma) => ToSet(result') = Mapped
  PROVE  IInv'
<1>1. world' = world /\ mem' = mem
  BY DEF target
<1>2. MemInv'
  BY <1>1 DEF IInv, WalkInv, MemInv
<1>3. Frames(stack, lost)'
  <2>1. DOMAIN stack' = {} /\ Len(stack') = 0 /\ stack' \in Seq(FrameType)
    BY NoFrames DEF Frames
  <2>. QED BY <2>1, ConstAssumption DEF Frames
<1>4. WalkInv'
  BY <1>1, <1>2, <1>3 DEF WalkInv, Readable, Torn
<1>5. TreeInv' /\ ListInv'
  BY DEF TreeInv, ListInv
<1>6. Mapped' = Mapped
  BY <1>1 DEF Mapped
<1>7. InOrder(result)' <=> InOrder(result')
  BY DEF InOrder
<1>8. world' = "stable" => ~Torn
  BY <1>1 DEF Torn
<1>9. WholeSpace'
  BY <1>1, <1>6, <1>7, <1>8 DEF WholeSpace, Returned
<1>10. ViewContract'
  BY <1>1, <1>6, <1>7, <1>8 DEF ViewContract, Returned, FromList
<1>11. SortedAsRead'
  BY <1>7 DEF SortedAsRead, FromList, Apart, Found
<1>. QED BY <1>4, <1>5, <1>9, <1>10, <1>11 DEF IInv, Answers

\* Giving up the maple tree keeps the invariant.
LEMMA TriedList ==
  ASSUME IInv, pc \in {"root", "maple"}, TryList, UNCHANGED <<target, current, iter>>
  PROVE  IInv'
<1>1. /\ MemInv /\ lost \in BOOLEAN /\ current = NULL /\ iter = 0
      /\ result \in {None, Err} \/ Len(result) <= MaxVma
  BY DEF IInv, WalkInv
<1>2. /\ world' = world /\ mem' = mem /\ current' = NULL /\ iter' = 0
      /\ stack' = <<>> /\ out' = <<>>
  BY <1>1 DEF target, TryList
<1>3. 0 \in 0 .. MaxVma /\ 0 <= MaxVma /\ NULL \in DOMAIN mem.vma \cup {NULL}
  BY ConstAssumption
<1>4. Collected'
  BY <1>2, <1>3, NoFrames, NothingInOrder DEF Collected
<1>5. CASE pc' = "done" /\ result' = <<>> /\ lost' = lost
  BY <1>1, <1>2, <1>3, <1>4, <1>5, NothingInOrder, WalkReturns
<1>6. CASE pc' = "head" /\ lost' = FALSE /\ result' = result
  <2>1. MemInv'
    BY <1>1, <1>2 DEF MemInv
  <2>2. Frames(stack, lost)'
    <3>1. DOMAIN stack' = {} /\ Len(stack') = 0 /\ stack' \in Seq(FrameType)
      BY <1>2, NoFrames DEF Frames
    <3>. QED BY <3>1, ConstAssumption DEF Frames
  <2>3. WalkInv'
    BY <1>1, <1>2, <1>3, <1>4, <1>6, <2>1, <2>2 DEF WalkInv, Readable, Torn
  <2>. QED BY <1>6, <2>3
       DEF IInv, TreeInv, ListInv, Answers, WholeSpace, ViewContract, SortedAsRead, Returned
<1>. QED BY <1>5, <1>6 DEF TryList

\* The tree is done.
LEMMA MapleDoneStep ==
  ASSUME IInv, MapleDone
  PROVE  IInv'
<1>1. pc = "maple" /\ stack = <<>> /\ UNCHANGED <<target, current, iter>>
  BY DEF MapleDone
<1>2. CASE out = <<>>
  BY <1>1, <1>2, TriedList DEF MapleDone
<1>3. CASE out # <<>>
  <2>1. pc' = "done" /\ result' \in Tidy(out) /\ UNCHANGED <<stack, out, lost>>
    BY <1>3 DEF MapleDone
  <2>2. /\ MemInv /\ lost \in BOOLEAN /\ current = NULL /\ iter = 0 /\ Collected
    BY <1>1 DEF IInv, WalkInv
  <2>3. /\ out \in Seq(Entries) /\ Len(out) <= MaxVma
        /\ \A x \in ToSet(out) : /\ HasInfo(x) /\ x.vma \in Readable
                                 /\ ~Torn => x = Area(x.vma)
    BY <2>2 DEF Collected, ToSet
  <2>4. /\ result' \in Seq(Entries) /\ Len(result') <= Len(out)
        /\ ToSet(result') \subseteq ToSet(out) /\ Found(result') = Found(out)
        /\ InOrder(result') /\ Apart(result')
    BY <2>1, <2>3, TidyVmas
  <2>5. Len(result') <= MaxVma
    BY <2>3, <2>4, ConstAssumption
  <2>6. Collected'
    BY <1>1, <2>1, <2>2, CollectedKept DEF target
  <2>7. ASSUME ~Torn PROVE ToSet(result') \subseteq Mapped
    <3>. SUFFICES ASSUME NEW x \in ToSet(out) PROVE x \in Mapped
      BY <2>4
    <3>1. HasInfo(x) /\ x.vma \in DOMAIN mem.vma /\ x = Area(x.vma)
      BY <2>3, <2>7, Zenon DEF Readable
    <3>2. x.vma \in MappedVmas
      BY <2>2, <2>7, <3>1, AreaTyped DEF MappedVmas
    <3>. QED BY <3>1, <3>2 DEF Mapped, MappedVmas, Area
  <2>8. ASSUME ~Torn, ~lost', Len(mem.vmas) <= MaxVma PROVE ToSet(result') = Mapped
    <3>1. Covered(stack, out, {})
      BY <1>1, <2>1, <2>8 DEF IInv, TreeInv
    <3>2. MappedVmas \subseteq Found(result')
      BY <1>1, <2>4, <3>1, NoFrames DEF Covered
    <3>. SUFFICES ASSUME NEW x \in Mapped PROVE x \in ToSet(result')
      BY <2>7, <2>8
    <3>3. PICK v \in MappedVmas : x = Area(v)
      BY DEF Mapped, MappedVmas, Area
    <3>4. PICK k \in DOMAIN result' : result'[k].vma = v
      BY <3>2 DEF Found
    <3>5. result'[k] \in ToSet(result') /\ result'[k] \in ToSet(out)
      BY <2>4 DEF ToSet
    <3>6. result'[k] = Area(v)
      BY <2>3, <2>8, <3>4, <3>5, Zenon
    <3>. QED BY <3>3, <3>5, <3>6
  <2>9. /\ lost' \in BOOLEAN /\ current' = NULL /\ iter' = 0 /\ stack' = <<>> /\ UNCHANGED target
        /\ ~(iter' > 0)
    BY <1>1, <2>1, <2>2
  <2>10. 0 \in 0 .. MaxVma
    BY ConstAssumption
  <2>. QED BY <2>1, <2>4, <2>5, <2>6, <2>7, <2>8, <2>9, <2>10, WalkReturns
<1>. QED BY <1>2, <1>3

\* The head of the list is read.
LEMMA HeadStep ==
  ASSUME IInv, MmapHead
  PROVE  IInv'
<1>1. /\ pc = "head" /\ pc' = "mmap" /\ UNCHANGED <<target, stack, out, iter, result>>
  BY DEF MmapHead
<1>2. PICK link \in Links(NULL) \cup {NULL} :
        current' = link /\ lost' = (lost \/ link \notin Links(NULL))
  BY DEF MmapHead, FollowLink
<1>3. /\ MemInv /\ lost \in BOOLEAN /\ Collected /\ iter = 0 /\ out = <<>> /\ stack = <<>>
      /\ result \in {None, Err} \/ Len(result) <= MaxVma
  BY <1>1 DEF IInv, WalkInv
<1>4. world' = world /\ mem' = mem
  BY <1>1 DEF target
<1>5. ASSUME ~Torn
      PROVE  Along(0, link, out, lost') /\ link \in Readable \cup {NULL}
  <2>1. Links(NULL) = {IF Len(mem.vmas) = 0 THEN NULL ELSE mem.vmas[1]}
    BY <1>3, <1>5, KernelLinks
  <2>2. /\ Len(mem.vmas) \in Nat /\ DOMAIN mem.vmas = 1 .. Len(mem.vmas)
        /\ \A k \in DOMAIN mem.vmas : mem.vmas[k] \in DOMAIN mem.vma /\ mem.vmas[k] # NULL
    BY <1>3, <1>5, KernelList
  <2>3. ToSet(out) = Areas(0) /\ InOrder(out)
    BY <1>3, NothingInOrder DEF Areas, Listed
  <2>4. Len(mem.vmas) # 0 => 1 \in DOMAIN mem.vmas /\ 0 < Len(mem.vmas)
    BY <2>2
  <2>5. link # NULL => 0 < Len(mem.vmas) /\ link = mem.vmas[0 + 1] /\ link \in DOMAIN mem.vma
    BY <2>1, <2>2, <2>4
  <2>6. lost' = FALSE /\ link = NULL => 0 = Len(mem.vmas)
    BY <1>2, <2>1, <2>2, <2>4
  <2>. QED BY <1>5, <2>2, <2>3, <2>5, <2>6 DEF Along, Readable
<1>6. link \in Readable \cup {NULL}
  BY <1>5 DEF Links, Readable
<1>7. MemInv' /\ Collected'
  BY <1>1, <1>3, <1>4, CollectedKept DEF MemInv
<1>8. Frames(stack, lost)'
  <2>1. DOMAIN stack' = {} /\ Len(stack') = 0 /\ stack' \in Seq(FrameType)
    BY <1>1, <1>3, NoFrames DEF Frames
  <2>. QED BY <2>1, ConstAssumption DEF Frames
<1>9. Len(out') <= iter' /\ iter' \in 0 .. MaxVma
  BY <1>1, <1>3, NoFrames, ConstAssumption
<1>10. WalkInv'
  BY <1>1, <1>2, <1>3, <1>4, <1>6, <1>7, <1>8, <1>9 DEF WalkInv, Readable, Torn
<1>11. ListInv'
  <2>1. ASSUME ~Torn PROVE Along(iter', current', out', lost')
    BY <1>1, <1>2, <1>3, <1>5, <2>1
  <2>2. Along(iter', current', out', lost') => Along(iter, current, out, lost)'
    BY <1>4 DEF Along, Areas, Area, Listed, MappedVmas, InOrder
  <2>. QED BY <1>4, <2>1, <2>2 DEF ListInv, Torn
<1>. QED BY <1>1, <1>10, <1>11
     DEF IInv, TreeInv, Answers, WholeSpace, ViewContract, SortedAsRead, Returned

\* A VMA of the list is read.
LEMMA VmaStep ==
  ASSUME IInv, MmapVma
  PROVE  IInv'
<1>1. /\ pc = "mmap" /\ current # NULL /\ iter < MaxVma /\ UNCHANGED <<target, stack>>
      /\ iter' = iter + 1 /\ \E b \in ReadVma(current) : out' = Collect(current, b)
      /\ IF current' \in {NULL, current} THEN pc' = "done" /\ result' = out'
         ELSE UNCHANGED <<pc, result>>
  BY DEF MmapVma, Counted
<1>2. PICK link \in Links(current) \cup {NULL} :
        current' = link /\ lost' = (lost \/ link \notin Links(current))
  BY DEF MmapVma, FollowLink
<1>3. /\ MemInv /\ lost \in BOOLEAN /\ Collected /\ stack = <<>> /\ iter \in 0 .. MaxVma
      /\ Len(out) <= iter /\ current \in Readable
      /\ result \in {None, Err} \/ Len(result) <= MaxVma
  BY <1>1 DEF IInv, WalkInv
<1>4. world' = world /\ mem' = mem
  BY <1>1 DEF target
<1>5. out \in Seq(Entries) /\ Len(out) \in Nat
  BY <1>3 DEF Collected
<1>6. iter \in Nat /\ iter' \in 0 .. MaxVma /\ iter' > 0 /\ MaxVma \in Nat
  BY <1>1, <1>3, ConstAssumption
<1>7. Collected' /\ Len(out') <= Len(out) + 1
  <2>1. Len(out) < MaxVma
    BY <1>1, <1>3, <1>5, <1>6
  <2>. QED BY <1>1, <1>3, <1>4, <2>1, VmaCollected
<1>8. /\ out' \in Seq(Entries) /\ Len(out') \in Nat /\ Len(out') <= MaxVma
      /\ Len(out') <= iter'
  <2>1. out' \in Seq(Entries) /\ Len(out') \in Nat /\ Len(out') <= MaxVma
    BY <1>7 DEF Collected
  <2>. QED BY <1>1, <1>3, <1>5, <1>6, <1>7, <2>1
<1>9. ASSUME ~Torn PROVE Along(iter', current', out', lost') /\ current' # current
  <2>1. Along(iter, current, out, lost)
    BY <1>1, <1>9 DEF IInv, ListInv
  <2>2. out' = IF HasInfo(mem.vma[current]) THEN Append(out, Area(current)) ELSE out
    BY <1>1, <1>9 DEF ReadVma, Collect, Area
  <2>3. MemInv /\ iter \in Nat /\ out \in Seq(Entries) /\ current # NULL
    BY <1>1, <1>3, <1>5, <1>6
  <2>4. lost' = FALSE => lost = FALSE /\ link \in Links(current)
    BY <1>2, <1>3
  <2>5. Along(iter + 1, link, out', lost')
    BY <1>9, <2>1, <2>2, <2>3, <2>4, ListPasses
  <2>6. link # current
    <3>. SUFFICES ASSUME link # NULL, link = current PROVE FALSE
      BY <2>3
    <3>1. /\ iter + 1 < Len(mem.vmas) /\ link = mem.vmas[(iter + 1) + 1]
          /\ iter < Len(mem.vmas) /\ current = mem.vmas[iter + 1]
      BY <2>1, <2>3, <2>5 DEF Along
    <3>2. /\ \A j, k \in DOMAIN mem.vmas : mem.vmas[j] = mem.vmas[k] => j = k
          /\ Len(mem.vmas) \in Nat /\ DOMAIN mem.vmas = 1 .. Len(mem.vmas)
      BY <1>9, <2>3, KernelList
    <3>3. iter + 1 \in DOMAIN mem.vmas /\ (iter + 1) + 1 \in DOMAIN mem.vmas
      BY <2>3, <3>1, <3>2
    <3>4. iter + 1 = (iter + 1) + 1
      BY <3>1, <3>2, <3>3
    <3>. QED BY <2>3, <3>4
  <2>. QED BY <1>1, <1>2, <2>5, <2>6
<1>10. current' \in Readable \cup {NULL}
  <2>1. CASE Torn
    BY <1>2, <2>1 DEF Links, Readable
  <2>2. CASE ~Torn
    <3>1. /\ current' # NULL => iter' < Len(mem.vmas) /\ current' = mem.vmas[iter' + 1]
      BY <1>9, <2>2 DEF Along
    <3>2. /\ Len(mem.vmas) \in Nat /\ DOMAIN mem.vmas = 1 .. Len(mem.vmas)
          /\ \A k \in DOMAIN mem.vmas : mem.vmas[k] \in DOMAIN mem.vma
      BY <1>3, <2>2, KernelList
    <3>3. iter' < Len(mem.vmas) => iter' + 1 \in DOMAIN mem.vmas
      BY <1>1, <1>6, <3>2
    <3>. QED BY <2>2, <3>1, <3>2, <3>3 DEF Readable
  <2>. QED BY <2>1, <2>2
<1>11. CASE current' \notin {NULL, current}
  <2>1. pc' = "mmap" /\ result' = result
    BY <1>1, <1>11
  <2>2. MemInv'
    BY <1>3, <1>4 DEF MemInv
  <2>3. Frames(stack, lost)'
    <3>1. DOMAIN stack' = {} /\ Len(stack') = 0 /\ stack' \in Seq(FrameType)
      BY <1>1, <1>3, NoFrames DEF Frames
    <3>. QED BY <3>1, ConstAssumption DEF Frames
  <2>4. WalkInv'
    BY <1>1, <1>2, <1>3, <1>4, <1>6, <1>7, <1>8, <1>10, <2>1, <2>2, <2>3 DEF WalkInv, Readable, Torn
  <2>5. Along(iter', current', out', lost') => Along(iter, current, out, lost)'
    BY <1>4 DEF Along, Areas, Area, Listed, MappedVmas, InOrder
  <2>6. ListInv'
    BY <1>4, <1>9, <2>5 DEF ListInv, Torn
  <2>. QED BY <2>1, <2>4, <2>6
       DEF IInv, TreeInv, Answers, WholeSpace, ViewContract, SortedAsRead, Returned
<1>12. CASE current' \in {NULL, current}
  <2>1. pc' = "done" /\ result' = out'
    BY <1>1, <1>12
  <2>2. ASSUME ~Torn
        PROVE  /\ ToSet(out') \subseteq Mapped /\ InOrder(out')
               /\ \A v \in ToSet(out'), w \in Mapped : Before(w, v) => w \in ToSet(out')
               /\ ~lost' => ToSet(out') = Mapped
    <3>1. Along(iter', current', out', lost') /\ current' = NULL
      BY <1>9, <1>12, <2>2
    <3>2. iter' \in Nat
      BY <1>1, <1>6
    <3>3. ~lost' => iter' = Len(mem.vmas)
      BY <3>1 DEF Along
    <3>. QED BY <1>3, <2>2, <3>1, <3>2, <3>3, ListAnswer
  <2>3. lost' \in BOOLEAN /\ stack' = <<>> /\ UNCHANGED target
    BY <1>1, <1>2, <1>3
  <2>. QED BY <1>6, <1>7, <1>8, <1>10, <2>1, <2>2, <2>3, WalkReturns
<1>. QED BY <1>11, <1>12

\* The other ends of the walk.
LEMMA EndStep ==
  ASSUME IInv, MmapDone \/ MmapFails \/ NoWalk
  PROVE  IInv'
<1>1. /\ pc \in {"mmap", "neither"} /\ pc' = "done"
      /\ UNCHANGED <<target, stack, out, current, iter, lost>>
  BY DEF MmapDone, MmapFails, NoWalk
<1>2. /\ MemInv /\ lost \in BOOLEAN /\ Collected /\ stack = <<>> /\ iter \in 0 .. MaxVma
      /\ current \in Readable \cup {NULL}
  BY <1>1 DEF IInv, WalkInv
<1>3. Collected'
  BY <1>1, <1>2, CollectedKept DEF target
<1>4. iter \in Nat /\ MaxVma \in Nat
  BY <1>2, ConstAssumption
<1>5. CASE NoWalk
  <2>1. result' = <<>> /\ Len(result') <= MaxVma /\ out' = <<>>
    BY <1>1, <1>4, <1>5, NothingInOrder DEF NoWalk, IInv, WalkInv
  <2>. QED BY <1>1, <1>2, <1>3, <2>1, NothingInOrder, WalkReturns
<1>6. CASE MmapFails
  <2>1. result' = Err
    BY <1>6 DEF MmapFails
  <2>. QED BY <1>1, <1>2, <1>3, <2>1, WalkReturns
<1>7. CASE MmapDone
  <2>1. pc = "mmap" /\ (current = NULL \/ iter = MaxVma) /\ result' = out
    BY <1>7 DEF MmapDone
  <2>2. /\ out \in Seq(Entries) /\ Len(out) \in Nat /\ Len(out) <= iter
        /\ Len(out) <= MaxVma
    BY <1>2, <2>1 DEF IInv, WalkInv, Collected
  <2>3. ~(iter > 0) => InOrder(out) /\ Apart(out)
    <3>1. ~(iter > 0) => Len(out) = 0
      BY <1>4, <2>2
    <3>2. Len(out) = 0 => out = <<>>
      BY <2>2
    <3>. QED BY <3>1, <3>2, NothingInOrder
  <2>4. ASSUME ~Torn
        PROVE  /\ ToSet(out) \subseteq Mapped /\ InOrder(out)
               /\ \A v \in ToSet(out), w \in Mapped : Before(w, v) => w \in ToSet(out)
               /\ ~lost /\ Len(mem.vmas) <= MaxVma => ToSet(out) = Mapped
    <3>1. Along(iter, current, out, lost)
      BY <2>1, <2>4 DEF IInv, ListInv
    <3>2. Len(mem.vmas) \in Nat
      BY <1>2, <2>4, KernelList
    <3>3. ~lost /\ Len(mem.vmas) <= MaxVma => iter = Len(mem.vmas)
      BY <1>4, <2>1, <3>1, <3>2 DEF Along
    <3>. QED BY <1>2, <1>4, <2>4, <3>1, <3>3, ListAnswer
  <2>. QED BY <1>1, <1>2, <1>3, <2>1, <2>2, <2>3, <2>4, WalkReturns
<1>. QED BY <1>5, <1>6, <1>7

----------------------------------------------------------------------------
(* Theorems *)

\* The invariant holds when collect_vmas is called.
LEMMA InitInv ==
  ASSUME Init
  PROVE  IInv
<1>1. /\ MemInv /\ stack = <<>> /\ out = <<>> /\ current = NULL /\ iter = 0 /\ lost = FALSE
      /\ result = None /\ pc \in {"root", "head", "neither"}
  BY DEF Init, MemInv, FirstWalk
<1>2. Frames(stack, lost)
  BY <1>1, NoFrames
<1>3. Collected
  BY <1>1, NoFrames, NothingInOrder, ConstAssumption DEF Collected
<1>4. 0 \in 0 .. MaxVma
  BY ConstAssumption
<1>5. WalkInv
  BY <1>1, <1>2, <1>3, <1>4 DEF WalkInv
<1>. QED BY <1>1, <1>5
     DEF IInv, TreeInv, ListInv, Answers, WholeSpace, ViewContract, SortedAsRead, Returned

\* Every step keeps the invariant.
LEMMA StepInv ==
  ASSUME IInv, [Next]_vars
  PROVE  IInv'
<1>1. CASE UNCHANGED vars
  <2>1. WalkInv'
    <3>1. Collected' /\ MemInv' /\ Readable' = Readable
      BY <1>1, CollectedKept DEF vars, IInv, WalkInv, MemInv, Readable, Torn
    <3>. QED BY <1>1, <3>1 DEF vars, IInv, WalkInv, Frames, FrameFits, Torn
  <2>2. TreeInv'
    BY <1>1 DEF vars, IInv, TreeInv, Covered, Found, MappedVmas, Torn
  <2>3. ListInv'
    BY <1>1 DEF vars, IInv, ListInv, Along, Areas, Area, Listed, MappedVmas, InOrder, Torn
  <2>4. WholeSpace' /\ ViewContract'
    <3>1. Mapped' = Mapped
      BY <1>1 DEF vars, Mapped
    <3>2. WholeSpace /\ ViewContract
      BY DEF IInv, Answers
    <3>3. WholeSpace'
      BY <1>1, <3>1, <3>2 DEF vars, WholeSpace, Returned, InOrder
    <3>4. ViewContract'
      BY <1>1, <3>1, <3>2 DEF vars, ViewContract, Returned, FromList, InOrder
    <3>. QED BY <3>3, <3>4
  <2>5. SortedAsRead'
    <3>1. SortedAsRead /\ UNCHANGED <<pc, result, out, current, iter>>
      BY <1>1 DEF vars, IInv, Answers
    <3>2. Found(result)' = Found(result) /\ Found(out)' = Found(out)
      BY <3>1 DEF Found
    <3>3. FromList' = FromList /\ (InOrder(result) => InOrder(result)')
      BY <3>1 DEF FromList, InOrder
    <3>. QED BY <3>1, <3>2, <3>3 DEF SortedAsRead
  <2>. QED BY <2>1, <2>2, <2>3, <2>4, <2>5 DEF IInv, Answers
<1>2. CASE MapleFails
  BY <1>2, TriedList DEF MapleFails
<1>. QED BY <1>1, <1>2, RootStep, RangeSlotStep, DenseSlotStep, ReturnStep, MapleDoneStep,
            HeadStep, VmaStep, EndStep DEF Next

(***************************************************************************)
(* collect_vmas keeps the inductive invariant: limits, frames that stand   *)
(* for the slots not yet read, every VMA collected or ahead, the list      *)
(* followed in order, and right answers.                                   *)
(***************************************************************************)
THEOREM WalkInvariant == Spec => []IInv
<1>1. Init => IInv
  BY InitInv
<1>2. IInv /\ [Next]_vars => IInv'
  BY StepInv
<1>. QED BY <1>1, <1>2, PTL DEF Spec

(***************************************************************************)
(* Whatever walk_maple_entry and the list walk read, the recursion is never*)
(* deeper than MAX_MAPLE_DEPTH + 1 nodes, no node is read behind its end,  *)
(* and no more than MAX_VMA_ITER VMAs are collected or returned.           *)
(***************************************************************************)
THEOREM LimitsKept == Spec => []TypeOK
<1>1. IInv => TypeOK
  <2>. SUFFICES ASSUME IInv PROVE TypeOK
    OBVIOUS
  <2>1. Frames(stack, lost) /\ Collected
    BY DEF IInv, WalkInv
  <2>2. /\ Len(stack) <= MaxDepth + 1 /\ stack \in Seq(FrameType)
        /\ \A k \in DOMAIN stack : stack[k].index <= stack[k].data_end + 1
    BY <2>1 DEF Frames
  <2>3. ASSUME NEW k \in DOMAIN stack
        PROVE  /\ stack[k].index \in 0 .. stack[k].data_end + 1
               /\ stack[k].current_min \in 0 .. MaxIndex
               /\ stack[k].max \in 0 .. MaxIndex
    <3>1. stack[k] \in FrameType
      BY <2>2
    <3>. QED BY <2>2, <3>1 DEF FrameType
  <2>4. out \in Seq([vma : Readable, start : Nat, end : Nat]) /\ Len(out) <= MaxVma
    <3>1. /\ out \in Seq(Entries) /\ Len(out) <= MaxVma
          /\ \A k \in DOMAIN out : out[k] \in Entries /\ out[k].vma \in Readable
      BY <2>1 DEF Collected
    <3>. DEFINE S == [vma : Readable, start : Nat, end : Nat]
    <3>2. \A k \in DOMAIN out : out[k] \in S
      BY <3>1 DEF Entries
    <3>. HIDE DEF S
    <3>3. out \in Seq(S)
      BY <3>1, <3>2
    <3>. QED BY <3>1, <3>3 DEF S
  <2>. QED BY <2>2, <2>3, <2>4 DEF TypeOK, IInv, WalkInv
<1>. QED BY <1>1, WalkInvariant, PTL

(***************************************************************************)
(* Over every tree the kernel builds, and over its list, collect_vmas      *)
(* returns the whole address space in order, if no meta_end and no link    *)
(* was lost to a failed read and the VMAs are not more than the limit.     *)
(***************************************************************************)
THEOREM AddressSpaceWhole == Spec => []WholeSpace
<1>1. IInv => WholeSpace
  BY DEF IInv, Answers
<1>. QED BY <1>1, WalkInvariant, PTL

(***************************************************************************)
(* Whatever reads fail in a stable target, collect_vmas returns VMAs of the*)
(* process in their order, and over the list the first ones of them.       *)
(***************************************************************************)
THEOREM PartialViewSound == Spec => []ViewContract
<1>1. IInv => ViewContract
  BY DEF IInv, Answers
<1>. QED BY <1>1, WalkInvariant, PTL

(***************************************************************************)
(* However torn the tree and the VMAs, collect_vmas_maple returns every VMA*)
(* it has collected, sorted by the bounds it has read; a VMA comes twice   *)
(* only with bounds that changed between two reads, and not in a row.      *)
(***************************************************************************)
THEOREM MapleSortedAsRead == Spec => []SortedAsRead
<1>1. IInv => SortedAsRead
  BY DEF IInv, Answers
<1>. QED BY <1>1, WalkInvariant, PTL
=============================================================================
