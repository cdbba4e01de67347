------------------------------ MODULE MCVmaWalk ------------------------------
(* Trees over the indices 0 .. MaxIndex with up to three leaves under one root. *)
(* A VMA covers the range of its slot; node k is at 65536 + 256 k.              *)
EXTENDS VmaWalk

Counts(rs, rp, as, ap) ==
  [range64 |-> [slots |-> rs, pivots |-> rp], arange64 |-> [slots |-> as, pivots |-> ap]]
MCMaple == Counts(4, 3, 3, 2)
MCTornMaple == Counts(2, 1, 2, 1)

VmaAt(i) == 8192 + 8 * i
NodeAt(k) == 65536 + 256 * k
Encode(k, tag, root) == NodeAt(k) + 8 * tag + (IF root THEN 6 ELSE 4)

\* The ways to cut lo .. hi into at most n ranges, as sequences of last indices.
Cuts(lo, hi, n) ==
  {Append(SetToSortSeq(C, <), hi) : C \in {D \in SUBSET (lo .. hi - 1) : Cardinality(D) < n}}
First(lo, ends, k) == IF k = 1 THEN lo ELSE ends[k - 1] + 1

\* A node: its ranges end at ends, its slots hold entries; behind its end it is zeroed.
Content(ends, entries, slots, pivots, meta_end) ==
  [pivot |-> [k \in 1 .. pivots |-> IF k <= Len(ends) THEN ends[k] ELSE 0],
   slot |-> [k \in 1 .. slots |-> IF k <= Len(ends) THEN entries[k] ELSE NULL],
   meta_end |-> meta_end]

\* range64 has no room for meta_end in a full node, where it overlaps the last slot.
RangeContent(ends, entries) ==
  Content(ends, entries, MCMaple.range64.slots, MCMaple.range64.pivots,
          IF Len(ends) < MCMaple.range64.slots THEN Len(ends) - 1 ELSE 0)
ArangeContent(ends, entries) ==
  Content(ends, entries, MCMaple.arange64.slots, MCMaple.arange64.pivots, Len(ends) - 1)

\* What a node is for.
Purpose(type, lo, hi, end, level, vmas) ==
  [type |-> type, min |-> lo, max |-> hi, end |-> end, level |-> level,
   vmas |-> {VmaAt(p[1]) : p \in vmas}]

\* Leaves over lo .. hi, with their tag and the VMAs they hold: <<start, end>> pairs.
RangeLeaves(lo, hi) ==
  UNION {{LET vmas == {<<First(lo, ends, k), ends[k] + 1>> : k \in used}
          IN  [tag |-> 1,
               node |-> RangeContent(ends, [k \in DOMAIN ends |->
                          IF k \in used THEN VmaAt(First(lo, ends, k)) ELSE NULL]),
               tree |-> Purpose("leaf64", lo, hi, Len(ends) - 1, 1, vmas),
               vmas |-> vmas]
            : used \in SUBSET DOMAIN ends} : ends \in Cuts(lo, hi, MCMaple.range64.slots)}
DenseLeaves(lo, hi) ==
  IF hi - lo >= DenseSlots THEN {}
  ELSE {LET vmas == {<<i, i + 1>> : i \in used}
        IN  [tag |-> 0,
             node |-> [slot |-> [k \in 1 .. DenseSlots |->
                                  IF lo + k - 1 \in used THEN VmaAt(lo + k - 1) ELSE NULL]],
             tree |-> Purpose("dense", lo, hi, hi - lo, 1, vmas),
             vmas |-> vmas] : used \in SUBSET (lo .. hi)}
Leaves(lo, hi) == RangeLeaves(lo, hi) \cup DenseLeaves(lo, hi)

Memory(root, nodes, tree, vmas) ==
  [root |-> root, node |-> nodes, tree |-> tree,
   vma |-> [v \in {VmaAt(p[1]) : p \in vmas} |->
             LET p == CHOOSE q \in vmas : VmaAt(q[1]) = v IN [start |-> p[1], end |-> p[2]]],
   vmas |-> SetToSortSeq({VmaAt(p[1]) : p \in vmas}, <)]

NoNodes == [n \in {} |-> 0]
FlatTrees ==
  {Memory(NULL, NoNodes, NoNodes, {}), Memory(VmaAt(1), NoNodes, NoNodes, {<<1, 2>>})}
  \cup {Memory(Encode(0, l.tag, TRUE), NodeAt(0) :> l.node, NodeAt(0) :> l.tree, l.vmas)
          : l \in Leaves(0, MaxIndex)}

\* A root of tag 2 (range64) or 3 (arange64) over the leaves ls with last indices ends.
DeepTree(tag, ends, ls) ==
  LET entries == [k \in DOMAIN ends |-> Encode(k, ls[k].tag, FALSE)]
      vmas == UNION {ls[k].vmas : k \in DOMAIN ends}
      root == IF tag = 2 THEN RangeContent(ends, entries) ELSE ArangeContent(ends, entries)
      purpose == Purpose(IF tag = 2 THEN "range64" ELSE "arange64", 0, MaxIndex,
                         Len(ends) - 1, 2, vmas)
      Nodes == {NodeAt(k) : k \in 0 .. Len(ends)}
      Leaf(n) == ls[(n - NodeAt(0)) \div 256]
  IN  Memory(Encode(0, tag, TRUE),
             [n \in Nodes |-> IF n = NodeAt(0) THEN root ELSE Leaf(n).node],
             [n \in Nodes |-> IF n = NodeAt(0) THEN purpose ELSE Leaf(n).tree],
             vmas)

TwoLeaves(ends) == {<<a, b>> : a \in Leaves(0, ends[1]), b \in Leaves(ends[1] + 1, MaxIndex)}
ThreeLeaves(ends) ==
  {<<a, b, c>> : a \in RangeLeaves(0, ends[1]), b \in RangeLeaves(ends[1] + 1, ends[2]),
                 c \in RangeLeaves(ends[2] + 1, MaxIndex)}
Families(ends) ==
  IF Len(ends) = 2 THEN TwoLeaves(ends) ELSE IF Len(ends) = 3 THEN ThreeLeaves(ends) ELSE {}
MCMems ==
  FlatTrees \cup
  UNION {UNION {{DeepTree(tag, ends, ls) : ls \in Families(ends)}
                  : ends \in Cuts(0, MaxIndex, 3)} : tag \in {2, 3}}

\* Two VMAs, a pointer below a page, one tagged but of no type; a VMA moves, or is freed.
MCTornVmas == {VmaAt(1), VmaAt(2)}
MCTornBounds == [start : {1, 2}, end : {2, 3}]
MCTornEntries ==
  {NULL, 64, VmaAt(1), VmaAt(2), NodeAt(1) + 8 * 4 + 4}
  \cup {Encode(0, tag, FALSE) : tag \in 0 .. 3}
MCWalkers == {{"maple", "mmap"}, {"maple"}, {"mmap"}, {}}
============================================================================
