------------------------------- MODULE VmaWalk -------------------------------
(***************************************************************************)
(* LinuxProcess::collect_vmas: the VMAs of a process, read from the maple  *)
(* tree of its mm_struct or, when that fails or is empty, from the list of *)
(* older kernels.  The recursion of walk_maple_entry is a stack of frames, *)
(* one per node being walked; one step is one iteration of a node's loop.  *)
(*                                                                         *)
(* In a "stable" world the tree is one the kernel builds (mem) and a read  *)
(* returns what is there or fails.  In a "torn" world the target changes   *)
(* or the snapshot is inconsistent: a read of a node, of a link or of a    *)
(* VMA's bounds returns any value, at every read another one.  Entries are *)
(* addresses with the tag bits of the maple tree.                          *)
(***************************************************************************)
EXTENDS Integers, FiniteSetsExt, SequencesExt

CONSTANTS
  Mems,          \* the trees and VMA lists of a stable world
  TornVmas,      \* where a VMA can be read in a torn world
  TornBounds,    \* the start and end one read of it may return
  TornEntries,   \* what a slot may hold there
  TornPivots,    \* what a pivot may hold there
  Walkers,       \* which walks the profile's offsets allow: sets of "maple", "mmap"
  Maple, TornMaple,  \* offsets.maple of either world: the slots and pivots of the nodes
  MaxIndex,      \* u64::MAX
  DenseSlots,    \* MAPLE_DENSE_SLOTS
  MaxDepth,      \* MAX_MAPLE_DEPTH
  MaxVma,        \* MAX_VMA_ITER
  PageSize,      \* 4 KiB
  None, Err

ASSUME ConstAssumption ==
  /\ MaxIndex \in Nat /\ MaxDepth \in Nat
  /\ {DenseSlots, MaxVma, PageSize} \subseteq Nat \ {0}
  /\ \A m \in {Maple, TornMaple} :
       /\ {m.range64.slots, m.range64.pivots, m.arange64.slots, m.arange64.pivots} \subseteq Nat \ {0}
       /\ m.range64.pivots <= m.range64.slots /\ m.arange64.pivots <= m.arange64.slots
  /\ \A m \in {Maple.range64, Maple.arange64} : m.pivots >= 2 /\ m.slots = m.pivots + 1
  /\ TornPivots \subseteq 0 .. MaxIndex /\ TornEntries \subseteq Nat
  /\ TornVmas \subseteq Nat \ {0} /\ TornBounds \subseteq [start : Nat, end : Nat]
  /\ None # Err

VARIABLES
  world,    \* "stable" or "torn"
  mem,      \* a stable target's memory: root, node contents, VMA structures, their order in the list
  walkers,
  pc,       \* "root", "maple", "head", "mmap", "done"
  stack,    \* active walk_maple_range64, _arange64 and _dense calls, outermost first
  out,      \* the VMAs collected so far, each with its bounds as they were read
  current,  \* position in the mmap list
  iter,     \* its iteration count
  lost,     \* history: a meta_end or a link could not be read and was taken for 0
  result    \* what collect_vmas returned

vars == <<world, mem, walkers, pc, stack, out, current, iter, lost, result>>
target == <<world, mem, walkers>>
NULL == 0
Torn == world = "torn"

FirstWalk(w) == IF "maple" \in w THEN "root" ELSE IF "mmap" \in w THEN "head" ELSE "neither"

Init ==
  /\ \/ world = "stable" /\ mem \in Mems
     \/ world = "torn" /\ mem = None
  /\ walkers \in Walkers
  /\ pc = FirstWalk(walkers)
  /\ stack = <<>> /\ out = <<>> /\ current = NULL /\ iter = 0
  /\ lost = FALSE
  /\ result = None

----------------------------------------------------------------------------
(* VMA structures *)

\* What one read of the VMA v may find: Readable are the addresses, ReadVma the bounds.
Readable == IF Torn THEN TornVmas ELSE DOMAIN mem.vma
ReadVma(v) == IF Torn THEN TornBounds ELSE {mem.vma[v]}

\* read_vma_info makes an entry of the bounds b; a VMA without a start or a size has none.
VmaInfo(v, b) == [vma |-> v, start |-> b.start, end |-> b.end]
HasInfo(b) == b.start # 0 /\ b.end > b.start

\* Sort key: start, end, address.
Before(x, y) ==
  \/ x.start < y.start
  \/ x.start = y.start /\ x.end < y.end
  \/ x.start = y.start /\ x.end = y.end /\ x.vma < y.vma

\* The sequence s sorted, in a set; elements with equal keys are equal.
SortVmas(s) ==
  {[k \in DOMAIN s |-> s[p[k]]]
     : p \in {q \in Bijection(DOMAIN s, DOMAIN s) :
                \A j, k \in DOMAIN s : j < k => ~Before(s[q[k]], s[q[j]])}}

\* dedup_by_key: of neighbours with the same address the first is kept; in a set.
RunStarts(s) == {k \in DOMAIN s : k = 1 \/ s[k].vma # s[k - 1].vma}
DedupVmas(s) ==
  LET n == Cardinality(RunStarts(s))
  IN  {[k \in 1 .. n |-> s[p[k]]]
         : p \in {q \in Bijection(1 .. n, RunStarts(s)) :
                    \A j, k \in 1 .. n : j < k => q[j] < q[k]}}

Unsorted(s) == DedupVmas(s)
\* What collect_vmas_maple does with the VMAs the walk has pushed.
Tidy(s) == UNION {DedupVmas(t) : t \in SortVmas(s)}

----------------------------------------------------------------------------
(* Maple entries and reads of nodes *)

maple_type(e) ==
  LET tag == (e \div 8) % 16
  IN  IF (e \div 2) % 4 = 0 \/ tag > 3 THEN "none"
      ELSE <<"dense", "leaf64", "range64", "arange64">>[tag + 1]
Node(e) == e - (e % 256)

NodeTypes == {"dense", "leaf64", "range64", "arange64"}
LayoutIn(maple, t) == IF t = "arange64" THEN maple.arange64 ELSE maple.range64

(***************************************************************************)
(* The trees the kernel builds.  Of every node tree[n] says what it is for:*)
(* its type, the indices it covers (min .. max), its last slot in use, its *)
(* level above the leaves and the VMAs below it.                           *)
(***************************************************************************)
Under(m, e) ==
  IF e = NULL THEN {} ELSE IF maple_type(e) = "none" THEN {e} ELSE m.tree[Node(e)].vmas

\* Entry e may stand for the indices min .. max in a node of this level.
Fits(m, e, min, max, level) ==
  e # NULL =>
    /\ level > 0
    /\ IF maple_type(e) = "none" THEN e \in ToSet(m.vmas)
       ELSE /\ Node(e) \in DOMAIN m.tree
            /\ LET t == m.tree[Node(e)]
               IN  t.type = maple_type(e) /\ t.min = min /\ t.max = max /\ t.level < level

\* The indices slot k of node n stands for.
SlotMin(m, n, k) ==
  IF m.tree[n].type = "dense" THEN m.tree[n].min + k
  ELSE IF k = 0 THEN m.tree[n].min ELSE m.node[n].pivot[k] + 1
SlotMax(m, n, k) ==
  IF m.tree[n].type = "dense" THEN m.tree[n].min + k
  ELSE IF k = m.tree[n].end THEN m.tree[n].max ELSE m.node[n].pivot[k + 1]

\* A dense node has a slot for each index.
DenseNode(m, n) ==
  LET t == m.tree[n]
  IN  t.type = "dense" => t.end = t.max - t.min /\ t.end < DenseSlots

(***************************************************************************)
(* Pivots are the last indices of their slots, 0 behind the last slot in   *)
(* use.  A full node has no pivot for its last slot, and a full range64 no *)
(* room for meta_end.                                                      *)
(***************************************************************************)
RangeNode(m, n) ==
  LET t == m.tree[n]
      node == m.node[n]
      pivots == LayoutIn(Maple, t.type).pivots
  IN  t.type # "dense" =>
        /\ t.end \in 0 .. pivots
        /\ node.pivot \in [1 .. pivots -> 0 .. MaxIndex]
        /\ \A k \in 1 .. t.end : SlotMin(m, n, k - 1) <= node.pivot[k] /\ node.pivot[k] < t.max
        /\ t.end < pivots => node.pivot[t.end + 1] = t.max
        /\ \A k \in t.end + 2 .. pivots : node.pivot[k] = 0
        /\ node.meta_end \in Nat
        /\ (t.type = "arange64" \/ t.end < pivots - 1) => node.meta_end = t.end

TreeNode(m, n) ==
  LET t == m.tree[n]
      Below(k) == Under(m, m.node[n].slot[k + 1])
  IN  /\ t.type \in NodeTypes /\ t.end \in Nat /\ t.level \in Nat
      /\ t.min \in 0 .. MaxIndex /\ t.max \in t.min .. MaxIndex
      /\ DenseNode(m, n) /\ RangeNode(m, n)
      /\ \A k \in 0 .. t.end :
           /\ m.node[n].slot[k + 1] \in Nat
           /\ Fits(m, m.node[n].slot[k + 1], SlotMin(m, n, k), SlotMax(m, n, k), t.level)
      /\ t.vmas = UNION {Below(k) : k \in 0 .. t.end} /\ t.vmas \subseteq ToSet(m.vmas)
      /\ \A j, k \in 0 .. t.end : j # k => Below(j) \cap Below(k) = {}

\* The list is in the order of the addresses, and the tree holds the same VMAs.
KernelBuilt(m) ==
  /\ m.vmas \in Seq(Nat) /\ DOMAIN m.vma = ToSet(m.vmas)
  /\ \A v \in DOMAIN m.vma : v >= PageSize /\ maple_type(v) = "none"
  /\ \A j, k \in DOMAIN m.vmas : j < k =>
       Before(VmaInfo(m.vmas[j], m.vma[m.vmas[j]]), VmaInfo(m.vmas[k], m.vma[m.vmas[k]]))
  /\ \A n \in DOMAIN m.tree : TreeNode(m, n)
  /\ m.root \in Nat /\ Fits(m, m.root, 0, MaxIndex, MaxDepth + 1)
  /\ Under(m, m.root) = ToSet(m.vmas)

ASSUME MemAssumption ==
  \A m \in Mems :
    /\ \A v \in DOMAIN m.vma : v \in Nat \ {NULL} /\ m.vma[v] \in [start : Nat, end : Nat]
    /\ KernelBuilt(m)

Offsets == IF Torn THEN TornMaple ELSE Maple
Layout(t) == LayoutIn(Offsets, t)
Slots(t) == Layout(t).slots
Pivots(t) == Layout(t).pivots

ReadPivot(n, k) == IF Torn THEN TornPivots ELSE {mem.node[n].pivot[k + 1]}
ReadSlot(n, k) == IF Torn THEN TornEntries ELSE {mem.node[n].slot[k + 1]}
ReadMetaEnd(n) == IF Torn THEN 0 .. Slots("range64") ELSE {mem.node[n].meta_end}

MetaInAllNodes(t, last_pivot, meta_end, max) == Min({meta_end, Slots(t) - 1})
\* The last index of a node in use: arange64 nodes record it, range64 nodes only if they are
\* not full to the last pivot.
DataEnd(t, last_pivot, meta_end, max) ==
  IF t = "arange64" \/ last_pivot = 0 THEN Min({meta_end, Slots(t) - 1})
  ELSE IF last_pivot = max THEN Pivots(t) - 1
  ELSE Slots(t) - 1

\* A walk_maple_ call about to read its first slot.
Frame(e, min, max, data_end) ==
  [node |-> Node(e), type |-> maple_type(e), max |-> max, current_min |-> min,
   index |-> 0, data_end |-> data_end]

SaturatingSub(a, b) == Max({a - b, 0})

\* A dense node has as many slots as its range has indices.
EnterDense(e, min, max, below) ==
  /\ maple_type(e) = "dense"
  /\ stack' = Append(below, Frame(e, min, max, Min({DenseSlots - 1, SaturatingSub(max, min)})))
  /\ UNCHANGED lost

(***************************************************************************)
(* A meta_end that cannot be read counts as 0.  It is read, and may be     *)
(* lost, in an arange64 node and where the last pivot of a range64 is 0.   *)
(***************************************************************************)
EnterRange(e, min, max, below) ==
  LET t == maple_type(e)
  IN  /\ t \in {"leaf64", "range64", "arange64"}
      /\ \E last_pivot \in ReadPivot(Node(e), Pivots(t) - 1) :
         \E meta_end \in ReadMetaEnd(Node(e)) \cup {0} :
           /\ stack' = Append(below, Frame(e, min, max, DataEnd(t, last_pivot, meta_end, max)))
           /\ lost' = (lost \/ (meta_end \notin ReadMetaEnd(Node(e))
                                /\ (t = "arange64" \/ last_pivot = 0)))

\* What is collected after a read of v has returned the bounds b.
Collect(v, b) == IF HasInfo(b) THEN Append(out, VmaInfo(v, b)) ELSE out

push_vma_entry(v) ==
  \/ v < PageSize /\ UNCHANGED out
  \/ v >= PageSize /\ v \in Readable /\ \E b \in ReadVma(v) : out' = Collect(v, b)

NoDepthLimit(e, depth) == e = NULL \/ Len(out) >= MaxVma
\* The early return of walk_maple_entry.
Ignored(e, depth) == e = NULL \/ depth > MaxDepth \/ Len(out) >= MaxVma

\* walk_maple_entry(e, min, max, depth), called from the frames below.
walk_maple_entry(e, min, max, depth, below) ==
  \/ Ignored(e, depth) /\ stack' = below /\ UNCHANGED <<out, lost>>
  \/ ~Ignored(e, depth) /\ EnterDense(e, min, max, below) /\ UNCHANGED out
  \/ ~Ignored(e, depth) /\ EnterRange(e, min, max, below) /\ UNCHANGED out
  \/ /\ ~Ignored(e, depth)
     /\ maple_type(e) = "none"
     /\ push_vma_entry(e)
     /\ stack' = below
     /\ UNCHANGED lost

----------------------------------------------------------------------------
(* The maple walk *)

MapleRoot ==
  /\ pc = "root"
  /\ \E root \in IF Torn THEN TornEntries ELSE {mem.root} :
       walk_maple_entry(root, 0, MaxIndex, 0, <<>>)
  /\ pc' = "maple"
  /\ UNCHANGED <<target, current, iter, result>>

\* The frame after an iteration that read the pivot last: behind its end when the loop breaks.
Advance(f, last) ==
  IF last >= f.max THEN [f EXCEPT !.index = f.data_end + 1]
  ELSE [f EXCEPT !.index = @ + 1, !.current_min = last + 1]

\* One iteration of walk_maple_range64 or walk_maple_arange64.
MapleRangeSlot ==
  /\ pc = "maple" /\ stack # <<>>
  /\ LET f == Last(stack)
     IN  /\ f.type # "dense" /\ f.index <= f.data_end
         /\ \E last \in IF f.index < Pivots(f.type) THEN ReadPivot(f.node, f.index)
                        ELSE {f.max} :
            \E slot \in ReadSlot(f.node, f.index) :
              walk_maple_entry(slot, f.current_min, last, Len(stack),
                               Append(Front(stack), Advance(f, last)))
  /\ UNCHANGED <<target, pc, current, iter, result>>

\* One iteration of walk_maple_dense.
MapleDenseSlot ==
  /\ pc = "maple" /\ stack # <<>>
  /\ LET f == Last(stack)
         at == Min({f.current_min + f.index, MaxIndex})
     IN  /\ f.type = "dense" /\ f.index <= f.data_end
         /\ \E slot \in ReadSlot(f.node, f.index) :
              walk_maple_entry(slot, at, at, Len(stack),
                               Append(Front(stack), [f EXCEPT !.index = @ + 1]))
  /\ UNCHANGED <<target, pc, current, iter, result>>

\* The end of a node; a leaf64 sorts what has been collected.
MapleReturn ==
  /\ pc = "maple" /\ stack # <<>>
  /\ Last(stack).index > Last(stack).data_end
  /\ stack' = Front(stack)
  /\ out' \in IF Last(stack).type = "leaf64" THEN SortVmas(out) ELSE {out}
  /\ UNCHANGED <<target, pc, current, iter, lost, result>>

KeepsCollected ==
  /\ stack' = <<>> /\ UNCHANGED out
  /\ IF "mmap" \in walkers
     THEN pc' = "head" /\ lost' = FALSE /\ UNCHANGED result
     ELSE pc' = "done" /\ result' = <<>> /\ UNCHANGED lost
\* collect_vmas goes on to the list, or returns nothing if the profile has none.
TryList ==
  /\ stack' = <<>> /\ out' = <<>>
  /\ IF "mmap" \in walkers
     THEN pc' = "head" /\ lost' = FALSE /\ UNCHANGED result
     ELSE pc' = "done" /\ result' = <<>> /\ UNCHANGED lost

MapleDone ==
  /\ pc = "maple" /\ stack = <<>>
  /\ IF out = <<>> THEN TryList
     ELSE /\ pc' = "done" /\ result' \in Tidy(out)
          /\ UNCHANGED <<stack, out, lost>>
  /\ UNCHANGED <<target, current, iter>>

\* Any other read that fails ends the whole walk and drops what it has collected.
MapleFails ==
  /\ pc \in {"root", "maple"}
  /\ pc = "maple" => stack # <<>>
  /\ TryList
  /\ UNCHANGED <<target, current, iter>>

----------------------------------------------------------------------------
(* The list of older kernels *)

Links(v) ==
  IF Torn THEN TornVmas \cup {NULL}
  ELSE IF v = NULL THEN {Head(Append(mem.vmas, NULL))}
  ELSE LET k == CHOOSE j \in DOMAIN mem.vmas : mem.vmas[j] = v
       IN  {Append(mem.vmas, NULL)[k + 1]}

\* A head or link that cannot be read is taken for NULL.
FollowLink(v) ==
  \E link \in Links(v) \cup {NULL} :
    /\ current' = link
    /\ lost' = (lost \/ link \notin Links(v))

MmapHead ==
  /\ pc = "head"
  /\ FollowLink(NULL)
  /\ pc' = "mmap"
  /\ UNCHANGED <<target, stack, out, iter, result>>

\* The limit as the maple walk has it.
CountsFound(b) == IF HasInfo(b) THEN iter + 1 ELSE iter
\* The limit is on iterations, not on VMAs found.
Counted(b) == iter + 1

MmapVma ==
  /\ pc = "mmap" /\ current # NULL /\ iter < MaxVma
  /\ \E b \in ReadVma(current) : out' = Collect(current, b) /\ iter' = Counted(b)
  /\ FollowLink(current)
  /\ IF current' \in {NULL, current}
     THEN pc' = "done" /\ result' = out'
     ELSE UNCHANGED <<pc, result>>
  /\ UNCHANGED <<target, stack>>

MmapDone ==
  /\ pc = "mmap" /\ (current = NULL \/ iter = MaxVma)
  /\ pc' = "done" /\ result' = out
  /\ UNCHANGED <<target, stack, out, current, iter, lost>>

\* A VMA that cannot be read is an error of collect_vmas.
MmapFails ==
  /\ pc = "mmap" /\ current # NULL /\ iter < MaxVma
  /\ pc' = "done" /\ result' = Err
  /\ UNCHANGED <<target, stack, out, current, iter, lost>>

\* The profile knows neither.
NoWalk ==
  /\ pc = "neither"
  /\ pc' = "done" /\ result' = <<>>
  /\ UNCHANGED <<target, stack, out, current, iter, lost>>

Next ==
  \/ MapleRoot \/ MapleRangeSlot \/ MapleDenseSlot \/ MapleReturn \/ MapleDone \/ MapleFails
  \/ MmapHead \/ MmapVma \/ MmapDone \/ MmapFails \/ NoWalk
Spec == Init /\ [][Next]_vars
\* The walk runs in the caller's thread and waits for nobody.
FairSpec == Spec /\ WF_vars(Next)

----------------------------------------------------------------------------
(* Properties *)

\* Type correctness, and the limits on recursion and on the number of VMAs.
TypeOK ==
  /\ pc \in {"root", "maple", "head", "mmap", "neither", "done"}
  /\ Len(stack) <= MaxDepth + 1
  /\ \A k \in DOMAIN stack :
       /\ stack[k].index \in 0 .. stack[k].data_end + 1
       /\ stack[k].current_min \in 0 .. MaxIndex
       /\ stack[k].max \in 0 .. MaxIndex
  /\ out \in Seq([vma : Readable, start : Nat, end : Nat]) /\ Len(out) <= MaxVma
  /\ current \in Readable \cup {NULL}
  /\ iter \in 0 .. MaxVma
  /\ result \in {None, Err} \/ Len(result) <= MaxVma

\* The VMAs the process has, but for one at address 0, which read_vma_info leaves out.
Mapped == {VmaInfo(v, mem.vma[v]) : v \in {w \in DOMAIN mem.vma : HasInfo(mem.vma[w])}}
Returned == world = "stable" /\ pc = "done" /\ result # Err
FromList == current # NULL \/ iter > 0
InOrder(s) == \A j, k \in DOMAIN s : j < k => Before(s[j], s[k])

(***************************************************************************)
(* Over a tree the kernel has built, whatever the split of the VMAs into   *)
(* nodes, the types of the nodes and how far each is filled, the walk      *)
(* returns every VMA of the process in address order; likewise the list.   *)
(* Excepted are the limit on the number of VMAs and reads that fail.       *)
(***************************************************************************)
WholeSpace ==
  (Returned /\ ~lost /\ result # <<>> /\ Len(mem.vmas) <= MaxVma)
    => ToSet(result) = Mapped /\ InOrder(result)

(***************************************************************************)
(* A walk that lost part of the tree to failed reads still returns VMAs of *)
(* the process in their order, and one over the list returns the first     *)
(* ones: nothing of a failed maple walk is left in the answer of the list. *)
(* ProcessView takes this for granted.                                     *)
(***************************************************************************)
ViewContract ==
  Returned =>
    /\ ToSet(result) \subseteq Mapped /\ InOrder(result)
    /\ FromList => \A v \in ToSet(result), w \in Mapped : Before(w, v) => w \in ToSet(result)

\* The addresses of the VMAs in s.
Found(s) == {s[k].vma : k \in DOMAIN s}

(***************************************************************************)
(* However torn the tree, although a node may be met again on any path and *)
(* a VMA read again with other bounds: the maple walk returns every VMA it *)
(* has collected, in the order of start, end and address.  A VMA comes     *)
(* twice only with bounds that changed between two reads and with another  *)
(* VMA between them, as dedup_by_key sees neighbours only.                 *)
(***************************************************************************)
SortedAsRead ==
  (pc = "done" /\ result # Err /\ ~FromList) =>
    /\ InOrder(result)
    /\ \A k \in 2 .. Len(result) : result[k].vma # result[k - 1].vma
    /\ ToSet(result) \subseteq ToSet(out) /\ Found(result) = Found(out)

\* The walk ends: over node cycles by its depth, over list cycles by its iteration limit.
WalkEnds == <>(pc = "done")
============================================================================
