--------------------------- MODULE VmaRangesProofs ---------------------------
(***************************************************************************)
(* Proofs about VmaRanges, for any number of VMAs, any window and any      *)
(* gap_size.                                                               *)
(*                                                                         *)
(* The pending range is the reason the three properties of the output are  *)
(* not inductive: what it holds is owed to the caller but not yet in out.  *)
(* PendingFollows ties it to the VMA just before i, which is what makes a  *)
(* bridged gap the gap between two neighbouring VMAs.                      *)
(***************************************************************************)
EXTENDS VmaRanges, SequenceTheorems, TLAPS

TypeOf(v) == linux_vma_page_type(v.flags)

\* The pending range is inside the window and ends with the VMA before i.
PendingFollows ==
  (pc = "loop" /\ pending # NoRange) =>
    /\ i > 1
    /\ lo <= pending.from /\ pending.from < pending.to /\ pending.to <= hi
    /\ \/ vmas[i - 1].start >= hi
       \/ /\ vmas[i - 1].end > lo
          /\ pending.to = Clip(vmas[i - 1]).to
          /\ pending.type = TypeOf(vmas[i - 1])

\* Everything mapped by the VMAs before i has been emitted or is pending.
Covered(x, t) ==
  \/ \E k \in 1 .. Len(out) : In(x, out[k]) /\ out[k].type = t
  \/ pending # NoRange /\ In(x, pending) /\ pending.type = t
CoveredSoFar ==
  pc = "loop" =>
    \A j \in 1 .. i - 1 : \A x \in Addrs :
      (Mapped(x, vmas[j]) /\ lo <= x /\ x < hi) => Covered(x, TypeOf(vmas[j]))

\* The pending range holds only mapped bytes and bridged gaps.
Solid(r) ==
  \A x \in Addrs : In(x, r) =>
    \/ \E j \in 1 .. Len(vmas) : Mapped(x, vmas[j]) /\ TypeOf(vmas[j]) = r.type
    \/ Bridged(x, r.type)
PendingSolid == pending # NoRange => Solid(pending)

\* The pending range is next in line behind what has been emitted.
PendingIsNext ==
  /\ pending = NoRange => out = <<>>
  /\ (pc = "loop" /\ pending # NoRange) =>
       /\ \A k \in 1 .. Len(out) : out[k].to <= pending.from
       /\ Len(out) > 0 => ~CanMerge(out[Len(out)], pending)

IInv ==
  /\ TypeOK /\ WellFormed(vmas)
  /\ PendingFollows /\ CoveredSoFar /\ PendingSolid /\ PendingIsNext
  /\ OnlySmallGaps /\ RangesInOrder /\ NothingLost

----------------------------------------------------------------------------

\* A VMA with a part in the window gives a range of that part.
LEMMA ClipType ==
  ASSUME NEW v \in Vmas, lo \in Addrs, hi \in Addrs
  PROVE  Clip(v) \in Ranges /\ Clip(v).type = TypeOf(v)
  BY DEF Clip, Vmas, Ranges, TypeOf, linux_vma_page_type, PageTypes

\* The bounds of that part.
LEMMA ClipBounds ==
  ASSUME NEW v \in Vmas, lo \in Addrs, hi \in Addrs, ConstAssumption, ~Outside(v)
  PROVE  /\ lo <= Clip(v).from /\ Clip(v).from < Clip(v).to /\ Clip(v).to <= hi
         /\ v.start <= Clip(v).from /\ Clip(v).to <= v.end
         /\ \A x \in Addrs : (Mapped(x, v) /\ lo <= x /\ x < hi) => In(x, Clip(v))
         /\ \A x \in Addrs : In(x, Clip(v)) => Mapped(x, v)
  BY DEF Clip, Vmas, Outside, Addrs, ConstAssumption, Mapped, In

\* The VMA at i has a part in the window, behind a pending range: their neighbourhood.
LEMMA Neighbours ==
  ASSUME IInv, AtVma, pending # NoRange, ConstAssumption
  PROVE  /\ vmas[i] \in Vmas /\ vmas[i - 1] \in Vmas /\ i > 1 /\ i - 1 \in 1 .. Len(vmas)
         /\ pending.to = vmas[i - 1].end /\ pending.type = TypeOf(vmas[i - 1])
         /\ Clip(vmas[i]).from = vmas[i].start
         /\ vmas[i - 1].end <= vmas[i].start
  <1>1. /\ i \in 2 .. Len(vmas) /\ lo \in Addrs /\ hi \in Addrs
        /\ vmas[i] \in Vmas /\ vmas[i - 1] \in Vmas
    BY DEF IInv, TypeOK, PendingFollows, AtVma
  <1>2. vmas[i - 1].end <= vmas[i].start /\ vmas[i - 1].start < vmas[i - 1].end
    BY <1>1 DEF IInv, WellFormed
  <1>3. vmas[i].start < hi
    BY <1>1 DEF AtVma, Outside, Vmas, Addrs
  <1>4. /\ vmas[i - 1].end > lo
        /\ pending.to = Clip(vmas[i - 1]).to
        /\ pending.type = TypeOf(vmas[i - 1])
    BY <1>1, <1>2, <1>3 DEF IInv, PendingFollows, AtVma, Vmas, Addrs, ConstAssumption
  <1> QED
    BY <1>1, <1>2, <1>3, <1>4 DEF Clip, Vmas, Addrs, ConstAssumption


\* A merged pending range still holds only mapped bytes and bridged gaps.
LEMMA MergeSolid ==
  ASSUME IInv, MergeVma, ConstAssumption
  PROVE  PendingSolid'
  <1> DEFINE c == Clip(vmas[i])
  <1>1. /\ vmas[i] \in Vmas /\ i > 1 /\ i - 1 \in 1 .. Len(vmas) /\ i \in 1 .. Len(vmas)
        /\ pending.to = vmas[i - 1].end /\ pending.type = TypeOf(vmas[i - 1])
        /\ c.from = vmas[i].start /\ vmas[i - 1].end <= vmas[i].start
        /\ vmas[i - 1] \in Vmas
    BY Neighbours DEF MergeVma, AtVma, IInv, TypeOK
  <1>2. /\ lo \in Addrs /\ hi \in Addrs /\ gap \in Int /\ pending \in Ranges
        /\ AtVma /\ CanMerge(pending, c) /\ pending' = [pending EXCEPT !.to = c.to]
        /\ vmas' = vmas /\ gap' = gap
    BY DEF IInv, TypeOK, MergeVma, ConstAssumption, input
  <1>3. c \in Ranges /\ c.type = TypeOf(vmas[i])
    BY <1>1, <1>2, ClipType
  <1>4. \A x \in Addrs : In(x, c) => Mapped(x, vmas[i])
    BY <1>1, <1>2, ClipBounds DEF AtVma
  <1>5. pending'.type = pending.type /\ pending'.from = pending.from /\ pending'.to = c.to
    BY <1>2 DEF Ranges
  <1>6. c.type = pending.type /\ vmas[i].start - vmas[i - 1].end <= gap
    <2>1. pending.type = c.type /\ gap >= 0 /\ SaturatingAdd(pending.to, gap) >= c.from
      BY <1>2 DEF CanMerge
    <2>2. vmas[i].start \in Nat /\ vmas[i - 1].end \in Nat /\ gap \in Int /\ MaxAddr \in Nat
      BY <1>1, <1>2 DEF Vmas, Addrs, ConstAssumption
    <2>3. SaturatingAdd(pending.to, gap) <= pending.to + gap
      BY <1>1, <1>2, <2>2 DEF SaturatingAdd
    <2>4. pending.to = vmas[i - 1].end /\ c.from = vmas[i].start
      BY <1>1
    <2>5. SaturatingAdd(pending.to, gap) \in Int
      BY <2>2, <2>4 DEF SaturatingAdd
    <2> HIDE DEF c
    <2>6. vmas[i].start <= vmas[i - 1].end + gap
      BY <2>1, <2>2, <2>3, <2>4, <2>5
    <2> QED
      BY <2>1, <2>2, <2>6
  <1>7. Solid(pending)
    BY <1>2 DEF IInv, PendingSolid, NoRangeAssumption, MergeVma
  <1>8. ASSUME NEW x \in Addrs, In(x, pending')
        PROVE  \/ \E j \in 1 .. Len(vmas) : Mapped(x, vmas[j]) /\ TypeOf(vmas[j]) = pending.type
               \/ Bridged(x, pending.type)
    <2>1. CASE In(x, pending)
      BY <2>1, <1>7 DEF Solid
    <2>2. CASE In(x, c)
      BY <2>2, <1>1, <1>3, <1>4, <1>6
    <2>3. CASE ~In(x, pending) /\ ~In(x, c)
      <3>1. vmas[i - 1].end <= x /\ x < vmas[i].start
        <4>1. /\ pending.from \in Nat /\ pending.to \in Nat /\ c.from \in Nat /\ c.to \in Nat
              /\ x \in Nat
          BY <1>2, <1>3 DEF Ranges, Addrs
        <4>2. pending.from <= x /\ x < c.to
          BY <1>5, <1>8 DEF In
        <4>3. ~(x < pending.to) /\ ~(c.from <= x)
          BY <2>3, <4>2 DEF In
        <4>4. pending.to <= x /\ x < c.from
          BY <4>1, <4>3
        <4> QED
          BY <1>1, <4>4
      <3>2. i - 1 \in 1 .. Len(vmas) - 1 /\ (i - 1) + 1 = i
        BY <1>1
      <3> QED
        BY <3>1, <3>2, <1>1, <1>3, <1>6 DEF Bridged, TypeOf
    <2> QED BY <2>1, <2>2, <2>3
  <1> QED
    BY <1>2, <1>5, <1>8 DEF PendingSolid, Solid, Bridged, TypeOf

\* A new pending range is one VMA's part of the window.
LEMMA FreshSolid ==
  ASSUME IInv, AtVma, vmas' = vmas, gap' = gap, pending' = Clip(vmas[i]), ConstAssumption
  PROVE  PendingSolid'
  <1>1. vmas[i] \in Vmas /\ i \in 1 .. Len(vmas) /\ lo \in Addrs /\ hi \in Addrs
    BY DEF IInv, TypeOK, AtVma
  <1>2. \A x \in Addrs : In(x, Clip(vmas[i])) => Mapped(x, vmas[i])
    BY <1>1, ClipBounds DEF AtVma
  <1>3. pending'.type = TypeOf(vmas[i])
    BY <1>1, ClipType
  <1> QED
    BY <1>1, <1>2, <1>3 DEF PendingSolid, Solid, TypeOf

\* What emitting a solid pending range that is next in line does to the output.
LEMMA EmitKeepsOutput ==
  ASSUME IInv, pc = "loop", pending # NoRange, out' = Append(out, pending), UNCHANGED input,
         ConstAssumption
  PROVE  OnlySmallGaps' /\ RangesInOrder'
  <1>1. /\ pending \in Ranges /\ out \in Seq(Ranges) /\ lo \in Addrs /\ hi \in Addrs
        /\ vmas' = vmas /\ gap' = gap /\ lo' = lo /\ hi' = hi
    BY DEF IInv, TypeOK, input
  <1>2. /\ Len(out') = Len(out) + 1 /\ Len(out) \in Nat
        /\ out'[Len(out) + 1] = pending
        /\ \A k \in 1 .. Len(out) : out'[k] = out[k]
    BY <1>1
  <1>3. OnlySmallGaps'
    <2>1. \A k \in 1 .. Len(out) + 1 : Solid(out'[k])
      BY <1>1, <1>2 DEF IInv, OnlySmallGaps, PendingSolid, Solid, TypeOf
    <2> QED
      BY <2>1, <1>1, <1>2 DEF OnlySmallGaps, Solid, Bridged, TypeOf
  <1>4. RangesInOrder'
    <2>1. \A k \in 1 .. Len(out) + 1 :
            lo <= out'[k].from /\ out'[k].from < out'[k].to /\ out'[k].to <= hi
      BY <1>1, <1>2 DEF IInv, RangesInOrder, PendingFollows
    <2>2. ASSUME NEW j \in 1 .. Len(out) + 1, NEW k \in 1 .. Len(out) + 1, j < k
          PROVE  out'[j].to <= out'[k].from
      <3>1. CASE k = Len(out) + 1
        BY <3>1, <2>2, <1>2 DEF IInv, PendingIsNext
      <3>2. CASE k # Len(out) + 1
        <4>1. j \in 1 .. Len(out) /\ k \in 1 .. Len(out)
          BY <3>2, <2>2, <1>2
        <4>2. out[j].to <= out[k].from
          BY <4>1, <2>2 DEF IInv, RangesInOrder
        <4> QED BY <4>1, <4>2, <1>2
      <3> QED BY <3>1, <3>2
    <2>3. \A k \in 1 .. Len(out) : ~CanMerge(out'[k], out'[k + 1])
      <3>1. \A k \in 1 .. Len(out) - 1 : ~CanMerge(out'[k], out'[k + 1])
        BY <1>2 DEF IInv, RangesInOrder
      <3>2. Len(out) > 0 => ~CanMerge(out'[Len(out)], out'[Len(out) + 1])
        BY <1>2 DEF IInv, PendingIsNext
      <3> QED BY <3>1, <3>2, <1>2
    <2>4. 1 .. Len(out') = 1 .. Len(out) + 1 /\ 1 .. Len(out') - 1 = 1 .. Len(out)
      BY <1>2
    <2>5. \A k \in 1 .. Len(out') - 1 : ~CanMerge(out[k], out[k + 1])'
      BY <2>3, <2>4, <1>1 DEF CanMerge, SaturatingAdd
    <2> QED
      BY <2>1, <2>2, <2>4, <2>5, <1>1 DEF RangesInOrder
  <1> QED BY <1>3, <1>4


\* Init establishes the invariant: nothing has been visited or emitted.
LEMMA InitHolds ==
  ASSUME ConstAssumption, Init
  PROVE  IInv
  <1>1. vmas \in Seq(Vmas)
    BY DEF Init
  <1>2. i = 1 /\ pending = NoRange /\ out = <<>> /\ pc = "loop" /\ WellFormed(vmas)
    BY DEF Init
  <1>3. TypeOK
    BY <1>1, <1>2 DEF Init, TypeOK
  <1> QED
    BY <1>2, <1>3 DEF IInv, PendingFollows, CoveredSoFar, PendingSolid, PendingIsNext,
                      OnlySmallGaps, RangesInOrder, NothingLost

\* Type correctness and the VMAs' order are preserved by every step.
LEMMA TypeStep ==
  ASSUME ConstAssumption, IInv, Next
  PROVE  TypeOK' /\ WellFormed(vmas)'
  <1>1. vmas' = vmas /\ gap' = gap /\ lo' = lo /\ hi' = hi
    BY DEF Next, SkipVma, FirstVma, MergeVma, EmitPending, Declined, Flush, input
  <1>2. ASSUME AtVma PROVE Clip(vmas[i]) \in Ranges
    BY <1>2, ClipType DEF AtVma, IInv, TypeOK
  <1>3. TypeOK
    BY DEF IInv
  <1>4. TypeOK'
    <2>1. CASE SkipVma
      BY <2>1, <1>1, <1>3 DEF SkipVma, TypeOK
    <2>2. CASE FirstVma
      BY <2>2, <1>1, <1>2, <1>3 DEF FirstVma, AtVma, TypeOK
    <2>3. CASE MergeVma
      <3>1. pending' \in Ranges
        BY <2>3, <1>2, <1>3 DEF MergeVma, TypeOK, Ranges
      <3> QED BY <3>1, <2>3, <1>1, <1>3 DEF MergeVma, AtVma, TypeOK
    <2>4. CASE EmitPending
      BY <2>4, <1>1, <1>2, <1>3 DEF EmitPending, AtVma, TypeOK
    <2>5. CASE Declined
      BY <2>5, <1>1, <1>3 DEF Declined, AtVma, TypeOK
    <2>6. CASE Flush
      BY <2>6, <1>1, <1>3 DEF Flush, TypeOK
    <2> QED BY <2>1, <2>2, <2>3, <2>4, <2>5, <2>6 DEF Next
  <1> QED BY <1>1, <1>4 DEF IInv, WellFormed

\* A VMA outside the window owes nothing.
LEMMA SkipKeeps ==
  ASSUME ConstAssumption, IInv, SkipVma
  PROVE  PendingFollows' /\ CoveredSoFar' /\ PendingSolid' /\ PendingIsNext'
  <1>1. /\ i \in 1 .. Len(vmas) /\ vmas[i] \in Vmas /\ lo \in Addrs /\ hi \in Addrs
        /\ Outside(vmas[i]) /\ i' = i + 1 /\ pc = "loop"
        /\ UNCHANGED <<vmas, gap, lo, hi, pending, out, pc>>
    BY DEF IInv, TypeOK, SkipVma, input
  <1>2. PendingFollows'
    <2>1. CASE pending = NoRange
      BY <2>1, <1>1 DEF PendingFollows
    <2>2. CASE pending # NoRange
      <3>1. /\ i > 1 /\ lo <= pending.from /\ pending.from < pending.to /\ pending.to <= hi
            /\ pending \in Ranges
            /\ vmas[i - 1] \in Vmas /\ vmas[i - 1].end <= vmas[i].start
            /\ vmas[i - 1].start < vmas[i - 1].end /\ vmas[i].start < vmas[i].end
        BY <2>2, <1>1 DEF IInv, TypeOK, PendingFollows, WellFormed
      <3>2. vmas[i].start >= hi
        BY <3>1, <2>2, <1>1
           DEF IInv, PendingFollows, Outside, Clip, Vmas, Ranges, Addrs, ConstAssumption
      <3> QED BY <3>1, <3>2, <1>1 DEF PendingFollows
    <2> QED BY <2>1, <2>2
  <1>3. CoveredSoFar'
    <2>1. ASSUME NEW x \in Addrs, Mapped(x, vmas[i]), lo <= x, x < hi PROVE FALSE
      BY <2>1, <1>1 DEF Outside, Clip, Mapped, Vmas, Addrs, ConstAssumption
    <2>2. \A j \in 1 .. i : \A x \in Addrs :
            (Mapped(x, vmas[j]) /\ lo <= x /\ x < hi) => Covered(x, TypeOf(vmas[j]))
      BY <2>1, <1>1 DEF IInv, CoveredSoFar
    <2> QED BY <2>2, <1>1 DEF CoveredSoFar, Covered, TypeOf
  <1>4. PendingSolid'
    BY <1>1 DEF IInv, PendingSolid, Solid, Bridged, TypeOf
  <1>5. PendingIsNext'
    BY <1>1 DEF IInv, PendingIsNext, CanMerge, SaturatingAdd
  <1> QED BY <1>2, <1>3, <1>4, <1>5

\* The VMA at i becomes the pending range, the old one having been emitted.
LEMMA FreshKeeps ==
  ASSUME ConstAssumption, IInv, FirstVma \/ EmitPending
  PROVE  PendingFollows' /\ CoveredSoFar' /\ PendingIsNext'
  <1> DEFINE c == Clip(vmas[i])
  <1>1. /\ i \in 1 .. Len(vmas) /\ vmas[i] \in Vmas /\ lo \in Addrs /\ hi \in Addrs
        /\ AtVma /\ ~Outside(vmas[i]) /\ i' = i + 1 /\ pc = "loop" /\ pending' = c
        /\ UNCHANGED <<vmas, gap, lo, hi, pc>>
        /\ out \in Seq(Ranges) /\ pending \in Ranges \cup {NoRange}
    BY DEF IInv, TypeOK, FirstVma, EmitPending, AtVma, input
  <1>2. /\ lo <= c.from /\ c.from < c.to /\ c.to <= hi
        /\ \A x \in Addrs : (Mapped(x, vmas[i]) /\ lo <= x /\ x < hi) => In(x, c)
        /\ c.type = TypeOf(vmas[i]) /\ c \in Ranges /\ c # NoRange
    BY <1>1, ClipBounds, ClipType, NoRangeAssumption
  <1>3. PendingFollows'
    <2>1. vmas[i].end > lo
      BY <1>1 DEF Outside, Vmas, Addrs
    <2> QED BY <2>1, <1>1, <1>2 DEF PendingFollows, Clip, TypeOf
  <1>4. out' = (IF pending = NoRange THEN out ELSE Append(out, pending))
    BY DEF FirstVma, EmitPending
  <1>5. /\ \A k \in 1 .. Len(out) : k \in 1 .. Len(out') /\ out'[k] = out[k]
        /\ pending # NoRange => Len(out') \in 1 .. Len(out') /\ out'[Len(out')] = pending
                                /\ Len(out') = Len(out) + 1
        /\ pending = NoRange => out' = out
    BY <1>1, <1>4
  <1>6. CoveredSoFar'
    <2>1. ASSUME NEW j \in 1 .. i - 1, NEW x \in Addrs, Mapped(x, vmas[j]), lo <= x, x < hi
          PROVE  \E k \in 1 .. Len(out') : In(x, out'[k]) /\ out'[k].type = TypeOf(vmas[j])
      <3>1. Covered(x, TypeOf(vmas[j]))
        BY <2>1, <1>1 DEF IInv, CoveredSoFar
      <3> QED BY <3>1, <1>5 DEF Covered
    <2>2. \A j \in 1 .. i : \A x \in Addrs :
            (Mapped(x, vmas[j]) /\ lo <= x /\ x < hi) => Covered(x, TypeOf(vmas[j]))'
      <3> SUFFICES ASSUME NEW j \in 1 .. i, NEW x \in Addrs, Mapped(x, vmas[j]), lo <= x, x < hi
                   PROVE  Covered(x, TypeOf(vmas[j]))'
        OBVIOUS
      <3>1. CASE j = i
        BY <3>1, <1>1, <1>2 DEF Covered, TypeOf
      <3>2. CASE j # i
        BY <3>2, <2>1, <1>1 DEF Covered, TypeOf
      <3> QED BY <3>1, <3>2
    <2> QED BY <2>2, <1>1 DEF CoveredSoFar
  <1>7. PendingIsNext'
    <2>1. CASE pending = NoRange
      BY <2>1, <1>1, <1>2, <1>5 DEF IInv, PendingIsNext
    <2>2. CASE pending # NoRange
      <3>1. EmitPending /\ ~CanMerge(pending, c) /\ pending \in Ranges
        BY <2>2, <1>1 DEF FirstVma, EmitPending
      <3>2. pending.to <= c.from
        BY <2>2, <1>1, Neighbours
      <3>3. \A k \in 1 .. Len(out) : out[k].to <= c.from
        <4>1. \A k \in 1 .. Len(out) : out[k].to <= pending.from /\ out[k] \in Ranges
          BY <2>2, <1>1 DEF IInv, PendingIsNext
        <4>2. pending.from < pending.to
          BY <2>2, <1>1 DEF IInv, PendingFollows
        <4> QED BY <4>1, <4>2, <3>1, <3>2, <1>2 DEF Ranges, Addrs
      <3>4. \A k \in 1 .. Len(out') : out'[k].to <= c.from
        BY <3>2, <3>3, <2>2, <1>5
      <3>5. ~CanMerge(out'[Len(out')], c)
        BY <3>1, <1>5, <2>2
      <3> QED BY <3>4, <3>5, <1>1, <1>2 DEF PendingIsNext, CanMerge, SaturatingAdd
    <2> QED BY <2>1, <2>2
  <1> QED BY <1>3, <1>6, <1>7

\* The VMA at i joins the pending range.
LEMMA MergeKeeps ==
  ASSUME ConstAssumption, IInv, MergeVma
  PROVE  PendingFollows' /\ CoveredSoFar' /\ PendingIsNext'
  <1> DEFINE c == Clip(vmas[i])
  <1>1. /\ i \in 1 .. Len(vmas) /\ vmas[i] \in Vmas /\ lo \in Addrs /\ hi \in Addrs
        /\ AtVma /\ ~Outside(vmas[i]) /\ i' = i + 1 /\ pc = "loop"
        /\ pending # NoRange /\ pending' = [pending EXCEPT !.to = c.to]
        /\ CanMerge(pending, c) /\ pending \in Ranges
        /\ UNCHANGED <<vmas, gap, lo, hi, pc, out>>
    BY DEF IInv, TypeOK, MergeVma, AtVma, input
  <1>2. /\ lo <= c.from /\ c.from < c.to /\ c.to <= hi
        /\ \A x \in Addrs : (Mapped(x, vmas[i]) /\ lo <= x /\ x < hi) => In(x, c)
        /\ c.type = TypeOf(vmas[i]) /\ c \in Ranges
    BY <1>1, ClipBounds, ClipType
  <1>3. /\ pending'.from = pending.from /\ pending'.to = c.to /\ pending'.type = pending.type
        /\ pending' \in Ranges /\ pending' # NoRange
    BY <1>1, <1>2, NoRangeAssumption DEF Ranges
  <1>4. pending.to <= c.from /\ pending.from < pending.to /\ lo <= pending.from
    BY <1>1, Neighbours DEF IInv, PendingFollows
  <1>5. c.type = pending.type
    BY <1>1 DEF CanMerge
  <1>6. PendingFollows'
    <2>1. vmas[i].end > lo
      BY <1>1 DEF Outside, Vmas, Addrs
    <2>2. pending.from < c.to
      BY <1>1, <1>2, <1>4 DEF Ranges, Addrs
    <2> QED BY <2>1, <2>2, <1>1, <1>2, <1>3, <1>4, <1>5 DEF PendingFollows, Clip, TypeOf
  <1>7. CoveredSoFar'
    <2>1. \A x \in Addrs : In(x, pending) \/ In(x, c) => In(x, pending')
      BY <1>1, <1>2, <1>3, <1>4 DEF In, Ranges, Addrs
    <2>2. \A j \in 1 .. i : \A x \in Addrs :
            (Mapped(x, vmas[j]) /\ lo <= x /\ x < hi) => Covered(x, TypeOf(vmas[j]))'
      <3> SUFFICES ASSUME NEW j \in 1 .. i, NEW x \in Addrs, Mapped(x, vmas[j]), lo <= x, x < hi
                   PROVE  Covered(x, TypeOf(vmas[j]))'
        OBVIOUS
      <3>1. CASE j = i
        BY <3>1, <2>1, <1>1, <1>2, <1>3, <1>5 DEF Covered, TypeOf
      <3>2. CASE j # i
        <4>1. Covered(x, TypeOf(vmas[j]))
          BY <3>2, <1>1 DEF IInv, CoveredSoFar
        <4> QED BY <4>1, <2>1, <1>1, <1>3 DEF Covered, TypeOf
      <3> QED BY <3>1, <3>2
    <2> QED BY <2>2, <1>1 DEF CoveredSoFar
  <1>8. PendingIsNext'
    BY <1>1, <1>3 DEF IInv, PendingIsNext, CanMerge, SaturatingAdd
  <1> QED BY <1>6, <1>7, <1>8

\* After the loop everything owed is in the output.
LEMMA FlushComplete ==
  ASSUME ConstAssumption, IInv, Flush
  PROVE  NothingLost'
  <1>1. /\ UNCHANGED <<vmas, gap, lo, hi>> /\ pc = "loop" /\ i = Len(vmas) + 1
        /\ out' = (IF pending = NoRange THEN out ELSE Append(out, pending))
        /\ out \in Seq(Ranges) /\ pending \in Ranges \cup {NoRange} /\ vmas \in Seq(Vmas)
    BY DEF IInv, TypeOK, Flush, input
  <1>2. /\ \A k \in 1 .. Len(out) : k \in 1 .. Len(out') /\ out'[k] = out[k]
        /\ pending # NoRange => Len(out') \in 1 .. Len(out') /\ out'[Len(out')] = pending
    BY <1>1
  <1>3. ASSUME NEW j \in 1 .. Len(vmas), NEW x \in Addrs, Mapped(x, vmas[j]), lo <= x, x < hi
        PROVE  \E k \in 1 .. Len(out') : In(x, out'[k]) /\ out'[k].type = TypeOf(vmas[j])
    <2>1. Covered(x, TypeOf(vmas[j]))
      BY <1>3, <1>1 DEF IInv, CoveredSoFar
    <2> QED BY <2>1, <1>2 DEF Covered
  <1> QED BY <1>1, <1>3 DEF NothingLost, TypeOf


\* Every step preserves the invariant.
LEMMA NextHolds ==
  ASSUME ConstAssumption, IInv, [Next]_vars
  PROVE  IInv'
  <1>1. CASE UNCHANGED vars
    BY <1>1 DEF vars, IInv, TypeOK, WellFormed, PendingFollows, CoveredSoFar, Covered,
                PendingSolid, Solid, PendingIsNext, OnlySmallGaps, RangesInOrder, NothingLost,
                Bridged, CanMerge, SaturatingAdd, Clip, TypeOf
  <1>2. CASE Next
    <2>1. TypeOK' /\ WellFormed(vmas)'
      BY <1>2, TypeStep
    <2>2. ASSUME UNCHANGED <<vmas, gap, lo, hi, out, pc>> , pc = "loop"
          PROVE  OnlySmallGaps' /\ RangesInOrder' /\ NothingLost'
      BY <2>2 DEF IInv, OnlySmallGaps, RangesInOrder, NothingLost, Bridged, CanMerge,
                  SaturatingAdd
    <2>3. CASE SkipVma
      BY <2>1, <2>2, <2>3, SkipKeeps DEF IInv, SkipVma, input
    <2>4. CASE FirstVma
      <3>1. PendingSolid'
        BY <2>4, FreshSolid DEF FirstVma, input
      <3> QED
        BY <2>1, <2>2, <2>4, <3>1, FreshKeeps DEF IInv, FirstVma, AtVma, input
    <2>5. CASE MergeVma
      BY <2>1, <2>2, <2>5, MergeKeeps, MergeSolid DEF IInv, MergeVma, AtVma, input
    <2>6. CASE EmitPending
      <3>1. PendingSolid'
        BY <2>6, FreshSolid DEF EmitPending, input
      <3>2. OnlySmallGaps' /\ RangesInOrder'
        BY <2>6, EmitKeepsOutput DEF EmitPending, AtVma
      <3>3. NothingLost'
        BY <2>6 DEF EmitPending, AtVma, NothingLost
      <3> QED BY <2>1, <2>6, <3>1, <3>2, <3>3, FreshKeeps DEF IInv
    <2>7. CASE Declined
      <3>1. OnlySmallGaps' /\ RangesInOrder'
        BY <2>7, EmitKeepsOutput DEF Declined, AtVma
      <3>2. PendingSolid' /\ PendingIsNext'
        BY <2>7 DEF IInv, Declined, AtVma, input, PendingSolid, Solid, Bridged, PendingIsNext,
                    TypeOf
      <3>3. PendingFollows' /\ CoveredSoFar' /\ NothingLost'
        BY <2>7 DEF Declined, PendingFollows, CoveredSoFar, NothingLost
      <3> QED BY <2>1, <3>1, <3>2, <3>3 DEF IInv
    <2>8. CASE Flush
      <3>1. OnlySmallGaps' /\ RangesInOrder'
        <4>1. CASE pending = NoRange
          BY <4>1, <2>8 DEF IInv, Flush, input, OnlySmallGaps, RangesInOrder, Bridged, CanMerge,
                            SaturatingAdd
        <4>2. CASE pending # NoRange
          BY <4>2, <2>8, EmitKeepsOutput DEF Flush
        <4> QED BY <4>1, <4>2
      <3>2. PendingSolid' /\ PendingIsNext'
        BY <2>8 DEF IInv, Flush, input, PendingSolid, Solid, Bridged, PendingIsNext, TypeOf
      <3>3. PendingFollows' /\ CoveredSoFar'
        BY <2>8 DEF Flush, PendingFollows, CoveredSoFar
      <3> QED BY <2>1, <2>8, <3>1, <3>2, <3>3, FlushComplete DEF IInv
    <2> QED BY <1>2, <2>3, <2>4, <2>5, <2>6, <2>7, <2>8 DEF Next
  <1> QED BY <1>1, <1>2

\* The strengthened invariant holds in every reachable state of emit_vma_ranges' loop.
THEOREM Inductive == Spec => []IInv
  <1>1. Init => IInv
    BY InitHolds, ConstAssumption
  <1>2. IInv /\ [Next]_vars => IInv'
    BY NextHolds, ConstAssumption
  <1> QED BY <1>1, <1>2, PTL DEF Spec

\* mapped_mem_range misses no mapped byte of the window.
THEOREM MapIsComplete == Spec => []NothingLost
  <1>1. IInv => NothingLost
    BY DEF IInv
  <1> QED BY <1>1, Inductive, PTL

\* mapped_mem_range reports nothing unmapped but gaps the caller allowed.
THEOREM MapIsSound == Spec => []OnlySmallGaps
  <1>1. IInv => OnlySmallGaps
    BY DEF IInv
  <1> QED BY <1>1, Inductive, PTL

\* The ranges come in order, apart, inside the window and merged as far as gap_size allows.
THEOREM MapIsOrdered == Spec => []RangesInOrder
  <1>1. IInv => RangesInOrder
    BY DEF IInv
  <1> QED BY <1>1, Inductive, PTL
============================================================================
