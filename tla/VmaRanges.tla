------------------------------ MODULE VmaRanges ------------------------------
(***************************************************************************)
(* emit_vma_ranges: the loop behind mapped_mem_range that turns the VMAs   *)
(* of a process into memory ranges for the caller, clipped to the window   *)
(* the caller asked for and merged over gaps of at most gap_size bytes.    *)
(* The caller's callback may end the enumeration at any range.             *)
(***************************************************************************)
EXTENDS Integers, Sequences

CONSTANTS
  MaxAddr,    \* u64::MAX, where saturating_add stops
  GapSizes,   \* values of gap_size, an imem: it may be negative
  FlagSets,   \* sets of vm_flags bits, of "VM_READ", "VM_WRITE", "VM_EXEC"
  MaxVmas,    \* bound on the number of VMAs
  NoRange     \* no pending range

ASSUME ConstAssumption ==
  /\ MaxAddr \in Nat
  /\ GapSizes \subseteq Int
  /\ MaxVmas \in Nat

Addrs == 0 .. MaxAddr

\* linux_vma_page_type
PageTypes == [access : {"writeable", "readonly", "unknown"}, noexec : BOOLEAN]
linux_vma_page_type(flags) ==
  [access |-> IF "VM_WRITE" \in flags THEN "writeable"
              ELSE IF "VM_READ" \in flags THEN "readonly" ELSE "unknown",
   noexec |-> "VM_EXEC" \notin flags]

Vmas == [start : Addrs, end : Addrs, flags : FlagSets]
Ranges == [from : Addrs, to : Addrs, type : PageTypes]
ASSUME NoRangeAssumption == NoRange \notin Ranges

VARIABLES
  vmas,     \* the cached VMAs, in address order
  gap,      \* gap_size
  lo, hi,   \* the caller's window
  i,        \* the VMA the loop is at
  pending,  \* the range that may still grow
  out,      \* ranges handed to the callback
  pc

input == <<vmas, gap, lo, hi>>
vars == <<vmas, gap, lo, hi, i, pending, out, pc>>

\* What read_vma_info lets through, and the kernel's own invariant on a process' VMAs.
WellFormed(vs) ==
  /\ \A j \in 1 .. Len(vs) : 0 < vs[j].start /\ vs[j].start < vs[j].end
  /\ \A j, k \in 1 .. Len(vs) : j < k => vs[j].end <= vs[k].start

Init ==
  /\ vmas \in UNION {[1 .. n -> Vmas] : n \in 0 .. MaxVmas}
  /\ WellFormed(vmas)
  /\ gap \in GapSizes
  /\ lo \in Addrs /\ hi \in Addrs
  /\ i = 1
  /\ pending = NoRange
  /\ out = <<>>
  /\ pc = "loop"

SaturatingAdd(a, b) == IF a + b > MaxAddr THEN MaxAddr ELSE a + b

\* The part of a VMA inside the window, and whether there is one.
Unclipped(v) == [from |-> v.start, to |-> v.end, type |-> linux_vma_page_type(v.flags)]
Clip(v) ==
  [from |-> IF v.start < lo THEN lo ELSE v.start,
   to |-> IF v.end > hi THEN hi ELSE v.end,
   type |-> linux_vma_page_type(v.flags)]
Outside(v) ==
  \/ v.end <= lo
  \/ v.start >= hi
  \/ Clip(v).to <= Clip(v).from

MergeAnyType(p, r) == gap >= 0 /\ SaturatingAdd(p.to, gap) >= r.from
CanMerge(p, r) ==
  /\ gap >= 0
  /\ p.type = r.type
  /\ SaturatingAdd(p.to, gap) >= r.from

\* The iteration has a VMA with a part in the window.
AtVma == pc = "loop" /\ i <= Len(vmas) /\ ~Outside(vmas[i])

SkipVma ==
  /\ pc = "loop"
  /\ i <= Len(vmas)
  /\ Outside(vmas[i])
  /\ i' = i + 1
  /\ UNCHANGED <<input, pending, out, pc>>

FirstVma ==
  /\ AtVma
  /\ pending = NoRange
  /\ pending' = Clip(vmas[i])
  /\ i' = i + 1
  /\ UNCHANGED <<input, out, pc>>

MergeVma ==
  /\ AtVma
  /\ pending # NoRange
  /\ CanMerge(pending, Clip(vmas[i]))
  /\ pending' = [pending EXCEPT !.to = Clip(vmas[i]).to]
  /\ i' = i + 1
  /\ UNCHANGED <<input, out, pc>>

\* The pending range is complete; the callback wants more.
EmitPending ==
  /\ AtVma
  /\ pending # NoRange
  /\ ~CanMerge(pending, Clip(vmas[i]))
  /\ out' = Append(out, pending)
  /\ pending' = Clip(vmas[i])
  /\ i' = i + 1
  /\ UNCHANGED <<input, pc>>

\* The same, but the callback returns false: emit_vma_ranges returns.
Declined ==
  /\ AtVma
  /\ pending # NoRange
  /\ ~CanMerge(pending, Clip(vmas[i]))
  /\ out' = Append(out, pending)
  /\ pc' = "stopped"
  /\ UNCHANGED <<input, i, pending>>

ForgetLast ==
  /\ pc = "loop"
  /\ i > Len(vmas)
  /\ pc' = "done"
  /\ UNCHANGED <<input, i, pending, out>>
\* After the loop the last pending range is emitted.
Flush ==
  /\ pc = "loop"
  /\ i > Len(vmas)
  /\ out' = IF pending = NoRange THEN out ELSE Append(out, pending)
  /\ pc' = "done"
  /\ UNCHANGED <<input, i, pending>>

Next == SkipVma \/ FirstVma \/ MergeVma \/ EmitPending \/ Declined \/ Flush
Spec == Init /\ [][Next]_vars

----------------------------------------------------------------------------
(* Properties *)

\* Type correctness.
TypeOK ==
  /\ vmas \in Seq(Vmas)
  /\ gap \in GapSizes
  /\ lo \in Addrs /\ hi \in Addrs
  /\ i \in 1 .. Len(vmas) + 1
  /\ pending \in Ranges \cup {NoRange}
  /\ out \in Seq(Ranges)
  /\ pc \in {"loop", "done", "stopped"}

In(x, r) == r.from <= x /\ x < r.to
Mapped(x, v) == v.start <= x /\ x < v.end

(***************************************************************************)
(* Every byte of the window that some VMA maps is in a range that carries  *)
(* the page type of that VMA, unless the caller stopped the enumeration.   *)
(***************************************************************************)
NothingLost ==
  pc = "done" =>
    \A j \in 1 .. Len(vmas) : \A x \in Addrs :
      (Mapped(x, vmas[j]) /\ lo <= x /\ x < hi) =>
        \E k \in 1 .. Len(out) :
          In(x, out[k]) /\ out[k].type = linux_vma_page_type(vmas[j].flags)

(***************************************************************************)
(* A range holds nothing but the bytes of VMAs of its type and gaps of at  *)
(* most gap_size bytes with such a VMA on either side: no gap at all is    *)
(* bridged when gap_size is zero or negative, none over a VMA of another   *)
(* type.                                                                   *)
(***************************************************************************)
Bridged(x, type) ==
  \E j \in 1 .. Len(vmas) - 1 :
    /\ vmas[j].end <= x /\ x < vmas[j + 1].start
    /\ vmas[j + 1].start - vmas[j].end <= gap
    /\ linux_vma_page_type(vmas[j].flags) = type
    /\ linux_vma_page_type(vmas[j + 1].flags) = type
OnlySmallGaps ==
  \A k \in 1 .. Len(out) : \A x \in Addrs :
    In(x, out[k]) =>
      \/ \E j \in 1 .. Len(vmas) :
           Mapped(x, vmas[j]) /\ linux_vma_page_type(vmas[j].flags) = out[k].type
      \/ Bridged(x, out[k].type)

(***************************************************************************)
(* The callback sees non-empty ranges inside the window, in ascending      *)
(* order and without overlap, and two neighbours that could have been one  *)
(* range have been merged.                                                 *)
(***************************************************************************)
RangesInOrder ==
  /\ \A k \in 1 .. Len(out) : lo <= out[k].from /\ out[k].from < out[k].to /\ out[k].to <= hi
  /\ \A j, k \in 1 .. Len(out) : j < k => out[j].to <= out[k].from
  /\ \A k \in 1 .. Len(out) - 1 : ~CanMerge(out[k], out[k + 1])
============================================================================
