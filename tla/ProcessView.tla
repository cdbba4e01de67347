----------------------------- MODULE ProcessView -----------------------------
(***************************************************************************)
(* LinuxProcess: one process of the target as its owner sees it through    *)
(* two lazily filled caches, the VMAs and the ELF modules made of them.    *)
(* The target may run and change its mappings between calls; set_dtb       *)
(* repoints the view; walks of kernel memory may fail or be cut short.     *)
(*                                                                         *)
(* A mapping is a VMA as read_vma_info reads it, with "elf" for the four   *)
(* magic bytes at its start.  VMAs do not overlap, so a set of them has an *)
(* order of its own.  Paths and names are left out.                        *)
(***************************************************************************)
EXTENDS Integers, FiniteSetsExt, SequencesExt

CONSTANTS
  Maps,       \* the sets of mappings the process may have
  Procs,      \* process_info records: mm, exe_file, start_code, end_code
  Walkers,    \* which VMA walks the profile allows: sets of "maple", "mmap"
  Dtbs,       \* values for set_dtb: "own", "other" (process), "bad" (maps nothing)
  MergeGap,   \* MAX_MODULE_MERGE_GAP
  Page,       \* 4 KiB
  NoFile, None, Err

Vma == [start : Nat, end : Nat, file : Nat \cup {NoFile}, elf : BOOLEAN]
Module == [base : Nat, end : Nat, file : Nat]

\* read_vma_info: a vm_file that cannot be read leaves a VMA without a file.
WithoutFile(v) == [v EXCEPT !.file = NoFile]
FilesLost(vs) == {(vs \ lost) \cup {WithoutFile(v) : v \in lost} : lost \in SUBSET vs}

ASSUME ConstAssumption ==
  /\ MergeGap \in Nat /\ Page \in Nat \ {0} /\ NoFile \notin Nat
  /\ None # Err /\ None \notin Seq(Module)
  /\ \A m \in Maps :
       /\ m \subseteq Vma
       /\ \A v \in m : v.start < v.end
       /\ \A v, w \in m : v = w \/ v.end <= w.start \/ w.end <= v.start
       /\ \A kept \in SUBSET m : None \notin FilesLost(kept) /\ Err \notin FilesLost(kept)

VARIABLES
  proc,            \* proc_info
  walkers,         \* what the profile's offsets allow
  maps,            \* the mappings the process has now
  dtb,
  cached_vmas,
  cached_modules,
  told,            \* history: module addresses told to the owner since set_dtb
  op,              \* the operation that waits for module_cache, or "none"
  unread,          \* collect_modules: file-backed VMAs whose first bytes are still to be read
  seeds,           \* the seeds that are still to be merged
  found            \* the modules so far, in the order of their creation

caches == <<cached_vmas, cached_modules>>
locals == <<unread, seeds, found>>
target == <<proc, walkers, maps, dtb>>
vars == <<target, caches, told, op, locals>>

Init ==
  /\ proc \in Procs
  /\ walkers \in Walkers
  /\ maps \in Maps
  /\ dtb = "own"
  /\ cached_vmas = None /\ cached_modules = None
  /\ told = {}
  /\ op = "none" /\ unread = {} /\ seeds = {} /\ found = <<>>

----------------------------------------------------------------------------
(* Walking the VMAs *)

(***************************************************************************)
(* collect_vmas_maple, sorted: a meta_end that cannot be read drops slots  *)
(* of a node anywhere in the tree, any other failed read is an error.      *)
(***************************************************************************)
collect_vmas_maple ==
  IF dtb = "bad" THEN {Err} ELSE {Err} \cup UNION {FilesLost(kept) : kept \in SUBSET maps}

\* The first VMAs in address order, however many.
Beginnings == {kept \in SUBSET maps : \A v \in kept, w \in maps : w.start < v.start => w \in kept}

\* collect_vmas_mmap: an unreadable head or link ends the list, an unreadable VMA is an error.
collect_vmas_mmap ==
  IF dtb = "bad" THEN {{}} ELSE {Err} \cup UNION {FilesLost(kept) : kept \in Beginnings}

\* collect_vmas: the maple tree, the list if that fails or finds nothing.
collect_vmas ==
  IF ~proc.mm THEN {{}}
  ELSE LET tree == IF "maple" \in walkers THEN collect_vmas_maple ELSE {{}}
           list == IF "mmap" \in walkers THEN collect_vmas_mmap ELSE {{}}
       IN  (tree \ {Err, {}}) \cup IF tree \cap {Err, {}} # {} THEN list ELSE {}

\* vma_cache: what a call may return; only a success is kept.
vma_cache == IF cached_vmas = None THEN collect_vmas ELSE {cached_vmas}
KeepVmas(r) == cached_vmas' = IF r = Err THEN None ELSE r

----------------------------------------------------------------------------
(* Modules *)

(***************************************************************************)
(* is_elf_image, at the time of the call: the VMAs may be older than the   *)
(* pages, and another process' page table shows other pages.               *)
(***************************************************************************)
is_elf_image(start) == dtb = "own" /\ \E m \in maps : m.start = start /\ m.elf

FileBacked(vs) == {v \in vs : v.file # NoFile /\ v.end > v.start}

\* The loop of collect_modules: a header that cannot be read counts as none.
ReadHeader ==
  /\ op # "none"
  /\ \E v \in unread :
       /\ \A w \in unread : v.start <= w.start
       /\ unread' = unread \ {v}
       /\ \E elf \in {FALSE, is_elf_image(v.start)} : seeds' = seeds \cup {[v EXCEPT !.elf = elf]}
  /\ UNCHANGED <<target, caches, told, op, found>>

\* The order in which seeds are merged: by file, then by start.
SeedBefore(s, t) == s.file < t.file \/ (s.file = t.file /\ s.start < t.start)

NoGap(ms, s) == {k \in DOMAIN ms : ms[k].file = s.file /\ s.start <= ms[k].end}
\* The modules seed s may join.
Joinable(ms, s) ==
  {k \in DOMAIN ms : ms[k].file = s.file /\ s.start <= ms[k].end + MergeGap}

\* The module m, with seed s merged into it.
Joined(m, s) ==
  [base |-> Min({m.base, s.start}), end |-> Max({m.end, s.end}), file |-> m.file]
AddSeed(ms, s) ==
  IF Joinable(ms, s) # {}
  THEN [ms EXCEPT ![Max(Joinable(ms, s))] = Joined(@, s)]
  ELSE IF s.elf THEN Append(ms, [base |-> s.start, end |-> s.end, file |-> s.file]) ELSE ms

\* One iteration of aggregate_module_seeds.
MergeSeed ==
  /\ op # "none" /\ unread = {}
  /\ \E s \in seeds :
       /\ \A t \in seeds : s = t \/ SeedBefore(s, t)
       /\ seeds' = seeds \ {s}
       /\ found' = AddSeed(found, s)
  /\ UNCHANGED <<target, caches, told, op, unread>>

\* sort_by_key on the base, which keeps the order of equal keys.
SortedByBase(ms) ==
  {[k \in DOMAIN ms |-> ms[p[k]]]
     : p \in {q \in Bijection(DOMAIN ms, DOMAIN ms) :
                \A j, k \in DOMAIN ms :
                  j < k => \/ ms[q[j]].base < ms[q[k]].base
                           \/ ms[q[j]].base = ms[q[k]].base /\ q[j] < q[k]}}

\* module_fallback: the address of the synthetic module, in a set.
module_fallback ==
  IF proc.start_code = 0 \/ proc.end_code <= proc.start_code THEN {}
  ELSE {proc.start_code - (proc.start_code % Page)}

Bases(ms) == {m.base : m \in ToSet(ms)}
FallbackLast(ms, a) == a \in Bases(ms) \/ (ms = <<>> /\ a \in module_fallback)
\* module_by_address finds a, given the modules.
Resolves(ms, a) == a \in Bases(ms) \/ a \in module_fallback

\* primary_module_info's choice among modules ms; {} when there is none.
primary_module_info(ms) ==
  LET exe == {k \in DOMAIN ms : ms[k].file = proc.exe_file}
      code == {k \in DOMAIN ms : ms[k].base <= proc.start_code /\ proc.start_code < ms[k].end}
  IN  IF ms = <<>> THEN module_fallback
      ELSE IF proc.exe_file # NoFile /\ exe # {} THEN {ms[Min(exe)].base}
      ELSE IF code # {} THEN {ms[Min(code)].base} ELSE {ms[1].base}

----------------------------------------------------------------------------
(* The operations.  Given the modules, or None if module_cache failed, what is told. *)

(***************************************************************************)
(* module_address_list_callback: the modules, as many as the callback      *)
(* takes; the fallback if there is none.                                   *)
(***************************************************************************)
module_address_list_callback(ms) ==
  \/ ms = None /\ UNCHANGED told
  \/ /\ ms # None
     /\ \E n \in 0 .. Len(ms) :
          told' = told \cup {ms[k].base : k \in 1 .. n}
                       \cup (IF ms = <<>> THEN module_fallback ELSE {})

\* module_by_address has no effect but on the caches.
module_by_address(ms) == UNCHANGED told

\* primary_module_address falls back also when the VMA walk failed.
primary_module_address(ms) ==
  told' = told \cup IF ms = None THEN module_fallback ELSE primary_module_info(ms)

Answer(o, ms) ==
  \/ o = "list" /\ module_address_list_callback(ms)
  \/ o = "by_address" /\ module_by_address(ms)
  \/ o = "primary" /\ primary_module_address(ms)

(***************************************************************************)
(* An operation calls module_cache: the modules are cached, or the VMA     *)
(* walk fails, or collect_modules begins.                                  *)
(***************************************************************************)
Call(o) ==
  /\ op = "none"
  /\ \/ /\ cached_modules # None
        /\ Answer(o, cached_modules)
        /\ UNCHANGED <<caches, op, locals>>
     \/ /\ cached_modules = None
        /\ \E r \in vma_cache :
             /\ KeepVmas(r)
             /\ \/ r = Err /\ Answer(o, None) /\ UNCHANGED <<op, locals>>
                \/ /\ r # Err
                   /\ op' = o /\ unread' = FileBacked(r) /\ seeds' = {} /\ found' = <<>>
                   /\ UNCHANGED told
        /\ UNCHANGED cached_modules
  /\ UNCHANGED target

\* collect_modules is done: the modules are cached and the operation goes on.
ModulesReady ==
  /\ op # "none" /\ unread = {} /\ seeds = {}
  /\ cached_modules' \in SortedByBase(found)
  /\ Answer(op, cached_modules')
  /\ op' = "none" /\ found' = <<>>
  /\ UNCHANGED <<target, cached_vmas, unread, seeds>>

\* mapped_mem_range uses the VMAs only.
mapped_mem_range ==
  /\ op = "none"
  /\ \E r \in vma_cache : KeepVmas(r)
  /\ UNCHANGED <<target, cached_modules, told, op, locals>>

KeepModules(d) ==
  /\ op = "none"
  /\ dtb' = d
  /\ cached_vmas' = None
  /\ told' = {}
  /\ UNCHANGED <<proc, walkers, maps, cached_modules, op, locals>>
set_dtb(d) ==
  /\ op = "none"
  /\ dtb' = d
  /\ cached_vmas' = None /\ cached_modules' = None
  /\ told' = {}
  /\ UNCHANGED <<proc, walkers, maps, op, locals>>

\* The process maps or unmaps something, also while its pages are read.
Mutate ==
  /\ op = "none" \/ unread # {}
  /\ maps' \in Maps
  /\ UNCHANGED <<proc, walkers, dtb, caches, told, op, locals>>

Next ==
  \/ Mutate \/ (\E d \in Dtbs : set_dtb(d)) \/ mapped_mem_range
  \/ (\E o \in {"list", "by_address", "primary"} : Call(o))
  \/ ReadHeader \/ MergeSeed \/ ModulesReady

Spec == Init /\ [][Next]_vars

----------------------------------------------------------------------------
(* Properties *)

(***************************************************************************)
(* The two caches always show one view: every cached module spans cached   *)
(* VMAs of its file, starts with one and ends with one.  No module         *)
(* survives a change of the page table or a new VMA walk.                  *)
(***************************************************************************)
OneView ==
  cached_modules # None =>
    /\ cached_vmas # None
    /\ \A m \in ToSet(cached_modules) :
         \E v, w \in cached_vmas :
           v.file = m.file /\ w.file = m.file /\ v.start = m.base /\ w.end = m.end

(***************************************************************************)
(* An address that an enumeration or primary_module_address has told the   *)
(* owner is one module_by_address finds, until set_dtb: also the address   *)
(* of the fallback told while the VMA walk was failing, after modules have *)
(* been found.                                                             *)
(***************************************************************************)
ToldResolves == cached_modules # None => \A a \in told : Resolves(cached_modules, a)

(***************************************************************************)
(* Modules are whole: two modules of one file are more than the merge gap  *)
(* apart, no file-backed VMA of the view reaches into the gap behind a     *)
(* module of its file without being part of it, and every gap inside a     *)
(* module is at most the merge gap.                                        *)
(***************************************************************************)
VmasOf(f) == {v \in cached_vmas : v.file = f}
ModulesWhole ==
  cached_modules # None =>
    \A m \in ToSet(cached_modules) :
      /\ \A n \in ToSet(cached_modules) :
           (n.file = m.file /\ m.base < n.base) => m.end + MergeGap < n.base
      /\ \A v \in VmasOf(m.file) :
           (m.base <= v.start /\ v.start <= m.end + MergeGap) => v.end <= m.end
      /\ \A v \in VmasOf(m.file) : (m.base < v.start /\ v.start < m.end) =>
           \E u \in VmasOf(m.file) :
             m.base <= u.start /\ u.start < v.start /\ v.start <= u.end + MergeGap
============================================================================
