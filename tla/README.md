# A TLA+ model of memflow-linux

memflow-linux gives memflow a view of a Linux guest or memory image: it finds the
kernel in physical memory with the help of a *defs* file (structure offsets,
symbols and banner of one kernel build), then lists processes, kernel modules,
VMAs and user modules by reading kernel structures. Nothing it reads is locked:
the target may be running, the image may be torn, and every read may fail.

All paths below are relative to `src/`. Modules are run with
`tlc -config X.cfg M` and `tlapm M.tla`.

## 1. Inventory

| Component | Code | State | Operations | Hard part |
|---|---|---|---|---|
| Bootstrap | `memflow-linux/src/kernel.rs` 160-533, 1216-1756 | candidate list, current profile, hints | `build`, candidate resolution, eight discovery strategies, banner validation | strategies and candidates fail independently; a wrong profile must not be selected |
| Hint cache | `memflow-linux/src/cache.rs` | one file per memory fingerprint | prepare, load, store | unlocked, rewritten in place, crash in the middle, stale contents |
| Memory scans | `kernel.rs` 1428-1543 | chunk base, buffer | banner scan, task scan | chunk boundaries, partial reads |
| Version discovery | `memflow-linux/src/discover.rs` | chunk base, versions seen | `discover_kernel_versions` | chunk boundaries, unreadable windows |
| Enumeration | `kernel.rs` 630-1179 | list position; caches of kallsyms, kernel size and modules | task and module list walks, process info, module lookup, exports | target unlinks and reuses entries under the walk; cycles; caches filled by a call that lost reads |
| VMA walks | `memflow-linux/src/process.rs` 336-722 | recursion, collected VMAs | maple-tree walk, `vm_next` list | node formats, torn trees, silent losses |
| Process view | `process.rs` 129-475, 784-902, 963-1032 | two lazy caches, page table | module list and lookup, primary module, `set_dtb` | caches of different age; fallback addresses |
| Memory ranges | `process.rs` 726-776 | pending range | `emit_vma_ranges` | clipping, merging at the gap, callbacks that stop |
| Paths and strings | `memflow-linux/src/util.rs`, `process.rs` 212-238, 904-961 | none | `read_path`, argv, environment | depth limits, mount cycles, offsets after lossy decoding |
| kallsyms | `memflow-linux/src/kallsyms.rs` | iterator position | layout recovery, symbol iteration | two layouts told apart by plausibility |
| Generic x64 scan | `memflow-linux/src/kernel/x64.rs`, `sig.rs` | none | instruction signatures | data matching |
| Defs generation | `memflow-linux-defs/src/{vmlinux,defs}.rs` | type tables | ELF, DWARF and BTF readers, type resolver | anonymous and equal-named types, order of resolution |
| Plug-in entry | `memflow-linux/src/plugins.rs` | none | argument parsing | none |

Interactions: `build` runs in the caller's thread, calls the cache before and
after discovery, and hands profile, slide and page table to `LinuxKernel`, which
makes `LinuxProcess` objects. A process object reads its VMAs once (VMA walks),
derives modules from them (process view) and reports ranges (memory ranges).
The only state shared between threads or processes of this program is the cache
directory. The only other actor is the target. A `LinuxKernel` hands out paths
(`read_path`), exports (kallsyms) and environment variables, each behind a cache or
a limit. Defs files are made beforehand from a vmlinux, by a resolver that walks
its BTF or DWARF types.

What makes each part correct: the selected profile is that of the kernel in
memory and no usable profile is missed; the cache changes cost, never the
outcome; scans skip and repeat nothing; list walks report every entry that stays
and none that never was; VMAs come whole and in order; caches of one process
object show one view; ranges cover what is mapped and nothing else; paths,
symbols, variables and modules are true or cut short, never made up; defs say what
the vmlinux says; everything ends.

`PROJECT.json` lists the hazards behind these statements line by line.

## 2. Modules

| Module | Models | Composition |
|---|---|---|
| `Bootstrap` | `LinuxKernelBuilder::build` with the hint cache, several concurrent builders, crashes | implements `BuildPromise` |
| `BuildPromise` | what a caller of `build` may rely on | abstract |
| `ChunkScan` | chunk loops of the banner and task scans | its outcome is a strategy of `Bootstrap` |
| `VersionScan` | `discover_kernel_versions` | |
| `ListWalk` | task and module list walks, read by read, against a running or torn kernel | its outcome is a call of `KernelView` |
| `VmaWalk` | `collect_vmas`: maple tree, list, fallback | its `ViewContract` is what `ProcessView` assumes |
| `ProcessView` | `LinuxProcess` and its caches | its VMAs come from `VmaWalk`, its ranges from `VmaRanges` |
| `VmaRanges` | `emit_vma_ranges` | |
| `PathWalk` | `read_path` over dentries, mounts and roots | operators of `KernelView` |
| `Kallsyms` | recovery of the symbol tables, the iterator over compressed names | operators of `KernelView` |
| `EnvBlock` | argument and environment strings | operators of `KernelView` |
| `KernelView` | `LinuxKernel` and its three caches, with failing reads | extends the three above |
| `RawDefs` | `LinuxDefs::from_raw`: required and optional fields, nested lookup | operators of `Vmlinux` |
| `Vmlinux` | `load_vmlinux`: ELF symbols, BTF and DWARF resolvers, the fallback | extends `RawDefs` |
| `*Proofs` | theorems, see section 5 | extend the module they are about |
| `MC*` | constants of the runs | |

Operators keep the names of the functions they translate (`load_kernel_hint`,
`collect_vmas_maple`, `walk_maple_entry`, ...); the others are named for their
idea, and `PROJECT.json` maps each one to its lines. A few operators placed
directly above another one, with its parameters, are mutants: plausible mistakes
in that code which the named property of the run must reject.

**Bootstrap.** One record per builder: where it is (`pc`), its image and
configuration, the cached hint, the candidates left, the current profile, the
next strategy. `Start` and `LoadHint` are `KernelHintCache::prepare` and
`load_kernel_hint`; `resolve_profile_candidates` becomes the set `Candidates` taken
in path order, since `dedup_paths` sorts it; a profile is loaded, discovered by
the eight strategies in the order of `discover_kernel`, checked (5-level paging,
slide, banner) and selected or rejected. Storing is two steps, truncation and a
write that may end after any line, because `fs::write` is not atomic; a parser
of the five lines decides what a torn file means. A write cut short hits an emptied
file: the model leaves out one over the whole entry of another builder, when both had
opened the file before either wrote, which could mix digits of two hints. `Crash` may hit between any two
steps. An image is abstracted to what the bootstrap can observe of it, a defs
file to its layout, banner and whether it loads.

**ChunkScan, VersionScan.** Memory is a set of positions where the pattern
occurs plus a set of unreadable bytes. `data_part` lets partial reads pass, so the
buffer keeps stale bytes in holes, which may complete spurious matches; these
are chosen freely. `VersionScan` instead drops a window with any failed read, as
the code does there; a chunk is searched in one step (`SearchChunk`) and its matches
are then reported one by one from `pending`.

**ListWalk.** The kernel (`Link`, `Unlink`, `Form`) and the walk interleave at
every read. Worlds: *quiet* (no address is linked a second time during the
walk), *churn* (it may be), *torn* (a snapshot with arbitrary links). Two things are
coarser than the code's view of a target: `pid` and `tgid` are read in one step, and an
unlinked entry keeps its contents until it is linked again, where the kernel may free
and overwrite it.

**VmaWalk.** The recursion is an explicit stack; a step is one iteration of a
node's loop. A collected VMA is kept with the bounds that were read of it, as in the
code. In the *torn* world every read of a slot, pivot or link returns any value, and
every read of a VMA any of `TornBounds`, so that one VMA read twice may differ. In the *stable* world trees are those the kernel builds: `KernelBuilt` says of
every node, with the help of an annotation `tree` the code does not see, which indices
it covers, where its last slot is, how pivots and `meta_end` encode that, and that
every VMA is below one slot only. `sort` and `dedup_by_key` are relations (`SortVmas`,
`DedupVmas`: the set of sequences they may return, which has one member).

**ProcessView.** Calls of one `LinuxProcess` in any order, while the target
remaps and `set_dtb` switches the page table. Walks may fail or be cut as
`VmaWalk` allows. A view is the set of its VMAs. `collect_modules` goes step by step:
it reads the header of one file after the other (`ReadHeader`), merges the seeds
(`MergeSeed`) and fills the cache (`ModulesReady`), and the target may remap between the
reads. **VmaRanges.** The loop with its pending range; the callback
may decline any range.

**KernelView.** Calls of one `LinuxKernel` in any order, while the target loads and
unloads modules. A call is one step; what can differ inside it is which of its
reads fails, chosen per call as the set `bad`. `kallsyms`, `size` and
`cached_modules` are filled by the first call that needs them and never dropped, so
a read that fails then is remembered in the history variable `lost`. A
`LinuxProcess` borrows the kernel (a mutable borrow in Rust), so kernel calls wait
for `DropProcess`. `PathWalk`, `Kallsyms` and `EnvBlock` are the pure parts; each comes
with a reference definition, from the kernel's side, of what they should return.

**Vmlinux.** A section is a graph of type records that parses or does not. The
resolver's tables (`type_names`, `used_names`, `user_types`, `enums`) are variables
and the recursion of `ensure_user_type` is `stack`, one member of one type per step.
A BTF resolver that gives up leaves nothing behind: DWARF starts again. Names are text:
the constants `Suffixed`, `Nameless` and `AnonField` are the three `format!`s that invent
one, of which the model assumes that the numbers in them tell them apart
(`NumbersTellApart`) and nothing about the names of the file. `ensure_type_name` does not
look a made-up name up in `used_names`, so it may be the own name of another type; the
two then share one entry. `NoClash` says of a file that none of its own names is one a
resolver invents. `RawDefs`
then looks the defs' fields up by name, through anonymous members to `MaxNesting`;
the order in which a `HashMap` yields them is a free choice. Of the defs it leaves out
the two `meta_end` (sums of two offsets found), the size of `module_memory` and the values
of the `module_state` constants.

## 3. Runs

| Run | Shows | Instance, and why it is enough |
|---|---|---|
| `bootstrap_stable` | no matching defs are missed, the cache is transparent, a warm start scans memory only for defs that do not describe the kernel (wrong candidates that sort earlier), `build` implements `BuildPromise` | 2 builders, 3 builds (store, then load, with one more interfering), 2 images with their own fingerprints, 5 defs files: right, same layout with another banner, foreign, unloadable, impossible slide |
| `bootstrap_flaky` | cache entries never invent a hint, selection stays sound and every build ends when any read may fail and the fingerprint drifts | 2 builders, 2 builds, 4 defs files, lax configurations (no banner, banner check off, no cache, bad directory) |
| `bootstrap_env_priority` | *violation*, see findings | as `bootstrap_stable` |
| `chunk_scan` | nothing skipped, nothing tried twice, lowest match, end | memory up to 7 bytes, chunks of 3: first, middle, short last chunk, all pattern lengths up to a chunk, every hole of one byte |
| `version_scan` | a version is lost only to holes, never cut, end | memory up to 12 bytes, chunks of 4, up to 3 banners |
| `vma_ranges` | complete, only small gaps, ordered and maximal | up to 3 VMAs (a pending range, one merged, one new) over 7 addresses, every window; gaps from negative to the whole space |
| `list_walk` | stable entries found, once, none invented, end | 3 entries (one before, at and behind the position), iteration limit 4 |
| `vma_walk` | the whole address space in order, or the contract of `ProcessView`; limits kept; whatever was read of a torn tree is returned in the order of the bounds read; end | stable: all trees over 6 indices, roots of each format, up to 3 leaves, every filling of nodes with 4 slots and 3 pivots (one more slot than pivots, as in the kernel), limits 2 and 3; torn: nodes of 2 slots, 3 levels, list cycles, VMAs read again with other bounds |
| `process_view` | caches are one view, told addresses resolve, modules whole | maps with adjacent, distant and foreign VMAs at and beyond the merge gap |
| `kernel_view` | paths, exports, variables, modules and the kernel size are true or cut short, never made up | files and roots over 3 nested mounts, one of them a bind of another's directory, with limits of 3 dentries and 2 mounts so that some paths exceed them; both kallsyms layouts with 0 to 5 symbols, followed by words that nearly form the other layout; 7 environment blocks with empty, undecodable and over-long strings; module lists of up to three modules; one failing read per behaviour |
| `vmlinux` | tables and defs say what the file says, two types share a name only where the file has a made-up one, recursion is bounded, a file is refused only for cause | files with BTF, DWARF, both or neither; old and new layouts; anonymous members, nested and side by side; declarations before definitions; twins of a name; a type or a member whose own name is an invented one, met before or after it; missing symbols, fields and types |
| `vmlinux_dwarf` | *violation*, see findings | as `vmlinux` |

`CHECK_DEADLOCK FALSE` is used where a scan, a walk or the bounded number of
builds ends for good.

*Bounds.* `MaxBuilds`, `MaxTotal`, `MaxDelta`, `MaxBanners`, `MaxVmas`, `MaxAddr` (of
`VmaRanges`) and `MaxFaults` bound the instance; `MaxIter`, `MaxDepth`, `MaxVma`,
`ChunkSize`, `MergeGap`, `MAX_DENTRY_DEPTH`, `MAX_MOUNT_DEPTH`,
`MAX_ENVIRONMENT_BYTES`, `MAX_ARGUMENT_BYTES`, `MaxNesting`, `WordBits` and `Alignment`
are the code's own constants scaled down, so that the runs reach them. `MaxFaults`
is 1: a call returns at its first failed read or goes on with what that read would
have given left out, and a second fault only leaves out more.

*Fairness.* `build`, the scans and the walks are straight-line loops in the
caller's thread that wait for nobody, hence weak fairness on their steps. The
target, crashes and new builds get none. The liveness properties (`BuildEnds`,
`Terminates`, `WalkEnds`) therefore say that no target can keep the code busy
for ever, not that it is fast: a maple node that points to itself is revisited a
number of times exponential in the depth limit before the walk ends.

## 4. Findings

1. **Priority of `MEMFLOW_LINUX_PROFILE`** (`bootstrap_env_priority`). The comment at
   `kernel.rs:436-439` gives it priority over files beside the image (as
   `README.md:85-86` does in other words); the candidates are sorted by path
   (`kernel.rs:479`), so an adjacent file
   may be tried and selected first.
2. **DWARF declarations** (`vmlinux_dwarf`). `ensure_type_name` (`vmlinux.rs:779`) gives a
   name to the first DIE that reaches it. A declaration met through a pointer takes
   the name of a struct whose definition is entered later under a suffixed one;
   `from_raw` then finds the empty declaration and refuses the file, although
   `vmlinux.rs:3-4` says the parser "falls back to DWARF when the kernel image does not
   embed usable BTF type information".

Statements of the repository that the models contradict, without a run of their own:

* `cache.rs:380-381` says an entry is invalidated when the defs are replaced; the
  stored defs fingerprint is never compared. `CacheIsTransparent` shows that this
  costs time and not correctness when banners are checked.
* `discover.rs:33-34` says banners straddling a boundary are never missed; one
  unreadable byte anywhere in a window of 64 MiB loses them (`LostOnlyToHoles` states
  the exact condition).
* `kallsyms.rs` ties the encoding of the offsets to the placement of the tables:
  tables placed the modern way are read as unsigned offsets, so signed ones placed
  that way would be misread; and a legacy table one of whose first four symbols lies
  below the kernel (a per-CPU symbol) is refused. `SymbolsTrue` is stated for the two
  combinations the comments name.

Observed, and not in disagreement with a document: on a profile without the
`mmap` list a failed maple walk is returned as an empty success, and the process
object keeps that empty list until `set_dtb`; a `meta_end` that cannot be read
cuts a node to its first slot without an error; a module list or a kernel size cut
short by a failed read is kept for the life of the kernel object; the address of an
environment variable is exact only while every string before it is valid UTF-8 and
not empty; a path deeper than `MAX_DENTRY_DEPTH` inside one mount loses components in
its middle without a sign; a VMA whose start changes between two reads of a maple walk
is returned twice if another one sorts in between, as `dedup_by_key` compares neighbours
only (`process.rs:394`); of two BTF types `foo`, the second with number 12, and a third one
named `foo_12` and met before it, the second is never entered (`vmlinux.rs:1602`).

## 5. Proofs

Each theorem is `Spec => []P`, or a refinement, for every value of the constants that
meets the named `ASSUME`s of the module; each follows from an inductive invariant,
proved over the actions one by one. All invariants that a run checks are proved of
`Bootstrap` (and its refinement), `ChunkScan`, `VersionScan`, `ListWalk`, `VmaRanges`,
`VmaWalk`, `ProcessView` and `Vmlinux`.

* `BootstrapProofs`: **TypeCorrect**, **CacheNeverInvents**
  (`LoadedHintWasStored`) and **SelectsSoundly** (`SelectionSound`). A loaded
  hint is right because of what is in the file, so `IInv` adds `FileInv`: a file
  that parses, with the current version and its own fingerprint, holds a stored
  pair; and `LocalInv`: what a builder past discovery knows of `found`, `via` and
  `cur`. The key step is that the line order of `format_cache_entry` puts a whole
  line behind the hint, so that a file that parses has its hint uncut
  (`WholeHint`). Assumed: sentinels are distinct, tables are well typed,
  kernels are aligned, and the directory holds no entry of the current version
  and fingerprint that no build wrote.
* In the same module, **MatchingDefsFound** (`NeverMissesMatchingDefs`) and **PromiseKept**
  (`KeepsPromise`). A refusal is judged at its end, so the invariant `RuledOut` says at
  every point that no candidate passed over describes the kernel. It is kept because
  the task scan, the last of the five strategies that use the defs, finds every kernel
  its profile describes (`TaskScanFinds`), and what was found that way passes the checks
  (`DescribedIsAcceptable`). The refinement maps `Start` to `Ask`, a step that ends a
  build to `Answer` or `Refuse`, `Crash` and `Return` to `Forget`, all others to stuttering.
* Also there, **CacheTransparent** (`CacheIsTransparent`) and **WarmStart**
  (`WarmScansOnlyWrongDefs`). `InOrder` adds to `RuledOut` that
  candidates are tried in path order; `ColdIsDescribed` shows that a build without a
  cache accepts just the profiles that describe the kernel, so both choose the first of
  the same set. `Warm` and `StoredRight` follow a hint from the build that stores it
  through the file to the build that loads it, where it is the kernel's address and thus
  accepted by defs that describe the kernel before any scan; other defs may be scanned for.
* `ListWalkProofs`: **WalkNeverInvents** (`NeverInvents`), **WalkMissesNothing**
  (`StableReported`) and **WalkReportsOnce** (`ReportedOnce`), for lists of any length. An
  entry may be reported long after it was unlinked, so `CountedSeen` says that whatever
  can look counted, linked or not, has been seen, the value carried to the report
  included. For the other two, links of unlinked entries must be followed without a
  notion of reachability: `Chain` says that there is an order of all entries ever linked
  in which every link, stale ones too, leads forward and over no entry that stays;
  `NoneBehind` that each entry that stays is reported, at hand or ahead; `Passed` that the
  entries left behind are as many as the iterations, so that a limit greater than the
  number of entries hides nothing.
* `ChunkScanProofs`: **ScanIsComplete**, **ScanIsTight**, **ScanReturnsLowest**,
  for every chunk size, pattern length, memory and set of holes. `IInv` adds
  `Progress` (every occurrence below the part still to be read was tried or
  waits) and `Order` (what was tried lies below what waits, and none of it
  validated).
* `VersionScanProofs`: **VersionsLostOnlyToHoles** (`LostOnlyToHoles`) and
  **VersionsNeverCut** (`VersionsWhole`), for every memory, chunk size and overlap. Every banner that starts before the chunk is settled (`Settled`): its version is
  reported or empty, or its prefix lies in a chunk that was skipped. A prefix cut at the
  end of a chunk lies in the overlap and is met again; a version is whole because the
  tail of the window reaches the end of memory or has room for the longest banner.
* `VmaRangesProofs`: **MapIsComplete**, **MapIsSound**, **MapIsOrdered**, for any
  number of VMAs, window and gap size, over VMAs that are disjoint and in order.
  `IInv` adds that the pending range lies behind everything emitted
  (`PendingFollows`), that emitted ranges and the pending one cover all VMAs
  passed (`CoveredSoFar`), that its gaps are small (`PendingSolid`) and that it
  could not have been merged with the last one emitted (`PendingIsNext`).
* `VmaWalkProofs`: **LimitsKept** (`TypeOK`), **MapleSortedAsRead** (`SortedAsRead`),
  **PartialViewSound** (`ViewContract`) and **AddressSpaceWhole** (`WholeSpace`), for trees and
  lists of any size, node capacities and limits. A frame stands for the slots of its
  node that were not read yet; it fits the node (`FrameFits`: its bounds are those the
  kernel meant, its end is the node's last slot unless `meta_end` was lost, its depth and
  its level add up to no more than the limit). `Covered` says that every VMA is
  collected or below one such slot, and in one place only: were it in two, the limit on
  the number of VMAs could hide another one (`LimitHidesNone`). That `range64_data_end`
  finds the last slot whatever the format and filling (`DataEndRight`) is where the
  kernel's encoding of pivots is used. For the list, `Along` says that what was collected
  is a first part of it. Assumed: `KernelBuilt` of the trees of the stable world, one more
  slot than pivots; nothing of the torn one but that bounds are numbers. `SortedAsRead` is
  what sorting and `dedup_by_key` guarantee when two reads of a VMA may differ.
* `ProcessViewProofs`: **CachesAgree** (`OneView`), **ModulesAreWhole** (`ModulesWhole`) and
  **ToldAddressesResolve** (`ToldResolves`), for any maps, gap and number of calls. Seeds of
  one file are merged in the order of their addresses, so a seed can join the last module
  of its file only; `Collecting` and `Whole` say at every step of `collect_modules` that
  the modules so far are those of the VMAs merged so far, of the view in the cache and no
  other. `ToldInv` adds that before there are modules only the fallback was told.
* `VmlinuxProofs`: **TypesNamedApart** (`NamesApart`) and **RecursionBounded**
  (`SeededOnce`), for every file and order of resolution. `NamesInv` adds that a name is the
  type's own or the one made of its own number, and that `used_names` is exactly what was
  given;
  `StackInv` that every type being resolved is already in the tables. In addition,
  **TablesFaithful** (`ProfileFaithful`), for files with `NoClash`, as are the next two:
  `FaithInv` says that an entry has the fields of the
  members passed so far, that a type which is named is being resolved or complete, and
  that whatever a field refers to is named, with offset and array length. Assumed: no two
  named members of one type have the same name, which C forbids (`MembersDistinct`), and a
  type that is only declared has no members (`DeclarationsEmpty`); invented names are told
  apart by their numbers (`NumbersTellApart`); the mark of a field whose
  type is not named is no name (`NoNameAssumption`).
* Also there, **DefsAreTrue** (`DefsTrue`) and **RefusalsHaveCause** (`RefusedForCause`).
  `resolve_field_inner` searches the tables by name, its reference the types of the
  section by number; both are recursive functions of the depth that is left. That such a
  function exists is proved (`SearchExists`), and two searches are compared node by node:
  if each node of one has what the node it stands for has (`Matches`), then it finds no
  more (`SearchWithin`), and if it never lacks what the other has (`Answers`), then it finds
  something where the other does (`SearchFinds`). Both go by induction on the depth, as
  a least depth at which they fail. The tables match the section by `ProfileFaithful` and
  because a name is that of a type with it (`DefsInv`); they answer for it once every
  struct and the enum a loader looks up were met under their own names, which a type
  loses only to another of the same name (`CauseInv`). So a profile that `from_raw`
  refuses comes from a section that lacks what is needed or is ambiguous.

Model-checked only:

* liveness, which is out of the prover's reach;
* `KernelView`: its path walk and symbol iterator are recursive operators, as are the
  reference definitions they are compared with, and the prover takes no module that
  reaches one.

## 6. Not modelled

* Byte decoding of ELF and BTF headers, DWARF (gimli), TOML (serde): field-by-field
  parsing. A section parses or does not, and is then the graph of its types; a defs
  file loads or does not.
* The instruction signatures of `sig.rs` and `x64.rs`, with the search for kallsyms by
  signature: matching of machine code, whose correctness is about the code of
  kernels and not about this program's states. `Bootstrap` takes the result of the generic
  scan as a parameter, `KernelView` lets the search find the tables or not.
* What memflow itself does: page-table translation, import, export and section lists
  of user modules, the batching of reads.
* Plug-in argument parsing, the examples, logging and display.

What could still be added: `ModulesAgree` and `SizeSound` of `KernelView` as theorems, with
its caches in a module of their own that has the recursive parts as parameters.
