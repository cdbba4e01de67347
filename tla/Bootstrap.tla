------------------------------ MODULE Bootstrap ------------------------------
(***************************************************************************)
(* LinuxKernelBuilder::build: choosing a defs file (a profile) and finding *)
(* the kernel it describes in a physical memory image, with the kernel     *)
(* hint remembered between runs in an on-disk cache file per memory        *)
(* fingerprint.  Several builders, in one or several processes, may run    *)
(* builds at the same time against the same cache directory; any of them   *)
(* may be killed between two steps, also in the middle of rewriting the    *)
(* cache file.                                                             *)
(*                                                                         *)
(* An image is described by what the bootstrap can observe of it: where    *)
(* the kernel text is, the layout (symbol distances and structure offsets) *)
(* and banner of the kernel build that runs in it, and what the generic    *)
(* x64 signature scan reports.  A profile is described by the layout and   *)
(* banner of the build it was generated from.                              *)
(***************************************************************************)
EXTENDS Integers, Sequences

CONSTANTS
  Builders,     \* concurrent build() calls
  Images,       \* memory images or live targets a builder can be given
  Profiles,     \* defs files
  Configs,      \* builder configurations (records, see ConfigType)
  Image,        \* Image[m]: observable facts of image m
  Profile,      \* Profile[p]: what defs file p says
  PathRank,     \* PathRank[p]: position of p's path in lexicographic order
  Fingerprints, \* values of compute_memory_fingerprint
  InitFiles,    \* InitFiles[k]: what file k may hold before the first build
  Addrs,        \* physical addresses
  HugePage,     \* the 2 MiB alignment unit, in units of Addrs
  NoBanner,     \* an empty banner in a defs file
  NoProfile, NoAddr, NoFile,
  Flaky,        \* TRUE: a read of the target may fail at any time
  MaxBuilds     \* bound on the number of builds started

Banners == [head : STRING, tail : STRING]
ImageType == [kernel : Addrs, layout : STRING, banner : Banners,
              generic : Addrs \cup {NoAddr}, la57 : BOOLEAN, fp : Fingerprints]
ProfileType == [layout : STRING, banner : Banners \cup {NoBanner},
                loads : BOOLEAN, slide_ok : BOOLEAN]
ConfigType == [explicit : Profiles \cup {NoProfile}, env : Profiles \cup {NoProfile},
               adjacent : SUBSET Profiles, dir_ok : BOOLEAN,
               kernel_hint : Addrs \cup {NoAddr}, generic_fallback : BOOLEAN,
               skip_banner : BOOLEAN, cache : BOOLEAN]

\* Hint::as_page_aligned(2 MiB)
Align(a) == a - (a % HugePage)

\* The five lines of a cache file, in the order format_cache_entry writes them.
format_cache_entry == <<"version", "memory_fingerprint", "defs_fingerprint", "kernel_hint",
                        "updated_unix_secs">>
Lines == 5
CACHE_VERSION == 1

(***************************************************************************)
(* A cache file: the entry its writer formatted, how many of its lines are *)
(* wholly on disk, and whether the next one is there in part.              *)
(***************************************************************************)
FileType == [version : {0, CACHE_VERSION}, mem : Fingerprints, defs : Profiles,
             hint : Addrs, lines : 0 .. Lines, cut : BOOLEAN]

ASSUME SentinelAssumption ==
  /\ NoProfile \notin Profiles
  /\ NoAddr \notin Addrs
  /\ NoFile \notin FileType
  /\ NoBanner \notin Banners
ASSUME DataAssumption ==
  /\ Images # {} /\ Configs # {} /\ Fingerprints # {}
  /\ Image \in [Images -> ImageType]
  /\ Profile \in [Profiles -> ProfileType]
  /\ Configs \subseteq ConfigType
  /\ InitFiles \in [Fingerprints -> SUBSET FileType]
  \* files of an older release or of another memory image
  /\ \A k \in Fingerprints : \A f \in InitFiles[k] : f.version # CACHE_VERSION \/ f.mem # k
  /\ Flaky \in BOOLEAN
  /\ MaxBuilds \in Nat
ASSUME AddrAssumption ==
  /\ HugePage \in Nat \ {0}
  /\ Addrs \subseteq Nat
  /\ \A a \in Addrs : Align(a) \in Addrs
  /\ \A m \in Images : Align(Image[m].kernel) = Image[m].kernel
ASSUME PathAssumption ==
  /\ PathRank \in [Profiles -> Nat]
  /\ \A p, q \in Profiles : PathRank[p] = PathRank[q] => p = q

VARIABLES
  pc,      \* where each builder is
  img,     \* the image its connector reads
  cfg,     \* its configuration
  hint,    \* cached_kernel_hint
  todo,    \* profile paths not tried yet
  cur,     \* the profile being tried
  phase,   \* the discovery strategy to try next
  fp,      \* KernelHintCache::memory_fingerprint
  found,   \* scanner.phys_text of the current or selected profile
  via,     \* the strategy that found it
  file,    \* cache files, by memory fingerprint
  stored,  \* history: <<hint, profile>> pairs that builds wrote to the cache
  started  \* number of builds started

vars == <<pc, img, cfg, fp, hint, todo, cur, phase, found, via, file, stored, started>>
job == <<img, cfg, fp>>  \* fixed for the length of a build

ScanBeforeCache == <<"explicit_hint", "candidate_scan", "cached_hint", "banner_scan",
                     "task_scan", "explicit_window", "cached_window", "generic_scan">>
\* Strategies of discover_kernel in the order they are tried.
Strategies == <<"explicit_hint", "cached_hint", "candidate_scan", "banner_scan",
                "task_scan", "explicit_window", "cached_window", "generic_scan">>
DefsBacked == {"explicit_hint", "cached_hint", "candidate_scan", "banner_scan", "task_scan"}

----------------------------------------------------------------------------
(* What discovery can find in image m with profile p *)

(***************************************************************************)
(* validate_init_task_candidate and the page-table translation of _text    *)
(* and init_task succeed at the address the kernel really has, for a       *)
(* profile with its layout.  The page-table symbols are part of a layout:  *)
(* defs without them, for which page_table_candidates returns an error     *)
(* every caller takes for a miss, have the layout of no image.             *)
(***************************************************************************)
InitTaskResolves(p, m, a) ==
  a = Image[m].kernel /\ Profile[p].layout = Image[m].layout

\* validate_kernel_translation: the first 256 bytes of the banner.
BannerHeadMatches(p, m) ==
  \/ Profile[p].banner = NoBanner
  \/ Profile[p].banner # NoBanner /\ Profile[p].banner.head = Image[m].banner.head

\* discover_kernel_with_hint
discover_kernel_with_hint(p, m, a) ==
  IF InitTaskResolves(p, m, a) /\ BannerHeadMatches(p, m) THEN a ELSE NoAddr

\* Every 2 MiB-aligned address is probed with the same validation.
discover_kernel_from_candidate_scan(p, m) ==
  IF \E a \in Addrs : a = Align(a) /\ discover_kernel_with_hint(p, m, a) # NoAddr
  THEN Image[m].kernel ELSE NoAddr

\* Needs a banner to look for; each hit is validated as a hint.
discover_kernel_from_banner_scan(p, m) ==
  IF Profile[p].banner = NoBanner THEN NoAddr
  ELSE discover_kernel_with_hint(p, m, Image[m].kernel)

\* Looks for swapper/0's comm; each hit is validated as an init_task.
discover_kernel_from_task_scan(p, m) ==
  discover_kernel_with_hint(p, m, Image[m].kernel)

\* x64::find_kernel over a 2 MiB window at the hint: no defs involved.
scan_with_kernel_hint(m, a) ==
  IF Image[m].generic = a THEN a ELSE NoAddr

(***************************************************************************)
(* validate_profile_banner: the whole banner, read where the profile says  *)
(* linux_banner is.                                                        *)
(***************************************************************************)
validate_profile_banner(p, m) ==
  \/ Profile[p].banner = NoBanner
  \/ Profile[p].layout = Image[m].layout /\ Profile[p].banner = Image[m].banner

\* The hints after alignment, NoAddr when absent; the cached one is dropped when equal.
ExplicitHint(c) == IF c.kernel_hint = NoAddr THEN NoAddr ELSE Align(c.kernel_hint)
CachedHint(c, h) ==
  IF h = NoAddr \/ Align(h) = ExplicitHint(c) THEN NoAddr ELSE Align(h)

\* What strategy s finds for profile p in image m, given the configuration and the hint.
Finds(s, p, m, c, h) ==
  CASE s = "explicit_hint"   -> discover_kernel_with_hint(p, m, ExplicitHint(c))
    [] s = "cached_hint"     -> discover_kernel_with_hint(p, m, CachedHint(c, h))
    [] s = "candidate_scan"  -> discover_kernel_from_candidate_scan(p, m)
    [] s = "banner_scan"     -> discover_kernel_from_banner_scan(p, m)
    [] s = "task_scan"       -> discover_kernel_from_task_scan(p, m)
    [] s = "explicit_window" -> scan_with_kernel_hint(m, ExplicitHint(c))
    [] s = "cached_window"   -> scan_with_kernel_hint(m, CachedHint(c, h))
    [] s = "generic_scan"    -> IF c.generic_fallback THEN Image[m].generic ELSE NoAddr

(***************************************************************************)
(* resolve_profile_candidates: an explicit profile alone, or the env       *)
(* profile together with the files beside the image.  The list is sorted   *)
(* by path before it is tried.                                             *)
(***************************************************************************)
Candidates(c) ==
  IF c.explicit # NoProfile THEN {c.explicit}
  ELSE ({c.env} \ {NoProfile}) \cup c.adjacent
DirectoryFails(c) == c.explicit = NoProfile /\ ~c.dir_ok
ComesFirst(p, S) == \A q \in S : PathRank[p] <= PathRank[q]

----------------------------------------------------------------------------
(* The cache file *)

PositionOf(order, field) == CHOOSE i \in 1 .. Lines : order[i] = field

\* parse_cache_entry finds all five fields only if the last line has begun.
Parses(f) == f # NoFile /\ (f.lines = Lines \/ (f.lines = Lines - 1 /\ f.cut))

(***************************************************************************)
(* The values the kernel_hint line of f can parse to: what its writer      *)
(* stored when the line is whole, any shorter number when it is cut.       *)
(***************************************************************************)
HintValues(f) ==
  IF PositionOf(format_cache_entry, "kernel_hint") <= f.lines THEN {f.hint} ELSE Addrs

\* load_kernel_hint: the hints it can return, {} for a miss or an error.
AnyVersion(f, key) == IF Parses(f) /\ f.mem = key THEN HintValues(f) ELSE {}
load_kernel_hint(f, key) ==
  IF Parses(f) /\ f.version = CACHE_VERSION /\ f.mem = key THEN HintValues(f) ELSE {}

\* The entry store() formats, with n of its lines on disk.
Entry(key, p, a, n, c) ==
  [version |-> CACHE_VERSION, mem |-> key, defs |-> p, hint |-> a, lines |-> n, cut |-> c]

----------------------------------------------------------------------------
(* The steps of one build *)

(***************************************************************************)
(* compute_memory_fingerprint: samples of a target whose reads fail or     *)
(* whose memory moves hash to anything.                                    *)
(***************************************************************************)
compute_memory_fingerprint(m) == IF Flaky THEN Fingerprints ELSE {Image[m].fp}

\* The caller hands a builder a target and a configuration.
Start(b) ==
  /\ pc[b] = "idle"
  /\ started < MaxBuilds
  /\ started' = started + 1
  /\ \E m \in Images, c \in Configs, k \in Fingerprints :
       /\ k \in compute_memory_fingerprint(m)  \* prepare
       /\ img' = [img EXCEPT ![b] = m]
       /\ cfg' = [cfg EXCEPT ![b] = c]
       /\ fp' = [fp EXCEPT ![b] = k]
       /\ pc' = [pc EXCEPT ![b] = IF c.cache THEN "load" ELSE "resolve"]
  /\ UNCHANGED <<hint, todo, cur, phase, found, via, file, stored>>

\* load_kernel_hint; an error is logged and treated as a miss.
LoadHint(b) ==
  /\ pc[b] = "load"
  /\ pc' = [pc EXCEPT ![b] = "resolve"]
  /\ LET values == load_kernel_hint(file[fp[b]], fp[b])
     IN  \/ \E a \in values : hint' = [hint EXCEPT ![b] = a]
         \/ (values = {} \/ Flaky) /\ UNCHANGED hint
  /\ UNCHANGED <<job, todo, cur, phase, found, via, file, stored, started>>

\* resolve_profile_candidates
ResolveProfiles(b) ==
  /\ pc[b] = "resolve"
  /\ todo' = [todo EXCEPT ![b] = Candidates(cfg[b])]
  /\ pc' = [pc EXCEPT ![b] =
              IF DirectoryFails(cfg[b]) \/ Candidates(cfg[b]) = {} THEN "failed" ELSE "profile"]
  /\ UNCHANGED <<job, hint, cur, phase, found, via, file, stored, started>>

RetryUnloadable(b) ==
  /\ pc[b] = "profile"
  /\ \E p \in todo[b] :
       /\ ComesFirst(p, todo[b])
       /\ todo' = IF Profile[p].loads THEN [todo EXCEPT ![b] = @ \ {p}] ELSE todo
       /\ cur' = [cur EXCEPT ![b] = p]
       /\ phase' = [phase EXCEPT ![b] = 1]
       /\ pc' = [pc EXCEPT ![b] = IF Profile[p].loads THEN "discover" ELSE "profile"]
  /\ UNCHANGED <<job, hint, found, via, file, stored, started>>
\* The loop takes the next path and loads it; a defs file that fails to load is skipped.
NextProfile(b) ==
  /\ pc[b] = "profile"
  /\ \E p \in todo[b] :
       /\ ComesFirst(p, todo[b])
       /\ todo' = [todo EXCEPT ![b] = @ \ {p}]
       /\ cur' = [cur EXCEPT ![b] = p]
       /\ phase' = [phase EXCEPT ![b] = 1]
       /\ pc' = [pc EXCEPT ![b] = IF Profile[p].loads THEN "discover" ELSE "profile"]
  /\ UNCHANGED <<job, hint, found, via, file, stored, started>>

\* All paths tried: build returns last_err.
GiveUp(b) ==
  /\ pc[b] = "profile"
  /\ todo[b] = {}
  /\ pc' = [pc EXCEPT ![b] = "failed"]
  /\ UNCHANGED <<job, hint, todo, cur, phase, found, via, file, stored, started>>

\* One strategy of discover_kernel for the current profile.
Discover(b) ==
  LET s == Strategies[phase[b]]
      a == Finds(s, cur[b], img[b], cfg[b], hint[b])
  IN  /\ pc[b] = "discover"
      /\ \/ /\ a # NoAddr
            /\ found' = [found EXCEPT ![b] = a]
            /\ via' = [via EXCEPT ![b] = s]
            /\ pc' = [pc EXCEPT ![b] = "check"]
            /\ UNCHANGED phase
         \/ /\ a = NoAddr \/ Flaky
            /\ phase[b] < Len(Strategies)
            /\ phase' = [phase EXCEPT ![b] = @ + 1]
            /\ UNCHANGED <<found, via, pc>>
         \/ /\ a = NoAddr \/ Flaky
            /\ phase[b] = Len(Strategies)
            /\ pc' = [pc EXCEPT ![b] = "profile"]
            /\ UNCHANGED <<found, via, phase>>
      /\ UNCHANGED <<job, hint, todo, cur, file, stored, started>>

\* The checks between discovery and selection.
BannerPasses(b) == cfg[b].skip_banner \/ validate_profile_banner(cur[b], img[b])
BannerUnchecked(b) ==
  /\ Profile[cur[b]].slide_ok
  /\ ~(Image[img[b]].la57 /\ via[b] \notin DefsBacked)
Acceptable(b) ==
  /\ ~(Image[img[b]].la57 /\ via[b] \notin DefsBacked)  \* defs-backed results say la57_on = false
  /\ Profile[cur[b]].slide_ok
  /\ BannerPasses(b)

Accept(b) ==
  /\ pc[b] = "check"
  /\ Acceptable(b)
  /\ pc' = [pc EXCEPT ![b] = IF cfg[b].cache THEN "store" ELSE "ok"]
  /\ UNCHANGED <<job, hint, todo, cur, phase, found, via, file, stored, started>>

RejectAborts(b) ==
  /\ pc[b] = "check"
  /\ ~Acceptable(b)
  /\ pc' = [pc EXCEPT ![b] = "failed"]
  /\ UNCHANGED <<job, hint, todo, cur, phase, found, via, file, stored, started>>
Reject(b) ==
  /\ pc[b] = "check"
  /\ ~Acceptable(b) \/ (Flaky /\ ~cfg[b].skip_banner /\ Profile[cur[b]].banner # NoBanner)
  /\ pc' = [pc EXCEPT ![b] = "profile"]
  /\ UNCHANGED <<job, hint, todo, cur, phase, found, via, file, stored, started>>

\* store: fs::write opens the file with truncation, or fails and is only logged.
StoreOpen(b) ==
  /\ pc[b] = "store"
  /\ \/ /\ file' = [file EXCEPT ![fp[b]] = Entry(fp[b], cur[b], found[b], 0, FALSE)]
        /\ pc' = [pc EXCEPT ![b] = "write"]
     \/ /\ pc' = [pc EXCEPT ![b] = "ok"]
        /\ UNCHANGED file
  /\ UNCHANGED <<job, hint, todo, cur, phase, found, via, stored, started>>

\* The write that follows puts the whole entry on disk.
StoreWrite(b) ==
  /\ pc[b] = "write"
  /\ file' = [file EXCEPT ![fp[b]] = Entry(fp[b], cur[b], found[b], Lines, FALSE)]
  /\ stored' = [stored EXCEPT ![fp[b]] = @ \cup {<<found[b], cur[b]>>}]
  /\ pc' = [pc EXCEPT ![b] = "ok"]
  /\ UNCHANGED <<job, hint, todo, cur, phase, found, via, started>>

(***************************************************************************)
(* A write cut short, by a full disk or a power failure: a prefix of the   *)
(* entry in a file that was still empty.  Left out is a write cut short    *)
(* over the whole entry of another builder, when both had opened the file  *)
(* before either wrote: its kernel_hint line could mix digits of the two   *)
(* hints.                                                                  *)
(***************************************************************************)
TornWrite(b) ==
  /\ file[fp[b]] # NoFile
  /\ file[fp[b]].lines = 0
  /\ \E n \in 0 .. Lines - 1, c \in BOOLEAN :
       /\ file' = [file EXCEPT ![fp[b]] = Entry(fp[b], cur[b], found[b], n, c)]
       /\ stored' = [stored EXCEPT ![fp[b]] = @ \cup {<<found[b], cur[b]>>}]

\* The write fails after the truncation: logged, the build succeeds.
StoreFails(b) ==
  /\ pc[b] = "write"
  /\ \/ TornWrite(b)
     \/ UNCHANGED <<file, stored>>
  /\ pc' = [pc EXCEPT ![b] = "ok"]
  /\ UNCHANGED <<job, hint, todo, cur, phase, found, via, started>>

\* build's arguments and locals are gone when it ends.
AnyImage == CHOOSE m \in Images : TRUE
AnyConfig == CHOOSE c \in Configs : TRUE
AnyKey == CHOOSE k \in Fingerprints : TRUE
DropLocals(b) ==
  /\ img' = [img EXCEPT ![b] = AnyImage]
  /\ cfg' = [cfg EXCEPT ![b] = AnyConfig]
  /\ fp' = [fp EXCEPT ![b] = AnyKey]
  /\ pc' = [pc EXCEPT ![b] = "idle"]
  /\ hint' = [hint EXCEPT ![b] = NoAddr]
  /\ todo' = [todo EXCEPT ![b] = {}]
  /\ cur' = [cur EXCEPT ![b] = NoProfile]
  /\ phase' = [phase EXCEPT ![b] = 1]
  /\ found' = [found EXCEPT ![b] = NoAddr]
  /\ via' = [via EXCEPT ![b] = "none"]

\* The process dies; what it had written of the cache file stays.
Crash(b) ==
  /\ pc[b] \notin {"idle", "ok", "failed"}
  /\ DropLocals(b)
  /\ \/ pc[b] = "write" /\ TornWrite(b)
     \/ UNCHANGED <<file, stored>>
  /\ UNCHANGED started

\* The caller takes the result.
Return(b) ==
  /\ pc[b] \in {"ok", "failed"}
  /\ DropLocals(b)
  /\ UNCHANGED <<file, stored, started>>

Init ==
  /\ pc = [b \in Builders |-> "idle"]
  /\ img = [b \in Builders |-> AnyImage]
  /\ cfg = [b \in Builders |-> AnyConfig]
  /\ fp = [b \in Builders |-> AnyKey]
  /\ hint = [b \in Builders |-> NoAddr]
  /\ todo = [b \in Builders |-> {}]
  /\ cur = [b \in Builders |-> NoProfile]
  /\ phase = [b \in Builders |-> 1]
  /\ found = [b \in Builders |-> NoAddr]
  /\ via = [b \in Builders |-> "none"]
  /\ file \in [Fingerprints -> UNION {InitFiles[k] : k \in Fingerprints} \cup {NoFile}]
  /\ \A k \in Fingerprints : file[k] \in InitFiles[k] \cup {NoFile}
  /\ stored = [k \in Fingerprints |-> {}]
  /\ started = 0

\* The steps a running build takes by itself.
Step(b) ==
  \/ LoadHint(b) \/ ResolveProfiles(b) \/ NextProfile(b) \/ GiveUp(b) \/ Discover(b)
  \/ Accept(b) \/ Reject(b) \/ StoreOpen(b) \/ StoreWrite(b) \/ StoreFails(b)

Next == \E b \in Builders : Start(b) \/ Step(b) \/ Crash(b) \/ Return(b)

Spec == Init /\ [][Next]_vars

(***************************************************************************)
(* build() is straight-line code over finite loops: once called it keeps   *)
(* running.  Nothing obliges a caller to call it or to take its result.    *)
(***************************************************************************)
FairSpec == Spec /\ \A b \in Builders : WF_vars(Step(b))

----------------------------------------------------------------------------
(* Reference: what build decides when no cache file exists *)

Hits(p, m, c, h) ==
  {i \in 1 .. Len(Strategies) : Finds(Strategies[i], p, m, c, h) # NoAddr}
FirstHit(p, m, c, h) ==
  CHOOSE i \in Hits(p, m, c, h) : \A j \in Hits(p, m, c, h) : i <= j
ColdAccepts(p, m, c) ==
  /\ Profile[p].loads /\ Profile[p].slide_ok
  /\ Hits(p, m, c, NoAddr) # {}
  /\ Image[m].la57 => Strategies[FirstHit(p, m, c, NoAddr)] \in DefsBacked
  /\ c.skip_banner \/ validate_profile_banner(p, m)
ColdChoices(m, c) ==
  IF DirectoryFails(c) THEN {} ELSE {p \in Candidates(c) : ColdAccepts(p, m, c)}

\* p describes the kernel of image m.
Describes(p, m) ==
  /\ Profile[p].loads /\ Profile[p].slide_ok
  /\ Profile[p].layout = Image[m].layout
  /\ Profile[p].banner \in {NoBanner, Image[m].banner}

\* A configuration under which a result cannot escape the banner comparison.
Strict(c) == ~c.skip_banner /\ \A p \in Candidates(c) : Profile[p].banner # NoBanner

Selected(b) == pc[b] \in {"store", "write", "ok"}

----------------------------------------------------------------------------
(* Properties *)

\* Type correctness of the builders' locals, the cache files and the history.
TypeOK ==
  /\ pc \in [Builders -> {"idle", "load", "resolve", "profile", "discover", "check",
                          "store", "write", "ok", "failed"}]
  /\ img \in [Builders -> Images]
  /\ cfg \in [Builders -> Configs]
  /\ fp \in [Builders -> Fingerprints]
  /\ hint \in [Builders -> Addrs \cup {NoAddr}]
  /\ todo \in [Builders -> SUBSET Profiles]
  /\ cur \in [Builders -> Profiles \cup {NoProfile}]
  /\ phase \in [Builders -> 1 .. Len(Strategies)]
  /\ found \in [Builders -> Addrs \cup {NoAddr}]
  /\ via \in [Builders -> {"none"} \cup {Strategies[i] : i \in 1 .. Len(Strategies)}]
  /\ file \in [Fingerprints -> FileType \cup {NoFile}]
  /\ stored \in [Fingerprints -> SUBSET (Addrs \X Profiles)]
  /\ started \in 0 .. MaxBuilds

(***************************************************************************)
(* Whatever crashes, full disks and concurrent builders do to a cache file *)
(* while it is rewritten, a hint that load_kernel_hint returns is one that *)
(* some build selected and stored under the same memory fingerprint: a     *)
(* torn entry is a miss, never a different address.  Not so for a write    *)
(* cut short over another builder's entry, which TornWrite leaves out.     *)
(***************************************************************************)
LoadedHintWasStored ==
  \A b \in Builders : hint[b] # NoAddr => \E p \in Profiles : <<hint[b], p>> \in stored[fp[b]]

(***************************************************************************)
(* A selected profile with a banner, in a build that checks banners, is    *)
(* the profile of the kernel in memory, whichever of the eight strategies  *)
(* located it; and a defs-backed strategy yields the true kernel address,  *)
(* with matching layout and banner head, even when the check is skipped.   *)
(***************************************************************************)
SelectionSound ==
  \A b \in Builders : Selected(b) =>
    LET p == Profile[cur[b]]
        m == Image[img[b]]
    IN  /\ cur[b] \in Candidates(cfg[b]) /\ p.loads
        /\ (~cfg[b].skip_banner /\ p.banner # NoBanner) => Describes(cur[b], img[b])
        /\ via[b] \in DefsBacked =>
             found[b] = m.kernel /\ p.layout = m.layout /\ BannerHeadMatches(cur[b], img[b])

(***************************************************************************)
(* On a target whose reads do not fail, build never fails while one of its *)
(* candidates describes the kernel: neither an earlier candidate nor       *)
(* anything in the cache can lead it past that profile.                    *)
(***************************************************************************)
NeverMissesMatchingDefs ==
  \A b \in Builders :
    (~Flaky /\ pc[b] = "failed" /\ ~DirectoryFails(cfg[b]))
      => \A p \in Candidates(cfg[b]) : ~Describes(p, img[b])

(***************************************************************************)
(* The cache only makes build faster: with banners checked, a build ends   *)
(* with the profile it would have chosen with no cache file, and fails     *)
(* only if it would have failed then.                                      *)
(***************************************************************************)
CacheIsTransparent ==
  \A b \in Builders : (~Flaky /\ Strict(cfg[b])) =>
    LET cold == ColdChoices(img[b], cfg[b])
    IN  /\ Selected(b) => cur[b] \in cold /\ ComesFirst(cur[b], cold)
        /\ pc[b] = "failed" => cold = {}

(***************************************************************************)
(* After one successful run, a later run against the same image that finds *)
(* the hint scans memory only for defs that do not describe the kernel: a  *)
(* candidate that does is resolved at a hint.  Wrong candidates whose path *)
(* sorts earlier still go through every scan before it is their turn to be *)
(* rejected.                                                               *)
(***************************************************************************)
WarmScansOnlyWrongDefs ==
  (~Flaky /\ (\A c \in Configs : Strict(c))
          /\ (\A m, n \in Images : Image[m].fp = Image[n].fp => m = n)) =>
    \A b \in Builders :
      (hint[b] # NoAddr /\ pc[b] = "discover" /\ Describes(cur[b], img[b]))
        => Strategies[phase[b]] \in {"explicit_hint", "cached_hint"}

\* Every build that is called ends, with a kernel or an error, unless its process dies.
BuildEnds ==
  \A b \in Builders : pc[b] # "idle" ~> pc[b] \in {"ok", "failed", "idle"}

(***************************************************************************)
(* build implements BuildPromise: the many steps of a build, under any     *)
(* interleaving with other builds, crashes and cache contents, amount to   *)
(* one answer that is sound or one justified refusal.                      *)
(***************************************************************************)
SoundAnswer(r, a) ==
  LET m == r[1]  c == r[2]  p == a[1]
  IN  /\ p \in Candidates(c)
      /\ (~c.skip_banner /\ Profile[p].banner # NoBanner) => Describes(p, m)
MayNotFail(r) ==
  /\ ~Flaky
  /\ ~DirectoryFails(r[2])
  /\ \E p \in Candidates(r[2]) : Describes(p, r[1])
StatusOf(b) ==
  CASE pc[b] = "idle" -> "idle"
    [] pc[b] = "ok" -> "answered"
    [] pc[b] = "failed" -> "refused"
    [] OTHER -> "running"

Promise == INSTANCE BuildPromise WITH
  Requests <- Images \X Configs,
  Answers <- Profiles \X Addrs,
  Sound <- SoundAnswer,
  MustAnswer <- MayNotFail,
  status <- [b \in Builders |-> StatusOf(b)],
  request <- [b \in Builders |-> <<img[b], cfg[b]>>],
  answer <- [b \in Builders |-> IF pc[b] = "ok" THEN {<<cur[b], found[b]>>} ELSE {}]

\* See the comment above: build implements the promise made to its caller.
KeepsPromise == Promise!Spec

----------------------------------------------------------------------------
(* What the documentation says and the code does not do *)

(***************************************************************************)
(* The MEMFLOW_LINUX_PROFILE file has priority over the files beside the   *)
(* image: while another candidate is being tried it has been tried.        *)
(***************************************************************************)
EnvProfileFirst ==
  \A b \in Builders :
    pc[b] \in {"discover", "check"} /\ cfg[b].explicit = NoProfile
      => cfg[b].env \notin todo[b]
============================================================================
