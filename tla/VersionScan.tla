----------------------------- MODULE VersionScan -----------------------------
(***************************************************************************)
(* discover_kernel_versions: find every "Linux version " banner in         *)
(* physical memory and report each version once, without defs.  Unlike the *)
(* scans of ChunkScan a window that cannot be read in full is skipped, and *)
(* the window extends past the searched chunk so that the text behind a    *)
(* prefix at its end can be extracted.                                     *)
(***************************************************************************)
EXTENDS Integers, FiniteSetsExt, SequencesExt

CONSTANTS
  ScanChunk,     \* SCAN_CHUNK
  MaxBannerLen,  \* MAX_BANNER_LEN
  PrefixLen,     \* length of BANNER_PREFIX
  VersionLen,    \* length of a version token in memory
  Versions,      \* distinct version tokens
  MaxTotal,      \* bound on the size of memory
  MaxBanners,    \* bound on the banners in memory
  HoleSets       \* sets of unreadable addresses considered

ASSUME ConstAssumption ==
  /\ PrefixLen \in Nat \ {0}
  /\ ScanChunk \in Nat /\ ScanChunk >= PrefixLen
  /\ VersionLen \in Nat /\ MaxBannerLen \in Nat /\ VersionLen <= MaxBannerLen
  /\ MaxTotal \in Nat /\ MaxBanners \in Nat

VARIABLES
  total,    \* max_address + 1
  banners,  \* the memory's banners: records of address and version
  holes,    \* unreadable addresses
  base,     \* start of the current window
  pending,  \* matches of the current chunk that are still to be looked at
  results,  \* reported versions, with the address each was found at
  skipped,  \* history: chunks skipped because their window had a hole
  pc

memory == <<total, banners, holes>>
vars == <<total, banners, holes, base, pending, results, skipped, pc>>

Footprint == PrefixLen + VersionLen
Apart(s, t) == s + Footprint <= t \/ t + Footprint <= s

Init ==
  /\ total \in 1 .. MaxTotal
  /\ banners \in UNION {kSubset(n, [at : 0 .. total - PrefixLen, version : Versions])
                          : n \in 0 .. MaxBanners}
  /\ \A x, y \in banners : x # y => Apart(x.at, y.at)
  /\ holes \in HoleSets
  /\ base = 0
  /\ pending = {}
  /\ results = <<>>
  /\ skipped = {}
  /\ pc = "scan"

Remaining == total - base
Least(a, b) == IF a < b THEN a ELSE b
ChunkLen == Least(ScanChunk, Remaining)
\* Bytes behind the chunk, read for extraction only.
NoTail == 0
Tail_ == Least(MaxBannerLen, Remaining - ChunkLen)
Window == ChunkLen + Tail_
NoOverlap == 0
WholeChunk == ChunkLen
Overlap == PrefixLen - 1

(***************************************************************************)
(* The version token extracted from banner x when the buffer ends at       *)
(* "limit": the text up to there.                                          *)
(***************************************************************************)
Token(x, limit) ==
  [version |-> x.version, len |-> Least(VersionLen, limit - (x.at + PrefixLen))]

Seen(rs) == {r.token : r \in ToSet(rs)}

\* Report one match, unless its token is empty or was seen.
Report(rs, x) ==
  LET token == Token(x, base + Window)
  IN  IF token.len = 0 \/ token \in Seen(rs) THEN rs
      ELSE Append(rs, [token |-> token, at |-> x.at])

\* Prefixes that lie wholly in the chunk.
Matches == {x \in banners : base <= x.at /\ x.at + PrefixLen <= base + ChunkLen}

LoopEnds == base >= total \/ Window < PrefixLen
Unreadable == (base .. base + Window - 1) \cap holes # {}

\* The window cannot be read in full: the chunk is skipped.
SkipChunk ==
  /\ pc = "scan"
  /\ ~LoopEnds
  /\ Unreadable
  /\ skipped' = skipped \cup {[from |-> base, to |-> base + ChunkLen]}
  /\ base' = base + ChunkLen - Overlap
  /\ UNCHANGED <<memory, pending, results, pc>>

\* The window is read and its chunk searched.
SearchChunk ==
  /\ pc = "scan"
  /\ ~LoopEnds
  /\ ~Unreadable
  /\ pending' = Matches
  /\ pc' = "report"
  /\ UNCHANGED <<memory, base, results, skipped>>

\* The body of the loop over the matches, which come in address order.
ReportMatch ==
  /\ pc = "report"
  /\ \E x \in pending :
       /\ \A y \in pending : x.at <= y.at
       /\ results' = Report(results, x)
       /\ pending' = pending \ {x}
  /\ UNCHANGED <<memory, base, skipped, pc>>

\* The chunk is done: the last one ends the scan.
Advance ==
  /\ pc = "report"
  /\ pending = {}
  /\ IF ChunkLen = Remaining
     THEN pc' = "done" /\ UNCHANGED base
     ELSE pc' = "scan" /\ base' = base + ChunkLen - Overlap
  /\ UNCHANGED <<memory, pending, results, skipped>>

Finish ==
  /\ pc = "scan"
  /\ LoopEnds
  /\ pc' = "done"
  /\ UNCHANGED <<memory, base, pending, results, skipped>>

Next == SkipChunk \/ SearchChunk \/ ReportMatch \/ Advance \/ Finish
Spec == Init /\ [][Next]_vars
\* A single-threaded loop: every iteration completes.
FairSpec == Spec /\ WF_vars(Next)

----------------------------------------------------------------------------
(* Properties *)

Reported(x) == \E r \in ToSet(results) : r.token = Token(x, total)

(***************************************************************************)
(* A banner goes unreported only if no window that holds its prefix could  *)
(* be read, or its text is empty: chunk boundaries alone lose nothing.     *)
(***************************************************************************)
LostOnlyToHoles ==
  pc = "done" =>
    \A x \in banners :
      \/ Reported(x)
      \/ Token(x, total).len = 0
      \/ \E c \in skipped : c.from <= x.at /\ x.at + PrefixLen <= c.to

(***************************************************************************)
(* A version is never cut by the end of the window: what is reported is    *)
(* the text as far as memory goes, also for a prefix at the end of a chunk.*)
(***************************************************************************)
VersionsWhole ==
  \A r \in ToSet(results) : \E x \in banners : x.at = r.at /\ r.token = Token(x, total)

\* The scan ends, also when every window fails to read.
Terminates == <>(pc = "done")
============================================================================
