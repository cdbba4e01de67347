------------------------------ MODULE ChunkScan ------------------------------
(***************************************************************************)
(* The two linear scans of physical memory that the defs-backed discovery  *)
(* falls back to: discover_kernel_from_banner_scan looks for the banner    *)
(* prefix, discover_kernel_from_task_scan for the comm of swapper/0.  Both *)
(* read fixed-size chunks that overlap by one byte less than the pattern   *)
(* and validate every match until one holds.                               *)
(*                                                                         *)
(* A read may be partial (data_part keeps what arrived): bytes in a hole   *)
(* then keep what the previous chunk left in the buffer, so a match may be *)
(* spurious.  A read may also fail as a whole, which ends the scan.        *)
(***************************************************************************)
EXTENDS Integers

CONSTANTS
  ChunkSize,   \* KERNEL_SCAN_CHUNK_SIZE
  HugePage,    \* 2 MiB
  MaxTotal,    \* bound on the size of the memory
  MaxDelta,    \* bound on the distance of the pattern from the candidate
  HoleSets,    \* sets of unreadable addresses considered
  GoodSets,    \* sets of candidate addresses that validate
  NoMatch

ASSUME ConstAssumption ==
  /\ ChunkSize \in Nat \ {0} /\ HugePage \in Nat \ {0}
  /\ MaxTotal \in Nat /\ MaxDelta \in Nat
  /\ NoMatch \notin Nat

VARIABLES
  kind,     \* "banner" or "task"
  total,    \* max_address + 1
  patLen,   \* length of the pattern
  delta,    \* distance from the candidate's address to the pattern
  occ,      \* addresses where the pattern really is
  holes,    \* unreadable addresses
  good,     \* candidate addresses that validate
  base,     \* start of the current chunk
  readLen,  \* its length
  pending,  \* matches in the current chunk not tried yet
  tried,    \* matches tried so far
  result,   \* the match whose candidate validated
  pc

memory == <<kind, total, patLen, delta, occ, holes, good>>
vars == <<kind, total, patLen, delta, occ, holes, good, base, readLen, pending, tried, result, pc>>

\* Bytes of a pattern that starts at a.
Bytes(a) == a .. a + patLen - 1

\* Occurrences all of whose bytes can be read.
Readable == {s \in occ : Bytes(s) \cap holes = {}}

\* How far the next chunk reaches back into this one.
WholePattern == patLen
NoOverlap == 0
Overlap == patLen - 1

\* checked_sub and the 2 MiB alignment test of the banner scan
BannerCandidate(a) == a >= delta /\ (a - delta) % HugePage = 0
\* checked_sub of the task scan
TaskCandidate(a) == a >= delta
\* The match at a leads to a candidate that validates.
Validates(a) ==
  /\ IF kind = "banner" THEN BannerCandidate(a) ELSE TaskCandidate(a)
  /\ a - delta \in good

Init ==
  /\ kind \in {"banner", "task"}
  /\ total \in 1 .. MaxTotal
  /\ patLen \in 1 .. ChunkSize
  /\ delta \in 0 .. MaxDelta
  /\ occ \in SUBSET (0 .. total - patLen)
  /\ \A s, t \in occ : s < t => s + patLen <= t
  /\ holes \in HoleSets
  /\ good \in GoodSets
  /\ base = 0
  /\ readLen = 0
  /\ pending = {}
  /\ tried = {}
  /\ result = NoMatch
  /\ pc = "read"

\* The loop ends at the end of memory or when the rest is shorter than the pattern.
Remaining == total - base
NextLen == IF ChunkSize < Remaining THEN ChunkSize ELSE Remaining
Exhausted == base >= total \/ NextLen < patLen

(***************************************************************************)
(* read_raw_into and memmem::find_iter: the readable occurrences inside    *)
(* the chunk, and whatever the stale bytes of a hole happen to complete to *)
(* a match once a chunk has been read before.                              *)
(***************************************************************************)
ReadChunk ==
  /\ pc = "read"
  /\ ~Exhausted
  /\ readLen' = NextLen
  /\ \E stale \in SUBSET {a \in base .. base + NextLen - patLen : Bytes(a) \cap holes # {}} :
       /\ base = 0 => stale = {}
       /\ pending' = stale \cup {s \in Readable : base <= s /\ s + patLen <= base + NextLen}
  /\ pc' = "match"
  /\ UNCHANGED <<memory, base, tried, result>>

ReadFails ==
  /\ pc = "read"
  /\ ~Exhausted
  /\ pc' = "error"
  /\ UNCHANGED <<memory, base, readLen, pending, tried, result>>

TryAny ==
  /\ pc = "match"
  /\ \E a \in pending :
       /\ tried' = tried \cup {a}
       /\ pending' = pending \ {a}
       /\ IF Validates(a)
          THEN result' = a /\ pc' = "found"
          ELSE UNCHANGED <<result, pc>>
  /\ UNCHANGED <<memory, base, readLen>>
\* Matches are tried in address order; the first that validates is returned.
TryMatch ==
  /\ pc = "match"
  /\ \E a \in pending :
       /\ \A x \in pending : a <= x
       /\ tried' = tried \cup {a}
       /\ pending' = pending \ {a}
       /\ IF Validates(a)
          THEN result' = a /\ pc' = "found"
          ELSE UNCHANGED <<result, pc>>
  /\ UNCHANGED <<memory, base, readLen>>

\* The chunk is done.
Advance ==
  /\ pc = "match"
  /\ pending = {}
  /\ IF readLen = Remaining
     THEN pc' = "notfound" /\ UNCHANGED base
     ELSE pc' = "read" /\ base' = base + readLen - Overlap
  /\ UNCHANGED <<memory, readLen, pending, tried, result>>

Finish ==
  /\ pc = "read"
  /\ Exhausted
  /\ pc' = "notfound"
  /\ UNCHANGED <<memory, base, readLen, pending, tried, result>>

Next == ReadChunk \/ ReadFails \/ TryMatch \/ Advance \/ Finish

Spec == Init /\ [][Next]_vars
\* The scan is a loop in one thread; every iteration completes.
FairSpec == Spec /\ WF_vars(Next)

----------------------------------------------------------------------------
(* Properties *)

\* Type correctness.
TypeOK ==
  /\ kind \in {"banner", "task"}
  /\ total \in Nat \ {0}
  /\ patLen \in 1 .. ChunkSize
  /\ delta \in Nat
  /\ occ \subseteq Nat
  /\ base \in Nat
  /\ readLen \in 0 .. ChunkSize
  /\ pending \subseteq Nat
  /\ tried \subseteq Nat
  /\ result \in Nat \cup {NoMatch}
  /\ pc \in {"read", "match", "found", "notfound", "error"}

(***************************************************************************)
(* A scan that reports "not found" has tried every readable occurrence,    *)
(* those that straddle chunk boundaries and the one that ends with the     *)
(* last byte included.                                                     *)
(***************************************************************************)
NothingSkipped == pc = "notfound" => Readable \subseteq tried

(***************************************************************************)
(* Overlapping chunks never hand the same match to the validation twice:   *)
(* a match waiting to be tried has not been tried, although adjacent       *)
(* chunks share bytes.                                                     *)
(***************************************************************************)
NoneTriedTwice == pending \cap tried = {}

\* No chunk is read beyond the end of memory, whatever the sizes.
ReadsInBounds == pc = "match" => base + readLen <= total

(***************************************************************************)
(* The kernel that is returned is the first in memory: no readable         *)
(* occurrence below it leads to a candidate that validates.                *)
(***************************************************************************)
LowestWins ==
  pc = "found" => \A s \in Readable : s < result => ~Validates(s)

\* The scan ends: each chunk moves the base, even when the pattern fills a chunk.
Terminates == <>(pc \in {"found", "notfound", "error"})
============================================================================
