-------------------------- MODULE VersionScanProofs --------------------------
(***************************************************************************)
(* discover_kernel_versions loses a banner only to a window it could not   *)
(* read and never cuts a version: for every memory, chunk size, banner     *)
(* length and pattern of holes.                                            *)
(*                                                                         *)
(* The invariant says how far the scan has come: a banner that starts      *)
(* before the window is settled (reported, empty or skipped), and while a  *)
(* chunk's matches are looked at, every banner whose prefix ends in the    *)
(* chunk is settled or waiting.  That a version is whole rests on the tail *)
(* of the window: either it reaches the end of memory, or it has room for  *)
(* the longest banner behind the last prefix of the chunk.                 *)
(***************************************************************************)
EXTENDS VersionScan, TLAPS

USE ConstAssumption

\* What the scan owes a banner that it has passed.
Settled(x) ==
  \/ Reported(x)
  \/ Token(x, total).len = 0
  \/ \E c \in skipped : c.from <= x.at /\ x.at + PrefixLen <= c.to

ScanTypes ==
  /\ total \in Nat \ {0} /\ base \in Nat
  /\ pc \in {"scan", "report", "done"}
  /\ \A x \in banners : x.at \in Nat /\ x.at + PrefixLen <= total
  /\ pending \subseteq banners

ResultsHold ==
  /\ \E S : results \in Seq(S)
  /\ VersionsWhole

Progress ==
  /\ pc = "scan" => /\ pending = {}
                    /\ \A x \in banners : x.at < base => Settled(x)
  /\ pc = "report" =>
       /\ base < total /\ PrefixLen <= ChunkLen
       /\ \A x \in pending : x.at + PrefixLen <= base + ChunkLen
       /\ \A x \in banners : x.at + PrefixLen <= base + ChunkLen => x \in pending \/ Settled(x)
  /\ pc = "done" => \A x \in banners : Settled(x)

IInv == ScanTypes /\ ResultsHold /\ Progress

\* The results seen as a set grow by the appended one.
LEMMA ToSetAppend ==
  ASSUME NEW S, NEW s \in Seq(S), NEW r
  PROVE  ToSet(Append(s, r)) = ToSet(s) \cup {r}
<1>1. s \in Seq(S \cup {r}) /\ Len(s) \in Nat
  OBVIOUS
<1>2. /\ DOMAIN Append(s, r) = 1 .. Len(s) + 1 /\ DOMAIN s = 1 .. Len(s)
      /\ \A i \in 1 .. Len(s) : Append(s, r)[i] = s[i]
      /\ Append(s, r)[Len(s) + 1] = r
  BY <1>1
<1>3. ASSUME NEW e \in ToSet(Append(s, r)) PROVE e \in ToSet(s) \cup {r}
  <2>1. PICK i \in 1 .. Len(s) + 1 : e = Append(s, r)[i]
    BY <1>2, <1>3 DEF ToSet
  <2>2. CASE i \in 1 .. Len(s)
    BY <1>2, <2>1, <2>2 DEF ToSet
  <2>3. CASE i = Len(s) + 1
    BY <1>2, <2>1, <2>3
  <2>. QED BY <1>1, <2>1, <2>2, <2>3
<1>4. ASSUME NEW e \in ToSet(s) PROVE e \in ToSet(Append(s, r))
  <2>1. PICK i \in 1 .. Len(s) : e = s[i]
    BY <1>2, <1>4 DEF ToSet
  <2>2. i \in DOMAIN Append(s, r) /\ Append(s, r)[i] = e
    BY <1>1, <1>2, <2>1
  <2>. QED BY <2>2 DEF ToSet
<1>5. r \in ToSet(Append(s, r))
  <2>1. Len(s) + 1 \in DOMAIN Append(s, r)
    BY <1>1, <1>2
  <2>. QED BY <1>2, <2>1 DEF ToSet
<1>. QED BY <1>3, <1>4, <1>5

\* The chunk and its window stay in memory.
LEMMA WindowBounds ==
  ASSUME ScanTypes, base < total
  PROVE  /\ ChunkLen \in Nat /\ Window \in Nat /\ ChunkLen > 0
         /\ ChunkLen <= Window /\ base + Window <= total
         /\ ChunkLen = ScanChunk \/ ChunkLen = total - base
         /\ base + Window = total \/ Window = ChunkLen + MaxBannerLen
         /\ Window >= PrefixLen => ChunkLen >= PrefixLen
BY DEF ScanTypes, ChunkLen, Window, Tail_, Remaining, Least

\* The token of a prefix in the chunk does not depend on where the window ends.
LEMMA TokenWhole ==
  ASSUME ScanTypes, base < total, NEW x \in banners, x.at + PrefixLen <= base + ChunkLen
  PROVE  Token(x, base + Window) = Token(x, total)
<1>1. CASE base + Window = total
  BY <1>1
<1>2. CASE Window = ChunkLen + MaxBannerLen
  <2>1. x.at \in Nat /\ x.at + PrefixLen <= total
    BY DEF ScanTypes
  <2>2. /\ VersionLen <= base + Window - (x.at + PrefixLen)
        /\ VersionLen <= total - (x.at + PrefixLen)
    BY <1>2, <2>1, WindowBounds DEF ScanTypes
  <2>3. /\ Least(VersionLen, (base + Window) - (x.at + PrefixLen)) = VersionLen
        /\ Least(VersionLen, total - (x.at + PrefixLen)) = VersionLen
    BY <2>1, <2>2, WindowBounds DEF Least, ScanTypes
  <2>. QED BY <2>3 DEF Token
<1>. QED BY <1>1, <1>2, WindowBounds

\* What holds of the results only depends on them and on the memory's banners.
LEMMA SameResults ==
  ASSUME ResultsHold, UNCHANGED <<total, banners, results>>
  PROVE  ResultsHold'
<1>1. \E S : results' \in Seq(S)
  BY DEF ResultsHold
<1>2. VersionsWhole'
  BY DEF ResultsHold, VersionsWhole, Token, ToSet
<1>. QED BY <1>1, <1>2 DEF ResultsHold

\* The invariant holds before the first chunk.
LEMMA InitInv == Init => IInv
<1>. SUFFICES ASSUME Init PROVE IInv
  OBVIOUS
<1>1. banners \subseteq [at : 0 .. total - PrefixLen, version : Versions]
  BY DEF Init, kSubset
<1>2. total \in Nat \ {0} /\ base = 0 /\ pending = {} /\ results = <<>> /\ pc = "scan"
  BY DEF Init
<1>3. \A x \in banners : x.at \in 0 .. total - PrefixLen
  BY <1>1
<1>4. ScanTypes
  BY <1>2, <1>3 DEF ScanTypes
<1>5. DOMAIN results = {} /\ ToSet(results) = {} /\ results \in Seq({})
  BY <1>2 DEF ToSet
<1>6. ResultsHold
  BY <1>5 DEF ResultsHold, VersionsWhole
<1>7. Progress
  BY <1>2, <1>3 DEF Progress
<1>. QED BY <1>4, <1>6, <1>7 DEF IInv

\* A skipped chunk accounts for the prefixes that lie in it.
LEMMA SkipChunkInv == ASSUME IInv, SkipChunk PROVE IInv'
<1>. USE DEF IInv
<1>0. ScanTypes /\ base < total /\ Window >= PrefixLen
  BY WindowBounds DEF SkipChunk, LoopEnds, ScanTypes
<1>1. /\ UNCHANGED <<total, banners, holes, pending, results, pc>> /\ pc = "scan"
      /\ skipped' = skipped \cup {[from |-> base, to |-> base + ChunkLen]}
      /\ base' = base + ChunkLen - (PrefixLen - 1)
  BY DEF SkipChunk, memory, Overlap
<1>2. base' \in Nat
  BY <1>0, <1>1, WindowBounds DEF ScanTypes
<1>3. ScanTypes' /\ ResultsHold'
  <2>1. ScanTypes'
    BY <1>1, <1>2 DEF ScanTypes
  <2>. QED BY <1>1, <2>1, SameResults
<1>4. ASSUME NEW x \in banners, x.at < base' PROVE Settled(x)'
  <2>1. CASE x.at < base
    <3>1. Settled(x)
      BY <1>1, <2>1 DEF Progress
    <3>. QED BY <1>1, <3>1 DEF Settled, Reported, Token, ToSet
  <2>2. CASE base <= x.at
    <3>. DEFINE c == [from |-> base, to |-> base + ChunkLen]
    <3>1. c \in skipped' /\ c.from <= x.at /\ x.at + PrefixLen <= c.to
      BY <1>0, <1>1, <1>4, <2>2, WindowBounds DEF ScanTypes
    <3>. QED BY <3>1 DEF Settled
  <2>. QED BY <2>1, <2>2 DEF ScanTypes
<1>5. Progress'
  BY <1>1, <1>4 DEF Progress
<1>. QED BY <1>3, <1>5

\* Reading a window queues every prefix of its chunk.
LEMMA SearchChunkInv == ASSUME IInv, SearchChunk PROVE IInv'
<1>. USE DEF IInv
<1>0. ScanTypes /\ base < total /\ Window >= PrefixLen
  BY WindowBounds DEF SearchChunk, LoopEnds, ScanTypes
<1>1. /\ UNCHANGED <<total, banners, holes, base, results, skipped>>
      /\ pc = "scan" /\ pc' = "report" /\ pending' = Matches
  BY DEF SearchChunk, memory
<1>2. ScanTypes' /\ ResultsHold'
  <2>1. Matches \subseteq banners
    BY DEF Matches
  <2>2. ScanTypes'
    BY <1>1, <2>1 DEF ScanTypes
  <2>. QED BY <1>1, <2>2, SameResults
<1>3. PrefixLen <= ChunkLen /\ ChunkLen' = ChunkLen
  BY <1>0, <1>1, WindowBounds DEF ChunkLen, Remaining
<1>4. ASSUME NEW x \in banners, x.at + PrefixLen <= base + ChunkLen
      PROVE  x \in pending' \/ Settled(x)'
  <2>1. CASE base <= x.at
    BY <1>1, <1>4, <2>1 DEF Matches
  <2>2. CASE x.at < base
    <3>1. Settled(x)
      BY <1>1, <2>2 DEF Progress
    <3>. QED BY <1>1, <3>1 DEF Settled, Reported, Token, ToSet
  <2>. QED BY <2>1, <2>2 DEF ScanTypes
<1>5. \A x \in pending' : x.at + PrefixLen <= base + ChunkLen
  BY <1>1 DEF Matches
<1>6. Progress'
  BY <1>0, <1>1, <1>3, <1>4, <1>5 DEF Progress
<1>. QED BY <1>2, <1>6

\* A match is reported whole, or was reported before.
LEMMA ReportMatchInv == ASSUME IInv, ReportMatch PROVE IInv'
<1>. USE DEF IInv
<1>1. PICK x \in pending : results' = Report(results, x) /\ pending' = pending \ {x}
  BY DEF ReportMatch
<1>2. UNCHANGED <<total, banners, holes, base, skipped, pc>> /\ pc = "report"
  BY DEF ReportMatch, memory
<1>3. /\ base < total /\ PrefixLen <= ChunkLen /\ x \in banners
      /\ x.at + PrefixLen <= base + ChunkLen
  BY <1>1, <1>2 DEF Progress, ScanTypes
<1>. DEFINE token == Token(x, total)
<1>4. Token(x, base + Window) = token
  BY <1>3, TokenWhole
<1>5. ScanTypes'
  BY <1>1, <1>2 DEF ScanTypes
<1>6. PICK S : results \in Seq(S)
  BY DEF ResultsHold
<1>7. ASSUME NEW y PROVE Token(y, total)' = Token(y, total)
  BY <1>2 DEF Token
<1>8. ToSet(results) \subseteq ToSet(results') /\ ResultsHold' /\ Settled(x)'
  <2>1. CASE token.len = 0 \/ token \in Seen(results)
    <3>1. results' = results
      BY <1>1, <1>4, <2>1 DEF Report
    <3>2. ResultsHold'
      BY <1>2, <1>7, <3>1 DEF ResultsHold, VersionsWhole
    <3>3. Settled(x)'
      BY <1>7, <2>1, <3>1 DEF Settled, Reported, Seen
    <3>. QED BY <3>1, <3>2, <3>3
  <2>2. CASE ~(token.len = 0 \/ token \in Seen(results))
    <3>. DEFINE r == [token |-> token, at |-> x.at]
    <3>1. results' = Append(results, r)
      BY <1>1, <1>4, <2>2 DEF Report
    <3>2. r.token = token /\ r.at = x.at
      OBVIOUS
    <3>. HIDE DEF r
    <3>3. ToSet(results') = ToSet(results) \cup {r}
      BY <1>6, <3>1, ToSetAppend
    <3>4. VersionsWhole'
      BY <1>2, <1>3, <1>7, <3>2, <3>3 DEF ResultsHold, VersionsWhole
    <3>5. \E T : results' \in Seq(T)
      <4>1. results \in Seq(S \cup {r})
        BY <1>6
      <4>. QED BY <3>1, <4>1
    <3>6. Settled(x)'
      BY <1>7, <3>2, <3>3 DEF Settled, Reported
    <3>. QED BY <3>3, <3>4, <3>5, <3>6 DEF ResultsHold
  <2>. QED BY <2>1, <2>2
<1>9. ASSUME NEW y, Settled(y) PROVE Settled(y)'
  BY <1>2, <1>7, <1>8, <1>9 DEF Settled, Reported
<1>10. ChunkLen' = ChunkLen
  BY <1>2 DEF ChunkLen, Remaining
<1>11. Progress'
  BY <1>1, <1>2, <1>3, <1>8, <1>9, <1>10 DEF Progress
<1>. QED BY <1>5, <1>8, <1>11

\* The next window begins behind every prefix of this one, and the last one ends memory.
LEMMA AdvanceInv == ASSUME IInv, Advance PROVE IInv'
<1>. USE DEF IInv
<1>1. UNCHANGED <<total, banners, holes, pending, results, skipped>> /\ pc = "report" /\ pending = {}
  BY DEF Advance, memory
<1>2. /\ base < total /\ PrefixLen <= ChunkLen /\ ChunkLen \in Nat
      /\ \A x \in banners : x.at + PrefixLen <= base + ChunkLen => Settled(x)
  BY <1>1, WindowBounds DEF Progress
<1>3. \/ ChunkLen = total - base /\ pc' = "done" /\ base' = base
      \/ pc' = "scan" /\ base' = base + ChunkLen - (PrefixLen - 1)
  BY DEF Advance, Remaining, Overlap
<1>4. base' \in Nat /\ pc' \in {"scan", "done"}
  BY <1>2, <1>3 DEF ScanTypes
<1>5. ScanTypes' /\ ResultsHold'
  <2>1. ScanTypes'
    BY <1>1, <1>4 DEF ScanTypes
  <2>. QED BY <1>1, <2>1, SameResults
<1>6. ASSUME NEW x \in banners, Settled(x) PROVE Settled(x)'
  BY <1>1, <1>6 DEF Settled, Reported, Token, ToSet
<1>7. pc' = "done" => \A x \in banners : Settled(x)
  BY <1>2, <1>3 DEF ScanTypes
<1>8. pc' = "scan" => \A x \in banners : x.at < base' => Settled(x)
  BY <1>2, <1>3 DEF ScanTypes
<1>9. Progress'
  BY <1>1, <1>4, <1>6, <1>7, <1>8 DEF Progress
<1>. QED BY <1>5, <1>9

\* No prefix fits behind the end of the loop.
LEMMA FinishInv == ASSUME IInv, Finish PROVE IInv'
<1>. USE DEF IInv
<1>1. /\ UNCHANGED <<total, banners, holes, base, pending, results, skipped>>
      /\ pc = "scan" /\ pc' = "done" /\ (base >= total \/ Window < PrefixLen)
  BY DEF Finish, memory, LoopEnds
<1>2. ScanTypes' /\ ResultsHold'
  <2>1. ScanTypes'
    BY <1>1 DEF ScanTypes
  <2>. QED BY <1>1, <2>1, SameResults
<1>3. base >= total \/ total - base < PrefixLen
  BY <1>1 DEF ScanTypes, Window, ChunkLen, Tail_, Remaining, Least
<1>4. \A x \in banners : x.at < base
  BY <1>3 DEF ScanTypes
<1>5. ASSUME NEW x \in banners PROVE Settled(x)'
  <2>1. Settled(x)
    BY <1>1, <1>4 DEF Progress
  <2>. QED BY <1>1, <2>1 DEF Settled, Reported, Token, ToSet
<1>6. Progress'
  BY <1>1, <1>5 DEF Progress
<1>. QED BY <1>2, <1>6

\* The scan's invariant, from which the theorems below follow.
THEOREM ScanInvariant == Spec => []IInv
<1>1. IInv /\ [Next]_vars => IInv'
  <2>. SUFFICES ASSUME IInv, [Next]_vars PROVE IInv'
    OBVIOUS
  <2>1. CASE UNCHANGED vars
    <3>1. UNCHANGED <<total, banners, base, pending, results, skipped, pc>>
      BY <2>1 DEF vars
    <3>2. ScanTypes' /\ ResultsHold'
      <4>1. ScanTypes'
        BY <3>1 DEF IInv, ScanTypes
      <4>. QED BY <3>1, <4>1, SameResults DEF IInv
    <3>3. \A x : Settled(x)' <=> Settled(x)
      BY <3>1 DEF Settled, Reported, Token, ToSet
    <3>4. Progress'
      BY <3>1, <3>3 DEF IInv, Progress, ChunkLen, Remaining
    <3>. QED BY <3>2, <3>4 DEF IInv
  <2>. QED BY <2>1, SkipChunkInv, SearchChunkInv, ReportMatchInv, AdvanceInv, FinishInv DEF Next
<1>. QED BY <1>1, InitInv, PTL DEF Spec

(***************************************************************************)
(* A banner goes unreported only if its window could not be read or its    *)
(* text is empty: the chunking of discover_kernel_versions loses nothing.  *)
(***************************************************************************)
THEOREM VersionsLostOnlyToHoles == Spec => []LostOnlyToHoles
<1>1. IInv => LostOnlyToHoles
  BY DEF IInv, Progress, Settled, LostOnlyToHoles
<1>. QED BY <1>1, ScanInvariant, PTL

\* No reported version is cut by the end of a window.
THEOREM VersionsNeverCut == Spec => []VersionsWhole
<1>1. IInv => VersionsWhole
  BY DEF IInv, ResultsHold
<1>. QED BY <1>1, ScanInvariant, PTL
============================================================================
