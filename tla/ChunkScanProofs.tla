--------------------------- MODULE ChunkScanProofs ---------------------------
(***************************************************************************)
(* The chunked scans miss no readable occurrence, never leave memory, try  *)
(* no match twice and return the lowest kernel: for every memory size,     *)
(* chunk size, pattern length and pattern of holes.                        *)
(*                                                                         *)
(* The invariant says how far the scan has come.  Before a chunk is read,  *)
(* every readable occurrence that ends within the overlap of the chunk has *)
(* been tried; while its matches are tried, every one that ends in the     *)
(* chunk has been tried or is waiting.                                     *)
(***************************************************************************)
EXTENDS ChunkScan, TLAPS

USE ConstAssumption

Covered(limit, done) == \A s \in Readable : s + patLen <= limit => s \in done

\* Tried matches end before limit; untried ones lie in the chunk.
Progress ==
  /\ pc = "read" =>
       /\ Covered(base + patLen - 1, tried)
       /\ \A a \in tried : a < base
       /\ pending = {}
  /\ pc = "match" =>
       /\ readLen >= patLen /\ base + readLen <= total
       /\ readLen = ChunkSize \/ readLen = Remaining
       /\ Covered(base + readLen, tried \cup pending)
       /\ \A a \in tried : a + patLen <= base + readLen
       /\ \A a \in pending : base <= a
       /\ \A a \in pending : a + patLen <= base + readLen
  /\ pc = "notfound" => Readable \subseteq tried

\* Nothing that was tried and passed over validates; untried matches lie above.
Order ==
  /\ pc \in {"read", "match"} => \A a \in tried : ~Validates(a)
  /\ pc = "match" => \A a \in pending, x \in tried : x < a
  /\ pc = "found" =>
       /\ result \in Nat
       /\ \A s \in Readable : s < result => ~Validates(s)

IInv ==
  /\ TypeOK
  /\ \A s \in occ : s + patLen <= total
  /\ Progress
  /\ NoneTriedTwice
  /\ Order

\* The invariant holds before the first chunk.
LEMMA InitInv == Init => IInv
<1>. SUFFICES ASSUME Init PROVE IInv
  OBVIOUS
<1>1. TypeOK /\ \A s \in occ : s + patLen <= total
  BY DEF Init, TypeOK
<1>2. Progress
  BY <1>1 DEF Init, Progress, Covered, Readable, TypeOK
<1>3. NoneTriedTwice /\ Order
  BY DEF Init, NoneTriedTwice, Order
<1>. QED BY <1>1, <1>2, <1>3 DEF IInv

\* Reading a chunk queues every readable occurrence that ends in it.
LEMMA ReadChunkInv == ASSUME IInv, ReadChunk PROVE IInv'
<1>. USE DEF IInv
<1>1. PICK stale \in SUBSET {a \in base .. base + NextLen - patLen : Bytes(a) \cap holes # {}} :
        pending' = stale \cup {s \in Readable : base <= s /\ s + patLen <= base + NextLen}
  BY DEF ReadChunk
<1>2. /\ NextLen \in 0 .. ChunkSize /\ NextLen >= patLen
      /\ base + NextLen <= total
      /\ NextLen = ChunkSize \/ NextLen = total - base
  BY DEF ReadChunk, Exhausted, NextLen, Remaining, TypeOK
<1>3. \A a \in pending' : a \in Nat /\ base <= a /\ a + patLen <= base + NextLen
  BY <1>1, <1>2 DEF Readable, TypeOK
<1>4. TypeOK' /\ (\A s \in occ : s + patLen <= total)'
  BY <1>2, <1>3 DEF ReadChunk, memory, TypeOK
<1>5. \A a \in tried : a \in Nat /\ a < base
  BY DEF Progress, ReadChunk, TypeOK
<1>6. \A s \in Readable : s + patLen <= base + NextLen => s \in tried \cup pending'
  <2>. SUFFICES ASSUME NEW s \in Readable, s + patLen <= base + NextLen
                PROVE  s \in tried \cup pending'
    OBVIOUS
  <2>1. CASE base <= s
    BY <1>1, <2>1
  <2>2. CASE s < base
    <3>1. s + patLen <= base + patLen - 1
      BY <2>2 DEF Readable, TypeOK
    <3>. QED BY <3>1 DEF Progress, Covered, ReadChunk
  <2>. QED BY <2>1, <2>2 DEF Readable, TypeOK
<1>7. Readable' = Readable
  BY DEF ReadChunk, memory, Readable, Bytes
<1>8. Progress'
  <2>1. \A a \in tried : a + patLen <= base + NextLen
    BY <1>2, <1>5 DEF TypeOK
  <2>2. pc' = "match" /\ readLen' = NextLen /\ base' = base /\ tried' = tried
        /\ patLen' = patLen /\ total' = total
    BY DEF ReadChunk, memory
  <2>. QED BY <1>2, <1>3, <1>6, <1>7, <2>1, <2>2 DEF Progress, Remaining, Covered
<1>9. NoneTriedTwice'
  <2>1. tried' = tried
    BY DEF ReadChunk
  <2>2. \A a : ~(a \in pending' /\ a \in tried)
    BY <1>3, <1>5 DEF TypeOK
  <2>. QED BY <2>1, <2>2 DEF NoneTriedTwice
<1>10. Order'
  BY <1>3, <1>5 DEF Order, ReadChunk, TypeOK, memory, Validates, BannerCandidate, TaskCandidate
<1>. QED BY <1>4, <1>8, <1>9, <1>10

\* Trying the lowest match keeps the rest above everything tried.
LEMMA TryMatchInv == ASSUME IInv, TryMatch PROVE IInv'
<1>. USE DEF IInv
<1>1. PICK a \in pending :
        /\ \A x \in pending : a <= x
        /\ tried' = tried \cup {a}
        /\ pending' = pending \ {a}
        /\ IF Validates(a) THEN result' = a /\ pc' = "found" ELSE UNCHANGED <<result, pc>>
  BY DEF TryMatch
<1>2. /\ pc = "match" /\ a \in Nat
      /\ UNCHANGED <<kind, total, patLen, delta, occ, holes, good, base, readLen>>
  BY DEF TryMatch, memory, TypeOK
<1>3. Readable' = Readable /\ \A x : Validates(x)' <=> Validates(x)
  BY <1>2 DEF Readable, Bytes, Validates, BannerCandidate, TaskCandidate
<1>4. TypeOK' /\ (\A s \in occ : s + patLen <= total)'
  BY <1>1, <1>2 DEF TypeOK
<1>5. tried' \cup pending' = tried \cup pending
  BY <1>1
<1>6. \A x \in tried' : x + patLen <= base + readLen
  BY <1>1, <1>2 DEF Progress
<1>7. \A s \in Readable : s < a => ~Validates(s)
  <2>. SUFFICES ASSUME NEW s \in Readable, s < a PROVE ~Validates(s)
    OBVIOUS
  <2>1. s \in Nat /\ s + patLen <= base + readLen
    <3>1. a + patLen <= base + readLen
      BY <1>2 DEF Progress
    <3>. QED BY <1>2, <3>1 DEF Readable, TypeOK
  <2>2. s \in tried
    BY <1>1, <1>2, <2>1 DEF Progress, Covered
  <2>. QED BY <1>2, <2>2 DEF Order
<1>8. NoneTriedTwice'
  BY <1>1 DEF NoneTriedTwice
<1>9. CASE Validates(a)
  <2>1. Progress'
    BY <1>1, <1>9 DEF Progress
  <2>2. Order'
    BY <1>1, <1>2, <1>3, <1>7, <1>9 DEF Order
  <2>. QED BY <1>4, <1>8, <2>1, <2>2
<1>10. CASE ~Validates(a)
  <2>1. pc' = "match" /\ result' = result
    BY <1>1, <1>2, <1>10
  <2>2. Progress'
    BY <1>1, <1>2, <1>3, <1>5, <1>6, <2>1 DEF Progress, Covered, Remaining
  <2>3. \A x \in pending' : a < x
    BY <1>1, <1>2 DEF TypeOK
  <2>4. Order'
    BY <1>1, <1>2, <1>3, <1>10, <2>1, <2>3 DEF Order
  <2>. QED BY <1>4, <1>8, <2>2, <2>4
<1>. QED BY <1>9, <1>10

\* The next chunk starts where every earlier occurrence has been tried.
LEMMA AdvanceInv == ASSUME IInv, Advance PROVE IInv'
<1>. USE DEF IInv
<1>1. /\ pc = "match" /\ pending = {} /\ pending' = {}
      /\ UNCHANGED <<kind, total, patLen, delta, occ, holes, good, readLen, tried, result>>
  BY DEF Advance, memory
<1>2. Readable' = Readable /\ \A x : Validates(x)' <=> Validates(x)
  BY <1>1 DEF Readable, Bytes, Validates, BannerCandidate, TaskCandidate
<1>3. \A s \in Readable : s \in Nat /\ s + patLen <= total
  BY DEF Readable, TypeOK
<1>4. NoneTriedTwice'
  BY <1>1 DEF NoneTriedTwice
<1>5. CASE readLen = Remaining
  <2>1. pc' = "notfound" /\ base' = base
    BY <1>5 DEF Advance
  <2>2. Readable \subseteq tried
    BY <1>1, <1>3, <1>5 DEF Progress, Covered, Remaining, TypeOK
  <2>3. Progress' /\ Order'
    BY <1>2, <2>1, <2>2, <1>1 DEF Progress, Order
  <2>4. TypeOK' /\ (\A s \in occ : s + patLen <= total)'
    BY <1>1, <2>1 DEF TypeOK
  <2>. QED BY <1>4, <2>3, <2>4
<1>6. CASE readLen # Remaining
  <2>1. pc' = "read" /\ base' = base + readLen - (patLen - 1)
    BY <1>6 DEF Advance, Overlap
  <2>2. readLen = ChunkSize /\ readLen >= patLen
    BY <1>1, <1>6 DEF Progress
  <2>3. base' \in Nat /\ base' + patLen - 1 = base + readLen
    BY <2>1, <2>2 DEF TypeOK
  <2>4. \A x \in tried : x < base'
    BY <1>1, <2>1 DEF Progress, TypeOK
  <2>5. \A s \in Readable : s + patLen <= base + readLen => s \in tried
    BY <1>1 DEF Progress, Covered
  <2>6. Progress'
    BY <1>1, <1>2, <2>1, <2>3, <2>4, <2>5 DEF Progress, Covered
  <2>7. Order'
    BY <1>1, <1>2, <2>1 DEF Order
  <2>8. TypeOK' /\ (\A s \in occ : s + patLen <= total)'
    BY <1>1, <2>1, <2>3 DEF TypeOK
  <2>. QED BY <1>4, <2>6, <2>7, <2>8
<1>. QED BY <1>5, <1>6

\* A failed read and the end of memory only change the outcome.
LEMMA EndInv == ASSUME IInv, ReadFails \/ Finish PROVE IInv'
<1>. USE DEF IInv
<1>1. /\ pc = "read"
      /\ UNCHANGED <<kind, total, patLen, delta, occ, holes, good, base, readLen, pending,
                     tried, result>>
  BY DEF ReadFails, Finish, memory
<1>2. Readable' = Readable
  BY <1>1 DEF Readable, Bytes
<1>3. NoneTriedTwice'
  BY <1>1 DEF NoneTriedTwice
<1>4. CASE ReadFails
  <2>1. pc' = "error"
    BY <1>4 DEF ReadFails
  <2>. QED BY <1>1, <1>3, <2>1 DEF TypeOK, Progress, Order
<1>5. CASE Finish
  <2>1. pc' = "notfound"
    BY <1>5 DEF Finish
  <2>2. total <= base + patLen - 1
    BY <1>5 DEF Finish, Exhausted, NextLen, Remaining, TypeOK
  <2>3. Readable \subseteq tried
    <3>1. \A s \in Readable : s + patLen <= total /\ s \in Nat
      BY DEF Readable, TypeOK
    <3>2. \A s \in Readable : s + patLen <= base + patLen - 1
      BY <2>2, <3>1 DEF TypeOK
    <3>3. \A s \in Readable : s + patLen <= base + patLen - 1 => s \in tried
      BY <1>1 DEF Progress, Covered
    <3>. QED BY <3>2, <3>3
  <2>. QED BY <1>1, <1>2, <1>3, <2>1, <2>3 DEF TypeOK, Progress, Order
<1>. QED BY <1>4, <1>5

\* Stuttering changes nothing.
LEMMA StutterInv == ASSUME IInv, UNCHANGED vars PROVE IInv'
<1>1. Readable' = Readable /\ \A x : Validates(x)' <=> Validates(x)
  BY DEF vars, Readable, Bytes, Validates, BannerCandidate, TaskCandidate
<1>. QED
  BY <1>1 DEF IInv, vars, TypeOK, Progress, Covered, Remaining, NoneTriedTwice, Order

\* The scan's progress invariant holds in every behaviour.
THEOREM Inductive == Spec => []IInv
<1>1. IInv /\ [Next]_vars => IInv'
  BY ReadChunkInv, TryMatchInv, AdvanceInv, EndInv, StutterInv DEF Next
<1>. QED BY <1>1, InitInv, PTL DEF Spec

(***************************************************************************)
(* For every memory, chunk size and pattern, a scan that gives up has      *)
(* tried every readable occurrence of the pattern.                         *)
(***************************************************************************)
THEOREM ScanIsComplete == Spec => []NothingSkipped
<1>1. IInv => NothingSkipped
  BY DEF IInv, Progress, NothingSkipped
<1>. QED BY <1>1, Inductive, PTL

\* The scan reads inside memory and validates no match twice.
THEOREM ScanIsTight == Spec => [](ReadsInBounds /\ NoneTriedTwice)
<1>1. IInv => ReadsInBounds /\ NoneTriedTwice
  BY DEF IInv, Progress, ReadsInBounds
<1>. QED BY <1>1, Inductive, PTL

\* The scan returns the lowest kernel that validates.
THEOREM ScanReturnsLowest == Spec => []LowestWins
<1>1. IInv => LowestWins
  BY DEF IInv, Order, LowestWins
<1>. QED BY <1>1, Inductive, PTL
============================================================================
