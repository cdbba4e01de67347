--------------------------- MODULE ListWalkProofs ----------------------------
(***************************************************************************)
(* The list walks never report an entry that did not count, for lists of   *)
(* any length, any iteration bound and any interleaving with the target.   *)
(*                                                                         *)
(* NeverInvents alone is not inductive: an entry may be reported long      *)
(* after it was unlinked.  The invariant adds that whatever can look       *)
(* counted to the walk, linked or not, has been seen, and that the value   *)
(* the task walk carries from one read to the report is such a one.        *)
(***************************************************************************)
EXTENDS ListWalk, FiniteSetTheorems, TLAPS

TaskStates == {"task_ids", "task_next", "task_call"}
ModuleStates == {"module_next", "module_state"}

\* The walk's locals range over the entries of the list.
WalkTypes ==
  /\ pc \in {"start", "done", "error"} \cup TaskStates \cup ModuleStates
  /\ ok \in [Nodes -> BOOLEAN]
  /\ next \in [Entries -> Links]
  /\ linked \subseteq Nodes
  /\ nxt \in Links
  /\ counts \in BOOLEAN
  /\ pc = "start" => entry = Head
  /\ pc \in TaskStates => entry \in Entries
  /\ pc \in ModuleStates => entry \in Nodes

\* What looks counted has been seen.
CountedSeen ==
  /\ pc = "start" => reported = {} /\ CountNow(Nodes, ok) \subseteq linked
  /\ pc # "start" => CountNow(Nodes, ok) \subseteq seen
  /\ pc \in {"task_next", "task_call"} /\ counts => entry \in seen
  /\ reported \subseteq seen

WalkInv == WalkTypes /\ (world # "torn" => CountedSeen)

\* The invariant holds when the walk begins.
LEMMA WalkInit == Init => WalkInv
<1>. SUFFICES ASSUME Init PROVE WalkInv
  OBVIOUS
<1>1. linked \subseteq Nodes
  <2>1. Cardinality(Nodes) \in Nat
    BY ConstAssumption, FS_CardinalityType
  <2>2. CASE world # "torn"
    <3>1. PICK s \in Orders, n \in 0 .. Cardinality(Nodes) : linked = {s[k] : k \in 1 .. n}
      BY <2>2 DEF Init
    <3>. QED BY <2>1, <3>1 DEF Orders
  <2>. QED BY <2>2 DEF Init
<1>2. WalkTypes
  BY <1>1 DEF Init, WalkTypes, TaskStates, ModuleStates, Links, Entries
<1>3. world # "torn" => CountNow(Nodes, ok) \subseteq linked
  BY DEF Init, CountNow
<1>. QED BY <1>2, <1>3 DEF Init, WalkInv, CountedSeen

\* Types survive what the target does.
LEMMA KernelTypes == ASSUME WalkTypes, Kernel PROVE WalkTypes'
<1>1. ASSUME NEW n \in Nodes, Link(n) PROVE WalkTypes'
  <2>1. ok' \in [Nodes -> BOOLEAN]
    BY <1>1 DEF Link, WalkTypes
  <2>2. next' \in [Entries -> Links]
    BY <1>1 DEF Link, WalkTypes, Entries, Links
  <2>. QED BY <1>1, <2>1, <2>2 DEF Link, WalkTypes, walk
<1>2. ASSUME NEW n \in Nodes, Unlink(n) PROVE WalkTypes'
  <2>2. next' \in [Entries -> Links]
    BY <1>2 DEF Unlink, WalkTypes, Entries, Links
  <2>. QED BY <1>2, <2>2 DEF Unlink, WalkTypes, walk
<1>3. ASSUME NEW n \in Nodes, Form(n) PROVE WalkTypes'
  BY <1>3 DEF Form, WalkTypes, walk
<1>. QED BY <1>1, <1>2, <1>3 DEF Kernel

\* The target makes nothing look counted that Observe has not recorded.
LEMMA KernelSeen == ASSUME WalkTypes, CountedSeen, Kernel PROVE CountedSeen'
<1>1. ASSUME NEW n \in Nodes, Link(n) \/ Unlink(n) \/ Form(n) PROVE CountedSeen'
  <2>1. /\ pc' = pc /\ pc # "start" /\ reported' = reported /\ counts' = counts /\ entry' = entry
        /\ seen' = seen \cup CountNow(linked', ok')
    BY <1>1 DEF Link, Unlink, Form, walk, Observe, Running
  <2>2. \A m \in Nodes : ok'[m] => ok[m] \/ m \in linked'
    BY <1>1 DEF Link, Unlink, Form, WalkTypes
  <2>3. CountNow(Nodes, ok') \subseteq CountNow(Nodes, ok) \cup CountNow(linked', ok')
    BY <2>2 DEF CountNow
  <2>. QED BY <2>1, <2>3 DEF CountedSeen
<1>. QED BY <1>1 DEF Kernel

\* Types survive the steps of the walk.
LEMMA WalkTypesStep == ASSUME WalkTypes, Walk PROVE WalkTypes'
<1>. USE DEF WalkTypes, TaskStates, ModuleStates, kernelVars
<1>0. NULL \in Links /\ (\A x \in Links : x \notin {NULL, Head} => x \in Nodes) /\ Nodes \subseteq Entries
  BY DEF Links, Entries
<1>1. CASE TaskStart
  <2>1. Head \in Entries
    BY DEF Entries
  <2>. QED BY <1>1, <2>1 DEF TaskStart
<1>2. CASE TaskIds
  <2>1. counts' \in BOOLEAN
    BY <1>2, Zenon DEF TaskIds
  <2>. QED BY <1>2, <2>1 DEF TaskIds
<1>3. CASE TaskNext
  BY <1>3 DEF TaskNext
<1>4. CASE TaskReadFails
  BY <1>4 DEF TaskReadFails
<1>5. CASE TaskReport \/ TaskDeclined \/ TaskPass
  BY <1>0, <1>5 DEF TaskReport, TaskDeclined, TaskPass, EndsWalk, Continue, Counted, IterationOver, Record
<1>6. CASE ModuleStart
  <2>1. Head \in Entries
    BY DEF Entries
  <2>. QED BY <1>0, <1>6, <2>1 DEF ModuleStart
<1>7. CASE ModuleNext
  <2>1. entry \in Entries
    BY <1>7 DEF ModuleNext, Entries
  <2>. QED BY <1>0, <1>7, <2>1 DEF ModuleNext
<1>8. CASE ModuleCollect \/ ModuleUnformed \/ ModuleWithoutMemory
  BY <1>0, <1>8 DEF ModuleCollect, ModuleUnformed, ModuleWithoutMemory, ModuleContinue, Counted,
                    IterationOver, Record
<1>. QED BY <1>1, <1>2, <1>3, <1>4, <1>5, <1>6, <1>7, <1>8 DEF Walk

\* The walk reports only what it found counted.
LEMMA WalkSeen == ASSUME WalkTypes, CountedSeen, Walk PROVE CountedSeen'
<1>. USE DEF CountedSeen, kernelVars, history
<1>1. CASE TaskStart \/ ModuleStart
  <2>1. /\ seen' = CountNow(linked, ok) /\ ok' = ok /\ reported' = {} /\ pc = "start"
        /\ pc' \in {"done", "task_ids", "module_next"}
    BY <1>1 DEF TaskStart, ModuleStart
  <2>2. CountNow(Nodes, ok) \subseteq CountNow(linked, ok)
    BY <2>1 DEF CountNow
  <2>. QED BY <2>1, <2>2
<1>2. CASE TaskIds
  <2>1. /\ pc = "task_ids" /\ pc' = "task_next" /\ ok' = ok /\ seen' = seen
        /\ reported' = reported /\ entry' = entry /\ counts' = (entry # Head /\ ok[entry])
    BY <1>2 DEF TaskIds
  <2>2. counts' => entry \in CountNow(Nodes, ok)
    BY <2>1 DEF CountNow, WalkTypes, TaskStates, Entries
  <2>. QED BY <2>1, <2>2
<1>3. CASE TaskNext
  BY <1>3 DEF TaskNext
<1>4. CASE TaskReadFails
  BY <1>4 DEF TaskReadFails
<1>5. CASE TaskReport \/ TaskDeclined \/ TaskPass
  <2>1. /\ pc = "task_call" /\ pc' \in {"done", "task_ids"} /\ ok' = ok /\ seen' = seen
        /\ reported' = reported \/ (counts /\ reported' = reported \cup {entry})
    BY <1>5 DEF TaskReport, TaskDeclined, TaskPass, Continue, Record
  <2>. QED BY <2>1
<1>6. CASE ModuleNext
  BY <1>6 DEF ModuleNext
<1>7. CASE ModuleCollect
  <2>1. /\ pc = "module_state" /\ pc' \in {"done", "module_next"} /\ ok' = ok /\ seen' = seen
        /\ reported' = reported \cup {entry} /\ ok[entry]
    BY <1>7 DEF ModuleCollect, ModuleContinue, Record
  <2>2. entry \in CountNow(Nodes, ok)
    BY <2>1 DEF CountNow, WalkTypes, ModuleStates
  <2>. QED BY <2>1, <2>2
<1>8. CASE ModuleUnformed \/ ModuleWithoutMemory
  <2>1. /\ pc = "module_state" /\ pc' \in {"done", "module_next"} /\ ok' = ok /\ seen' = seen
        /\ reported' = reported
    BY <1>8 DEF ModuleUnformed, ModuleWithoutMemory, ModuleContinue
  <2>. QED BY <2>1
<1>. QED BY <1>1, <1>2, <1>3, <1>4, <1>5, <1>6, <1>7, <1>8 DEF Walk

\* The invariant holds throughout.
THEOREM WalkInvariant == Spec => []WalkInv
<1>1. WalkInv /\ [Next]_vars => WalkInv'
  <2>. SUFFICES ASSUME WalkInv, [Next]_vars PROVE WalkInv'
    OBVIOUS
  <2>1. CASE UNCHANGED vars
    BY <2>1 DEF vars, WalkInv, WalkTypes, CountedSeen
  <2>2. CASE Kernel
    <3>1. world' = world
      BY <2>2 DEF Kernel, Link, Unlink, Form, walk
    <3>. QED BY <2>2, <3>1, KernelTypes, KernelSeen DEF WalkInv
  <2>3. CASE Walk
    <3>1. world' = world
      BY <2>3 DEF Walk, TaskStart, TaskIds, TaskNext, TaskReadFails, TaskReport, TaskDeclined,
                  TaskPass, ModuleStart, ModuleNext, ModuleCollect, ModuleUnformed, ModuleWithoutMemory
    <3>. QED BY <2>3, <3>1, WalkTypesStep, WalkSeen DEF WalkInv
  <2>. QED BY <2>1, <2>2, <2>3 DEF Next
<1>. QED BY <1>1, WalkInit, PTL DEF Spec

(***************************************************************************)
(* On a running target the walks report only entries that were linked and  *)
(* counted at some time of the walk, for any list and any bound.           *)
(***************************************************************************)
THEOREM WalkNeverInvents == Spec => []NeverInvents
<1>1. WalkInv => NeverInvents
  BY DEF WalkInv, CountedSeen, NeverInvents
<1>. QED BY <1>1, WalkInvariant, PTL

----------------------------------------------------------------------------
(* Nothing stable is skipped and nothing is reported twice *)

(***************************************************************************)
(* R is an order of the entries that have been in the list, in which every *)
(* link leads forward and over none of the entries of S: not the links of  *)
(* entries that have been unlinked either.                                 *)
(***************************************************************************)
Chain(R, S) ==
  /\ R \subseteq used \X used
  /\ \A x \in used : <<x, x>> \notin R
  /\ \A x, y, z \in used : <<x, y>> \in R /\ <<y, z>> \in R => <<x, z>> \in R
  /\ next[Head] \in used \cup {Head}
  /\ \A x \in used : next[x] = Head \/ (next[x] \in used /\ <<x, next[x]>> \in R)
  /\ \A s \in S : s = next[Head] \/ <<next[Head], s>> \in R
  /\ \A x \in used, s \in S : <<x, s>> \in R => s = next[x] \/ <<next[x], s>> \in R

LinkRead == {"task_call", "module_state"}
LinkToRead == {"task_ids", "task_next", "module_next"}

\* The entries V that the walk has left lie before its entry, and the link it read leads on.
Passed(R, V) ==
  /\ V \subseteq Entries /\ Cardinality(V) = iter
  /\ reported \subseteq V
  /\ entry \in used \/ (entry = Head /\ V = {})
  /\ \A v \in V : v = Head \/ <<v, entry>> \in R
  /\ pc \in LinkRead => nxt \in {NULL, Head} \/ (nxt \in used /\ (entry = Head \/ <<entry, nxt>> \in R))

\* Unless the walk was cut, every stable entry is reported, at hand or ahead.
NoneBehind(R) ==
  /\ pc \in LinkToRead =>
       \A s \in stable : s \in reported \/ entry = Head \/ s = entry \/ <<entry, s>> \in R
  /\ pc \in LinkRead => nxt # NULL /\
       \A s \in stable : s \in reported \/ s = entry \/ s = nxt \/ <<nxt, s>> \in R
  /\ pc \in {"task_next", "task_call"} /\ entry \in stable => counts

\* The entries in use, and what the walk starts from.
QuietTypes ==
  /\ linked \subseteq used /\ used \subseteq Nodes
  /\ ~twice
  /\ pc = "start" => iter = 0 /\ reported = {} /\ ~cut
  /\ pc # "start" => stable \subseteq CountNow(linked, ok)

QuietInv ==
  /\ QuietTypes
  /\ \E R : /\ Chain(R, IF pc = "start" THEN linked ELSE stable)
            /\ pc \in LinkRead \cup LinkToRead =>
                 (\E V : Passed(R, V)) /\ (~cut => NoneBehind(R))
  /\ (pc = "done" /\ ~cut /\ Cardinality(Nodes) < MaxIter) => stable \subseteq reported

\* A list in its order is a chain.
LEMMA ListIsChain ==
  ASSUME NEW N \in Nat, NEW s \in [1 .. N -> Nodes], NEW n \in 0 .. N,
         \A j, k \in 1 .. N : s[j] = s[k] => j = k,
         IsList(s, n, next), used = {s[k] : k \in 1 .. n}
  PROVE  \E R : Chain(R, used)
<1>. DEFINE R == {<<s[p[1]], s[p[2]]>> : p \in {q \in (1 .. n) \X (1 .. n) : q[1] < q[2]}}
<1>1. \A j, k \in 1 .. n : <<s[j], s[k]>> \in R <=> j < k
  <2>. SUFFICES ASSUME NEW j \in 1 .. n, NEW k \in 1 .. n PROVE <<s[j], s[k]>> \in R <=> j < k
    OBVIOUS
  <2>1. ASSUME j < k PROVE <<s[j], s[k]>> \in R
    <3>1. <<j, k>> \in {q \in (1 .. n) \X (1 .. n) : q[1] < q[2]}
      BY <2>1
    <3>. QED BY <3>1
  <2>2. ASSUME <<s[j], s[k]>> \in R PROVE j < k
    <3>1. PICK p \in (1 .. n) \X (1 .. n) : p[1] < p[2] /\ <<s[j], s[k]>> = <<s[p[1]], s[p[2]]>>
      BY <2>2
    <3>2. p[1] = j /\ p[2] = k
      BY <3>1
    <3>. QED BY <3>1, <3>2
  <2>. QED BY <2>1, <2>2
<1>2. R \subseteq used \X used
  OBVIOUS
<1>. HIDE DEF R
<1>3. \A x \in used : \E k \in 1 .. n : x = s[k]
  OBVIOUS
<1>4. \A x \in used : <<x, x>> \notin R
  <2>. SUFFICES ASSUME NEW k \in 1 .. n PROVE <<s[k], s[k]>> \notin R
    BY <1>3
  <2>1. ~(k < k)
    OBVIOUS
  <2>. QED BY <1>1, <2>1
<1>5. \A x, y, z \in used : <<x, y>> \in R /\ <<y, z>> \in R => <<x, z>> \in R
  <2>. SUFFICES ASSUME NEW x \in used, NEW y \in used, NEW z \in used, <<x, y>> \in R, <<y, z>> \in R
                PROVE  <<x, z>> \in R
    OBVIOUS
  <2>1. PICK i \in 1 .. n : x = s[i]
    BY <1>3
  <2>2. PICK j \in 1 .. n : y = s[j]
    BY <1>3
  <2>3. PICK k \in 1 .. n : z = s[k]
    BY <1>3
  <2>4. i < j /\ j < k
    BY <1>1, <2>1, <2>2, <2>3
  <2>5. i < k
    BY <2>4
  <2>. QED BY <1>1, <2>1, <2>3, <2>5
<1>6. \A k \in 1 .. n : next[s[k]] = IF k = n THEN Head ELSE s[k + 1]
  BY DEF IsList
<1>7. next[Head] = IF n = 0 THEN Head ELSE s[1]
  BY DEF IsList
<1>8. next[Head] \in used \cup {Head}
  BY <1>7
<1>9. \A x \in used : next[x] = Head \/ (next[x] \in used /\ <<x, next[x]>> \in R)
  <2>. SUFFICES ASSUME NEW k \in 1 .. n, k # n PROVE s[k + 1] \in used /\ <<s[k], s[k + 1]>> \in R
    BY <1>3, <1>6
  <2>1. k + 1 \in 1 .. n /\ k < k + 1
    OBVIOUS
  <2>. QED BY <1>1, <2>1
<1>10. \A x \in used : x = next[Head] \/ <<next[Head], x>> \in R
  <2>. SUFFICES ASSUME NEW k \in 1 .. n PROVE s[k] = s[1] \/ <<s[1], s[k]>> \in R
    BY <1>3, <1>7
  <2>1. 1 \in 1 .. n /\ (k = 1 \/ 1 < k)
    OBVIOUS
  <2>. QED BY <1>1, <2>1
<1>11. \A x, t \in used : <<x, t>> \in R => t = next[x] \/ <<next[x], t>> \in R
  <2>. SUFFICES ASSUME NEW i \in 1 .. n, NEW k \in 1 .. n, <<s[i], s[k]>> \in R
                PROVE  s[k] = next[s[i]] \/ <<next[s[i]], s[k]>> \in R
    BY <1>3
  <2>1. i < k
    BY <1>1
  <2>2. i + 1 \in 1 .. n /\ i # n /\ (k = i + 1 \/ i + 1 < k)
    BY <2>1
  <2>. QED BY <1>1, <1>6, <2>2
<1>. QED BY <1>2, <1>4, <1>5, <1>8, <1>9, <1>10, <1>11 DEF Chain

\* The invariant holds when the walk begins.
LEMMA QuietInit == Init /\ world = "quiet" => QuietInv
<1>. SUFFICES ASSUME Init, world = "quiet" PROVE QuietInv
  OBVIOUS
<1>1. PICK s \in Orders, n \in 0 .. Cardinality(Nodes) :
        IsList(s, n, next) /\ linked = {s[k] : k \in 1 .. n}
  BY DEF Init
<1>2. Cardinality(Nodes) \in Nat
  BY ConstAssumption, FS_CardinalityType
<1>3. /\ s \in [1 .. Cardinality(Nodes) -> Nodes]
      /\ \A j, k \in 1 .. Cardinality(Nodes) : s[j] = s[k] => j = k
  BY <1>1 DEF Orders
<1>4. used = {s[k] : k \in 1 .. n}
  BY <1>1 DEF Init
<1>5. \E R : Chain(R, used)
  BY <1>1, <1>2, <1>3, <1>4, ListIsChain
<1>6. QuietTypes
  BY <1>2, <1>3, <1>4 DEF Init, QuietTypes
<1>. QED BY <1>5, <1>6 DEF Init, QuietInv, LinkRead, LinkToRead

\* What the target does leaves a chain, of more entries, with fewer stable ones.
LEMMA KernelChain ==
  ASSUME WalkTypes, QuietTypes, world = "quiet", Kernel, NEW R, Chain(R, stable)
  PROVE  /\ QuietTypes' /\ stable' \subseteq stable /\ used \subseteq used'
         /\ \E Q : R \subseteq Q /\ Chain(Q, stable)'
<1>0. Head \notin Nodes /\ NULL \notin Nodes /\ NULL # Head
  BY ConstAssumption
<1>1. stable' \subseteq stable /\ stable' \subseteq CountNow(linked', ok') /\ pc # "start" /\ pc' = pc
      /\ twice' = twice /\ stable \subseteq used
  BY DEF Kernel, Link, Unlink, Form, walk, Observe, Running, QuietTypes, CountNow
<1>2. ASSUME NEW n \in Nodes, Link(n)
      PROVE  QuietTypes' /\ used \subseteq used' /\ \E Q : R \subseteq Q /\ Chain(Q, stable)'
  <2>1. n \notin used /\ used' = used \cup {n} /\ linked' = linked \cup {n}
    BY <1>2 DEF Link
  <2>2. QuietTypes'
    BY <1>1, <2>1 DEF QuietTypes
  <2>3. CASE kind = "tasks"
    <3>. DEFINE Q == R \cup (used \X {n})
    <3>1. PICK p \in linked \cup {Head} : next[p] = Head /\ next' = [next EXCEPT ![p] = n, ![n] = Head]
      BY <1>2, <2>3 DEF Link
    <3>2. p # n /\ p \in Entries /\ n \in Entries /\ Head \in Entries /\ n # Head
      BY <1>0, <2>1, <3>1 DEF QuietTypes, Entries
    <3>3. next'[p] = n /\ next'[n] = Head /\ \A x \in Entries \ {p, n} : next'[x] = next[x]
      BY <3>1, <3>2 DEF WalkTypes
    <3>4. \A x \in used : x \in Entries /\ x # n /\ x # Head
      BY <1>0, <2>1 DEF QuietTypes, Entries
    <3>5. \A x, y \in used' : <<x, y>> \in Q <=> <<x, y>> \in R \/ (x \in used /\ y = n)
      BY <2>1
    <3>6. \A x, y : <<x, y>> \in R => x \in used /\ y \in used
      BY DEF Chain
    <3>7. \A s \in stable : <<p, s>> \notin R /\ (p = Head => FALSE)
      BY <1>0, <1>1, <3>1, <3>4, <3>6 DEF Chain
    <3>8. Q \subseteq used' \X used'
      BY <2>1 DEF Chain
    <3>9. \A x \in used' : <<x, x>> \notin Q
      BY <2>1, <3>4, <3>5, <3>6 DEF Chain
    <3>10. \A x, y, z \in used' : <<x, y>> \in Q /\ <<y, z>> \in Q => <<x, z>> \in Q
      BY <2>1, <3>4, <3>5, <3>6 DEF Chain
    <3>11. next'[Head] \in used' \cup {Head}
      BY <2>1, <3>2, <3>3 DEF Chain
    <3>12. \A x \in used' : next'[x] = Head \/ (next'[x] \in used' /\ <<x, next'[x]>> \in Q)
      <4>. SUFFICES ASSUME NEW x \in used'
                    PROVE next'[x] = Head \/ (next'[x] \in used' /\ <<x, next'[x]>> \in Q)
        OBVIOUS
      <4>1. CASE x = p
        BY <2>1, <3>3, <3>4, <4>1
      <4>2. CASE x # p /\ x # n
        BY <2>1, <3>3, <3>4, <4>2 DEF Chain
      <4>. QED BY <3>3, <4>1, <4>2
    <3>13. \A s \in stable' : s = next'[Head] \/ <<next'[Head], s>> \in Q
      BY <1>1, <3>2, <3>3, <3>7 DEF Chain
    <3>14. \A x \in used', s \in stable' : <<x, s>> \in Q => s = next'[x] \/ <<next'[x], s>> \in Q
      <4>. SUFFICES ASSUME NEW x \in used', NEW s \in stable', <<x, s>> \in Q
                    PROVE s = next'[x] \/ <<next'[x], s>> \in Q
        OBVIOUS
      <4>1. s \in stable /\ s \in used /\ s # n
        BY <1>1, <3>4
      <4>2. <<x, s>> \in R /\ x \in used /\ x # p
        BY <2>1, <3>5, <3>6, <3>7, <4>1
      <4>. QED BY <3>3, <3>4, <4>1, <4>2 DEF Chain
    <3>. HIDE DEF Q
    <3>15. R \subseteq Q
      BY DEF Q
    <3>. QED BY <2>1, <2>2, <3>8, <3>9, <3>10, <3>11, <3>12, <3>13, <3>14, <3>15 DEF Chain
  <2>4. CASE kind = "modules"
    <3>. DEFINE Q == R \cup ({n} \X used)
    <3>1. next' = [next EXCEPT ![Head] = n, ![n] = next[Head]]
      BY <1>2, <2>4 DEF Link
    <3>2. n \in Entries /\ Head \in Entries /\ n # Head
      BY <1>0 DEF Entries
    <3>3. next'[Head] = n /\ next'[n] = next[Head] /\ \A x \in Entries \ {Head, n} : next'[x] = next[x]
      BY <3>1, <3>2 DEF WalkTypes
    <3>4. \A x \in used : x \in Entries /\ x # n /\ x # Head
      BY <1>0, <2>1 DEF QuietTypes, Entries
    <3>5. \A x, y \in used' : <<x, y>> \in Q <=> <<x, y>> \in R \/ (x = n /\ y \in used)
      BY <2>1
    <3>6. \A x, y : <<x, y>> \in R => x \in used /\ y \in used
      BY DEF Chain
    <3>8. Q \subseteq used' \X used'
      BY <2>1 DEF Chain
    <3>9. \A x \in used' : <<x, x>> \notin Q
      BY <2>1, <3>4, <3>5, <3>6 DEF Chain
    <3>10. \A x, y, z \in used' : <<x, y>> \in Q /\ <<y, z>> \in Q => <<x, z>> \in Q
      BY <2>1, <3>4, <3>5, <3>6 DEF Chain
    <3>11. next'[Head] \in used' \cup {Head}
      BY <2>1, <3>3
    <3>12. \A x \in used' : next'[x] = Head \/ (next'[x] \in used' /\ <<x, next'[x]>> \in Q)
      BY <2>1, <3>3, <3>4 DEF Chain
    <3>13. \A s \in stable' : s = next'[Head] \/ <<next'[Head], s>> \in Q
      BY <1>1, <2>1, <3>3, <3>5
    <3>14. \A x \in used', s \in stable' : <<x, s>> \in Q => s = next'[x] \/ <<next'[x], s>> \in Q
      <4>. SUFFICES ASSUME NEW x \in used', NEW s \in stable', <<x, s>> \in Q
                    PROVE s = next'[x] \/ <<next'[x], s>> \in Q
        OBVIOUS
      <4>1. s \in stable /\ s \in used /\ s # n
        BY <1>1, <3>4
      <4>2. CASE x = n
        BY <3>3, <4>1, <4>2 DEF Chain
      <4>3. CASE x # n
        <5>1. <<x, s>> \in R /\ x \in used
          BY <2>1, <3>5, <4>1, <4>3
        <5>. QED BY <3>3, <3>4, <4>1, <5>1 DEF Chain
      <4>. QED BY <4>2, <4>3
    <3>. HIDE DEF Q
    <3>15. R \subseteq Q
      BY DEF Q
    <3>. QED BY <2>1, <2>2, <3>8, <3>9, <3>10, <3>11, <3>12, <3>13, <3>14, <3>15 DEF Chain
  <2>. QED BY <1>2, <2>3, <2>4 DEF Link
<1>3. ASSUME NEW n \in Nodes, Unlink(n)
      PROVE  QuietTypes' /\ used \subseteq used' /\ \E Q : R \subseteq Q /\ Chain(Q, stable)'
  <2>1. n \in used /\ n \notin stable' /\ used' = used /\ linked' = linked \ {n}
    BY <1>1, <1>3 DEF Unlink, QuietTypes, CountNow
  <2>2. QuietTypes'
    BY <1>1, <2>1 DEF QuietTypes
  <2>3. PICK p \in linked \cup {Head} : p # n /\ next[p] = n /\ next' = [next EXCEPT ![p] = next[n]]
    BY <1>3 DEF Unlink
  <2>4. p \in Entries /\ (p = Head \/ p \in used) /\ \A x \in used : x \in Entries /\ x # Head
    BY <1>0, <2>3 DEF QuietTypes, Entries
  <2>5. next'[p] = next[n] /\ \A x \in Entries \ {p} : next'[x] = next[x]
    BY <2>3, <2>4 DEF WalkTypes
  <2>6. Head \in Entries
    BY DEF Entries
  <2>7. next'[Head] \in used \cup {Head}
    BY <2>1, <2>4, <2>5, <2>6 DEF Chain
  <2>8. \A x \in used : next'[x] = Head \/ (next'[x] \in used /\ <<x, next'[x]>> \in R)
    <3>. SUFFICES ASSUME NEW x \in used
                  PROVE next'[x] = Head \/ (next'[x] \in used /\ <<x, next'[x]>> \in R)
      OBVIOUS
    <3>1. CASE x = p
      BY <2>1, <2>3, <2>4, <2>5, <3>1 DEF Chain
    <3>2. CASE x # p
      BY <2>4, <2>5, <3>2 DEF Chain
    <3>. QED BY <3>1, <3>2
  <2>9. \A s \in stable' : s = next'[Head] \/ <<next'[Head], s>> \in R
    <3>. SUFFICES ASSUME NEW s \in stable'
                  PROVE s = next'[Head] \/ <<next'[Head], s>> \in R
      OBVIOUS
    <3>0. s \in stable /\ s # n
      BY <1>1, <2>1
    <3>1. s = next[Head] \/ <<next[Head], s>> \in R
      BY <2>1, <3>0 DEF Chain
    <3>2. CASE p = Head
      <4>1. <<n, s>> \in R
        BY <2>3, <3>0, <3>1, <3>2
      <4>. QED BY <2>1, <2>5, <3>0, <3>2, <4>1 DEF Chain
    <3>3. CASE p # Head
      BY <2>5, <2>6, <3>1, <3>3
    <3>. QED BY <3>2, <3>3
  <2>10. \A x \in used, s \in stable' : <<x, s>> \in R => s = next'[x] \/ <<next'[x], s>> \in R
    BY <1>1, <2>1, <2>3, <2>4, <2>5 DEF Chain
  <2>11. Chain(R, stable)'
    BY <2>1, <2>7, <2>8, <2>9, <2>10 DEF Chain
  <2>. QED BY <2>1, <2>2, <2>11
<1>4. ASSUME NEW n \in Nodes, Form(n)
      PROVE  QuietTypes' /\ used \subseteq used' /\ \E Q : R \subseteq Q /\ Chain(Q, stable)'
  <2>1. used' = used /\ linked' = linked /\ next' = next
    BY <1>4 DEF Form
  <2>2. QuietTypes'
    BY <1>1, <2>1 DEF QuietTypes
  <2>3. Chain(R, stable)'
    BY <1>1, <2>1 DEF Chain
  <2>. QED BY <2>1, <2>2, <2>3
<1>. QED BY <1>1, <1>2, <1>3, <1>4 DEF Kernel

\* The walk's position does not depend on what the target does.
LEMMA KernelQuiet ==
  ASSUME WalkTypes, QuietInv, world = "quiet", Kernel
  PROVE  QuietInv'
<1>1. /\ pc' = pc /\ entry' = entry /\ nxt' = nxt /\ counts' = counts /\ iter' = iter
      /\ reported' = reported /\ cut' = cut /\ pc \notin {"start", "done"}
  BY DEF Kernel, Link, Unlink, Form, walk, Running
<1>2. PICK R : /\ Chain(R, stable)
               /\ pc \in LinkRead \cup LinkToRead =>
                    (\E V : Passed(R, V)) /\ (~cut => NoneBehind(R))
  BY <1>1 DEF QuietInv
<1>3. /\ QuietTypes' /\ stable' \subseteq stable /\ used \subseteq used'
      /\ \E Q : R \subseteq Q /\ Chain(Q, stable)'
  BY <1>2, KernelChain DEF QuietInv
<1>4. PICK Q : R \subseteq Q /\ Chain(Q, stable)'
  BY <1>3
<1>5. ASSUME NEW V, Passed(R, V) PROVE Passed(Q, V)'
  BY <1>1, <1>3, <1>4, <1>5 DEF Passed
<1>6. ASSUME NoneBehind(R) PROVE NoneBehind(Q)'
  BY <1>1, <1>3, <1>4, <1>6 DEF NoneBehind
<1>7. pc \in LinkRead \cup LinkToRead =>
        (\E V : Passed(Q, V)') /\ (~cut => NoneBehind(Q)')
  BY <1>2, <1>5, <1>6
<1>8. pc' # "start" /\ pc' # "done" /\ pc' = pc /\ cut' = cut
  BY <1>1
<1>. QED BY <1>3, <1>4, <1>7, <1>8 DEF QuietInv

\* The entry at hand has not been passed, so passing it counts one more.
LEMMA PassOne ==
  ASSUME QuietTypes, NEW R, NEW S, Chain(R, S), NEW V, Passed(R, V)
  PROVE  /\ entry \notin V /\ entry \notin reported
         /\ V \cup {entry} \subseteq Entries /\ Cardinality(V \cup {entry}) = iter + 1
<1>1. entry \notin V
  <2>. SUFFICES ASSUME entry \in V PROVE FALSE
    OBVIOUS
  <2>1. entry \in used /\ (entry = Head \/ <<entry, entry>> \in R)
    BY DEF Passed
  <2>2. entry # Head
    BY <2>1, ConstAssumption DEF QuietTypes
  <2>. QED BY <2>1, <2>2 DEF Chain
<1>2. IsFiniteSet(Entries)
  BY ConstAssumption, FS_AddElement DEF Entries
<1>3. IsFiniteSet(V)
  BY <1>2, FS_Subset DEF Passed
<1>4. entry \in Entries
  BY DEF Passed, QuietTypes, Entries
<1>. QED BY <1>1, <1>3, <1>4, FS_AddElement DEF Passed

\* A walk that passes an entry and has another one ahead is within its bound.
LEMMA WithinBound ==
  ASSUME QuietTypes, NEW R, NEW S, Chain(R, S), NEW V, Passed(R, V),
         pc \in LinkRead, nxt \notin {NULL, Head}
  PROVE  /\ nxt \in used /\ iter + 1 <= Cardinality(Nodes)
         /\ \A v \in V \cup {entry} : v = Head \/ <<v, nxt>> \in R
<1>1. nxt \in used /\ nxt \in Nodes /\ (entry = Head \/ <<entry, nxt>> \in R)
  BY DEF Passed, QuietTypes
<1>2. \A v \in V : v = Head \/ <<v, nxt>> \in R
  <2>. SUFFICES ASSUME NEW v \in V, v # Head PROVE <<v, nxt>> \in R
    OBVIOUS
  <2>1. <<v, entry>> \in R /\ <<entry, nxt>> \in R
    BY <1>1, ConstAssumption DEF Passed, QuietTypes
  <2>2. v \in used /\ entry \in used
    BY <2>1 DEF Chain
  <2>. QED BY <1>1, <2>1, <2>2 DEF Chain
<1>3. nxt \notin V \cup {entry}
  BY <1>1, <1>2, ConstAssumption DEF Chain, QuietTypes
<1>4. V \cup {entry} \subseteq Entries \ {nxt} /\ Cardinality(V \cup {entry}) = iter + 1
  BY <1>3, PassOne
<1>5. IsFiniteSet(Entries) /\ Cardinality(Entries) = Cardinality(Nodes) + 1
  BY ConstAssumption, FS_AddElement DEF Entries
<1>6. IsFiniteSet(Entries \ {nxt}) /\ Cardinality(Entries \ {nxt}) = Cardinality(Nodes)
  <2>1. nxt \in Entries
    BY <1>1 DEF Entries
  <2>2. Cardinality(Entries \ {nxt}) = Cardinality(Entries) - 1
    BY <1>5, <2>1, FS_RemoveElement
  <2>3. Cardinality(Nodes) \in Nat
    BY ConstAssumption, FS_CardinalityType
  <2>. QED BY <1>5, <2>2, <2>3, FS_RemoveElement
<1>7. iter + 1 <= Cardinality(Nodes)
  BY <1>4, <1>6, FS_Subset
<1>. QED BY <1>1, <1>2, <1>7

\* The end of an iteration: the entry has been dealt with, and the walk goes on or ends.
LEMMA IterationEnds ==
  ASSUME WalkTypes, QuietInv, pc \in LinkRead,
         UNCHANGED <<next, linked, used, ok, stable>>,
         reported' = reported \/ (reported' = reported \cup {entry}),
         entry \notin reported => (twice' <=> twice),
         cut => cut',
         ~cut' /\ entry \in stable => entry \in reported',
         \/ pc' = "done" /\ (nxt \in {NULL, Head, entry} \/ iter + 1 >= MaxIter \/ cut')
         \/ /\ pc' \in {"task_ids", "module_next"} /\ nxt \notin {NULL, Head}
            /\ entry' = nxt /\ iter' = iter + 1
  PROVE  QuietInv'
<1>. USE DEF QuietInv
<1>1. PICK R : Chain(R, stable) /\ (\E V : Passed(R, V)) /\ (~cut => NoneBehind(R))
  BY DEF LinkRead
<1>2. PICK V : Passed(R, V)
  BY <1>1
<1>3. entry \notin reported /\ V \cup {entry} \subseteq Entries /\ Cardinality(V \cup {entry}) = iter + 1
  BY <1>1, <1>2, PassOne
<1>4. QuietTypes'
  BY <1>3 DEF QuietTypes, CountNow, LinkRead
<1>5. Chain(R, stable)'
  BY <1>1 DEF Chain
<1>6. stable' = stable /\ reported' \subseteq V \cup {entry}
  BY <1>2 DEF Passed
<1>7. ~cut' => ~cut /\ nxt # NULL
              /\ \A s \in stable : s \in reported' \/ s = nxt \/ <<nxt, s>> \in R
  BY <1>1 DEF NoneBehind, LinkRead
<1>8. CASE pc' = "done" /\ (nxt \in {NULL, Head, entry} \/ iter + 1 >= MaxIter \/ cut')
  <2>. SUFFICES ASSUME ~cut', Cardinality(Nodes) < MaxIter PROVE stable' \subseteq reported'
    BY <1>4, <1>5, <1>8 DEF LinkRead, LinkToRead
  <2>1. nxt = Head \/ nxt = entry
    <3>. SUFFICES ASSUME nxt # Head, nxt # entry PROVE FALSE
      OBVIOUS
    <3>1. nxt \notin {NULL, Head} /\ iter + 1 >= MaxIter
      BY <1>7, <1>8
    <3>2. iter + 1 <= Cardinality(Nodes)
      BY <1>1, <1>2, <3>1, WithinBound
    <3>3. iter + 1 \in Nat /\ Cardinality(Nodes) \in Nat
      <4>1. IsFiniteSet(Entries)
        BY ConstAssumption, FS_AddElement DEF Entries
      <4>2. IsFiniteSet(V \cup {entry})
        BY <1>3, <4>1, FS_Subset
      <4>. QED BY <1>3, <4>2, ConstAssumption, FS_CardinalityType
    <3>. QED BY <3>1, <3>2, <3>3, ConstAssumption
  <2>2. nxt = Head
    BY <1>1, <1>2, <2>1, <1>7, ConstAssumption DEF Passed, Chain, QuietTypes
  <2>3. Head \notin used /\ stable \subseteq used
    BY ConstAssumption DEF QuietTypes, CountNow, LinkRead
  <2>4. \A s : <<Head, s>> \notin R
    BY <1>1, <2>3 DEF Chain
  <2>5. \A s \in stable : s \in reported'
    BY <1>7, <2>2, <2>3, <2>4
  <2>. QED BY <1>6, <2>5
<1>9. CASE /\ pc' \in {"task_ids", "module_next"} /\ nxt \notin {NULL, Head}
           /\ entry' = nxt /\ iter' = iter + 1
  <2>1. nxt \in used /\ \A v \in V \cup {entry} : v = Head \/ <<v, nxt>> \in R
    BY <1>1, <1>2, <1>9, WithinBound
  <2>2. PICK W : W = V \cup {entry}
    OBVIOUS
  <2>4. Passed(R, W)'
    BY <1>3, <1>6, <1>9, <2>1, <2>2 DEF Passed, LinkRead
  <2>3. ~cut' => NoneBehind(R)'
    BY <1>6, <1>7, <1>9 DEF NoneBehind, LinkRead
  <2>. QED BY <1>4, <1>5, <1>9, <2>3, <2>4
<1>. QED BY <1>8, <1>9

\* Reads of the walk keep to the chain.
LEMMA WalkQuiet ==
  ASSUME WalkTypes, QuietInv, Walk
  PROVE  QuietInv'
<1>1. CASE TaskStart \/ ModuleStart
  <2>. USE DEF QuietInv
  <2>1. /\ pc = "start" /\ pc' \in {"done", "task_ids", "module_next"}
        /\ UNCHANGED <<next, linked, used, ok, iter, reported, twice>>
        /\ stable' = CountNow(linked, ok) /\ iter = 0 /\ reported = {} /\ ~cut
    BY <1>1 DEF TaskStart, ModuleStart, kernelVars, QuietTypes
  <2>2. PICK R : Chain(R, linked)
    BY <2>1
  <2>3. stable' \subseteq linked
    BY <2>1 DEF CountNow
  <2>4. Chain(R, stable)'
    BY <2>1, <2>2, <2>3 DEF Chain
  <2>5. QuietTypes'
    BY <2>1 DEF QuietTypes
  <2>6. Cardinality(Nodes) \in Nat /\ Cardinality({}) = 0
    BY ConstAssumption, FS_CardinalityType, FS_EmptySet
  <2>7. Head \notin used /\ linked \subseteq used
    BY ConstAssumption DEF QuietTypes
  <2>8. CASE TaskStart
    <3>1. entry' = Head /\ (pc' = "task_ids" \/ (pc' = "done" /\ MaxIter = 0))
      BY <2>8 DEF TaskStart, WalkTypes
    <3>2. pc' = "task_ids" => Passed(R, {})' /\ NoneBehind(R)'
      BY <2>1, <2>6, <3>1 DEF Passed, NoneBehind, LinkRead
    <3>. QED BY <2>4, <2>5, <2>6, <3>1, <3>2 DEF LinkRead, LinkToRead
  <2>9. CASE ModuleStart
    <3>1. \/ entry' = next[Head] /\ cut' = cut
          \/ entry' = NULL /\ cut' = TRUE
      BY <2>9 DEF ModuleStart
    <3>2. pc' = IF MaxIter = 0 \/ entry' \in {NULL, Head} THEN "done" ELSE "module_next"
      BY <2>9 DEF ModuleStart
    <3>3. CASE pc' = "module_next"
      <4>1. entry' = next[Head] /\ entry' \in used
        BY <2>2, <3>1, <3>2, <3>3 DEF Chain
      <4>2. Passed(R, {})' /\ NoneBehind(R)'
        BY <2>1, <2>2, <2>3, <2>6, <3>3, <4>1 DEF Passed, NoneBehind, LinkRead, Chain
      <4>. QED BY <2>4, <2>5, <3>3, <4>2
    <3>4. CASE pc' = "done"
      <4>. SUFFICES ASSUME ~cut', Cardinality(Nodes) < MaxIter PROVE stable' \subseteq reported'
        BY <2>4, <2>5, <3>4 DEF LinkRead, LinkToRead
      <4>1. next[Head] \in {NULL, Head}
        BY <2>6, <3>1, <3>2, <3>4
      <4>2. next[Head] \notin used
        BY <2>7, <4>1, ConstAssumption DEF QuietTypes
      <4>3. \A s : <<next[Head], s>> \notin R
        BY <2>2, <4>2 DEF Chain
      <4>4. ASSUME NEW s \in linked PROVE FALSE
        <5>1. s = next[Head] \/ <<next[Head], s>> \in R
          BY <2>2 DEF Chain
        <5>2. s \in used
          BY <2>7
        <5>. QED BY <4>2, <4>3, <5>1, <5>2
      <4>. QED BY <2>3, <4>4
    <3>. QED BY <3>2, <3>3, <3>4
  <2>. QED BY <1>1, <2>8, <2>9
<1>2. CASE TaskIds \/ TaskNext \/ ModuleNext
  <2>. USE DEF QuietInv
  <2>1. /\ pc \in LinkToRead /\ pc' \in {"task_next", "task_call", "module_state"}
        /\ UNCHANGED <<next, linked, used, ok, iter, reported, twice, entry, stable>>
        /\ cut => cut'
    BY <1>2 DEF TaskIds, TaskNext, ModuleNext, kernelVars, history, LinkToRead
  <2>2. PICK R : Chain(R, stable) /\ (\E V : Passed(R, V)) /\ (~cut => NoneBehind(R))
    BY <2>1 DEF LinkToRead
  <2>3. PICK V : Passed(R, V)
    BY <2>2
  <2>4. Chain(R, stable)'
    BY <2>1, <2>2 DEF Chain
  <2>5. QuietTypes'
    BY <2>1 DEF QuietTypes, LinkToRead
  <2>6. stable \subseteq used /\ stable \subseteq CountNow(linked, ok) /\ Head \notin used
    BY <2>1, ConstAssumption DEF QuietTypes, CountNow, LinkToRead
  <2>7. CASE TaskIds
    <3>1. pc = "task_ids" /\ pc' = "task_next" /\ counts' = (entry # Head /\ ok[entry]) /\ cut' = cut
      BY <2>7 DEF TaskIds
    <3>2. entry \in stable => counts'
      BY <2>6, <3>1 DEF CountNow
    <3>3. Passed(R, V)' /\ (~cut => NoneBehind(R)')
      BY <2>1, <2>2, <2>3, <3>1, <3>2 DEF Passed, NoneBehind, LinkRead, LinkToRead
    <3>. QED BY <2>4, <2>5, <3>1, <3>3
  <2>8. CASE TaskNext \/ ModuleNext
    <3>1. /\ pc' \in LinkRead
          /\ (nxt' = next[entry] /\ cut' = cut) \/ (nxt' = NULL /\ cut' = TRUE)
          /\ pc = "task_next" => counts' = counts
          /\ pc' = "task_call" => pc = "task_next"
          /\ pc' # "task_next"
      BY <2>8 DEF TaskNext, ModuleNext, LinkRead
    <3>2. nxt' \in {NULL, Head} \/ (nxt' \in used /\ (entry = Head \/ <<entry, nxt'>> \in R))
      BY <2>2, <2>3, <3>1 DEF Passed, Chain
    <3>3. Passed(R, V)'
      BY <2>1, <2>3, <3>2 DEF Passed
    <3>4. ASSUME ~cut' PROVE NoneBehind(R)'
      <4>1. nxt' = next[entry] /\ ~cut
        BY <2>1, <3>1, <3>4
      <4>2. nxt' # NULL
        <5>1. NULL \notin used \cup {Head} /\ (entry = Head \/ entry \in used)
          BY <2>3, ConstAssumption DEF QuietTypes, Passed
        <5>2. next[Head] \in used \cup {Head} /\ \A x \in used : next[x] \in used \cup {Head}
          BY <2>2 DEF Chain
        <5>. QED BY <4>1, <5>1, <5>2
      <4>3. \A s \in stable : s \in reported \/ entry = Head \/ s = entry \/ <<entry, s>> \in R
        BY <2>1, <2>2, <4>1 DEF NoneBehind
      <4>4. \A s \in stable : s \in reported \/ s = entry \/ s = nxt' \/ <<nxt', s>> \in R
        <5>1. CASE entry = Head
          BY <2>2, <4>1, <5>1 DEF Chain
        <5>2. CASE entry # Head
          BY <2>2, <2>3, <4>1, <4>3, <5>2 DEF Chain, Passed
        <5>. QED BY <5>1, <5>2
      <4>5. pc' = "task_call" /\ entry \in stable => counts'
        BY <2>2, <3>1, <4>1 DEF NoneBehind
      <4>. QED BY <2>1, <3>1, <4>2, <4>4, <4>5 DEF NoneBehind, LinkRead, LinkToRead
    <3>. QED BY <2>4, <2>5, <3>1, <3>3, <3>4 DEF LinkRead
  <2>. QED BY <1>2, <2>7, <2>8
<1>3. CASE TaskReadFails
  <2>1. /\ pc' = "error" /\ pc # "start"
        /\ UNCHANGED <<next, linked, used, ok, stable, twice>>
    BY <1>3 DEF TaskReadFails, kernelVars, history
  <2>2. QuietTypes'
    BY <2>1 DEF QuietTypes, QuietInv
  <2>3. PICK R : Chain(R, stable)
    BY <2>1 DEF QuietInv
  <2>4. Chain(R, stable)'
    BY <2>1, <2>3 DEF Chain
  <2>. QED BY <2>1, <2>2, <2>4 DEF QuietInv, LinkRead, LinkToRead
<1>4. CASE TaskReport \/ TaskDeclined \/ TaskPass
  <2>1. pc = "task_call" /\ UNCHANGED <<next, linked, used, ok, stable>> /\ (cut => cut')
    BY <1>4 DEF TaskReport, TaskDeclined, TaskPass, kernelVars, history
  <2>2. ~cut /\ entry \in stable => counts
    BY <2>1 DEF QuietInv, NoneBehind, LinkRead
  <2>3. /\ reported' = reported \/ (reported' = reported \cup {entry})
        /\ entry \notin reported => (twice' <=> twice)
        /\ counts => entry \in reported'
    <3>1. CASE Record /\ counts
      <4>1. reported' = reported \cup {entry} /\ entry \in reported'
        BY <3>1 DEF Record
      <4>2. entry \notin reported => (twice' <=> twice)
        BY <3>1, Zenon DEF Record
      <4>. QED BY <4>1, <4>2
    <3>2. CASE UNCHANGED <<reported, twice>> /\ ~counts
      BY <3>2
    <3>. QED BY <1>4, <3>1, <3>2 DEF TaskReport, TaskDeclined, TaskPass
  <2>4. \/ pc' = "done" /\ (nxt \in {NULL, Head, entry} \/ iter + 1 >= MaxIter \/ cut')
        \/ /\ pc' \in {"task_ids", "module_next"} /\ nxt \notin {NULL, Head}
           /\ entry' = nxt /\ iter' = iter + 1
    BY <1>4 DEF TaskReport, TaskDeclined, TaskPass, EndsWalk, Continue, Counted
  <2>. QED BY <2>1, <2>2, <2>3, <2>4, IterationEnds DEF LinkRead
<1>5. CASE ModuleCollect \/ ModuleUnformed \/ ModuleWithoutMemory
  <2>1. pc = "module_state" /\ UNCHANGED <<next, linked, used, ok, stable>> /\ (cut => cut')
    BY <1>5 DEF ModuleCollect, ModuleUnformed, ModuleWithoutMemory, kernelVars, history
  <2>2. entry \in stable => ok[entry]
    BY <2>1 DEF QuietInv, QuietTypes, CountNow
  <2>3. /\ reported' = reported \/ (reported' = reported \cup {entry})
        /\ entry \notin reported => (twice' <=> twice)
        /\ ~cut' /\ ok[entry] => entry \in reported'
    <3>1. CASE Record
      <4>1. reported' = reported \cup {entry} /\ entry \in reported'
        BY <3>1 DEF Record
      <4>2. entry \notin reported => (twice' <=> twice)
        BY <3>1, Zenon DEF Record
      <4>. QED BY <4>1, <4>2
    <3>2. CASE UNCHANGED <<reported, twice>> /\ (~ok[entry] \/ cut' = TRUE)
      BY <3>2
    <3>. QED BY <1>5, <3>1, <3>2 DEF ModuleCollect, ModuleUnformed, ModuleWithoutMemory
  <2>4. \/ pc' = "done" /\ (nxt \in {NULL, Head, entry} \/ iter + 1 >= MaxIter \/ cut')
        \/ /\ pc' \in {"task_ids", "module_next"} /\ nxt \notin {NULL, Head}
           /\ entry' = nxt /\ iter' = iter + 1
    BY <1>5 DEF ModuleCollect, ModuleUnformed, ModuleWithoutMemory, ModuleContinue, Counted
  <2>. QED BY <2>1, <2>2, <2>3, <2>4, IterationEnds DEF LinkRead
<1>. QED BY <1>1, <1>2, <1>3, <1>4, <1>5 DEF Walk

\* The walk and the target keep the chain on a target that links no address again.
THEOREM QuietWalk == Spec => [](world = "quiet" => QuietInv)
<1>1. WalkInv /\ (world = "quiet" => QuietInv) /\ [Next]_vars => (world = "quiet" => QuietInv)'
  <2>. SUFFICES ASSUME WalkInv, world = "quiet" => QuietInv, [Next]_vars, world' = "quiet"
                PROVE  QuietInv'
    OBVIOUS
  <2>1. world' = world
    BY DEF Next, Kernel, Link, Unlink, Form, walk, vars, Walk, TaskStart, TaskIds, TaskNext,
           TaskReadFails, TaskReport, TaskDeclined, TaskPass, ModuleStart, ModuleNext, ModuleCollect,
           ModuleUnformed, ModuleWithoutMemory
  <2>2. CASE Kernel
    BY <2>1, <2>2, KernelQuiet DEF WalkInv
  <2>3. CASE Walk
    BY <2>1, <2>3, WalkQuiet DEF WalkInv
  <2>4. CASE UNCHANGED vars
    BY <2>1, <2>4 DEF vars, QuietInv, QuietTypes, Chain, Passed, NoneBehind
  <2>. QED BY <2>2, <2>3, <2>4 DEF Next
<1>. QED BY <1>1, QuietInit, WalkInvariant, PTL DEF Spec

(***************************************************************************)
(* A walk that was not cut short misses no entry that counted from its     *)
(* first read to its last, for lists of any length.                        *)
(***************************************************************************)
THEOREM WalkMissesNothing == Spec => []StableReported
<1>1. (world = "quiet" => QuietInv) => StableReported
  BY DEF QuietInv, StableReported
<1>. QED BY <1>1, QuietWalk, PTL

(***************************************************************************)
(* No entry is handed to the callback, or collected, twice.                *)
(***************************************************************************)
THEOREM WalkReportsOnce == Spec => []ReportedOnce
<1>1. (world = "quiet" => QuietInv) => ReportedOnce
  BY DEF QuietInv, QuietTypes, ReportedOnce
<1>. QED BY <1>1, QuietWalk, PTL
=============================================================================
