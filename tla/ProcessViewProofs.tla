-------------------------- MODULE ProcessViewProofs --------------------------
(***************************************************************************)
(* The caches of a process show one view, modules are whole and every      *)
(* address told resolves, for any mappings, files and merge gap.           *)
(*                                                                         *)
(* The seeds of one file are merged in the order of their addresses.  So   *)
(* when a seed is merged, every mapping of its file that came before lies  *)
(* below it, and the only module it can join is the last one of its file:  *)
(* the modules before that end a merge gap or more below its base.         *)
(***************************************************************************)
EXTENDS ProcessView, WellFoundedInduction, TLAPS

----------------------------------------------------------------------------
(* The operators *)

\* The least element of a set of numbers that is not empty.
LEMMA LeastOf ==
  ASSUME NEW T, T \subseteq Nat, T # {}
  PROVE  Min(T) \in T
<1>1. PICK i \in T : \A j \in T : ~(<<j, i>> \in OpToRel(<, Nat))
  BY NatLessThanWellFounded, WFMin
<1>2. \A j \in T : ~(j < i)
  BY <1>1 DEF OpToRel
<1>3. \A j \in T : i <= j
  BY <1>2
<1>. QED BY <1>3 DEF Min

\* The greatest element of a set of numbers up to n that is not empty.
LEMMA GreatestOf ==
  ASSUME NEW n \in Nat, NEW T, T \subseteq 1 .. n, T # {}
  PROVE  Max(T) \in T
<1>. DEFINE Left == {n - k : k \in T}
<1>1. Left \subseteq Nat /\ Left # {}
  <2>1. \A k \in T : n - k \in Nat
    OBVIOUS
  <2>. QED BY <2>1
<1>2. PICK i \in Left : \A j \in Left : ~(<<j, i>> \in OpToRel(<, Nat))
  BY <1>1, NatLessThanWellFounded, WFMin
<1>3. \A j \in Left : ~(j < i)
  BY <1>1, <1>2 DEF OpToRel
<1>4. PICK k \in T : i = n - k
  BY <1>2
<1>5. ASSUME NEW l \in T PROVE k >= l
  <2>1. ~(n - l < n - k)
    BY <1>3, <1>4
  <2>. QED BY <2>1
<1>. QED BY <1>4, <1>5 DEF Max

LEMMA MinOfTwo ==
  ASSUME NEW a \in Nat, NEW b \in Nat, a <= b
  PROVE  Min({a, b}) = a
BY DEF Min

LEMMA MaxOfTwo ==
  ASSUME NEW a \in Nat, NEW b \in Nat, a <= b
  PROVE  Max({a, b}) = b
BY DEF Max

\* Sorting keeps the modules.
LEMMA SortKeeps ==
  ASSUME NEW ms \in Seq(Module), NEW sorted \in SortedByBase(ms)
  PROVE  sorted \in Seq(Module) /\ ToSet(sorted) = ToSet(ms)
<1>1. PICK p \in Bijection(DOMAIN ms, DOMAIN ms) : sorted = [k \in DOMAIN ms |-> ms[p[k]]]
  BY DEF SortedByBase
<1>2. p \in [DOMAIN ms -> DOMAIN ms] /\ \A j \in DOMAIN ms : \E k \in DOMAIN ms : p[k] = j
  BY DEF Bijection, Injection, Surjection
<1>3. DOMAIN ms = 1 .. Len(ms) /\ Len(ms) \in Nat /\ \A k \in DOMAIN ms : ms[k] \in Module
  OBVIOUS
<1>4. sorted \in Seq(Module)
  BY <1>1, <1>2, <1>3
<1>5. ToSet(sorted) = ToSet(ms)
  BY <1>1, <1>2 DEF ToSet
<1>. QED BY <1>4, <1>5

----------------------------------------------------------------------------
(* Views of the address space *)

\* A set of mappings as a walk may return it.
IsView(r) ==
  /\ r \subseteq Vma
  /\ \A v \in r : v.start < v.end
  /\ \A v, w \in r : v = w \/ v.end <= w.start \/ w.end <= v.start
  /\ r # None /\ r # Err

\* A walk that keeps some of the mappings and loses some of their files returns a view.
LEMMA KeptIsView ==
  ASSUME NEW m \in Maps, NEW kept \in SUBSET m, NEW r \in FilesLost(kept)
  PROVE  IsView(r)
<1>1. PICK lost \in SUBSET kept : r = (kept \ lost) \cup {WithoutFile(v) : v \in lost}
  BY DEF FilesLost
<1>2. \A v \in m : v \in Vma /\ v.start < v.end /\ \A w \in m : v = w \/ v.end <= w.start \/ w.end <= v.start
  BY ConstAssumption
<1>3. \A v \in m : WithoutFile(v) \in Vma /\ WithoutFile(v).start = v.start /\ WithoutFile(v).end = v.end
  BY <1>2 DEF WithoutFile, Vma
<1>4. \A x \in r : \E v \in m : /\ x = v \/ x = WithoutFile(v)
                                /\ x \in Vma /\ x.start = v.start /\ x.end = v.end
                                /\ x = IF v \in lost THEN WithoutFile(v) ELSE v
  BY <1>1, <1>2, <1>3
<1>5. r # None /\ r # Err
  BY ConstAssumption
<1>6. r \subseteq Vma /\ \A v \in r : v.start < v.end
  BY <1>2, <1>4
<1>7. ASSUME NEW x \in r, NEW y \in r
      PROVE  x = y \/ x.end <= y.start \/ y.end <= x.start
  <2>1. PICK v \in m : x.start = v.start /\ x.end = v.end /\ x = IF v \in lost THEN WithoutFile(v) ELSE v
    BY <1>4
  <2>2. PICK w \in m : y.start = w.start /\ y.end = w.end /\ y = IF w \in lost THEN WithoutFile(w) ELSE w
    BY <1>4
  <2>3. v = w \/ v.end <= w.start \/ w.end <= v.start
    BY <1>2
  <2>. QED BY <2>1, <2>2, <2>3
<1>. QED BY <1>5, <1>6, <1>7 DEF IsView

\* A walk that finds nothing returns a view.
LEMMA NothingIsView ==
  ASSUME NEW m \in Maps
  PROVE  IsView({})
<1>1. {} \in FilesLost({})
  <2>1. {} = ({} \ {}) \cup {WithoutFile(v) : v \in {}}
    OBVIOUS
  <2>. QED BY <2>1 DEF FilesLost
<1>. QED BY <1>1, KeptIsView

\* Whatever vma_cache returns is an error or a view.
LEMMA WalkGivesView ==
  ASSUME maps \in Maps, cached_vmas = None \/ IsView(cached_vmas), NEW r \in vma_cache
  PROVE  r = Err \/ IsView(r)
<1>1. IsView({})
  BY NothingIsView
<1>2. \A x \in collect_vmas_maple : x = Err \/ IsView(x)
  BY KeptIsView DEF collect_vmas_maple
<1>3. \A x \in collect_vmas_mmap : x = Err \/ IsView(x)
  BY <1>1, KeptIsView DEF collect_vmas_mmap, Beginnings
<1>4. \A x \in collect_vmas : x = Err \/ IsView(x)
  BY <1>1, <1>2, <1>3 DEF collect_vmas
<1>. QED BY <1>4 DEF vma_cache

----------------------------------------------------------------------------
(* Merging the seeds *)

\* The modules ms are what the mappings of "done" make.
Witnessed(ms, done) ==
  \A k \in DOMAIN ms :
    /\ ms[k].base < ms[k].end
    /\ \E v, w \in done : /\ v.file = ms[k].file /\ v.start = ms[k].base
                          /\ w.file = ms[k].file /\ w.end = ms[k].end /\ ms[k].base <= w.start
Apart(ms) ==
  \A j, k \in DOMAIN ms :
    (j < k /\ ms[j].file = ms[k].file) => ms[j].end + MergeGap < ms[k].base
NoneLeftOut(ms, done) ==
  \A k \in DOMAIN ms : \A v \in done :
    (v.file = ms[k].file /\ ms[k].base <= v.start /\ v.start <= ms[k].end + MergeGap)
      => v.end <= ms[k].end
Dense(ms, done) ==
  \A k \in DOMAIN ms : \A v \in done :
    (v.file = ms[k].file /\ ms[k].base < v.start /\ v.start < ms[k].end) =>
      \E u \in done : /\ u.file = ms[k].file /\ ms[k].base <= u.start
                      /\ u.start < v.start /\ v.start <= u.end + MergeGap
Whole(ms, done) ==
  /\ ms \in Seq(Module)
  /\ Witnessed(ms, done) /\ Apart(ms) /\ NoneLeftOut(ms, done) /\ Dense(ms, done)

\* A mapping above all mappings of its file that came before is merged.
LEMMA SeedAdded ==
  ASSUME NEW ms, NEW done, Whole(ms, done),
         done \subseteq Vma, \A v \in done : v.start < v.end,
         NEW s \in Vma, s.file \in Nat, s.start < s.end,
         \A v \in done : v.file = s.file => v.end <= s.start,
         NEW v0 \in Vma, v0.start = s.start, v0.end = s.end, v0.file = s.file
  PROVE  Whole(AddSeed(ms, s), done \cup {v0})
<1>. DEFINE n == Len(ms)
            new == AddSeed(ms, s)
            all == done \cup {v0}
<1>1. /\ ms \in Seq(Module) /\ n \in Nat /\ DOMAIN ms = 1 .. n
      /\ \A k \in DOMAIN ms : /\ ms[k] \in Module /\ ms[k].base \in Nat /\ ms[k].end \in Nat
                              /\ ms[k].file \in Nat
  <2>1. ms \in Seq(Module)
    BY DEF Whole
  <2>2. Len(ms) \in Nat /\ DOMAIN ms = 1 .. Len(ms) /\ \A k \in DOMAIN ms : ms[k] \in Module
    BY <2>1
  <2>. QED BY <2>1, <2>2 DEF Module
<1>2. s.start \in Nat /\ s.end \in Nat /\ MergeGap \in Nat
  BY ConstAssumption DEF Vma
<1>3. \A v \in done : v.start \in Nat /\ v.end \in Nat
  BY DEF Vma
<1>4. Witnessed(ms, done) /\ Apart(ms) /\ NoneLeftOut(ms, done) /\ Dense(ms, done)
  BY DEF Whole
<1>5. \A k \in DOMAIN ms : ms[k].file = s.file => ms[k].end <= s.start /\ ms[k].base < s.start
  BY <1>1, <1>2, <1>3, <1>4 DEF Witnessed
<1>6. CASE Joinable(ms, s) # {}
  <2>. DEFINE k == Max(Joinable(ms, s))
  <2>1. k \in Joinable(ms, s)
    BY <1>1, <1>6, GreatestOf DEF Joinable
  <2>2. k \in DOMAIN ms /\ ms[k].file = s.file /\ s.start <= ms[k].end + MergeGap
    BY <2>1 DEF Joinable
  <2>. HIDE DEF k
  <2>3. Joined(ms[k], s) = [base |-> ms[k].base, end |-> s.end, file |-> s.file]
    <3>0. ms[k].base \in Nat /\ ms[k].base <= s.start
      BY <1>1, <1>2, <1>5, <2>2
    <3>1. Min({ms[k].base, s.start}) = ms[k].base
      BY <1>2, <3>0, MinOfTwo
    <3>2. Max({ms[k].end, s.end}) = s.end
      <4>1. ms[k].end \in Nat /\ ms[k].end <= s.end
        BY <1>1, <1>2, <1>5, <2>2
      <4>. QED BY <1>2, <4>1, MaxOfTwo
    <3>. QED BY <2>2, <3>1, <3>2 DEF Joined
  <2>. DEFINE m == [base |-> ms[k].base, end |-> s.end, file |-> s.file]
  <2>4. new = [ms EXCEPT ![k] = m]
    BY <1>6, <2>3 DEF AddSeed, k
  <2>5. /\ m \in Module /\ m.base = ms[k].base /\ m.end = s.end /\ m.file = s.file
        /\ m.file = ms[k].file
    BY <1>1, <1>2, <2>2 DEF Module
  <2>. HIDE DEF m
  <2>6. /\ new \in Seq(Module) /\ DOMAIN new = DOMAIN ms /\ new[k] = m
        /\ \A j \in DOMAIN ms : j # k => new[j] = ms[j]
    BY <1>1, <2>2, <2>4, <2>5
  <2>. HIDE DEF new, n
  <2>7. \A j \in DOMAIN ms : (ms[j].file = s.file /\ j # k) => j < k
    <3>. SUFFICES ASSUME NEW j \in DOMAIN ms, ms[j].file = s.file, k < j PROVE FALSE
      BY <1>1, <2>2
    <3>1. ms[k].end + MergeGap < ms[j].base
      BY <1>4, <2>2 DEF Apart
    <3>. QED BY <1>1, <1>2, <1>5, <2>2, <3>1
  <2>8. Witnessed(new, all)
    <3>. SUFFICES ASSUME NEW j \in DOMAIN ms
                  PROVE  /\ new[j].base < new[j].end
                         /\ \E v, w \in all :
                              /\ v.file = new[j].file /\ v.start = new[j].base
                              /\ w.file = new[j].file /\ w.end = new[j].end
                              /\ new[j].base <= w.start
      BY <2>6 DEF Witnessed
    <3>1. /\ ms[j].base < ms[j].end
          /\ \E v, w \in done : /\ v.file = ms[j].file /\ v.start = ms[j].base
                                /\ w.file = ms[j].file /\ w.end = ms[j].end /\ ms[j].base <= w.start
      BY <1>4 DEF Witnessed
    <3>2. CASE j # k
      BY <2>6, <3>1, <3>2
    <3>3. CASE j = k
      <4>1. PICK v \in done : v.file = ms[k].file /\ v.start = ms[k].base
        BY <3>1, <3>3
      <4>2. m.base <= v0.start /\ m.base < m.end
        BY <1>1, <1>2, <1>5, <2>2, <2>5
      <4>. QED BY <2>5, <2>6, <3>3, <4>1, <4>2
    <3>. QED BY <3>2, <3>3
  <2>9. Apart(new)
    <3>. SUFFICES ASSUME NEW i \in DOMAIN ms, NEW j \in DOMAIN ms, i < j, new[i].file = new[j].file
                  PROVE  new[i].end + MergeGap < new[j].base
      BY <2>6 DEF Apart
    <3>1. ms[i].file = ms[j].file
      BY <2>5, <2>6
    <3>2. i # k
      BY <1>1, <2>2, <2>7, <3>1
    <3>. QED BY <1>4, <2>5, <2>6, <3>1, <3>2 DEF Apart
  <2>10. NoneLeftOut(new, all)
    <3>. SUFFICES ASSUME NEW j \in DOMAIN ms, NEW v \in all, v.file = new[j].file,
                         new[j].base <= v.start, v.start <= new[j].end + MergeGap
                  PROVE  v.end <= new[j].end
      BY <2>6 DEF NoneLeftOut
    <3>1. CASE j = k
      BY <1>2, <1>3, <2>2, <2>5, <2>6, <3>1
    <3>2. CASE j # k /\ v \in done
      BY <1>4, <2>6, <3>2 DEF NoneLeftOut
    <3>3. CASE j # k /\ v = v0
      <4>1. j < k /\ new[j] = ms[j] /\ ms[j].file = ms[k].file
        BY <2>2, <2>6, <2>7, <3>3
      <4>2. ms[j].end + MergeGap < ms[k].base
        BY <1>4, <2>2, <4>1 DEF Apart
      <4>. QED BY <1>1, <1>2, <1>5, <2>2, <3>3, <4>1, <4>2
    <3>. QED BY <3>1, <3>2, <3>3
  <2>11. Dense(new, all)
    <3>. SUFFICES ASSUME NEW j \in DOMAIN ms, NEW v \in all, v.file = new[j].file,
                         new[j].base < v.start, v.start < new[j].end
                  PROVE  \E u \in all : /\ u.file = new[j].file /\ new[j].base <= u.start
                                        /\ u.start < v.start /\ v.start <= u.end + MergeGap
      BY <2>6 DEF Dense
    <3>1. CASE j # k /\ v \in done
      BY <1>4, <2>6, <3>1 DEF Dense
    <3>2. CASE j # k /\ v = v0
      BY <1>1, <1>2, <1>5, <2>6, <3>2
    <3>3. CASE j = k /\ v \in done
      <4>1. v.end <= s.start /\ v.start < v.end
        BY <2>5, <2>6, <3>3
      <4>2. v.start < ms[k].end
        <5>1. v.start <= ms[k].end + MergeGap
          BY <1>1, <1>2, <1>3, <2>2, <3>3, <4>1
        <5>2. v.end <= ms[k].end
          BY <1>1, <1>2, <1>3, <1>4, <2>2, <2>5, <2>6, <3>3, <5>1 DEF NoneLeftOut
        <5>. QED BY <1>1, <1>3, <2>2, <3>3, <4>1, <5>2
      <4>3. PICK u \in done : /\ u.file = ms[k].file /\ ms[k].base <= u.start
                              /\ u.start < v.start /\ v.start <= u.end + MergeGap
        BY <1>4, <2>2, <2>5, <2>6, <3>3, <4>2 DEF Dense
      <4>. QED BY <2>5, <2>6, <3>3, <4>3
    <3>4. CASE j = k /\ v = v0
      <4>1. PICK w \in done : w.file = ms[k].file /\ w.end = ms[k].end /\ ms[k].base <= w.start
        BY <1>4, <2>2 DEF Witnessed
      <4>2. w.start < v0.start /\ v0.start <= w.end + MergeGap
        BY <1>2, <1>3, <2>2, <4>1
      <4>. QED BY <2>5, <2>6, <3>4, <4>1, <4>2
    <3>. QED BY <3>1, <3>2, <3>3, <3>4
  <2>. QED BY <2>6, <2>8, <2>9, <2>10, <2>11 DEF Whole, new
<1>7. CASE Joinable(ms, s) = {}
  <2>1. \A k \in DOMAIN ms : ms[k].file = s.file => ms[k].end + MergeGap < s.start
    BY <1>1, <1>2, <1>7 DEF Joinable
  <2>2. Witnessed(ms, all) /\ NoneLeftOut(ms, all) /\ Dense(ms, all)
    <3>1. Witnessed(ms, all)
      BY <1>4 DEF Witnessed
    <3>2. NoneLeftOut(ms, all)
      BY <1>1, <1>2, <1>4, <2>1 DEF NoneLeftOut
    <3>3. Dense(ms, all)
      BY <1>1, <1>2, <1>4, <1>5 DEF Dense
    <3>. QED BY <3>1, <3>2, <3>3
  <2>3. CASE ~s.elf
    BY <1>1, <1>4, <1>7, <2>2, <2>3 DEF AddSeed, Whole
  <2>4. CASE s.elf
    <3>. DEFINE m == [base |-> s.start, end |-> s.end, file |-> s.file]
    <3>1. new = Append(ms, m)
      BY <1>7, <2>4 DEF AddSeed
    <3>2. m \in Module /\ m.base = s.start /\ m.end = s.end /\ m.file = s.file
      BY <1>2 DEF Module
    <3>. HIDE DEF m
    <3>3. /\ new \in Seq(Module) /\ DOMAIN new = 1 .. n + 1 /\ new[n + 1] = m
          /\ \A k \in DOMAIN ms : new[k] = ms[k]
      BY <1>1, <3>1, <3>2
    <3>. HIDE DEF new, n
    <3>4. \A k \in DOMAIN new : k = n + 1 \/ k \in DOMAIN ms
      BY <1>1, <3>3
    <3>5. Witnessed(new, all)
      <4>. SUFFICES ASSUME NEW k \in DOMAIN new
                    PROVE  /\ new[k].base < new[k].end
                           /\ \E v, w \in all :
                                /\ v.file = new[k].file /\ v.start = new[k].base
                                /\ w.file = new[k].file /\ w.end = new[k].end
                                /\ new[k].base <= w.start
        BY DEF Witnessed
      <4>1. CASE k = n + 1
        BY <1>2, <3>2, <3>3, <4>1
      <4>2. CASE k \in DOMAIN ms
        BY <2>2, <3>3, <4>2 DEF Witnessed
      <4>. QED BY <3>4, <4>1, <4>2
    <3>6. Apart(new)
      <4>. SUFFICES ASSUME NEW j \in DOMAIN new, NEW k \in DOMAIN new, j < k,
                           new[j].file = new[k].file
                    PROVE  new[j].end + MergeGap < new[k].base
        BY DEF Apart
      <4>1. j \in DOMAIN ms /\ new[j] = ms[j]
        BY <1>1, <3>3
      <4>2. CASE k = n + 1
        BY <2>1, <3>2, <3>3, <4>1, <4>2
      <4>3. CASE k \in DOMAIN ms
        BY <1>4, <3>3, <4>1, <4>3 DEF Apart
      <4>. QED BY <3>4, <4>2, <4>3
    <3>7. NoneLeftOut(new, all)
      BY <1>2, <1>3, <2>2, <3>2, <3>3, <3>4 DEF NoneLeftOut
    <3>8. Dense(new, all)
      <4>. SUFFICES ASSUME NEW k \in DOMAIN new, NEW v \in all, v.file = new[k].file,
                           new[k].base < v.start, v.start < new[k].end
                    PROVE  \E u \in all : /\ u.file = new[k].file /\ new[k].base <= u.start
                                          /\ u.start < v.start /\ v.start <= u.end + MergeGap
        BY DEF Dense
      <4>1. CASE k = n + 1
        BY <1>2, <1>3, <3>2, <3>3, <4>1
      <4>2. CASE k \in DOMAIN ms
        BY <2>2, <3>3, <4>2 DEF Dense
      <4>. QED BY <3>4, <4>1, <4>2
    <3>. QED BY <3>3, <3>5, <3>6, <3>7, <3>8 DEF Whole, new
  <2>. QED BY <2>3, <2>4
<1>. QED BY <1>6, <1>7

----------------------------------------------------------------------------
(* The invariant *)

\* The mappings of the view whose seeds have been merged.
Done == {v \in FileBacked(cached_vmas) : v \notin unread /\ \A s \in seeds : s.start # v.start}

\* While collect_modules runs, what is found is what the merged mappings make.
Collecting ==
  /\ cached_modules = None /\ IsView(cached_vmas)
  /\ unread \subseteq FileBacked(cached_vmas)
  /\ \A s \in seeds :
       s \in Vma /\ \E v \in FileBacked(cached_vmas) :
                      v.start = s.start /\ v.end = s.end /\ v.file = s.file
  /\ unread # {} => Done = {}
  /\ \A v \in Done : \A s \in seeds : v.file = s.file => v.start < s.start
  /\ Whole(found, Done)

\* The modules ms begin and end with mappings of the view vs.
Spanned(ms, vs) ==
  \A m \in ToSet(ms) :
    \E v, w \in vs : v.file = m.file /\ w.file = m.file /\ v.start = m.base /\ w.end = m.end

\* The modules ms are whole in the view vs.
WholeIn(ms, vs) ==
  \A m \in ToSet(ms) :
    /\ \A n \in ToSet(ms) : (n.file = m.file /\ m.base < n.base) => m.end + MergeGap < n.base
    /\ \A v \in vs :
         (v.file = m.file /\ m.base <= v.start /\ v.start <= m.end + MergeGap) => v.end <= m.end
    /\ \A v \in vs : (v.file = m.file /\ m.base < v.start /\ v.start < m.end) =>
         \E u \in vs : /\ u.file = m.file
                       /\ m.base <= u.start /\ u.start < v.start /\ v.start <= u.end + MergeGap

Kept ==
  /\ IsView(cached_vmas) /\ cached_modules \in Seq(Module)
  /\ Spanned(cached_modules, cached_vmas) /\ WholeIn(cached_modules, cached_vmas)

ViewInv ==
  /\ maps \in Maps
  /\ cached_vmas = None \/ IsView(cached_vmas)
  /\ op # "none" => Collecting
  /\ cached_modules # None => Kept

\* What is found when every seed is merged is whole in the view, in any order.
LEMMA FoundIsWhole ==
  ASSUME NEW vs, IsView(vs), NEW ms, Whole(ms, FileBacked(vs)),
         NEW sorted \in SortedByBase(ms)
  PROVE  sorted \in Seq(Module) /\ Spanned(sorted, vs) /\ WholeIn(sorted, vs)
<1>1. /\ ms \in Seq(Module) /\ Len(ms) \in Nat /\ DOMAIN ms = 1 .. Len(ms)
      /\ \A k \in DOMAIN ms : /\ ms[k] \in Module /\ ms[k].base \in Nat /\ ms[k].end \in Nat
                              /\ ms[k].file \in Nat
  <2>1. ms \in Seq(Module)
    BY DEF Whole
  <2>2. Len(ms) \in Nat /\ DOMAIN ms = 1 .. Len(ms) /\ \A k \in DOMAIN ms : ms[k] \in Module
    BY <2>1
  <2>. QED BY <2>1, <2>2 DEF Module
<1>2. sorted \in Seq(Module) /\ ToSet(sorted) = ToSet(ms)
  BY <1>1, SortKeeps
<1>3. \A m \in ToSet(ms) : \E k \in DOMAIN ms : m = ms[k]
  BY DEF ToSet
<1>4. FileBacked(vs) \subseteq vs
  BY DEF FileBacked
<1>5. \A v \in vs : v.file \in Nat => v \in FileBacked(vs)
  BY ConstAssumption DEF FileBacked, IsView, Vma
<1>6. Witnessed(ms, FileBacked(vs)) /\ Apart(ms) /\ NoneLeftOut(ms, FileBacked(vs)) /\ Dense(ms, FileBacked(vs))
  BY DEF Whole
<1>7. Spanned(ms, vs)
  BY <1>3, <1>4, <1>6 DEF Spanned, Witnessed
<1>8. WholeIn(ms, vs)
  <2>. SUFFICES ASSUME NEW m \in ToSet(ms)
                PROVE  /\ \A n \in ToSet(ms) :
                            (n.file = m.file /\ m.base < n.base) => m.end + MergeGap < n.base
                       /\ \A v \in vs :
                            (v.file = m.file /\ m.base <= v.start /\ v.start <= m.end + MergeGap)
                              => v.end <= m.end
                       /\ \A v \in vs : (v.file = m.file /\ m.base < v.start /\ v.start < m.end) =>
                            \E u \in vs : /\ u.file = m.file /\ m.base <= u.start
                                          /\ u.start < v.start /\ v.start <= u.end + MergeGap
    BY DEF WholeIn
  <2>1. PICK k \in DOMAIN ms : m = ms[k]
    BY <1>3
  <2>2. ASSUME NEW n \in ToSet(ms), n.file = m.file, m.base < n.base
        PROVE  m.end + MergeGap < n.base
    <3>1. PICK j \in DOMAIN ms : n = ms[j]
      BY <1>3
    <3>2. ~(j < k)
      <4>1. SUFFICES ASSUME j < k PROVE FALSE
        OBVIOUS
      <4>2. n.end + MergeGap < m.base /\ n.base < n.end
        BY <1>6, <2>1, <2>2, <3>1, <4>1 DEF Apart, Witnessed
      <4>3. n.base \in Nat /\ n.end \in Nat /\ m.base \in Nat /\ MergeGap \in Nat
        BY <1>1, <2>1, <3>1, ConstAssumption
      <4>. QED BY <2>2, <4>2, <4>3
    <3>3. j # k
      BY <1>1, <2>1, <2>2, <3>1
    <3>4. k < j
      BY <1>1, <3>2, <3>3
    <3>. QED BY <1>6, <2>1, <2>2, <3>1, <3>4 DEF Apart
  <2>3. \A v \in vs : v.file = m.file => v \in FileBacked(vs)
    BY <1>1, <1>5, <2>1
  <2>4. \A v \in vs : (v.file = m.file /\ m.base <= v.start /\ v.start <= m.end + MergeGap)
                        => v.end <= m.end
    BY <1>6, <2>1, <2>3 DEF NoneLeftOut
  <2>5. \A v \in vs : (v.file = m.file /\ m.base < v.start /\ v.start < m.end) =>
          \E u \in vs : /\ u.file = m.file /\ m.base <= u.start
                        /\ u.start < v.start /\ v.start <= u.end + MergeGap
    BY <1>4, <1>6, <2>1, <2>3 DEF Dense
  <2>. QED BY <2>2, <2>4, <2>5
<1>. QED BY <1>2, <1>7, <1>8 DEF Spanned, WholeIn

\* An empty sequence of modules is what no mappings make.
LEMMA NothingFound == Whole(<<>>, {})
BY DEF Whole, Witnessed, Apart, NoneLeftOut, Dense

\* A call that starts or answers.
LEMMA CallStep ==
  ASSUME ViewInv, NEW o, Call(o)
  PROVE  ViewInv'
<1>1. CASE cached_modules # None /\ UNCHANGED <<caches, op, locals>>
  BY <1>1 DEF ViewInv, Call, target, caches, locals, Kept, Collecting, Done
<1>2. CASE /\ cached_modules = None /\ UNCHANGED cached_modules
           /\ \E r \in vma_cache :
                /\ KeepVmas(r)
                /\ \/ r = Err /\ UNCHANGED <<op, locals>>
                   \/ /\ r # Err
                      /\ op' = o /\ unread' = FileBacked(r) /\ seeds' = {} /\ found' = <<>>
  <2>1. PICK r \in vma_cache :
          /\ KeepVmas(r)
          /\ \/ r = Err /\ UNCHANGED <<op, locals>>
             \/ /\ r # Err
                /\ op' = o /\ unread' = FileBacked(r) /\ seeds' = {} /\ found' = <<>>
    BY <1>2
  <2>2. r = Err \/ IsView(r)
    BY WalkGivesView DEF ViewInv
  <2>3. maps' \in Maps /\ op = "none" /\ cached_modules' = None
    BY <1>2 DEF ViewInv, Call, target
  <2>4. CASE r = Err
    <3>1. op' = "none" /\ cached_vmas' = None
      BY <2>1, <2>3, <2>4 DEF KeepVmas
    <3>. QED BY <2>3, <3>1 DEF ViewInv
  <2>5. CASE r # Err
    <3>1. /\ cached_vmas' = r /\ IsView(r) /\ unread' = FileBacked(r)
          /\ seeds' = {} /\ found' = <<>>
      BY <2>1, <2>2, <2>5 DEF KeepVmas
    <3>2. Done' = {}
      BY <3>1 DEF Done
    <3>3. Collecting'
      BY <2>3, <3>1, <3>2, NothingFound DEF Collecting
    <3>. QED BY <2>3, <3>1, <3>3 DEF ViewInv
  <2>. QED BY <2>4, <2>5
<1>. QED BY <1>1, <1>2 DEF Call

\* A header is read, nothing is merged.
LEMMA ReadStep ==
  ASSUME ViewInv, ReadHeader
  PROVE  ViewInv'
<1>1. /\ Collecting /\ UNCHANGED <<maps, cached_vmas, cached_modules, op, found>>
  BY DEF ViewInv, ReadHeader, target, caches
<1>2. PICK v \in unread, elf \in BOOLEAN :
        unread' = unread \ {v} /\ seeds' = seeds \cup {[v EXCEPT !.elf = elf]}
  <2>1. \A start : {FALSE, is_elf_image(start)} \subseteq BOOLEAN
    BY DEF is_elf_image
  <2>. QED BY <2>1 DEF ReadHeader
<1>3. v \in FileBacked(cached_vmas) /\ v \in Vma
  BY <1>1 DEF Collecting, IsView, FileBacked
<1>. DEFINE s == [v EXCEPT !.elf = elf]
<1>4. s \in Vma /\ s.start = v.start /\ s.end = v.end /\ s.file = v.file
  BY <1>3 DEF Vma
<1>5. seeds' = seeds \cup {s}
  BY <1>2
<1>. HIDE DEF s
<1>6. Done = {}
  BY <1>1 DEF Collecting
<1>7. Done' = {}
  BY <1>1, <1>2, <1>4, <1>5, <1>6 DEF Done
<1>8. Whole(found, {})
  BY <1>1, <1>6 DEF Collecting
<1>9. Collecting'
  BY <1>1, <1>2, <1>3, <1>4, <1>5, <1>7, <1>8 DEF Collecting
<1>. QED BY <1>1, <1>9 DEF ViewInv, Collecting

\* A seed is merged: one more mapping is done, and it lies above those of its file.
LEMMA MergeStep ==
  ASSUME ViewInv, MergeSeed
  PROVE  ViewInv'
<1>1. Collecting /\ UNCHANGED <<maps, cached_vmas, cached_modules, op, unread>> /\ unread = {}
  BY DEF ViewInv, MergeSeed, target, caches
<1>2. PICK s \in seeds : /\ \A t \in seeds : s = t \/ SeedBefore(s, t)
                         /\ seeds' = seeds \ {s}
                         /\ found' = AddSeed(found, s)
  BY DEF MergeSeed
<1>3. PICK v0 \in FileBacked(cached_vmas) : v0.start = s.start /\ v0.end = s.end /\ v0.file = s.file
  BY <1>1 DEF Collecting
<1>4. /\ s \in Vma /\ s.file \in Nat /\ s.start < s.end
      /\ s.start \in Nat /\ s.end \in Nat
      /\ v0 \in Vma /\ v0 \in cached_vmas
  BY <1>1, <1>3 DEF Collecting, FileBacked, IsView, Vma
<1>5. \A t \in seeds' : t.start # s.start /\ (t.file = s.file => s.start < t.start)
  <2>. SUFFICES ASSUME NEW t \in seeds, t # s
                PROVE  t.start # s.start /\ (t.file = s.file => s.start < t.start)
    BY <1>2
  <2>1. SeedBefore(s, t)
    BY <1>2
  <2>2. PICK w \in FileBacked(cached_vmas) : w.start = t.start /\ w.end = t.end /\ w.file = t.file
    BY <1>1 DEF Collecting
  <2>3. /\ w \in Vma /\ w \in cached_vmas /\ w.file \in Nat /\ w.start \in Nat /\ w.end \in Nat
        /\ w.start < w.end
    BY <1>1, <2>2 DEF Collecting, FileBacked, IsView, Vma
  <2>4. w = v0 \/ w.end <= v0.start \/ v0.end <= w.start
    BY <1>1, <1>4, <2>3 DEF Collecting, IsView
  <2>. QED BY <1>3, <1>4, <2>1, <2>2, <2>3, <2>4 DEF SeedBefore
<1>6. Done' = Done \cup {v0}
  <2>1. v0 \in Done'
    BY <1>1, <1>2, <1>3, <1>5 DEF Done
  <2>2. ASSUME NEW v \in Done PROVE v \in Done'
    BY <1>1, <1>2 DEF Done
  <2>3. ASSUME NEW v \in Done', v # v0 PROVE v \in Done
    <3>1. v \in FileBacked(cached_vmas) /\ \A t \in seeds' : t.start # v.start
      BY <1>1 DEF Done
    <3>2. v.start # v0.start
      <4>1. v \in cached_vmas /\ v.start < v.end /\ v.start \in Nat /\ v.end \in Nat
        BY <1>1, <3>1 DEF Collecting, IsView, FileBacked, Vma
      <4>2. v.end <= v0.start \/ v0.end <= v.start
        BY <1>1, <1>4, <2>3, <4>1 DEF Collecting, IsView
      <4>. QED BY <1>3, <1>4, <4>1, <4>2
    <3>. QED BY <1>1, <1>2, <1>3, <3>1, <3>2 DEF Done
  <2>. QED BY <2>1, <2>2, <2>3
<1>7. Whole(found', Done \cup {v0})
  <2>1. Done \subseteq cached_vmas /\ Done \subseteq Vma /\ \A v \in Done : v.start < v.end
    BY <1>1 DEF Collecting, Done, FileBacked, IsView
  <2>2. ASSUME NEW v \in Done, v.file = s.file PROVE v.end <= s.start
    <3>1. v.start < s.start
      BY <1>1, <2>2 DEF Collecting
    <3>2. v = v0 \/ v.end <= v0.start \/ v0.end <= v.start
      BY <1>1, <1>4, <2>1 DEF Collecting, IsView
    <3>3. v.start \in Nat /\ v.end \in Nat
      BY <2>1 DEF Vma
    <3>. QED BY <1>3, <1>4, <3>1, <3>2, <3>3
  <2>3. Whole(found, Done)
    BY <1>1 DEF Collecting
  <2>4. Whole(AddSeed(found, s), Done \cup {v0})
    BY <1>3, <1>4, <2>1, <2>2, <2>3, SeedAdded
  <2>. QED BY <1>2, <2>4
<1>8. \A v \in Done' : \A t \in seeds' : v.file = t.file => v.start < t.start
  BY <1>1, <1>2, <1>3, <1>5, <1>6 DEF Collecting
<1>9. Collecting'
  BY <1>1, <1>2, <1>6, <1>7, <1>8 DEF Collecting
<1>. QED BY <1>1, <1>9 DEF ViewInv, Collecting

\* The modules are cached when every seed is merged.
LEMMA ReadyStep ==
  ASSUME ViewInv, ModulesReady
  PROVE  ViewInv' /\ cached_modules' \in Seq(Module)
<1>1. /\ Collecting /\ UNCHANGED <<maps, cached_vmas>> /\ unread = {} /\ seeds = {}
      /\ op' = "none" /\ cached_modules' \in SortedByBase(found)
  BY DEF ViewInv, ModulesReady, target
<1>2. Done = FileBacked(cached_vmas)
  BY <1>1 DEF Done
<1>3. IsView(cached_vmas) /\ Whole(found, FileBacked(cached_vmas))
  BY <1>1, <1>2 DEF Collecting
<1>4. /\ cached_modules' \in Seq(Module)
      /\ Spanned(cached_modules', cached_vmas) /\ WholeIn(cached_modules', cached_vmas)
  BY <1>1, <1>3, FoundIsWhole
<1>5. Kept'
  BY <1>1, <1>3, <1>4 DEF Kept
<1>. QED BY <1>1, <1>4, <1>5 DEF ViewInv

\* Each step keeps the invariant.
LEMMA ViewStep ==
  ASSUME ViewInv, [Next]_vars
  PROVE  ViewInv'
<1>1. CASE UNCHANGED vars
  BY <1>1 DEF vars, target, caches, locals, ViewInv, Collecting, Done, Kept
<1>2. CASE Mutate
  BY <1>2 DEF Mutate, caches, locals, ViewInv, Collecting, Done, Kept
<1>3. ASSUME NEW d \in Dtbs, set_dtb(d) PROVE ViewInv'
  BY <1>3 DEF set_dtb, ViewInv
<1>4. CASE mapped_mem_range
  <2>1. PICK r \in vma_cache : KeepVmas(r)
    BY <1>4 DEF mapped_mem_range
  <2>2. r = Err \/ IsView(r)
    BY WalkGivesView DEF ViewInv
  <2>3. UNCHANGED <<maps, cached_modules, op>> /\ op = "none"
    BY <1>4 DEF mapped_mem_range, target
  <2>4. cached_vmas' = None \/ IsView(cached_vmas')
    BY <2>1, <2>2 DEF KeepVmas
  <2>5. cached_modules # None => UNCHANGED cached_vmas
    BY <2>1 DEF ViewInv, Kept, IsView, vma_cache, KeepVmas
  <2>. QED BY <2>3, <2>4, <2>5 DEF ViewInv, Kept
<1>5. ASSUME NEW o, Call(o) PROVE ViewInv'
  BY <1>5, CallStep
<1>. QED BY <1>1, <1>2, <1>3, <1>4, <1>5, ReadStep, MergeStep, ReadyStep DEF Next

(***************************************************************************)
(* While collect_modules runs, the modules found so far are what the       *)
(* merged mappings make; cached modules are whole in the cached view.      *)
(***************************************************************************)
THEOREM ViewInvariant == Spec => []ViewInv
<1>1. Init => ViewInv
  BY DEF Init, ViewInv
<1>2. ViewInv /\ [Next]_vars => ViewInv'
  BY ViewStep
<1>. QED BY <1>1, <1>2, PTL DEF Spec

(***************************************************************************)
(* Every cached module begins and ends with mappings of its file in the    *)
(* cached view: set_dtb and a new walk leave no module of an older view.   *)
(***************************************************************************)
THEOREM CachesAgree == Spec => []OneView
<1>1. ViewInv => OneView
  BY DEF ViewInv, Kept, Spanned, OneView, IsView
<1>. QED BY <1>1, ViewInvariant, PTL

(***************************************************************************)
(* aggregate_module_seeds makes whole modules, for every merge gap: two of *)
(* one file are more than the gap apart, no mapping in reach is left out   *)
(* and no gap inside a module is wider.                                    *)
(***************************************************************************)
THEOREM ModulesAreWhole == Spec => []ModulesWhole
<1>1. ViewInv => ModulesWhole
  BY DEF ViewInv, Kept, WholeIn, ModulesWhole, VmasOf
<1>. QED BY <1>1, ViewInvariant, PTL

----------------------------------------------------------------------------
(* What the owner is told *)

ToldInv ==
  /\ cached_modules = None => told \subseteq module_fallback
  /\ ToldResolves

\* primary_module_info answers with a module or the fallback.
LEMMA PrimaryIsKnown ==
  ASSUME NEW ms \in Seq(Module)
  PROVE  primary_module_info(ms) \subseteq Bases(ms) \cup module_fallback
<1>. DEFINE exe == {k \in DOMAIN ms : ms[k].file = proc.exe_file}
            code == {k \in DOMAIN ms : ms[k].base <= proc.start_code /\ proc.start_code < ms[k].end}
<1>1. DOMAIN ms = 1 .. Len(ms) /\ Len(ms) \in Nat
  OBVIOUS
<1>2. \A k \in DOMAIN ms : ms[k].base \in Bases(ms)
  BY DEF Bases, ToSet
<1>3. exe # {} => ms[Min(exe)].base \in Bases(ms)
  <2>1. exe \subseteq Nat
    BY <1>1
  <2>2. exe # {} => Min(exe) \in exe
    BY <2>1, LeastOf
  <2>. QED BY <1>2, <2>2
<1>4. code # {} => ms[Min(code)].base \in Bases(ms)
  <2>1. code \subseteq Nat
    BY <1>1
  <2>2. code # {} => Min(code) \in code
    BY <2>1, LeastOf
  <2>. QED BY <1>2, <2>2
<1>5. ms # <<>> => ms[1].base \in Bases(ms)
  BY <1>1, <1>2
<1>. QED BY <1>3, <1>4, <1>5 DEF primary_module_info

\* An answer from modules tells only what resolves, one without them only the fallback.
LEMMA AnswerResolves ==
  ASSUME NEW o, NEW ms, Answer(o, ms), ms = None \/ ms \in Seq(Module)
  PROVE  /\ ms = None => told' \subseteq told \cup module_fallback
         /\ ms # None => told' \subseteq told \cup Bases(ms) \cup module_fallback
<1>1. CASE module_address_list_callback(ms)
  <2>1. ms # None => \A k \in 1 .. Len(ms) : ms[k].base \in Bases(ms)
    BY DEF Bases, ToSet
  <2>2. CASE ms # None
    <3>1. PICK n \in 0 .. Len(ms) :
            told' = told \cup {ms[k].base : k \in 1 .. n}
                         \cup (IF ms = <<>> THEN module_fallback ELSE {})
      BY <1>1, <2>2 DEF module_address_list_callback
    <3>2. \A k \in 1 .. n : k \in 1 .. Len(ms)
      BY <2>2
    <3>. QED BY <2>1, <2>2, <3>1, <3>2
  <2>. QED BY <1>1, <2>2 DEF module_address_list_callback
<1>2. CASE module_by_address(ms)
  BY <1>2 DEF module_by_address
<1>3. CASE primary_module_address(ms)
  BY <1>3, PrimaryIsKnown DEF primary_module_address
<1>. QED BY <1>1, <1>2, <1>3 DEF Answer

\* Each step keeps what was told resolvable.
LEMMA ToldStep ==
  ASSUME ViewInv, ToldInv, [Next]_vars
  PROVE  ToldInv'
<1>1. None \notin Seq(Module) /\ (cached_modules = None \/ cached_modules \in Seq(Module))
  BY ConstAssumption DEF ViewInv, Kept
<1>2. CASE UNCHANGED <<proc, cached_modules, told>>
  BY <1>2 DEF ToldInv, ToldResolves, Resolves, module_fallback
<1>3. ASSUME NEW d \in Dtbs, set_dtb(d) PROVE ToldInv'
  BY <1>3 DEF set_dtb, ToldInv, ToldResolves
<1>4. ASSUME NEW o, Call(o) PROVE ToldInv'
  <2>1. UNCHANGED <<proc, cached_modules>> /\ (UNCHANGED told \/ Answer(o, cached_modules))
    BY <1>4 DEF Call, target, caches
  <2>2. module_fallback' = module_fallback
    BY <2>1 DEF module_fallback
  <2>. QED BY <1>1, <2>1, <2>2, AnswerResolves DEF ToldInv, ToldResolves, Resolves
<1>5. CASE ModulesReady
  <2>1. cached_modules = None /\ Answer(op, cached_modules') /\ UNCHANGED proc
    BY <1>5 DEF ModulesReady, ViewInv, Collecting, target
  <2>2. cached_modules' \in Seq(Module)
    BY <1>5, ReadyStep
  <2>3. told' \subseteq told \cup Bases(cached_modules') \cup module_fallback
    BY <1>1, <2>1, <2>2, AnswerResolves
  <2>4. module_fallback' = module_fallback
    BY <2>1 DEF module_fallback
  <2>5. told \subseteq module_fallback
    BY <2>1 DEF ToldInv
  <2>. QED BY <1>1, <2>2, <2>3, <2>4, <2>5 DEF ToldInv, ToldResolves, Resolves
<1>6. UNCHANGED vars \/ Mutate \/ mapped_mem_range \/ ReadHeader \/ MergeSeed
      => UNCHANGED <<proc, cached_modules, told>>
  BY DEF vars, target, caches, Mutate, mapped_mem_range, ReadHeader, MergeSeed
<1>. QED BY <1>2, <1>3, <1>4, <1>5, <1>6 DEF Next

(***************************************************************************)
(* module_by_address finds every module address the owner was told since   *)
(* set_dtb, the fallback's too.                                            *)
(***************************************************************************)
THEOREM ToldAddressesResolve == Spec => []ToldResolves
<1>1. Init => ToldInv
  BY DEF Init, ToldInv, ToldResolves
<1>2. ViewInv /\ ToldInv /\ [Next]_vars => ToldInv'
  BY ToldStep
<1>3. ToldInv => ToldResolves
  BY DEF ToldInv
<1>. QED BY <1>1, <1>2, <1>3, ViewInvariant, PTL DEF Spec
=============================================================================
