--------------------------- MODULE BootstrapProofs ---------------------------
(***************************************************************************)
(* Theorems about Bootstrap for any number of builders, images, profiles,  *)
(* configurations and builds.                                              *)
(*                                                                         *)
(* The inductive invariant adds to the properties what build's locals mean *)
(* at each point: the hint is empty until it is loaded, the current        *)
(* profile is a loadable candidate, the address found is what the strategy *)
(* named in "via" finds, and what was selected passed the checks.  For the *)
(* cache it adds that a file that parses was written by a build.           *)
(***************************************************************************)
EXTENDS Bootstrap, TLAPS

Trying == {"discover", "check", "store", "write", "ok"}
HasInfo == {"check", "store", "write", "ok"}

\* What the locals of builder b mean at its program point.
LocalInv(b) ==
  /\ pc[b] \in {"idle", "load"} => hint[b] = NoAddr /\ todo[b] = {}
  /\ todo[b] \subseteq Candidates(cfg[b])
  /\ pc[b] \in Trying => cur[b] \in Candidates(cfg[b]) /\ Profile[cur[b]].loads
  /\ pc[b] \in HasInfo =>
       found[b] \in Addrs /\ found[b] = Finds(via[b], cur[b], img[b], cfg[b], hint[b])
  /\ Selected(b) => Acceptable(b)

\* A cache file that load_kernel_hint accepts holds a pair some build stored.
FileInv ==
  \A k \in Fingerprints :
    (file[k] # NoFile /\ Parses(file[k]) /\ file[k].version = CACHE_VERSION /\ file[k].mem = k)
      => <<file[k].hint, file[k].defs>> \in stored[k]

IInv ==
  /\ TypeOK
  /\ \A b \in Builders : LocalInv(b)
  /\ FileInv
  /\ LoadedHintWasStored

USE SentinelAssumption, DataAssumption, AddrAssumption

\* Candidates of a configuration are defs files.
LEMMA CandidatesType == \A c \in Configs : Candidates(c) \subseteq Profiles
BY DEF Candidates, ConfigType

\* The explicit and the cached hint are aligned addresses or absent.
LEMMA HintTypes ==
  ASSUME NEW c \in Configs, NEW h \in Addrs \cup {NoAddr}
  PROVE  ExplicitHint(c) \in Addrs \cup {NoAddr} /\ CachedHint(c, h) \in Addrs \cup {NoAddr}
BY DEF ExplicitHint, CachedHint, ConfigType

\* Every strategy reports an address or nothing.
LEMMA FindsType ==
  ASSUME NEW s \in {Strategies[i] : i \in 1 .. Len(Strategies)}, NEW p \in Profiles,
         NEW m \in Images, NEW c \in Configs, NEW h \in Addrs \cup {NoAddr}
  PROVE  Finds(s, p, m, c, h) \in Addrs \cup {NoAddr}
<1>1. Image[m].kernel \in Addrs /\ Image[m].generic \in Addrs \cup {NoAddr}
  BY DEF ImageType
<1>2. s \in {"explicit_hint", "cached_hint", "candidate_scan", "banner_scan",
             "task_scan", "explicit_window", "cached_window", "generic_scan"}
  BY DEF Strategies
<1>. QED
  BY <1>1, <1>2, HintTypes
     DEF Finds, discover_kernel_with_hint, discover_kernel_from_candidate_scan,
         discover_kernel_from_banner_scan, discover_kernel_from_task_scan,
         scan_with_kernel_hint

\* The parser gives the stored hint whenever all five lines are there.
LEMMA WholeHint == ASSUME NEW f \in FileType, Parses(f) PROVE HintValues(f) = {f.hint}
<1>1. PositionOf(format_cache_entry, "kernel_hint") = 4
  BY DEF PositionOf, format_cache_entry, Lines
<1>. QED BY <1>1 DEF HintValues, Parses, FileType, Lines

\* The initial state is well typed.
LEMMA TypeInit == Init => TypeOK
<1>. SUFFICES ASSUME Init PROVE TypeOK
  OBVIOUS
<1>1. AnyImage \in Images /\ AnyConfig \in Configs /\ AnyKey \in Fingerprints
  BY DEF AnyImage, AnyConfig, AnyKey
<1>2. file \in [Fingerprints -> FileType \cup {NoFile}]
  BY DEF Init
<1>3. phase \in [Builders -> 1 .. Len(Strategies)]
  BY DEF Init, Strategies
<1>. QED BY <1>1, <1>2, <1>3 DEF Init, TypeOK

\* Idle builders satisfy the local invariant.
LEMMA LocalInit == Init => \A b \in Builders : LocalInv(b)
<1>. SUFFICES ASSUME Init, NEW b \in Builders PROVE LocalInv(b)
  OBVIOUS
<1>1. pc[b] = "idle" /\ hint[b] = NoAddr /\ todo[b] = {}
  BY DEF Init
<1>2. pc[b] \notin Trying /\ pc[b] \notin HasInfo /\ ~Selected(b)
  BY <1>1 DEF Trying, HasInfo, Selected
<1>. QED BY <1>1, <1>2 DEF LocalInv

\* Files that predate the first build are rejected by load_kernel_hint.
LEMMA FileInit == Init => FileInv /\ LoadedHintWasStored
BY DEF Init, FileInv, LoadedHintWasStored

\* The builder that writes holds a kernel address and a defs file.
LEMMA WriterHasEntry ==
  ASSUME TypeOK, NEW b \in Builders, LocalInv(b), pc[b] \in HasInfo
  PROVE  found[b] \in Addrs /\ cur[b] \in Profiles /\ fp[b] \in Fingerprints
BY CandidatesType DEF LocalInv, TypeOK, HasInfo, Trying

\* Type correctness is preserved by every step.
LEMMA TypeStep ==
  ASSUME TypeOK, \A b \in Builders : LocalInv(b), [Next]_vars
  PROVE  TypeOK'
<1>1. CASE UNCHANGED vars
  BY <1>1 DEF TypeOK, vars
<1>2. ASSUME NEW b \in Builders, Start(b) PROVE TypeOK'
  BY <1>2 DEF TypeOK, Start
<1>3. ASSUME NEW b \in Builders, LoadHint(b) PROVE TypeOK'
  <2>1. file[fp[b]] \in FileType \cup {NoFile}
    BY DEF TypeOK
  <2>2. load_kernel_hint(file[fp[b]], fp[b]) \subseteq Addrs
    <3>1. CASE Parses(file[fp[b]])
      BY <2>1, <3>1, WholeHint DEF load_kernel_hint, Parses, FileType
    <3>2. CASE ~Parses(file[fp[b]])
      BY <3>2 DEF load_kernel_hint
    <3>. QED BY <3>1, <3>2
  <2>3. hint' \in [Builders -> Addrs \cup {NoAddr}]
    BY <1>3, <2>2 DEF LoadHint, TypeOK
  <2>. QED BY <1>3, <2>3 DEF TypeOK, LoadHint, job
<1>4. ASSUME NEW b \in Builders, ResolveProfiles(b) PROVE TypeOK'
  BY <1>4, CandidatesType DEF TypeOK, ResolveProfiles, job
<1>5. ASSUME NEW b \in Builders, NextProfile(b) PROVE TypeOK'
  <2>1. 1 \in 1 .. Len(Strategies)
    BY DEF Strategies
  <2>. QED BY <1>5, <2>1 DEF TypeOK, NextProfile, job
<1>6. ASSUME NEW b \in Builders, GiveUp(b) PROVE TypeOK'
  BY <1>6 DEF TypeOK, GiveUp, job
<1>7. ASSUME NEW b \in Builders, Discover(b) PROVE TypeOK'
  <2>1. cur[b] \in Profiles
    BY <1>7, CandidatesType DEF Discover, LocalInv, TypeOK, Trying
  <2>2. Strategies[phase[b]] \in {Strategies[i] : i \in 1 .. Len(Strategies)}
    BY DEF TypeOK
  <2>3. Finds(Strategies[phase[b]], cur[b], img[b], cfg[b], hint[b]) \in Addrs \cup {NoAddr}
    BY <2>1, <2>2, FindsType DEF TypeOK
  <2>4. found' \in [Builders -> Addrs \cup {NoAddr}]
    BY <1>7, <2>3 DEF Discover, TypeOK
  <2>5. via' \in [Builders -> {"none"} \cup {Strategies[i] : i \in 1 .. Len(Strategies)}]
    BY <1>7, <2>2 DEF Discover, TypeOK
  <2>6. phase' \in [Builders -> 1 .. Len(Strategies)]
    <3>1. Len(Strategies) = 8
      BY DEF Strategies
    <3>. QED BY <1>7, <3>1 DEF Discover, TypeOK
  <2>7. pc' \in [Builders -> {"idle", "load", "resolve", "profile", "discover", "check",
                              "store", "write", "ok", "failed"}]
    <3>1. pc' = pc \/ \E to \in {"check", "profile"} : pc' = [pc EXCEPT ![b] = to]
      BY <1>7 DEF Discover
    <3>. QED BY <3>1 DEF TypeOK
  <2>. QED BY <1>7, <2>4, <2>5, <2>6, <2>7 DEF TypeOK, Discover, job
<1>8. ASSUME NEW b \in Builders, Accept(b) \/ Reject(b) PROVE TypeOK'
  BY <1>8 DEF TypeOK, Accept, Reject, job
<1>9. ASSUME NEW b \in Builders, StoreOpen(b) PROVE TypeOK'
  <2>1. found[b] \in Addrs /\ cur[b] \in Profiles /\ fp[b] \in Fingerprints
    BY <1>9, WriterHasEntry DEF StoreOpen, HasInfo
  <2>2. Entry(fp[b], cur[b], found[b], 0, FALSE) \in FileType
    BY <2>1 DEF Entry, FileType, Lines, CACHE_VERSION
  <2>3. file' \in [Fingerprints -> FileType \cup {NoFile}]
    BY <1>9, <2>1, <2>2 DEF TypeOK, StoreOpen
  <2>. QED BY <1>9, <2>3 DEF TypeOK, StoreOpen, job
<1>10. ASSUME NEW b \in Builders, StoreWrite(b) PROVE TypeOK'
  <2>1. found[b] \in Addrs /\ cur[b] \in Profiles /\ fp[b] \in Fingerprints
    BY <1>10, WriterHasEntry DEF StoreWrite, HasInfo
  <2>2. Entry(fp[b], cur[b], found[b], Lines, FALSE) \in FileType
    BY <2>1 DEF Entry, FileType, Lines, CACHE_VERSION
  <2>3. file' \in [Fingerprints -> FileType \cup {NoFile}]
    BY <1>10, <2>1, <2>2 DEF TypeOK, StoreWrite
  <2>4. stored' \in [Fingerprints -> SUBSET (Addrs \X Profiles)]
    BY <1>10, <2>1 DEF TypeOK, StoreWrite
  <2>. QED BY <1>10, <2>3, <2>4 DEF TypeOK, StoreWrite, job
<1>11. ASSUME NEW b \in Builders, pc[b] = "write", TornWrite(b)
       PROVE  /\ file' \in [Fingerprints -> FileType \cup {NoFile}]
              /\ stored' \in [Fingerprints -> SUBSET (Addrs \X Profiles)]
  <2>1. found[b] \in Addrs /\ cur[b] \in Profiles /\ fp[b] \in Fingerprints
    BY <1>11, WriterHasEntry DEF HasInfo
  <2>2. \A n \in 0 .. Lines - 1, c \in BOOLEAN :
          Entry(fp[b], cur[b], found[b], n, c) \in FileType
    BY <2>1 DEF Entry, FileType, Lines, CACHE_VERSION
  <2>. QED BY <1>11, <2>1, <2>2 DEF TypeOK, TornWrite
<1>12. ASSUME NEW b \in Builders, StoreFails(b) PROVE TypeOK'
  <2>1. /\ file' \in [Fingerprints -> FileType \cup {NoFile}]
        /\ stored' \in [Fingerprints -> SUBSET (Addrs \X Profiles)]
    BY <1>11, <1>12 DEF StoreFails, TypeOK
  <2>. QED BY <1>12, <2>1 DEF TypeOK, StoreFails, job
<1>13. ASSUME NEW b \in Builders, DropLocals(b)
       PROVE  /\ pc' \in [Builders -> {"idle", "load", "resolve", "profile", "discover", "check",
                                       "store", "write", "ok", "failed"}]
              /\ img' \in [Builders -> Images] /\ cfg' \in [Builders -> Configs]
              /\ fp' \in [Builders -> Fingerprints]
              /\ hint' \in [Builders -> Addrs \cup {NoAddr}]
              /\ todo' \in [Builders -> SUBSET Profiles]
              /\ cur' \in [Builders -> Profiles \cup {NoProfile}]
              /\ phase' \in [Builders -> 1 .. Len(Strategies)]
              /\ found' \in [Builders -> Addrs \cup {NoAddr}]
              /\ via' \in [Builders -> {"none"} \cup {Strategies[i] : i \in 1 .. Len(Strategies)}]
  <2>1. AnyImage \in Images /\ AnyConfig \in Configs /\ AnyKey \in Fingerprints
    BY DEF AnyImage, AnyConfig, AnyKey
  <2>2. 1 \in 1 .. Len(Strategies)
    BY DEF Strategies
  <2>. QED BY <1>13, <2>1, <2>2 DEF DropLocals, TypeOK
<1>14. ASSUME NEW b \in Builders, Crash(b) PROVE TypeOK'
  <2>1. /\ file' \in [Fingerprints -> FileType \cup {NoFile}]
        /\ stored' \in [Fingerprints -> SUBSET (Addrs \X Profiles)]
    BY <1>11, <1>14 DEF Crash, TypeOK
  <2>. QED BY <1>13, <1>14, <2>1 DEF TypeOK, Crash
<1>15. ASSUME NEW b \in Builders, Return(b) PROVE TypeOK'
  BY <1>13, <1>15 DEF TypeOK, Return
<1>. QED
  BY <1>1, <1>2, <1>3, <1>4, <1>5, <1>6, <1>7, <1>8, <1>9, <1>10, <1>12, <1>14, <1>15
     DEF Next, Step

Same(c) ==
  /\ pc'[c] = pc[c] /\ img'[c] = img[c] /\ cfg'[c] = cfg[c] /\ hint'[c] = hint[c]
  /\ todo'[c] = todo[c] /\ cur'[c] = cur[c] /\ found'[c] = found[c] /\ via'[c] = via[c]

\* A step of another builder does not disturb a builder's locals.
LEMMA LocalFrame ==
  ASSUME NEW c \in Builders, LocalInv(c), Same(c)
  PROVE  LocalInv(c)'
BY DEF LocalInv, Same, Selected, Acceptable, BannerPasses

\* One builder moves at a time.
LEMMA OthersSame ==
  ASSUME TypeOK, NEW b \in Builders, Start(b) \/ Step(b) \/ Crash(b) \/ Return(b),
         NEW c \in Builders \ {b}
  PROVE  Same(c)
<1>1. CASE Start(b)
  BY <1>1 DEF Same, TypeOK, Start
<1>2. CASE Crash(b) \/ Return(b)
  BY <1>2 DEF Same, TypeOK, Crash, Return, DropLocals
<1>3. CASE LoadHint(b) \/ ResolveProfiles(b) \/ GiveUp(b)
  BY <1>3 DEF Same, TypeOK, LoadHint, ResolveProfiles, GiveUp, job
<1>4. CASE NextProfile(b)
  BY <1>4 DEF Same, TypeOK, NextProfile, job
<1>5. CASE Discover(b)
  BY <1>5 DEF Same, TypeOK, Discover, job
<1>6. CASE Accept(b) \/ Reject(b)
  BY <1>6 DEF Same, TypeOK, Accept, Reject, job
<1>7. CASE StoreOpen(b) \/ StoreWrite(b) \/ StoreFails(b)
  BY <1>7 DEF Same, TypeOK, StoreOpen, StoreWrite, StoreFails, job
<1>. QED BY <1>1, <1>2, <1>3, <1>4, <1>5, <1>6, <1>7 DEF Step

\* The local invariant is preserved by every step.
LEMMA LocalStep ==
  ASSUME TypeOK, \A b \in Builders : LocalInv(b), [Next]_vars
  PROVE  \A b \in Builders : LocalInv(b)'
<1>1. CASE UNCHANGED vars
  BY <1>1, LocalFrame DEF vars, Same
<1>2. ASSUME NEW b \in Builders, Start(b) \/ Step(b) \/ Crash(b) \/ Return(b)
      PROVE  \A c \in Builders : LocalInv(c)'
  <2>1. \A c \in Builders \ {b} : LocalInv(c)'
    BY <1>2, OthersSame, LocalFrame
  <2>2. LocalInv(b)'
    <3>. USE DEF Trying, HasInfo, Selected
    <3>1. CASE Start(b)
      BY <3>1 DEF LocalInv, TypeOK, Start
    <3>2. CASE Crash(b) \/ Return(b)
      BY <3>2 DEF LocalInv, TypeOK, Crash, Return, DropLocals
    <3>3. CASE LoadHint(b)
      BY <3>3 DEF LocalInv, TypeOK, LoadHint, job
    <3>4. CASE ResolveProfiles(b)
      BY <3>4 DEF LocalInv, TypeOK, ResolveProfiles, job
    <3>5. CASE GiveUp(b)
      BY <3>5 DEF LocalInv, TypeOK, GiveUp, job
    <3>6. CASE NextProfile(b)
      <4>1. PICK p \in todo[b] :
              /\ todo' = [todo EXCEPT ![b] = @ \ {p}]
              /\ cur' = [cur EXCEPT ![b] = p]
              /\ pc' = [pc EXCEPT ![b] = IF Profile[p].loads THEN "discover" ELSE "profile"]
        BY <3>6 DEF NextProfile
      <4>2. cfg' = cfg
        BY <3>6 DEF NextProfile, job
      <4>. QED BY <3>6, <4>1, <4>2 DEF LocalInv, TypeOK
    <3>7. CASE Discover(b)
      <4>. DEFINE a == Finds(Strategies[phase[b]], cur[b], img[b], cfg[b], hint[b])
      <4>1. a \in Addrs \cup {NoAddr}
        <5>1. cur[b] \in Profiles
          BY <3>7, CandidatesType DEF Discover, LocalInv, TypeOK
        <5>2. Strategies[phase[b]] \in {Strategies[i] : i \in 1 .. Len(Strategies)}
          BY DEF TypeOK
        <5>. QED BY <5>1, <5>2, FindsType DEF TypeOK
      <4>2. CASE pc'[b] = "check"
        <5>1. a # NoAddr /\ found'[b] = a /\ via'[b] = Strategies[phase[b]]
          BY <3>7, <4>2 DEF Discover, TypeOK
        <5>2. img' = img /\ cfg' = cfg /\ hint' = hint /\ cur' = cur /\ todo' = todo
          BY <3>7 DEF Discover, job
        <5>3. found'[b] \in Addrs
              /\ found'[b] = Finds(via'[b], cur'[b], img'[b], cfg'[b], hint'[b])
          BY <4>1, <5>1, <5>2
        <5>. HIDE DEF a
        <5>. QED BY <3>7, <4>2, <5>2, <5>3 DEF LocalInv, Discover
      <4>3. CASE pc'[b] # "check"
        <5>1. /\ pc'[b] \in {"discover", "profile"}
              /\ cfg' = cfg /\ cur' = cur /\ todo' = todo
          BY <3>7, <4>3 DEF Discover, TypeOK, job
        <5>. QED BY <3>7, <5>1 DEF LocalInv, Discover
      <4>. QED BY <4>2, <4>3
    <3>8. CASE Accept(b)
      BY <3>8 DEF LocalInv, TypeOK, Accept, Acceptable, BannerPasses, job
    <3>9. CASE Reject(b)
      BY <3>9 DEF LocalInv, TypeOK, Reject, job
    <3>10. CASE StoreOpen(b) \/ StoreWrite(b) \/ StoreFails(b)
      BY <3>10 DEF LocalInv, TypeOK, StoreOpen, StoreWrite, StoreFails,
                   Acceptable, BannerPasses, job
    <3>. QED BY <1>2, <3>1, <3>2, <3>3, <3>4, <3>5, <3>6, <3>7, <3>8, <3>9, <3>10 DEF Step
  <2>. QED BY <2>1, <2>2
<1>. QED BY <1>1, <1>2 DEF Next

----------------------------------------------------------------------------
(* The cache file *)

\* What one step can do to the files: nothing, empty one, or write the entry of one builder.
FileStepOf(b) ==
  \/ UNCHANGED <<file, stored>>
  \/ /\ file' = [file EXCEPT ![fp[b]] = Entry(fp[b], cur[b], found[b], 0, FALSE)]
     /\ stored' = stored
  \/ \E n, c :
       /\ file' = [file EXCEPT ![fp[b]] = Entry(fp[b], cur[b], found[b], n, c)]
       /\ stored' = [stored EXCEPT ![fp[b]] = @ \cup {<<found[b], cur[b]>>}]

\* Every step of a builder is a file step.
LEMMA FileSteps ==
  ASSUME NEW b \in Builders, Start(b) \/ Step(b) \/ Crash(b) \/ Return(b)
  PROVE  FileStepOf(b)
<1>. USE DEF FileStepOf, Lines
<1>1. CASE TornWrite(b)
  BY <1>1 DEF TornWrite
<1>2. CASE StoreOpen(b)
  BY <1>2 DEF StoreOpen
<1>3. CASE StoreWrite(b)
  BY <1>3 DEF StoreWrite
<1>4. CASE StoreFails(b) \/ Crash(b)
  BY <1>1, <1>4 DEF StoreFails, Crash
<1>5. CASE Start(b) \/ Return(b)
  BY <1>5 DEF Start, Return
<1>6. CASE LoadHint(b) \/ ResolveProfiles(b) \/ NextProfile(b) \/ GiveUp(b)
  BY <1>6 DEF LoadHint, ResolveProfiles, NextProfile, GiveUp
<1>7. CASE Discover(b) \/ Accept(b) \/ Reject(b)
  BY <1>7 DEF Discover, Accept, Reject
<1>. QED BY <1>2, <1>3, <1>4, <1>5, <1>6, <1>7 DEF Step

\* The history of stored pairs only grows.
LEMMA StoredGrows ==
  ASSUME TypeOK, [Next]_vars
  PROVE  \A k \in Fingerprints : stored[k] \subseteq stored'[k]
<1>1. CASE UNCHANGED vars
  BY <1>1 DEF vars
<1>2. ASSUME NEW b \in Builders, FileStepOf(b)
      PROVE  \A k \in Fingerprints : stored[k] \subseteq stored'[k]
  <2>1. \/ stored' = stored
        \/ stored' = [stored EXCEPT ![fp[b]] = @ \cup {<<found[b], cur[b]>>}]
    BY <1>2 DEF FileStepOf
  <2>2. stored \in [Fingerprints -> SUBSET (Addrs \X Profiles)]
    BY DEF TypeOK
  <2>. QED BY <2>1, <2>2
<1>. QED BY <1>1, <1>2, FileSteps DEF Next

\* A file that load_kernel_hint accepts still holds a stored pair after a step.
LEMMA FileStep ==
  ASSUME TypeOK, FileInv, [Next]_vars
  PROVE  FileInv'
<1>1. CASE UNCHANGED vars
  BY <1>1 DEF vars, FileInv
<1>2. ASSUME NEW b \in Builders, FileStepOf(b), NEW k \in Fingerprints,
             file'[k] # NoFile, Parses(file'[k]), file'[k].version = CACHE_VERSION,
             file'[k].mem = k
      PROVE  <<file'[k].hint, file'[k].defs>> \in stored'[k]
  <2>1. CASE file'[k] = file[k]
    <3>1. stored[k] \subseteq stored'[k]
      BY StoredGrows
    <3>. QED BY <1>2, <2>1, <3>1 DEF FileInv
  <2>2. CASE file'[k] # file[k]
    <3>1. k = fp[b]
      BY <1>2, <2>2 DEF FileStepOf, TypeOK
    <3>2. CASE file' = [file EXCEPT ![fp[b]] = Entry(fp[b], cur[b], found[b], 0, FALSE)]
      <4>1. file'[k].lines = 0
        BY <3>1, <3>2 DEF Entry, TypeOK
      <4>. QED BY <1>2, <4>1 DEF Parses, Lines
    <3>3. ASSUME NEW n, NEW c,
                 file' = [file EXCEPT ![fp[b]] = Entry(fp[b], cur[b], found[b], n, c)],
                 stored' = [stored EXCEPT ![fp[b]] = @ \cup {<<found[b], cur[b]>>}]
          PROVE  <<file'[k].hint, file'[k].defs>> \in stored'[k]
      <4>1. file'[k].hint = found[b] /\ file'[k].defs = cur[b]
        BY <3>1, <3>3 DEF Entry, TypeOK
      <4>2. <<found[b], cur[b]>> \in stored'[k]
        BY <3>1, <3>3 DEF TypeOK
      <4>. QED BY <4>1, <4>2
    <3>. QED BY <1>2, <2>2, <3>2, <3>3 DEF FileStepOf
  <2>. QED BY <2>1, <2>2
<1>. QED BY <1>1, <1>2, FileSteps DEF Next, FileInv

\* A loaded hint stays one that was stored.
LEMMA LoadedStep ==
  ASSUME TypeOK, \A b \in Builders : LocalInv(b), FileInv, LoadedHintWasStored, [Next]_vars
  PROVE  LoadedHintWasStored'
<1>1. CASE UNCHANGED vars
  BY <1>1 DEF vars, LoadedHintWasStored
<1>2. ASSUME NEW b \in Builders, Start(b) \/ Step(b) \/ Crash(b) \/ Return(b),
             NEW c \in Builders, hint'[c] # NoAddr
      PROVE  \E p \in Profiles : <<hint'[c], p>> \in stored'[fp'[c]]
  <2>1. CASE hint'[c] = hint[c] /\ fp'[c] = fp[c]
    BY <1>2, <2>1, StoredGrows DEF LoadedHintWasStored, TypeOK, Next
  <2>2. CASE LoadHint(b) /\ b = c
    <3>. DEFINE f == file[fp[b]]
    <3>1. fp[b] \in Fingerprints /\ f \in FileType \cup {NoFile}
      BY DEF TypeOK
    <3>2. hint[b] = NoAddr
      BY <2>2 DEF LoadHint, LocalInv
    <3>3. hint'[b] \in load_kernel_hint(f, fp[b])
      BY <1>2, <2>2, <3>2 DEF LoadHint, TypeOK
    <3>4. Parses(f) /\ f.version = CACHE_VERSION /\ f.mem = fp[b] /\ hint'[b] \in HintValues(f)
      BY <3>3 DEF load_kernel_hint
    <3>5. f \in FileType /\ hint'[b] = f.hint
      BY <3>1, <3>4, WholeHint DEF Parses
    <3>6. <<f.hint, f.defs>> \in stored[fp[b]]
      BY <3>1, <3>4, <3>5 DEF FileInv
    <3>7. f.defs \in Profiles
      BY <3>5 DEF FileType
    <3>8. stored' = stored /\ fp' = fp
      BY <2>2 DEF LoadHint, job
    <3>. QED BY <2>2, <3>5, <3>6, <3>7, <3>8
  <2>3. CASE ~(LoadHint(b) /\ b = c) /\ ~(hint'[c] = hint[c] /\ fp'[c] = fp[c])
    <3>1. b = c
      BY <1>2, <2>3 DEF TypeOK, Start, Step, Crash, Return, DropLocals, LoadHint,
         ResolveProfiles, NextProfile, GiveUp, Discover, Accept, Reject, StoreOpen,
         StoreWrite, StoreFails, job
    <3>2. CASE Start(b)
      BY <1>2, <3>1, <3>2 DEF Start, LocalInv
    <3>3. CASE Crash(b) \/ Return(b)
      BY <1>2, <3>1, <3>3 DEF Crash, Return, DropLocals, TypeOK
    <3>4. CASE Step(b)
      BY <2>3, <3>1, <3>4 DEF Step, ResolveProfiles, NextProfile, GiveUp, Discover, Accept,
         Reject, StoreOpen, StoreWrite, StoreFails, job
    <3>. QED BY <1>2, <3>2, <3>3, <3>4
  <2>. QED BY <2>1, <2>2, <2>3
<1>. QED BY <1>1, <1>2 DEF Next, LoadedHintWasStored

----------------------------------------------------------------------------
(* Theorems *)

\* The inductive invariant holds throughout every behaviour of the bootstrap.
THEOREM Inductive == Spec => []IInv
<1>1. Init => IInv
  BY TypeInit, LocalInit, FileInit DEF IInv
<1>2. IInv /\ [Next]_vars => IInv'
  BY TypeStep, LocalStep, FileStep, LoadedStep DEF IInv
<1>. QED BY <1>1, <1>2, PTL DEF Spec

\* Bootstrap's variables keep their types, for any number of builders and builds.
THEOREM TypeCorrect == Spec => []TypeOK
<1>1. IInv => TypeOK
  BY DEF IInv
<1>. QED BY <1>1, Inductive, PTL

(***************************************************************************)
(* Torn, truncated, outdated or concurrently rewritten cache files never   *)
(* make load_kernel_hint return an address that no build had stored.       *)
(***************************************************************************)
THEOREM CacheNeverInvents == Spec => []LoadedHintWasStored
<1>1. IInv => LoadedHintWasStored
  BY DEF IInv
<1>. QED BY <1>1, Inductive, PTL

\* What a defs-backed strategy finds is the kernel, described by a profile of its layout.
LEMMA DefsBackedFinds ==
  ASSUME NEW s \in DefsBacked, NEW p, NEW m, NEW c, NEW h, Finds(s, p, m, c, h) \in Addrs
  PROVE  /\ Finds(s, p, m, c, h) = Image[m].kernel
         /\ Profile[p].layout = Image[m].layout
         /\ BannerHeadMatches(p, m)
<1>1. \A a : discover_kernel_with_hint(p, m, a) \in Addrs =>
        /\ discover_kernel_with_hint(p, m, a) = Image[m].kernel
        /\ Profile[p].layout = Image[m].layout
        /\ BannerHeadMatches(p, m)
  BY DEF discover_kernel_with_hint, InitTaskResolves
<1>2. discover_kernel_from_candidate_scan(p, m) \in Addrs =>
        /\ discover_kernel_from_candidate_scan(p, m) = Image[m].kernel
        /\ Profile[p].layout = Image[m].layout
        /\ BannerHeadMatches(p, m)
  BY DEF discover_kernel_from_candidate_scan, discover_kernel_with_hint, InitTaskResolves
<1>3. s \in {"explicit_hint", "cached_hint", "candidate_scan", "banner_scan", "task_scan"}
  BY DEF DefsBacked
<1>. QED
  BY <1>1, <1>2, <1>3
     DEF Finds, discover_kernel_from_banner_scan, discover_kernel_from_task_scan

(***************************************************************************)
(* Whatever build selects is sound: the banner check, or else the          *)
(* validation inside the defs-backed strategies, ties the profile to the   *)
(* kernel in memory.                                                       *)
(***************************************************************************)
THEOREM SelectsSoundly == Spec => []SelectionSound
<1>1. IInv => SelectionSound
  <2>. SUFFICES ASSUME IInv, NEW b \in Builders, Selected(b)
                PROVE  /\ cur[b] \in Candidates(cfg[b]) /\ Profile[cur[b]].loads
                       /\ (~cfg[b].skip_banner /\ Profile[cur[b]].banner # NoBanner)
                            => Describes(cur[b], img[b])
                       /\ via[b] \in DefsBacked =>
                            /\ found[b] = Image[img[b]].kernel
                            /\ Profile[cur[b]].layout = Image[img[b]].layout
                            /\ BannerHeadMatches(cur[b], img[b])
    BY DEF SelectionSound
  <2>1. cur[b] \in Candidates(cfg[b]) /\ Profile[cur[b]].loads
    BY DEF IInv, LocalInv, Selected, Trying
  <2>2. (~cfg[b].skip_banner /\ Profile[cur[b]].banner # NoBanner) => Describes(cur[b], img[b])
    BY <2>1 DEF IInv, LocalInv, Acceptable, BannerPasses, validate_profile_banner, Describes
  <2>3. via[b] \in DefsBacked =>
          /\ found[b] = Image[img[b]].kernel
          /\ Profile[cur[b]].layout = Image[img[b]].layout
          /\ BannerHeadMatches(cur[b], img[b])
    <3>1. found[b] \in Addrs /\ found[b] = Finds(via[b], cur[b], img[b], cfg[b], hint[b])
      BY DEF IInv, LocalInv, Selected, HasInfo
    <3>. QED BY <3>1, DefsBackedFinds
  <2>. QED BY <2>1, <2>2, <2>3
<1>. QED BY <1>1, Inductive, PTL

(***************************************************************************)
(* build implements BuildPromise, for any number of builders, images,      *)
(* profiles, configurations and builds, whatever is in the cache.          *)
(*                                                                         *)
(* Soundness of an answer is SelectionSound.  That a refusal is justified  *)
(* needs a second invariant: on a target whose reads do not fail, every    *)
(* candidate that was passed over does not describe the kernel, because    *)
(* one that does is found no later than by the task scan, hence by a       *)
(* defs-backed strategy, and then passes every check.                      *)
(***************************************************************************)

\* From here on the assumptions are cited where they are needed.
HIDE AddrAssumption
HIDE DataAssumption
HIDE SentinelAssumption

\* None of these profiles describes the kernel of b's image.
NoneOf(b, S) == \A p \in S : ~Describes(p, img[b])

\* What b has ruled out so far.
RuledOut(b) ==
  (~Flaky /\ ~DirectoryFails(cfg[b])) =>
    /\ pc[b] = "profile" => NoneOf(b, Candidates(cfg[b]) \ todo[b])
    /\ pc[b] \in {"discover", "check"} => NoneOf(b, Candidates(cfg[b]) \ (todo[b] \cup {cur[b]}))
    /\ pc[b] = "failed" => NoneOf(b, Candidates(cfg[b]))
    /\ pc[b] = "discover" /\ Describes(cur[b], img[b]) => phase[b] <= 5
    /\ pc[b] = "check" /\ Describes(cur[b], img[b]) => via[b] \in DefsBacked

\* The task scan finds the kernel for every profile that describes it.
LEMMA TaskScanFinds ==
  ASSUME NEW p \in Profiles, NEW m \in Images, NEW c, NEW h, Describes(p, m),
         NEW s \in {"task_scan"}
  PROVE  Finds(s, p, m, c, h) # NoAddr
<1>1. Image[m].kernel \in Addrs /\ Image[m].banner \in Banners
  BY DataAssumption DEF ImageType
<1>2. BannerHeadMatches(p, m)
  BY <1>1 DEF Describes, BannerHeadMatches
<1>3. discover_kernel_with_hint(p, m, Image[m].kernel) # NoAddr
  BY <1>1, <1>2, SentinelAssumption DEF Describes, discover_kernel_with_hint, InitTaskResolves
<1>. QED
  BY <1>3 DEF Finds, discover_kernel_from_task_scan

\* The first five strategies are the ones that use the defs; the fifth is the task scan.
LEMMA FirstFive ==
  /\ Strategies[5] = "task_scan" /\ Len(Strategies) = 8
  /\ \A i \in 1 .. 8 : i <= 5 => Strategies[i] \in DefsBacked
BY DEF Strategies, DefsBacked

\* A profile that describes the kernel and was found through its defs is accepted.
LEMMA DescribedIsAcceptable ==
  ASSUME NEW b \in Builders, Describes(cur[b], img[b]), via[b] \in DefsBacked
  PROVE  Acceptable(b)
BY DEF Acceptable, BannerPasses, Describes, validate_profile_banner

\* The step of another builder rules nothing in or out.
LEMMA RuledOutFrame ==
  ASSUME NEW c \in Builders, RuledOut(c), Same(c), phase'[c] = phase[c]
  PROVE  RuledOut(c)'
BY DEF RuledOut, Same, NoneOf

\* One builder moves at a time, its phase included.
LEMMA OthersPhase ==
  ASSUME TypeOK, NEW b \in Builders, Start(b) \/ Step(b) \/ Crash(b) \/ Return(b),
         NEW c \in Builders \ {b}
  PROVE  phase'[c] = phase[c]
BY DEF TypeOK, Start, Step, Crash, Return, DropLocals, LoadHint, ResolveProfiles, NextProfile,
       GiveUp, Discover, Accept, Reject, StoreOpen, StoreWrite, StoreFails

\* What is ruled out stays justified.
LEMMA RuledOutStep ==
  ASSUME IInv, \A b \in Builders : RuledOut(b), [Next]_vars
  PROVE  \A b \in Builders : RuledOut(b)'
<1>. USE DEF IInv
<1>1. CASE UNCHANGED vars
  BY <1>1, RuledOutFrame DEF vars, Same
<1>2. ASSUME NEW b \in Builders, Start(b) \/ Step(b) \/ Crash(b) \/ Return(b)
      PROVE  \A c \in Builders : RuledOut(c)'
  <2>1. \A c \in Builders \ {b} : RuledOut(c)'
    BY <1>2, OthersSame, OthersPhase, RuledOutFrame
  <2>2. RuledOut(b)'
    <3>1. CASE Start(b) \/ Crash(b) \/ Return(b) \/ LoadHint(b)
      <4>1. pc'[b] \in {"idle", "load", "resolve"}
        BY <3>1 DEF Start, Crash, Return, LoadHint, DropLocals, TypeOK
      <4>. QED BY <4>1 DEF RuledOut
    <3>2. CASE Accept(b) \/ StoreOpen(b) \/ StoreWrite(b) \/ StoreFails(b)
      <4>1. pc'[b] \in {"store", "write", "ok"}
        BY <3>2 DEF Accept, StoreOpen, StoreWrite, StoreFails, TypeOK
      <4>. QED BY <4>1 DEF RuledOut
    <3>3. CASE ResolveProfiles(b)
      <4>1. /\ todo'[b] = Candidates(cfg[b]) /\ cfg' = cfg /\ img' = img
            /\ pc'[b] = IF DirectoryFails(cfg[b]) \/ Candidates(cfg[b]) = {} THEN "failed"
                        ELSE "profile"
        BY <3>3 DEF ResolveProfiles, TypeOK, job
      <4>. QED BY <4>1 DEF RuledOut, NoneOf
    <3>4. CASE NextProfile(b)
      <4>1. PICK p \in todo[b] :
              /\ todo' = [todo EXCEPT ![b] = @ \ {p}]
              /\ cur' = [cur EXCEPT ![b] = p]
              /\ phase' = [phase EXCEPT ![b] = 1]
              /\ pc' = [pc EXCEPT ![b] = IF Profile[p].loads THEN "discover" ELSE "profile"]
        BY <3>4 DEF NextProfile
      <4>2. cfg' = cfg /\ img' = img /\ pc[b] = "profile"
        BY <3>4 DEF NextProfile, job
      <4>3. todo'[b] = todo[b] \ {p} /\ cur'[b] = p /\ phase'[b] = 1
        BY <4>1 DEF TypeOK
      <4>4. CASE Profile[p].loads
        <5>1. pc'[b] = "discover"
          BY <4>1, <4>4 DEF TypeOK
        <5>. QED BY <4>2, <4>3, <5>1 DEF RuledOut, NoneOf
      <4>5. CASE ~Profile[p].loads
        <5>1. pc'[b] = "profile"
          BY <4>1, <4>5 DEF TypeOK
        <5>2. ~Describes(p, img[b])
          BY <4>5 DEF Describes
        <5>. QED BY <4>2, <4>3, <5>1, <5>2 DEF RuledOut, NoneOf
      <4>. QED BY <4>4, <4>5
    <3>5. CASE GiveUp(b)
      <4>1. pc[b] = "profile" /\ todo[b] = {} /\ pc'[b] = "failed" /\ cfg' = cfg /\ img' = img
        BY <3>5 DEF GiveUp, TypeOK, job
      <4>. QED BY <4>1 DEF RuledOut, NoneOf
    <3>6. CASE Discover(b)
      <4>. DEFINE a == Finds(Strategies[phase[b]], cur[b], img[b], cfg[b], hint[b])
      <4>. SUFFICES ASSUME ~Flaky, ~DirectoryFails(cfg[b]) PROVE RuledOut(b)'
        BY <3>6 DEF RuledOut, Discover, job
      <4>1. /\ pc[b] = "discover" /\ cfg' = cfg /\ img' = img /\ cur' = cur /\ todo' = todo
            /\ cur[b] \in Profiles /\ img[b] \in Images /\ phase[b] \in 1 .. 8
        BY <3>6, CandidatesType, FirstFive DEF Discover, job, LocalInv, Trying, TypeOK
      <4>2. Describes(cur[b], img[b]) => phase[b] <= 5 /\ (phase[b] = 5 => a # NoAddr)
        BY <4>1, TaskScanFinds, FirstFive DEF RuledOut
      <4>3. CASE a # NoAddr /\ pc'[b] = "check"
        <5>1. via'[b] = Strategies[phase[b]]
          BY <3>6, <4>3 DEF Discover, TypeOK
        <5>. QED BY <4>1, <4>2, <4>3, <5>1, FirstFive DEF RuledOut, NoneOf
      <4>4. CASE a = NoAddr /\ pc'[b] = "discover"
        <5>1. phase'[b] = phase[b] + 1
          BY <3>6, <4>4 DEF Discover, TypeOK
        <5>2. Describes(cur[b], img[b]) => phase'[b] <= 5
          BY <4>1, <4>2, <4>4, <5>1
        <5>. QED BY <4>1, <4>4, <5>2 DEF RuledOut, NoneOf
      <4>5. CASE a = NoAddr /\ pc'[b] = "profile"
        <5>1. phase[b] = 8
          BY <3>6, <4>1, <4>5, FirstFive DEF Discover, TypeOK
        <5>2. ~Describes(cur[b], img[b])
          BY <4>2, <5>1
        <5>. QED BY <4>1, <4>5, <5>2 DEF RuledOut, NoneOf
      <4>6. \/ a # NoAddr /\ pc'[b] = "check"
            \/ a = NoAddr /\ pc'[b] \in {"discover", "profile"}
        BY <3>6, <4>1 DEF Discover, TypeOK
      <4>. QED BY <4>3, <4>4, <4>5, <4>6
    <3>7. CASE Reject(b)
      <4>. SUFFICES ASSUME ~Flaky, ~DirectoryFails(cfg[b]) PROVE RuledOut(b)'
        BY <3>7 DEF RuledOut, Reject, job
      <4>1. /\ pc[b] = "check" /\ ~Acceptable(b) /\ pc'[b] = "profile"
            /\ cfg' = cfg /\ img' = img /\ todo' = todo
        BY <3>7 DEF Reject, TypeOK, job
      <4>2. ~Describes(cur[b], img[b])
        BY <4>1, DescribedIsAcceptable DEF RuledOut
      <4>. QED BY <4>1, <4>2 DEF RuledOut, NoneOf
    <3>. QED BY <1>2, <3>1, <3>2, <3>3, <3>4, <3>5, <3>6, <3>7 DEF Step
  <2>. QED BY <2>1, <2>2
<1>. QED BY <1>1, <1>2 DEF Next

\* The strengthened invariant holds throughout.
THEOREM RuledOutAlways == Spec => [](IInv /\ \A b \in Builders : RuledOut(b))
<1>1. Init => \A b \in Builders : RuledOut(b)
  BY DEF Init, RuledOut
<1>2. IInv /\ (\A b \in Builders : RuledOut(b)) /\ [Next]_vars => (\A b \in Builders : RuledOut(b))'
  BY RuledOutStep
<1>. QED BY <1>1, <1>2, Inductive, PTL DEF Spec

(***************************************************************************)
(* While a candidate describes the kernel and reads do not fail, build     *)
(* never fails: no earlier candidate, hint or cache content hides it.      *)
(***************************************************************************)
THEOREM MatchingDefsFound == Spec => []NeverMissesMatchingDefs
<1>1. (\A b \in Builders : RuledOut(b)) => NeverMissesMatchingDefs
  BY DEF RuledOut, NoneOf, NeverMissesMatchingDefs
<1>. QED BY <1>1, RuledOutAlways, PTL

----------------------------------------------------------------------------
(* Refinement of BuildPromise *)

\* The refinement mapping, by name.
status == [b \in Builders |-> StatusOf(b)]
request == [b \in Builders |-> <<img[b], cfg[b]>>]
answer == [b \in Builders |-> IF pc[b] = "ok" THEN {<<cur[b], found[b]>>} ELSE {}]

\* The states of a build that has neither ended nor been called are all the same to the caller.
Running == {"load", "resolve", "profile", "discover", "check", "store", "write"}

\* StatusOf by the sets of program points it groups.
LEMMA StatusCases ==
  ASSUME NEW b \in Builders, TypeOK
  PROVE  /\ pc[b] = "idle" <=> StatusOf(b) = "idle"
         /\ pc[b] = "ok" <=> StatusOf(b) = "answered"
         /\ pc[b] = "failed" <=> StatusOf(b) = "refused"
         /\ pc[b] \in Running <=> StatusOf(b) = "running"
<1>1. pc[b] \in {"idle", "ok", "failed"} \cup Running
  BY DEF TypeOK, Running
<1>. QED BY <1>1 DEF StatusOf, Running

\* An answer given is sound for its request.
LEMMA AnswerSoundNext ==
  ASSUME NEW b \in Builders, IInv', SelectionSound', pc'[b] = "ok"
  PROVE  /\ SoundAnswer(<<img'[b], cfg'[b]>>, <<cur'[b], found'[b]>>)
         /\ <<cur'[b], found'[b]>> \in Profiles \X Addrs
<1>1. /\ cur'[b] \in Candidates(cfg'[b]) /\ cfg'[b] \in Configs
      /\ (~cfg'[b].skip_banner /\ Profile[cur'[b]].banner # NoBanner) => Describes(cur'[b], img'[b])
  BY DEF SelectionSound, IInv, TypeOK, Selected
<1>2. found'[b] \in Addrs
  BY DEF IInv, LocalInv, HasInfo
<1>3. cur'[b] \in Profiles
  BY <1>1, CandidatesType
<1>. QED BY <1>1, <1>2, <1>3 DEF SoundAnswer

\* The caller of another builder sees nothing of a step.
LEMMA OthersSeeNothing ==
  ASSUME NEW b \in Builders,
         \A c \in Builders \ {b} : Same(c)
  PROVE  /\ status' = [status EXCEPT ![b] = StatusOf(b)']
         /\ request' = [request EXCEPT ![b] = <<img'[b], cfg'[b]>>]
         /\ answer' = [answer EXCEPT ![b] = IF pc'[b] = "ok" THEN {<<cur'[b], found'[b]>>} ELSE {}]
<1>1. \A c \in Builders \ {b} : StatusOf(c)' = StatusOf(c)
  BY DEF Same, StatusOf
<1>. QED BY <1>1 DEF Same, status, request, answer

(***************************************************************************)
(* Every step of a build is a step of the promise or invisible to the      *)
(* caller.                                                                 *)
(***************************************************************************)
LEMMA PromiseStep ==
  ASSUME IInv, IInv', SelectionSound', \A b \in Builders : RuledOut(b)', [Next]_vars
  PROVE  [Promise!Next]_Promise!vars
<1>1. CASE UNCHANGED vars
  BY <1>1 DEF vars, Promise!vars, StatusOf
<1>2. ASSUME NEW b \in Builders, Start(b) \/ Step(b) \/ Crash(b) \/ Return(b)
      PROVE  [Promise!Next]_Promise!vars
  <2>. USE DEF IInv
  <2>1. \A c \in Builders \ {b} : Same(c)
    BY <1>2, OthersSame
  <2>2. /\ status' = [status EXCEPT ![b] = StatusOf(b)']
        /\ request' = [request EXCEPT ![b] = <<img'[b], cfg'[b]>>]
        /\ answer' = [answer EXCEPT ![b] = IF pc'[b] = "ok" THEN {<<cur'[b], found'[b]>>} ELSE {}]
    BY <2>1, OthersSeeNothing
  <2>3. /\ status[b] = StatusOf(b) /\ request[b] = <<img[b], cfg[b]>>
        /\ answer[b] = IF pc[b] = "ok" THEN {<<cur[b], found[b]>>} ELSE {}
    BY DEF status, request, answer
  <2>4. <<img'[b], cfg'[b]>> \in Images \X Configs
    BY DEF TypeOK
  <2>5. /\ status = [c \in Builders |-> status[c]] /\ answer = [c \in Builders |-> answer[c]]
        /\ request = [c \in Builders |-> request[c]]
    BY DEF status, request, answer
  <2>6. CASE Start(b)
    <3>1. pc[b] = "idle" /\ pc'[b] \in {"load", "resolve"}
      BY <2>6 DEF Start, TypeOK
    <3>2. StatusOf(b) = "idle" /\ StatusOf(b)' = "running"
      BY <3>1 DEF StatusOf
    <3>3. answer' = answer
      BY <2>2, <2>3, <2>5, <3>1
    <3>4. Promise!Ask(b)
      BY <2>2, <2>3, <2>4, <3>2, <3>3 DEF Promise!Ask, status, request, answer
    <3>. QED BY <3>4 DEF Promise!Next
  <2>7. CASE Crash(b) \/ Return(b)
    <3>1. pc[b] # "idle" /\ pc'[b] = "idle"
      BY <2>7 DEF Crash, Return, DropLocals, TypeOK
    <3>2. StatusOf(b) # "idle" /\ StatusOf(b)' = "idle"
      BY <3>1, StatusCases DEF StatusOf
    <3>3. Promise!Forget(b)
      BY <2>2, <2>3, <2>4, <3>1, <3>2 DEF Promise!Forget, status, request, answer
    <3>. QED BY <3>3 DEF Promise!Next
  <2>8. CASE Step(b)
    <3>1. pc[b] \in Running /\ pc'[b] \in Running \cup {"ok", "failed"}
      BY <2>8 DEF Step, LoadHint, ResolveProfiles, NextProfile, GiveUp, Discover, Accept,
                  Reject, StoreOpen, StoreWrite, StoreFails, TypeOK, Running
    <3>2. img' = img /\ cfg' = cfg
      BY <2>8 DEF Step, LoadHint, ResolveProfiles, NextProfile, GiveUp, Discover, Accept,
                  Reject, StoreOpen, StoreWrite, StoreFails, job
    <3>3. StatusOf(b) = "running" /\ pc[b] # "ok"
      BY <3>1, StatusCases DEF Running
    <3>4. request' = request
      BY <2>2, <2>3, <2>5, <3>2
    <3>5. CASE pc'[b] \in Running
      <4>1. StatusOf(b)' = "running" /\ pc'[b] # "ok"
        BY <3>5 DEF StatusOf, Running
      <4>2. status' = status /\ answer' = answer
        BY <2>2, <2>3, <2>5, <3>3, <4>1
      <4>. QED BY <3>4, <4>2 DEF Promise!vars, status, request, answer
    <3>6. CASE pc'[b] = "ok"
      <4>1. StatusOf(b)' = "answered"
        BY <3>6 DEF StatusOf
      <4>2. /\ SoundAnswer(<<img'[b], cfg'[b]>>, <<cur'[b], found'[b]>>)
            /\ <<cur'[b], found'[b]>> \in Profiles \X Addrs
        BY <3>6, AnswerSoundNext DEF Selected
      <4>3. Promise!Answer(b)
        BY <2>2, <2>3, <3>2, <3>3, <3>4, <3>6, <4>1, <4>2
           DEF Promise!Answer, status, request, answer
      <4>. QED BY <4>3 DEF Promise!Next
    <3>7. CASE pc'[b] = "failed"
      <4>1. StatusOf(b)' = "refused"
        BY <3>7 DEF StatusOf
      <4>2. ~MayNotFail(<<img'[b], cfg'[b]>>)
        BY <3>7 DEF RuledOut, NoneOf, MayNotFail
      <4>3. answer' = answer
        BY <2>2, <2>3, <2>5, <3>3, <3>7
      <4>4. Promise!Refuse(b)
        BY <2>2, <2>3, <3>2, <3>3, <3>4, <4>1, <4>2, <4>3
           DEF Promise!Refuse, status, request, answer
      <4>. QED BY <4>4 DEF Promise!Next
    <3>. QED BY <3>1, <3>5, <3>6, <3>7
  <2>. QED BY <1>2, <2>6, <2>7, <2>8
<1>. QED BY <1>1, <1>2 DEF Next

(***************************************************************************)
(* build implements BuildPromise, for every value of the constants: any    *)
(* interleaving of builds, crashes and cache contents gives a caller one   *)
(* sound answer or one justified refusal.                                  *)
(***************************************************************************)
THEOREM PromiseKept == Spec => KeepsPromise
<1>1. Init => Promise!Init
  <2>. SUFFICES ASSUME Init PROVE Promise!Init
    OBVIOUS
  <2>1. TypeOK
    BY TypeInit
  <2>2. \A b \in Builders : pc[b] = "idle" /\ img[b] \in Images /\ cfg[b] \in Configs
    BY <2>1 DEF Init, TypeOK
  <2>. QED BY <2>2 DEF Promise!Init, StatusOf
<1>2. /\ IInv /\ IInv' /\ SelectionSound' /\ (\A b \in Builders : RuledOut(b))'
      /\ [Next]_vars
      => [Promise!Next]_Promise!vars
  BY PromiseStep
<1>. QED BY <1>1, <1>2, RuledOutAlways, SelectsSoundly, PTL DEF KeepsPromise, Promise!Spec, Spec
----------------------------------------------------------------------------
(***************************************************************************)
(* The cache is transparent and effective.                                 *)
(*                                                                         *)
(* Where the banner is compared, the profiles a build without a cache      *)
(* would accept are those that describe the kernel.  A build with a cache  *)
(* passes over no such profile and tries them in the same order.  For the  *)
(* effect, the invariant follows the hint through the file: what is stored *)
(* for an image is where its kernel is, and with that hint one of the      *)
(* first two strategies finds it.                                          *)
(***************************************************************************)

----------------------------------------------------------------------------
(* Transparency *)

\* Candidates are tried in the order of their paths, none is passed over unseen.
InOrder(b) ==
  /\ pc[b] \in {"profile"} \cup Trying => ~DirectoryFails(cfg[b])
  /\ pc[b] \in Trying => ComesFirst(cur[b], todo[b])
  /\ (~Flaky /\ Selected(b)) => NoneOf(b, Candidates(cfg[b]) \ (todo[b] \cup {cur[b]}))

\* The step of another builder does not change the order.
LEMMA InOrderFrame ==
  ASSUME NEW c \in Builders, InOrder(c), Same(c)
  PROVE  InOrder(c)'
BY DEF InOrder, Same, NoneOf, Selected

\* Every step keeps to the order.
LEMMA InOrderStep ==
  ASSUME IInv, \A b \in Builders : RuledOut(b) /\ InOrder(b), [Next]_vars
  PROVE  \A b \in Builders : InOrder(b)'
<1>. USE DEF IInv
<1>1. CASE UNCHANGED vars
  BY <1>1, InOrderFrame DEF vars, Same
<1>2. ASSUME NEW b \in Builders, Start(b) \/ Step(b) \/ Crash(b) \/ Return(b)
      PROVE  \A c \in Builders : InOrder(c)'
  <2>1. \A c \in Builders \ {b} : InOrder(c)'
    BY <1>2, OthersSame, InOrderFrame
  <2>2. InOrder(b)'
    <3>1. CASE Start(b) \/ Crash(b) \/ Return(b) \/ LoadHint(b) \/ GiveUp(b)
      <4>1. pc'[b] \in {"idle", "load", "resolve", "failed"}
        BY <3>1 DEF Start, Crash, Return, LoadHint, DropLocals, GiveUp, TypeOK
      <4>. QED BY <4>1 DEF InOrder, Selected, Trying
    <3>2. CASE ResolveProfiles(b)
      <4>1. cfg' = cfg /\ (pc'[b] = "failed" \/ (pc'[b] = "profile" /\ ~DirectoryFails(cfg[b])))
        BY <3>2 DEF ResolveProfiles, TypeOK, job
      <4>. QED BY <4>1 DEF InOrder, Selected, Trying
    <3>3. CASE NextProfile(b)
      <4>1. PICK p \in todo[b] :
              /\ ComesFirst(p, todo[b])
              /\ todo' = [todo EXCEPT ![b] = @ \ {p}]
              /\ cur' = [cur EXCEPT ![b] = p]
        BY <3>3 DEF NextProfile
      <4>2. cfg' = cfg /\ pc[b] = "profile" /\ pc'[b] \in {"discover", "profile"}
        BY <3>3 DEF NextProfile, job, TypeOK
      <4>3. ComesFirst(cur'[b], todo'[b])
        BY <4>1 DEF TypeOK, ComesFirst
      <4>. QED BY <4>2, <4>3 DEF InOrder, Selected, Trying
    <3>4. CASE Discover(b) \/ Reject(b)
      <4>1. /\ cfg' = cfg /\ todo' = todo /\ cur' = cur
            /\ pc[b] \in Trying /\ pc'[b] \in {"discover", "check", "profile"}
        BY <3>4 DEF Discover, Reject, job, TypeOK, Trying
      <4>. QED BY <4>1 DEF InOrder, Selected, Trying
    <3>5. CASE Accept(b)
      <4>1. /\ cfg' = cfg /\ img' = img /\ todo' = todo /\ cur' = cur
            /\ pc[b] = "check" /\ pc'[b] \in {"store", "ok"}
        BY <3>5 DEF Accept, job, TypeOK
      <4>2. ~Flaky => NoneOf(b, Candidates(cfg[b]) \ (todo[b] \cup {cur[b]}))
        BY <4>1 DEF RuledOut, InOrder, Trying
      <4>. QED BY <4>1, <4>2 DEF InOrder, Selected, Trying, NoneOf
    <3>6. CASE StoreOpen(b) \/ StoreWrite(b) \/ StoreFails(b)
      <4>1. /\ cfg' = cfg /\ img' = img /\ todo' = todo /\ cur' = cur
            /\ pc[b] \in {"store", "write"} /\ pc'[b] \in {"write", "ok"}
        BY <3>6 DEF StoreOpen, StoreWrite, StoreFails, job, TypeOK
      <4>. QED BY <4>1 DEF InOrder, Selected, Trying, NoneOf
    <3>. QED BY <1>2, <3>1, <3>2, <3>3, <3>4, <3>5, <3>6 DEF Step
  <2>. QED BY <2>1, <2>2
<1>. QED BY <1>1, <1>2 DEF Next

\* A nonempty set of strategies has a first one.
LEMMA FirstExists ==
  ASSUME NEW S \in SUBSET (1 .. 8), 5 \in S
  PROVE  \E i \in S : i <= 5 /\ \A j \in S : i <= j
<1>1. CASE 1 \in S
  BY <1>1
<1>2. CASE 1 \notin S /\ 2 \in S
  BY <1>2
<1>3. CASE 1 \notin S /\ 2 \notin S /\ 3 \in S
  BY <1>3
<1>4. CASE 1 \notin S /\ 2 \notin S /\ 3 \notin S /\ 4 \in S
  BY <1>4
<1>5. CASE 1 \notin S /\ 2 \notin S /\ 3 \notin S /\ 4 \notin S
  BY <1>5
<1>. QED BY <1>1, <1>2, <1>3, <1>4, <1>5

\* With banners compared, a build without a cache accepts what describes the kernel.
LEMMA ColdIsDescribed ==
  ASSUME NEW m \in Images, NEW c \in Configs, Strict(c), ~DirectoryFails(c)
  PROVE  ColdChoices(m, c) = {p \in Candidates(c) : Describes(p, m)}
<1>. SUFFICES ASSUME NEW p \in Candidates(c)
              PROVE  ColdAccepts(p, m, c) <=> Describes(p, m)
  BY DEF ColdChoices
<1>1. p \in Profiles /\ ~c.skip_banner /\ Profile[p].banner # NoBanner
  BY CandidatesType DEF Strict
<1>2. ASSUME ColdAccepts(p, m, c) PROVE Describes(p, m)
  BY <1>1, <1>2 DEF ColdAccepts, Describes, validate_profile_banner
<1>3. ASSUME Describes(p, m) PROVE ColdAccepts(p, m, c)
  <2>. DEFINE H == Hits(p, m, c, NoAddr)
  <2>1. H \in SUBSET (1 .. 8) /\ 5 \in H
    BY <1>1, <1>3, TaskScanFinds, FirstFive DEF Hits
  <2>2. \E i \in H : \A j \in H : i <= j
    BY <2>1, FirstExists
  <2>3. FirstHit(p, m, c, NoAddr) \in H /\ FirstHit(p, m, c, NoAddr) <= 5
    BY <2>1, <2>2 DEF FirstHit
  <2>4. Strategies[FirstHit(p, m, c, NoAddr)] \in DefsBacked
    BY <2>1, <2>3, FirstFive
  <2>5. validate_profile_banner(p, m)
    BY <1>3 DEF Describes, validate_profile_banner
  <2>. QED BY <1>3, <2>1, <2>4, <2>5 DEF ColdAccepts, Describes
<1>. QED BY <1>2, <1>3

\* Candidates keep to their order throughout.
THEOREM InOrderAlways == Spec => [](IInv /\ \A b \in Builders : RuledOut(b) /\ InOrder(b))
<1>1. Init => \A b \in Builders : InOrder(b)
  BY DEF Init, InOrder, Selected, Trying
<1>2. IInv /\ (\A b \in Builders : RuledOut(b)) /\ (\A b \in Builders : InOrder(b)) /\ [Next]_vars
      => (\A b \in Builders : InOrder(b))'
  BY InOrderStep
<1>3. (\A b \in Builders : RuledOut(b)) /\ (\A b \in Builders : InOrder(b))
      => \A b \in Builders : RuledOut(b) /\ InOrder(b)
  OBVIOUS
<1>. QED BY <1>1, <1>2, <1>3, RuledOutAlways, PTL DEF Spec

(***************************************************************************)
(* With banners compared and reads that do not fail, a build that uses the *)
(* cache ends as it would have without a cache file.                       *)
(***************************************************************************)
THEOREM CacheTransparent == Spec => []CacheIsTransparent
<1>1. IInv /\ SelectionSound /\ (\A b \in Builders : RuledOut(b) /\ InOrder(b)) => CacheIsTransparent
  <2>. SUFFICES ASSUME IInv, SelectionSound, \A b \in Builders : RuledOut(b) /\ InOrder(b),
                       NEW b \in Builders, ~Flaky, Strict(cfg[b])
                PROVE  LET cold == ColdChoices(img[b], cfg[b])
                       IN  /\ Selected(b) => cur[b] \in cold /\ ComesFirst(cur[b], cold)
                           /\ pc[b] = "failed" => cold = {}
    BY DEF CacheIsTransparent
  <2>. DEFINE cold == ColdChoices(img[b], cfg[b])
  <2>1. img[b] \in Images /\ cfg[b] \in Configs
    BY DEF IInv, TypeOK
  <2>2. ~DirectoryFails(cfg[b]) => cold = {p \in Candidates(cfg[b]) : Describes(p, img[b])}
    BY <2>1, ColdIsDescribed
  <2>3. pc[b] = "failed" => cold = {}
    <3>1. CASE DirectoryFails(cfg[b])
      BY <3>1 DEF ColdChoices
    <3>2. CASE ~DirectoryFails(cfg[b])
      BY <2>2, <3>2 DEF RuledOut, NoneOf
    <3>. QED BY <3>1, <3>2
  <2>4. ASSUME Selected(b) PROVE cur[b] \in cold /\ ComesFirst(cur[b], cold)
    <3>1. /\ ~DirectoryFails(cfg[b])
          /\ ComesFirst(cur[b], todo[b])
          /\ NoneOf(b, Candidates(cfg[b]) \ (todo[b] \cup {cur[b]}))
      BY <2>4 DEF InOrder, Selected, Trying
    <3>2. cur[b] \in Candidates(cfg[b]) /\ Describes(cur[b], img[b])
      BY <2>4 DEF SelectionSound, Strict
    <3>3. \A q \in cold : q \in todo[b] \/ q = cur[b]
      BY <2>2, <3>1 DEF NoneOf
    <3>4. PathRank[cur[b]] <= PathRank[cur[b]]
      BY <2>1, <3>2, CandidatesType, PathAssumption
    <3>. QED BY <2>2, <3>1, <3>2, <3>3, <3>4 DEF ComesFirst
  <2>. QED BY <2>3, <2>4
<1>. QED BY <1>1, InOrderAlways, SelectsSoundly, PTL

----------------------------------------------------------------------------
(* Effect *)

\* The target's reads do not fail, banners are compared, and images hash differently.
Distinct ==
  /\ ~Flaky
  /\ \A c \in Configs : Strict(c)
  /\ \A m, n \in Images : Image[m].fp = Image[n].fp => m = n

KernelOf(b) == Image[img[b]].kernel
\* How far a build whose hint is right can get without finding the kernel.
Warm(b) ==
  /\ pc[b] # "idle" => fp[b] = Image[img[b]].fp
  /\ pc[b] = "discover" /\ Describes(cur[b], img[b]) /\ hint[b] = KernelOf(b) =>
       /\ phase[b] <= 2
       /\ phase[b] = 2 => Finds(Strategies[1], cur[b], img[b], cfg[b], hint[b]) = NoAddr
  /\ Selected(b) => found[b] = KernelOf(b)

\* What is stored for an image is where its kernel is.
StoredRight ==
  \A m \in Images, a \in Addrs, p \in Profiles :
    <<a, p>> \in stored[Image[m].fp] => a = Image[m].kernel

WarmInv == Distinct => StoredRight /\ \A b \in Builders : Warm(b)

\* With the right hint one of the first two strategies finds a kernel the profile describes.
LEMMA HintSuffices ==
  ASSUME NEW p \in Profiles, NEW m \in Images, NEW c \in Configs, NEW h,
         Describes(p, m), h = Image[m].kernel,
         NEW s \in {"explicit_hint"}, NEW t \in {"cached_hint"}
  PROVE  Finds(s, p, m, c, h) # NoAddr \/ Finds(t, p, m, c, h) # NoAddr
<1>. USE SentinelAssumption, DataAssumption, AddrAssumption
<1>1. Image[m].kernel \in Addrs /\ Image[m].banner \in Banners /\ Align(h) = Image[m].kernel
  BY DEF ImageType
<1>2. BannerHeadMatches(p, m)
  BY <1>1 DEF Describes, BannerHeadMatches
<1>3. \A a : a = Image[m].kernel => discover_kernel_with_hint(p, m, a) # NoAddr
  BY <1>1, <1>2 DEF Describes, discover_kernel_with_hint, InitTaskResolves
<1>4. Finds(s, p, m, c, h) = discover_kernel_with_hint(p, m, ExplicitHint(c))
  BY DEF Finds
<1>5. Finds(t, p, m, c, h) = discover_kernel_with_hint(p, m, CachedHint(c, h))
  BY DEF Finds
<1>6. CachedHint(c, h) = Image[m].kernel \/ ExplicitHint(c) = Image[m].kernel
  BY <1>1 DEF CachedHint
<1>. QED BY <1>3, <1>4, <1>5, <1>6

\* The two strategies that use a hint.
LEMMA FirstTwo == Strategies[1] = "explicit_hint" /\ Strategies[2] = "cached_hint"
BY DEF Strategies

\* The step of another builder changes nothing for a builder.
LEMMA WarmFrame ==
  ASSUME NEW c \in Builders, Warm(c), Same(c), phase'[c] = phase[c], fp'[c] = fp[c]
  PROVE  Warm(c)'
BY DEF Warm, Same, KernelOf, Selected

\* One builder moves at a time, its fingerprint included.
LEMMA OthersKey ==
  ASSUME TypeOK, NEW b \in Builders, Start(b) \/ Step(b) \/ Crash(b) \/ Return(b),
         NEW c \in Builders \ {b}
  PROVE  fp'[c] = fp[c]
BY DEF TypeOK, Start, Step, Crash, Return, DropLocals, LoadHint, ResolveProfiles, NextProfile,
       GiveUp, Discover, Accept, Reject, StoreOpen, StoreWrite, StoreFails, job

\* A build with a right hint gets no further than the second strategy.
LEMMA WarmStep ==
  ASSUME IInv, Distinct, NEW b \in Builders, Warm(b), RuledOut(b), InOrder(b),
         Start(b) \/ Step(b) \/ Crash(b) \/ Return(b)
  PROVE  Warm(b)'
<1>. USE DEF IInv
<1>1. CASE Start(b) \/ Crash(b) \/ Return(b)
  <2>1. pc'[b] \in {"idle", "load", "resolve"}
    BY <1>1 DEF Start, Crash, Return, DropLocals, TypeOK
  <2>2. pc'[b] # "idle" => fp'[b] = Image[img'[b]].fp
    BY <1>1 DEF Start, Crash, Return, DropLocals, TypeOK, compute_memory_fingerprint, Distinct
  <2>. QED BY <2>1, <2>2 DEF Warm, Selected, HasInfo
<1>2. CASE Step(b)
  <2>0. fp' = fp /\ img' = img /\ cfg' = cfg /\ pc[b] # "idle" /\ fp[b] = Image[img[b]].fp
    BY <1>2 DEF Step, LoadHint, ResolveProfiles, NextProfile, GiveUp, Discover, Accept,
                Reject, StoreOpen, StoreWrite, StoreFails, job, Warm
  <2>1. CASE LoadHint(b) \/ ResolveProfiles(b) \/ GiveUp(b) \/ Reject(b)
    <3>1. pc'[b] \in {"resolve", "profile", "failed"}
      BY <2>1 DEF LoadHint, ResolveProfiles, GiveUp, Reject, TypeOK
    <3>. QED BY <2>0, <3>1 DEF Warm, Selected, HasInfo
  <2>2. CASE NextProfile(b)
    <3>1. pc'[b] \in {"discover", "profile"} /\ phase'[b] = 1
      BY <2>2 DEF NextProfile, TypeOK
    <3>. QED BY <2>0, <3>1 DEF Warm, Selected, HasInfo
  <2>3. CASE Discover(b)
    <3>. DEFINE F(i) == Finds(Strategies[i], cur[b], img[b], cfg[b], hint[b])
    <3>1. /\ pc[b] = "discover" /\ cur' = cur /\ hint' = hint
          /\ cur[b] \in Profiles /\ img[b] \in Images /\ cfg[b] \in Configs
          /\ phase[b] \in 1 .. 8
      BY <2>3, CandidatesType, FirstFive DEF Discover, job, LocalInv, Trying, TypeOK
    <3>2. Describes(cur[b], img[b]) /\ hint[b] = KernelOf(b) =>
            /\ phase[b] \in 1 .. 2
            /\ phase[b] = 2 => F(2) # NoAddr
      BY <3>1, HintSuffices, FirstTwo DEF Warm, KernelOf
    <3>3. CASE F(phase[b]) # NoAddr /\ pc'[b] = "check"
      BY <2>0, <3>3 DEF Warm, Selected
    <3>4. CASE F(phase[b]) = NoAddr /\ pc'[b] = "discover"
      <4>1. phase'[b] = phase[b] + 1
        BY <2>3, <3>4 DEF Discover, TypeOK
      <4>2. Describes(cur[b], img[b]) /\ hint[b] = KernelOf(b) =>
              phase[b] = 1 /\ phase'[b] = 2 /\ F(1) = NoAddr
        BY <3>1, <3>2, <3>4, <4>1
      <4>. QED BY <2>0, <3>1, <3>4, <4>2 DEF Warm, Selected, KernelOf, HasInfo
    <3>5. CASE pc'[b] = "profile"
      BY <2>0, <3>5 DEF Warm, Selected, HasInfo
    <3>6. \/ F(phase[b]) # NoAddr /\ pc'[b] = "check"
          \/ F(phase[b]) = NoAddr /\ pc'[b] = "discover"
          \/ pc'[b] = "profile"
      BY <2>3, <3>1 DEF Discover, TypeOK, Distinct
    <3>. QED BY <3>3, <3>4, <3>5, <3>6
  <2>4. CASE Accept(b)
    <3>1. /\ pc[b] = "check" /\ Acceptable(b) /\ pc'[b] \in {"store", "ok"}
          /\ cur' = cur /\ hint' = hint /\ via' = via /\ found' = found
      BY <2>4 DEF Accept, TypeOK
    <3>2. cur[b] \in Candidates(cfg[b]) /\ Profile[cur[b]].loads /\ cfg[b] \in Configs
      BY <3>1 DEF LocalInv, Trying, TypeOK
    <3>3. Describes(cur[b], img[b])
      BY <3>1, <3>2 DEF Acceptable, BannerPasses, validate_profile_banner, Describes, Distinct, Strict
    <3>4. via[b] \in DefsBacked
      BY <3>1, <3>3 DEF RuledOut, InOrder, Trying, Distinct
    <3>5. found[b] \in Addrs /\ found[b] = Finds(via[b], cur[b], img[b], cfg[b], hint[b])
      BY <3>1 DEF LocalInv, HasInfo
    <3>6. found[b] = KernelOf(b)
      BY <3>4, <3>5, DefsBackedFinds DEF KernelOf
    <3>. QED BY <2>0, <3>1, <3>6 DEF Warm, HasInfo, KernelOf
  <2>5. CASE StoreOpen(b) \/ StoreWrite(b) \/ StoreFails(b)
    <3>1. /\ pc[b] \in {"store", "write"} /\ pc'[b] \in {"write", "ok"}
          /\ cur' = cur /\ hint' = hint /\ via' = via /\ found' = found
      BY <2>5 DEF StoreOpen, StoreWrite, StoreFails, TypeOK
    <3>. QED BY <2>0, <3>1 DEF Warm, HasInfo, KernelOf, Selected
  <2>. QED BY <1>2, <2>1, <2>2, <2>3, <2>4, <2>5 DEF Step
<1>. QED BY <1>1, <1>2

\* Only a builder that selected a kernel adds to what is stored.
LEMMA StoredStep ==
  ASSUME IInv, Distinct, StoredRight, NEW b \in Builders, Warm(b),
         Start(b) \/ Step(b) \/ Crash(b) \/ Return(b)
  PROVE  StoredRight'
<1>. USE DEF IInv
<1>1. \/ stored' = stored
      \/ /\ pc[b] = "write"
         /\ stored' = [stored EXCEPT ![fp[b]] = @ \cup {<<found[b], cur[b]>>}]
  BY DEF Start, Step, Crash, Return, DropLocals, LoadHint, ResolveProfiles, NextProfile,
         GiveUp, Discover, Accept, Reject, StoreOpen, StoreWrite, StoreFails, TornWrite
<1>2. CASE stored' = stored
  BY <1>2 DEF StoredRight
<1>3. CASE /\ pc[b] = "write"
           /\ stored' = [stored EXCEPT ![fp[b]] = @ \cup {<<found[b], cur[b]>>}]
  <2>. SUFFICES ASSUME NEW m \in Images, NEW a \in Addrs, NEW p \in Profiles,
                       <<a, p>> \in stored'[Image[m].fp]
                PROVE  a = Image[m].kernel
    BY DEF StoredRight
  <2>1. found[b] = KernelOf(b) /\ fp[b] = Image[img[b]].fp /\ img[b] \in Images
    BY <1>3 DEF Warm, Selected, TypeOK
  <2>2. stored \in [Fingerprints -> SUBSET (Addrs \X Profiles)] /\ Image[m].fp \in Fingerprints
    BY DataAssumption DEF TypeOK, ImageType
  <2>3. <<a, p>> \in stored[Image[m].fp] \/ (fp[b] = Image[m].fp /\ a = found[b])
    BY <1>3, <2>2
  <2>4. CASE <<a, p>> \in stored[Image[m].fp]
    BY <2>4 DEF StoredRight
  <2>5. CASE fp[b] = Image[m].fp /\ a = found[b]
    BY <2>1, <2>5 DEF Distinct, KernelOf
  <2>. QED BY <2>3, <2>4, <2>5
<1>. QED BY <1>1, <1>2, <1>3

(***************************************************************************)
(* A build that has loaded a hint starts no memory scan for defs that      *)
(* describe the kernel, once banners are compared and images hash          *)
(* differently; for other defs that sort before them it may.               *)
(***************************************************************************)
THEOREM WarmStart == Spec => []WarmScansOnlyWrongDefs
<1>1. Init => WarmInv
  <2>1. Init => StoredRight
    BY DataAssumption DEF Init, StoredRight, ImageType
  <2>2. Init => \A b \in Builders : Warm(b)
    BY DEF Init, Warm, Selected, HasInfo
  <2>. QED BY <2>1, <2>2 DEF WarmInv
<1>2. /\ IInv /\ (\A b \in Builders : RuledOut(b) /\ InOrder(b)) /\ WarmInv /\ [Next]_vars
      => WarmInv'
  <2>. SUFFICES ASSUME IInv, \A b \in Builders : RuledOut(b) /\ InOrder(b), WarmInv, [Next]_vars,
                       Distinct
                PROVE  StoredRight' /\ \A b \in Builders : Warm(b)'
    BY DEF WarmInv, Distinct
  <2>. USE DEF IInv
  <2>1. StoredRight /\ \A b \in Builders : Warm(b)
    BY DEF WarmInv
  <2>2. CASE UNCHANGED vars
    BY <2>1, <2>2, WarmFrame DEF vars, Same, StoredRight
  <2>3. ASSUME NEW b \in Builders, Start(b) \/ Step(b) \/ Crash(b) \/ Return(b)
        PROVE  StoredRight' /\ \A c \in Builders : Warm(c)'
    <3>1. \A c \in Builders \ {b} : Warm(c)'
      BY <2>1, <2>3, OthersSame, OthersPhase, OthersKey, WarmFrame
    <3>2. Warm(b)'
      BY <2>1, <2>3, WarmStep
    <3>3. StoredRight'
      BY <2>1, <2>3, StoredStep
    <3>. QED BY <3>1, <3>2, <3>3
  <2>. QED BY <2>2, <2>3 DEF Next
<1>3. IInv /\ WarmInv => WarmScansOnlyWrongDefs
  <2>. SUFFICES ASSUME IInv, WarmInv, Distinct, NEW b \in Builders,
                       hint[b] # NoAddr, pc[b] = "discover", Describes(cur[b], img[b])
                PROVE  Strategies[phase[b]] \in {"explicit_hint", "cached_hint"}
    BY DEF WarmScansOnlyWrongDefs, Distinct
  <2>1. Warm(b) /\ StoredRight /\ img[b] \in Images /\ hint[b] \in Addrs
    BY DEF WarmInv, IInv, TypeOK
  <2>2. phase[b] \in 1 .. 8
    BY FirstFive DEF IInv, TypeOK
  <2>3. fp[b] = Image[img[b]].fp
    BY <2>1 DEF Warm
  <2>4. PICK p \in Profiles : <<hint[b], p>> \in stored[fp[b]]
    BY DEF IInv, LoadedHintWasStored
  <2>5. hint[b] = KernelOf(b)
    BY <2>1, <2>3, <2>4 DEF StoredRight, KernelOf
  <2>6. phase[b] <= 2
    BY <2>1, <2>5 DEF Warm
  <2>7. phase[b] = 1 \/ phase[b] = 2
    BY <2>2, <2>6
  <2>. QED BY <2>7, FirstTwo
<1>. QED BY <1>1, <1>2, <1>3, InOrderAlways, PTL DEF Spec
=============================================================================
