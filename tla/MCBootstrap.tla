----------------------------- MODULE MCBootstrap -----------------------------
(* Constants for Bootstrap: small addresses (2 stands for 2 MiB), defs files *)
(* that match, that differ in the banner only, in the layout, or do not load.*)
EXTENDS Bootstrap

CONSTANTS b1, b2

MCAddrs == 0 .. 5
Distro(t) == [head |-> "linux", tail |-> t]
Other == [head |-> "other", tail |-> "x"]

\* vm runs build "a"; la57 runs a kernel none of the defs describes, with 5-level paging.
ImageTable == [
  vm     |-> [kernel |-> 4, layout |-> "A", banner |-> Distro("a"), generic |-> 4,
              la57 |-> FALSE, fp |-> "f1"],
  la57   |-> [kernel |-> 0, layout |-> "C", banner |-> Other, generic |-> 0,
              la57 |-> TRUE, fp |-> "f2"]]

ProfileTable == [
  right    |-> [layout |-> "A", banner |-> Distro("a"), loads |-> TRUE, slide_ok |-> TRUE],
  sibling  |-> [layout |-> "A", banner |-> Distro("b"), loads |-> TRUE, slide_ok |-> TRUE],
  foreign  |-> [layout |-> "B", banner |-> Other, loads |-> TRUE, slide_ok |-> TRUE],
  bare     |-> [layout |-> "B", banner |-> NoBanner, loads |-> TRUE, slide_ok |-> TRUE],
  bogus    |-> [layout |-> "A", banner |-> Distro("a"), loads |-> TRUE, slide_ok |-> FALSE],
  broken   |-> [layout |-> "A", banner |-> Distro("a"), loads |-> FALSE, slide_ok |-> TRUE]]

RankTable == [bare |-> 1, bogus |-> 2, broken |-> 3, foreign |-> 4, sibling |-> 5, right |-> 6]

MCImage == [m \in Images |-> ImageTable[m]]
MCProfile == [p \in Profiles |-> ProfileTable[p]]
MCPathRank == [p \in Profiles |-> RankTable[p]]

Config(e, v, adj, h, g, k) ==
  [explicit |-> e, env |-> v, adjacent |-> adj, dir_ok |-> TRUE, kernel_hint |-> h,
   generic_fallback |-> g, skip_banner |-> k, cache |-> TRUE]

StrictConfigs ==
  { Config(NoProfile, NoProfile, {"sibling", "foreign", "broken", "right"}, NoAddr, TRUE, FALSE),
    Config(NoProfile, "foreign", {"bogus", "right"}, 5, FALSE, FALSE) }
LooseConfigs ==
  { Config(NoProfile, NoProfile, {"bare", "broken", "right"}, NoAddr, FALSE, FALSE),
    Config(NoProfile, "right", {"foreign"}, 4, TRUE, TRUE),
    [Config("foreign", NoProfile, {}, 2, TRUE, FALSE) EXCEPT !.cache = FALSE],
    [Config(NoProfile, "right", {}, NoAddr, TRUE, FALSE) EXCEPT !.dir_ok = FALSE] }

\* Files left by an older release and by a copied cache directory.
OldEntry == [version |-> 0, mem |-> "f1", defs |-> "right", hint |-> 3, lines |-> 5, cut |-> FALSE]
AlienEntry == [version |-> 1, mem |-> "f2", defs |-> "right", hint |-> 5, lines |-> 5, cut |-> FALSE]
MCInitFiles == [k \in Fingerprints |-> IF k = "f1" THEN {OldEntry, AlienEntry} ELSE {}]
============================================================================
