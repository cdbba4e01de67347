------------------------------ MODULE PathWalk ------------------------------
(***************************************************************************)
(* read_path: the path of a file of the target, from its dentry up through *)
(* the mounts it lies in to the root directory of the process.             *)
(*                                                                         *)
(* A file system is a record fs of functions: parent and name over         *)
(* dentries; mnt_root, mnt_parent and mountpoint over mounts.  A place is  *)
(* a pair <<mount, dentry>>.  The reads that fail are the set bad of pairs *)
(* of a field and the object it is a field of.                             *)
(***************************************************************************)
EXTENDS Integers, SequencesExt

CONSTANTS
  MAX_DENTRY_DEPTH, MAX_MOUNT_DEPTH,
  NULL,
  Err           \* Result::Err, as a path

ASSUME PathAssumption == MAX_DENTRY_DEPTH \in Nat /\ MAX_MOUNT_DEPTH \in Nat

Unreadable(bad, object, fields) == bad \cap (fields \X {object}) # {}

\* The components with the name of a dentry added, unless it is empty or "/".
Push(fs, components, dentry) ==
  IF fs.name[dentry] \in {"", "/"} THEN components ELSE Append(components, fs.name[dentry])

\* The walk of a path that has no mount: parents only.
RECURSIVE ParentsOnly(_, _, _, _, _)
ParentsOnly(fs, bad, current, components, left) ==
  IF left = 0 THEN components
  ELSE IF Unreadable(bad, current, {"name", "parent"}) THEN Err
  ELSE LET parent == fs.parent[current]
       IN IF parent \in {current, NULL} THEN components
          ELSE ParentsOnly(fs, bad, parent, Push(fs, components, current), left - 1)

(***************************************************************************)
(* The inner loop: up to the root of a mount.  at is where it stops, over  *)
(* whether it stopped at a dentry without a parent, which ends the walk.   *)
(***************************************************************************)
RECURSIVE Ascend(_, _, _, _, _, _)
Ascend(fs, bad, mount_root, current, components, left) ==
  IF left = 0 \/ current \in {mount_root, NULL}
  THEN [at |-> current, components |-> components, over |-> FALSE]
  ELSE IF Unreadable(bad, current, {"name", "parent"})
  THEN [at |-> current, components |-> Err, over |-> TRUE]
  ELSE LET parent == fs.parent[current]
           pushed == Push(fs, components, current)
       IN IF parent \in {current, NULL}
          THEN [at |-> current, components |-> pushed, over |-> TRUE]
          ELSE Ascend(fs, bad, mount_root, parent, pushed, left - 1)


\* Where the ascent in a mount stops: the process root if it is in this mount.
MountRoot(fs, bad, root, mnt) ==
  IF root # NULL /\ root[1] = mnt THEN root[2]
  ELSE IF Unreadable(bad, mnt, {"mnt_root"}) THEN Err
  ELSE fs.mnt_root[mnt]

RECURSIVE Mounts(_, _, _, _, _, _, _)
Mounts(fs, bad, root, mnt, current, components, left) ==
  LET mount_root == MountRoot(fs, bad, root, mnt)
      up == Ascend(fs, bad, mount_root, current, components, MAX_DENTRY_DEPTH)
      parent == fs.mnt_parent[mnt]
  IN IF left = 0 THEN components
     ELSE IF mount_root = Err THEN Err
     ELSE IF up.over \/ root = <<mnt, up.at>> THEN up.components
     ELSE IF Unreadable(bad, mnt, {"mnt_parent"}) THEN Err
     ELSE IF parent \in {mnt, NULL} THEN up.components
     ELSE IF Unreadable(bad, mnt, {"mountpoint"}) THEN Err
     ELSE Mounts(fs, bad, root, parent, fs.mountpoint[mnt], up.components, left - 1)

read_path_components(fs, bad, mnt, dentry, root) ==
  IF dentry = NULL THEN Err
  ELSE IF mnt = NULL THEN ParentsOnly(fs, bad, dentry, <<>>, MAX_DENTRY_DEPTH)
  ELSE Mounts(fs, bad, root, mnt, dentry, <<>>, MAX_MOUNT_DEPTH)

\* The path of a place as a process with this root sees it; <<>> is "/".
read_path(fs, bad, place, root) ==
  IF Unreadable(bad, "f_path", {"mnt", "dentry"})
       \/ (root # NULL /\ Unreadable(bad, "root", {"mnt", "dentry"}))
  THEN Err
  ELSE LET components == read_path_components(fs, bad, place[1], place[2], root)
       IN IF components = Err THEN Err ELSE Reverse(components)

----------------------------------------------------------------------------
(* What a path is *)

AtMountRoot(fs, place) ==
  IF place[1] = NULL THEN fs.parent[place[2]] \in {place[2], NULL}
  ELSE place[2] = fs.mnt_root[place[1]]
\* One step towards the root: the parent directory, or out of a mount.
Above(fs, place) ==
  IF AtMountRoot(fs, place)
  THEN <<fs.mnt_parent[place[1]], fs.mountpoint[place[1]]>>
  ELSE <<place[1], fs.parent[place[2]]>>
IsTop(fs, place) ==
  AtMountRoot(fs, place) /\ (place[1] # NULL => fs.mnt_parent[place[1]] = place[1])

\* The places from a place up to the top, the place itself first.
RECURSIVE Lineage(_, _)
Lineage(fs, place) ==
  <<place>> \o IF IsTop(fs, place) THEN <<>> ELSE Lineage(fs, Above(fs, place))

Named(fs, places) ==
  LET inside == SelectSeq(places, LAMBDA p : ~AtMountRoot(fs, p))
  IN Reverse([k \in DOMAIN inside |-> fs.name[inside[k][2]]])

\* a is b with some elements left out.
RECURSIVE IsSubsequence(_, _)
IsSubsequence(a, b) ==
  \/ a = <<>>
  \/ b # <<>> /\ IsSubsequence(IF Head(a) = Head(b) THEN Tail(a) ELSE a, Tail(b))

GlobalPath(fs, place) == Named(fs, Lineage(fs, place))

Below(fs, place, root) == root \in Range(Lineage(fs, place))
PathFrom(fs, place, root) ==
  LET line == Lineage(fs, place)
  IN Named(fs, SubSeq(line, 1, (CHOOSE k \in DOMAIN line : line[k] = root) - 1))

\* No mount on the way holds more directories, and there are no more mounts, than are followed.
WithinLimits(fs, place) ==
  LET line == Lineage(fs, place)
      ms == {p[1] : p \in Range(line)}
  IN /\ Cardinality(ms) <= MAX_MOUNT_DEPTH
     /\ \A m \in ms :
          Cardinality({p \in Range(line) : p[1] = m /\ ~AtMountRoot(fs, p)})
            <= MAX_DENTRY_DEPTH
============================================================================
