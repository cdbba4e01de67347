------------------------------ MODULE ListWalk -------------------------------
(***************************************************************************)
(* The two walks over linked lists of the target kernel:                   *)
(* process_address_list_callback over init_task.tasks, which reports each  *)
(* task to a callback, and collect_kernel_modules over the modules list,   *)
(* whose result kernel_module_cache keeps.  The target may be running: it  *)
(* links and unlinks entries between any two reads of the walk, which      *)
(* takes no lock, and a read may fail.                                     *)
(*                                                                         *)
(* "ok" stands for what makes an entry count: a task that leads its thread *)
(* group (pid = tgid, not 0); a module past MODULE_STATE_UNFORMED that has *)
(* memory.                                                                 *)
(***************************************************************************)
EXTENDS Integers, FiniteSets

CONSTANTS
  Nodes,     \* addresses of list entries
  Head,      \* the list head: init_task's entry, or the modules symbol
  NULL,
  MaxIter    \* MAX_PROCESS_ITER, MAX_KERNEL_MODULE_ITER

ASSUME ConstAssumption ==
  /\ Head \notin Nodes /\ NULL \notin Nodes \cup {Head}
  /\ MaxIter \in Nat /\ IsFiniteSet(Nodes)

Entries == Nodes \cup {Head}
Links == Entries \cup {NULL}

VARIABLES
  kind,      \* "tasks" or "modules"
  world,     \* "quiet": no address is linked again after being unlinked;
             \* "churn": it may be; "torn": a snapshot with arbitrary links
  next,      \* the list_head.next of every entry, unlinked ones included
  linked,    \* entries in the list
  used,      \* entries that have been in the list
  ok,        \* see above
  pc,
  entry,     \* the loop's entry
  nxt,       \* the link read from it
  counts,    \* whether it counts, as read
  iter,      \* iterations done
  reported,  \* tasks handed to the callback, modules collected
  twice,     \* history: an entry was reported twice
  cut,       \* history: the callback declined, or a read failed
  stable,    \* history: entries linked and ok during the whole walk
  seen       \* history: entries linked and ok at some time of the walk

kernelVars == <<next, linked, used, ok>>
history == <<stable, seen>>
vars == <<kind, world, next, linked, used, ok, pc, entry, nxt, counts, iter, reported, twice,
          cut, stable, seen>>

\* Nodes linked in the order of s, starting and ending at the head.
IsList(s, n, f) ==
  /\ f[Head] = IF n = 0 THEN Head ELSE s[1]
  /\ \A k \in 1 .. n : f[s[k]] = IF k = n THEN Head ELSE s[k + 1]
Orders == {s \in [1 .. Cardinality(Nodes) -> Nodes] : \A j, k \in DOMAIN s : s[j] = s[k] => j = k}

Init ==
  /\ kind \in {"tasks", "modules"}
  /\ world \in {"quiet", "churn", "torn"}
  /\ ok \in [Nodes -> BOOLEAN]
  /\ next \in [Entries -> Links]
  /\ \/ /\ world = "torn"
        /\ linked = Nodes
     \/ /\ world # "torn"
        /\ \E s \in Orders, n \in 0 .. Cardinality(Nodes) :
             /\ IsList(s, n, next)
             /\ linked = {s[k] : k \in 1 .. n}
        /\ \A n \in Nodes \ linked : next[n] = NULL /\ ~ok[n]
  /\ used = linked
  /\ pc = "start"
  /\ entry = Head /\ nxt = NULL /\ counts = FALSE /\ iter = 0
  /\ reported = {} /\ twice = FALSE /\ cut = FALSE
  /\ stable = {} /\ seen = {}

----------------------------------------------------------------------------
(* The target kernel *)

\* Only what the target does while a walk is in progress can matter to it.
Running == world # "torn" /\ pc \notin {"start", "done", "error"}
CountNow(l, o) == {n \in l : o[n]}

\* The history of a walk in progress, when the list changes.
Observe ==
  /\ stable' = stable \cap CountNow(linked', ok')
  /\ seen' = seen \cup CountNow(linked', ok')
walk == <<kind, world, pc, entry, nxt, counts, iter, reported, twice, cut>>

(***************************************************************************)
(* list_add_tail_rcu (a new task) or list_add_rcu (a new module, still     *)
(* unformed).                                                              *)
(***************************************************************************)
Link(n) ==
  /\ Running
  /\ n \notin linked
  /\ world = "quiet" => n \notin used
  /\ linked' = linked \cup {n}
  /\ used' = used \cup {n}
  /\ \/ /\ kind = "tasks"
        /\ \E p \in linked \cup {Head} :
             next[p] = Head /\ next' = [next EXCEPT ![p] = n, ![n] = Head]
        /\ \E b \in BOOLEAN : ok' = [ok EXCEPT ![n] = b]
     \/ /\ kind = "modules"
        /\ next' = [next EXCEPT ![Head] = n, ![n] = next[Head]]
        /\ ok' = [ok EXCEPT ![n] = FALSE]
  /\ UNCHANGED walk
  /\ Observe

\* list_del_rcu: the unlinked entry keeps its own next, and what it holds until
\* its address is linked again.  That the target frees it and writes other data
\* there while the walk stands on it is left out.
Unlink(n) ==
  /\ Running
  /\ n \in linked
  /\ linked' = linked \ {n}
  /\ \E p \in linked \cup {Head} :
       p # n /\ next[p] = n /\ next' = [next EXCEPT ![p] = next[n]]
  /\ UNCHANGED <<walk, used, ok>>
  /\ Observe

\* A module leaves MODULE_STATE_UNFORMED.
Form(n) ==
  /\ Running
  /\ kind = "modules"
  /\ n \in linked /\ ~ok[n]
  /\ ok' = [ok EXCEPT ![n] = TRUE]
  /\ UNCHANGED <<walk, next, linked, used>>
  /\ Observe

Kernel == \E n \in Nodes : Link(n) \/ Unlink(n) \/ Form(n)

----------------------------------------------------------------------------
(* process_address_list_callback *)

\* The walk begins: the head is the first entry.
TaskStart ==
  /\ pc = "start" /\ kind = "tasks"
  /\ pc' = IF MaxIter = 0 THEN "done" ELSE "task_ids"
  /\ stable' = CountNow(linked, ok)
  /\ seen' = CountNow(linked, ok)
  /\ UNCHANGED <<kernelVars, kind, world, entry, nxt, counts, iter, reported, twice, cut>>

\* Reads of pid and tgid; init_task has pid 0.  They are two reads, taken for one
\* step: a task keeps both while it is linked, so they could only disagree about
\* an entry that is linked again between them.
TaskIds ==
  /\ pc = "task_ids"
  /\ counts' = (entry # Head /\ ok[entry])
  /\ pc' = "task_next"
  /\ UNCHANGED <<kernelVars, history, kind, world, entry, nxt, iter, reported, twice, cut>>

\* Read of the link.
TaskNext ==
  /\ pc = "task_next"
  /\ nxt' = next[entry]
  /\ pc' = "task_call"
  /\ UNCHANGED <<kernelVars, history, kind, world, entry, counts, iter, reported, twice, cut>>

\* Any of these reads may fail: the error is returned, what was reported stays reported.
TaskReadFails ==
  /\ pc \in {"task_ids", "task_next"}
  /\ pc' = "error"
  /\ cut' = TRUE
  /\ UNCHANGED <<kernelVars, history, kind, world, entry, nxt, counts, iter, reported, twice>>

\* next, pid and tgid are locals of one iteration.
IterationOver == nxt' = NULL /\ counts' = FALSE

Uncounted == iter
Counted == iter + 1

Endless(n) == n = NULL \/ n = entry
\* The link ends the walk.
EndsWalk(n) == n = NULL \/ n = Head \/ n = entry

\* To the next iteration, if there is one left.
Continue(label) ==
  /\ iter' = Counted
  /\ entry' = nxt
  /\ pc' = IF iter' >= MaxIter THEN "done" ELSE label

Record == /\ reported' = reported \cup {entry}
          /\ twice' = (twice \/ entry \in reported)

EndsBeforeReport ==
  /\ pc = "task_call"
  /\ counts
  /\ \/ /\ EndsWalk(nxt)
        /\ pc' = "done"
        /\ UNCHANGED <<entry, iter, reported, twice>>
     \/ /\ ~EndsWalk(nxt)
        /\ Record
        /\ Continue("task_ids")
  /\ IterationOver
  /\ UNCHANGED <<kernelVars, history, kind, world, cut>>
\* The callback for an entry that counts, then the end of the iteration.
TaskReport ==
  /\ pc = "task_call"
  /\ counts
  /\ Record
  /\ \/ /\ EndsWalk(nxt)
        /\ pc' = "done"
        /\ UNCHANGED <<entry, iter>>
     \/ /\ ~EndsWalk(nxt)
        /\ Continue("task_ids")
  /\ IterationOver
  /\ UNCHANGED <<kernelVars, history, kind, world, cut>>

\* The callback wants no more.
TaskDeclined ==
  /\ pc = "task_call"
  /\ counts
  /\ Record
  /\ pc' = "done"
  /\ cut' = TRUE
  /\ IterationOver
  /\ UNCHANGED <<kernelVars, history, kind, world, entry, iter>>

TaskPass ==
  /\ pc = "task_call"
  /\ ~counts
  /\ \/ /\ EndsWalk(nxt)
        /\ pc' = "done"
        /\ UNCHANGED <<entry, iter>>
     \/ /\ ~EndsWalk(nxt)
        /\ Continue("task_ids")
  /\ IterationOver
  /\ UNCHANGED <<kernelVars, history, kind, world, reported, twice, cut>>

----------------------------------------------------------------------------
(* collect_kernel_modules, called by kernel_module_cache when nothing is cached *)

\* The read of the head's link; a failure reads as an empty list.
ModuleStart ==
  /\ pc = "start" /\ kind = "modules"
  /\ \/ entry' = next[Head] /\ UNCHANGED cut
     \/ entry' = NULL /\ cut' = TRUE
  /\ pc' = IF MaxIter = 0 \/ entry' \in {NULL, Head} THEN "done" ELSE "module_next"
  /\ stable' = CountNow(linked, ok)
  /\ seen' = CountNow(linked, ok)
  /\ UNCHANGED <<kernelVars, kind, world, nxt, counts, iter, reported, twice>>

\* The read of the entry's link; a failure reads as NULL.
ModuleNext ==
  /\ pc = "module_next"
  /\ \/ nxt' = next[entry] /\ UNCHANGED cut
     \/ nxt' = NULL /\ cut' = TRUE
  /\ pc' = "module_state"
  /\ UNCHANGED <<kernelVars, history, kind, world, entry, counts, iter, reported, twice>>

\* Where an iteration goes that is not ended by a break.
ModuleContinue ==
  /\ iter' = Counted
  /\ entry' = nxt
  /\ pc' = IF iter' >= MaxIter \/ nxt \in {NULL, Head} THEN "done" ELSE "module_next"

EveryState ==
  /\ pc = "module_state"
  /\ Record
  /\ IF nxt \in {NULL, entry}
     THEN pc' = "done" /\ UNCHANGED <<iter, entry>>
     ELSE ModuleContinue
  /\ IterationOver
  /\ UNCHANGED <<kernelVars, history, kind, world, cut>>
\* A formed module with memory is collected; the walk stops at a link to itself.
ModuleCollect ==
  /\ pc = "module_state"
  /\ ok[entry]
  /\ Record
  /\ IF nxt \in {NULL, entry}
     THEN pc' = "done" /\ UNCHANGED <<iter, entry>>
     ELSE ModuleContinue
  /\ IterationOver
  /\ UNCHANGED <<kernelVars, history, kind, world, cut>>

(***************************************************************************)
(* Unformed, or its state could not be read: passed over, without the test *)
(* for a link to itself.                                                   *)
(***************************************************************************)
ModuleUnformed ==
  /\ pc = "module_state"
  /\ \/ ~ok[entry] /\ UNCHANGED cut
     \/ cut' = TRUE
  /\ ModuleContinue
  /\ IterationOver
  /\ UNCHANGED <<kernelVars, history, kind, world, reported, twice>>

\* Formed, but no region of its memory could be read or it has none: not collected.
ModuleWithoutMemory ==
  /\ pc = "module_state"
  /\ \/ ~ok[entry] /\ UNCHANGED cut
     \/ cut' = TRUE
  /\ IF nxt \in {NULL, entry}
     THEN pc' = "done" /\ UNCHANGED <<iter, entry>>
     ELSE ModuleContinue
  /\ IterationOver
  /\ UNCHANGED <<kernelVars, history, kind, world, reported, twice>>

Walk ==
  \/ TaskStart \/ TaskIds \/ TaskNext \/ TaskReadFails \/ TaskReport \/ TaskDeclined \/ TaskPass
  \/ ModuleStart \/ ModuleNext \/ ModuleCollect \/ ModuleUnformed \/ ModuleWithoutMemory

Next == Kernel \/ Walk
Spec == Init /\ [][Next]_vars
\* The walk runs in the caller's thread and waits for nobody; the target owes it nothing.
FairSpec == Spec /\ WF_vars(Walk)

----------------------------------------------------------------------------
(* Properties *)

(***************************************************************************)
(* A walk that was not cut short misses no entry that counted from its     *)
(* first read to its last, whatever the target links and unlinks around    *)
(* it: unlinking an entry under the walk does not lose the rest of the     *)
(* list, as long as its address is not linked again meanwhile.             *)
(***************************************************************************)
StableReported ==
  (world = "quiet" /\ pc = "done" /\ ~cut /\ Cardinality(Nodes) < MaxIter)
    => stable \subseteq reported

\* Unless addresses are linked again during the walk, no entry is reported twice.
ReportedOnce == world = "quiet" => ~twice

(***************************************************************************)
(* On a running target an entry is reported only if it was in the list and *)
(* counted at some time of the walk, although the walk crosses entries     *)
(* unlinked under it and addresses linked again.                           *)
(***************************************************************************)
NeverInvents == world # "torn" => reported \subseteq seen

(***************************************************************************)
(* The walk ends: also when the target churns fast enough for it never to  *)
(* come back to the head, and on a snapshot whose links form a cycle.      *)
(***************************************************************************)
WalkEnds == (pc # "start") ~> (pc \in {"done", "error"})
============================================================================
