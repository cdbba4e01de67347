----------------------------- MODULE KernelView -----------------------------
(***************************************************************************)
(* LinuxKernel after its construction: processes, kernel modules, exports  *)
(* and environment variables as an owner gets them from the target, through*)
(* three caches that are filled once and never dropped (kallsyms, the size *)
(* of the kernel, the kernel modules), with reads that fail during a call. *)
(*                                                                         *)
(* world is what of the target does not change: its symbol table, file     *)
(* systems, a task, the memory of each address space, and lists, the lists *)
(* of modules it has in turn.  A call is one step; ListWalk has the steps  *)
(* of a module walk.  The owner of a LinuxProcess has borrowed the kernel  *)
(* and calls it again when the process is dropped.                         *)
(***************************************************************************)
EXTENDS PathWalk, Kallsyms, EnvBlock

CONSTANTS
  Worlds,
  MaxFaults,      \* bound on the reads that fail in a behaviour
  VirtText,       \* os_info.base
  KernelDtb,
  Page,           \* 4 KiB
  COMPAT, CompatArch, LinuxArch,
  None

ASSUME FaultAssumption == MaxFaults \in Nat \ {0}

VARIABLES
  world, modules,                   \* the target
  kallsyms, size, cached_modules,   \* the LinuxKernel
  process,                          \* the LinuxProcess the owner has, or None
  answer,                           \* what the last call returned
  filled,    \* history: the module list when cached_modules was filled
  lost,      \* history: the caches that a call with a failed read filled
  faults,    \* the number of reads that have failed
  told       \* history: addresses of module_address_list_callback

vars == <<world, modules, kallsyms, size, cached_modules, process, answer, filled, lost, faults, told>>
target == <<world, modules>>

\* A step during which none of these reads fails, or one of them does.
WithFaults(sites, Step(_)) ==
  \E bad \in {{}} \cup {{s} : s \in sites} :
    /\ faults' = faults + Cardinality(bad)
    /\ faults' <= MaxFaults
    /\ Step(bad)
SymbolSites ==
  ({"word"} \X DOMAIN world.table.words)
    \cup ({"name"} \X (0 .. Len(world.table.name_bytes) - 1))
    \cup ({"token"} \X DOMAIN world.table.tokens)

----------------------------------------------------------------------------
(* kallsyms and the kernel's size *)

approximate_kernel_size(t, bad, info) ==
  LET above == {s.addr : s \in {s \in Range(syms_iter(t, bad, info)) : s.addr >= VirtText}}
  IN Max(above \cup {VirtText}) - VirtText + Page

\* The tables are searched for only while there are none; the search may fail.
ensure_kallsyms(bad, found) ==
  IF kallsyms # NoLayout THEN kallsyms
  ELSE IF found THEN KallsymsInfo(world.table, bad) ELSE NoLayout

\* Plausible bug: a size that is there already is computed again.
SizeAgain(info, bad) == approximate_kernel_size(world.table, bad, info)

ensure_kernel_size(info, bad) ==
  IF size # 0 THEN size ELSE approximate_kernel_size(world.table, bad, info)

Lost(cache, bad) == lost' = IF bad = {} THEN lost ELSE lost \cup {cache}

----------------------------------------------------------------------------
(* Kernel modules *)

\* min_base and max_end of the regions of a module that have an address and a size.  A
\* region that cannot be read has neither; the site of that read is named by its base.
Regions(m, bad) ==
  {r \in Range(m.mem) : r.base # 0 /\ r.size # 0 /\ ~Unreadable(bad, r.base, {"mem"})}
ModuleEntry(m, bad) ==
  LET base == Min({r.base : r \in Regions(m, bad)})
  IN [address |-> m.address, base |-> base,
      size |-> Max({r.base + r.size : r \in Regions(m, bad)}) - base]
\* An unreadable state is taken for unformed.
Live(list, bad) ==
  SelectSeq(list, LAMBDA m : /\ m.state # "unformed" /\ ~Unreadable(bad, m.address, {"state"})
                             /\ Regions(m, bad) # {})

\* An unreadable link is taken for the end of the list.
collect_kernel_modules(list, bad) ==
  LET reached == {k \in DOMAIN list :
                    /\ ~Unreadable(bad, 0, {"next"})   \* the head of the list
                    /\ \A j \in 1 .. k - 1 : ~Unreadable(bad, list[j].address, {"next"})}
      kept == Live(SubSeq(list, 1, Cardinality(reached)), bad)
  IN [k \in DOMAIN kept |-> ModuleEntry(kept[k], bad)]
ModuleSites ==
  {<<"next", 0>>} \cup ({"next", "state"} \X {m.address : m \in Range(modules)})
    \cup UNION {{"mem"} \X {r.base : r \in Range(m.mem)} : m \in Range(modules)}

\* Plausible bug: a list is collected for every call.
Refreshed(bad) == collect_kernel_modules(modules, bad)

\* The list a call works with.
kernel_module_cache(bad) ==
  IF cached_modules # None THEN cached_modules ELSE collect_kernel_modules(modules, bad)

FillModules(bad) ==
  /\ cached_modules' = kernel_module_cache(bad)
  /\ IF cached_modules # None THEN UNCHANGED <<filled, lost>>
     ELSE filled' = modules /\ Lost("modules", bad)

Addresses(entries) == [k \in DOMAIN entries |-> entries[k].address]
FirstUpTo(seq, stop) == SubSeq(seq, 1, Min({Len(seq), stop}))

\* The last call has returned, and no process has borrowed the kernel.
Idle == answer.call = "none"
Free == Idle /\ process = None

\* The callback declines at its stop-th call; at the first one no module was looked for.
module_address_list_callback(stop) ==
  /\ Free
  /\ WithFaults(ModuleSites, LAMBDA bad :
       LET all == <<VirtText>> \o Addresses(kernel_module_cache(bad))
       IN /\ IF stop = 1 THEN UNCHANGED <<cached_modules, filled, lost>> ELSE FillModules(bad)
          /\ answer' = [call |-> "address_list", result |-> FirstUpTo(all, stop)]
          /\ told' = told \cup Range(FirstUpTo(all, stop)))
  /\ UNCHANGED <<target, kallsyms, size, process>>

kernel_module_by_address(found) ==
  /\ Free
  /\ WithFaults(SymbolSites, LAMBDA bad :
       LET info == ensure_kallsyms(bad, found)
       IN IF size = 0 /\ info = NoLayout
          THEN /\ answer' = [call |-> "by_address", address |-> VirtText, result |-> Err]
               /\ UNCHANGED <<kallsyms, size, lost>>
          ELSE /\ size' = ensure_kernel_size(info, bad)
               /\ IF size = 0 THEN kallsyms' = info /\ Lost("size", bad)
                  ELSE UNCHANGED <<kallsyms, lost>>
               /\ answer' = [call |-> "by_address", address |-> VirtText,
                             result |-> [address |-> VirtText, base |-> VirtText, size |-> size']])
  /\ UNCHANGED <<target, cached_modules, process, filled, told>>

Lookup(entries, a) == {e \in Range(entries) : e.address = a}

module_by_address(a) ==
  /\ Free
  /\ WithFaults(ModuleSites, LAMBDA bad :
       LET hits == Lookup(kernel_module_cache(bad), a)
       IN /\ FillModules(bad)
          /\ answer' = [call |-> "by_address", address |-> a,
                        result |-> IF hits = {} THEN Err ELSE CHOOSE e \in hits : TRUE])
  /\ UNCHANGED <<target, kallsyms, size, process, told>>

\* The same lookup decides which error the export and section lists of a module return.
module_lists_refused(a) ==
  /\ Free
  /\ WithFaults(ModuleSites, LAMBDA bad :
       /\ FillModules(bad)
       /\ answer' = [call |-> "refused", address |-> a,
                     result |-> IF Lookup(kernel_module_cache(bad), a) = {} THEN "ModuleNotFound"
                                ELSE "NotImplemented"])
  /\ UNCHANGED <<target, kallsyms, size, process, told>>

\* The section list of the kernel itself.
module_section_list_callback ==
  /\ Free
  /\ answer' = [call |-> "refused", address |-> VirtText, result |-> "NotImplemented"]
  /\ UNCHANGED <<target, kallsyms, size, cached_modules, process, filled, lost, faults, told>>

SaturatingSub(a, b) == IF a < b THEN 0 ELSE a - b

module_export_list_callback(found, stop) ==
  /\ Free
  /\ WithFaults(SymbolSites, LAMBDA bad :
       LET info == ensure_kallsyms(bad, found)
           syms == IF info = NoLayout THEN <<>> ELSE syms_iter(world.table, bad, info)
           exports == [k \in DOMAIN syms |-> [name |-> syms[k].name,
                                              offset |-> SaturatingSub(syms[k].addr, VirtText)]]
       IN /\ kallsyms' = info
          /\ answer' = [call |-> "exports", bad |-> bad, found |-> found, stop |-> stop,
                        result |-> IF info = NoLayout THEN Err ELSE FirstUpTo(exports, stop)])
  /\ UNCHANGED <<target, size, cached_modules, process, filled, lost, told>>

----------------------------------------------------------------------------
(* Processes *)

TaskReads == {"pid", "tgid", "comm", "mm", "active_mm"}  \* the ones a process needs
MmReads == {"binfmt", "exe_file", "arg_start", "arg_end", "env_start", "env_end"}
\* A read whose failure stands for a null pointer or a zero.
OrElse(bad, object, field, value, default) ==
  IF Unreadable(bad, object, {field}) THEN default ELSE value

\* A task without an mm borrows one; the idle task has none at all.
task_dtb(bad) ==
  LET mm == IF world.task.mm # NULL THEN world.task.mm ELSE world.task.active_mm
  IN IF mm = NULL THEN KernelDtb
     ELSE IF Unreadable(bad, mm, {"pgd", "translation"}) THEN Err
     ELSE world.pgd[mm]

process_state(bad) ==
  LET t == world.task
  IN IF OrElse(bad, "task", "exit_state", t.exit_state, 0) = 0 THEN <<"Alive">>
     ELSE <<"Dead", OrElse(bad, "task", "exit_code", t.exit_code, 0)>>

process_arch_from_binfmt(binfmt) == IF binfmt = COMPAT THEN CompatArch ELSE LinuxArch

\* A path that cannot be had is replaced by the name of the task.
ProcessPath(bad) ==
  LET t == world.task
      root == OrElse(bad, "task", "fs", t.root, NULL)
      path == IF t.mm = NULL \/ OrElse(bad, "mm", "exe_file", t.exe_file, NULL) = NULL THEN Err
              ELSE read_path(world.fs, bad, t.exe_file, root)
  IN IF path = Err THEN [absolute |-> FALSE, parts |-> <<t.comm>>]
     ELSE [absolute |-> TRUE, parts |-> path]

CommandLine(bad, dtb) ==
  LET start == OrElse(bad, "mm", "arg_start", world.task.arg[1], 0)
      end == OrElse(bad, "mm", "arg_end", world.task.arg[2], 0)
      line == read_command_line(world.memory[dtb], {}, start, end)
  IN IF world.task.mm = NULL \/ 0 \in {start, end} \/ line = NoData THEN <<>> ELSE line

process_info_from_task(bad) ==
  LET t == world.task
      dtb == task_dtb(bad)
      env(field, value) == IF t.mm = NULL THEN 0 ELSE OrElse(bad, "mm", field, value, 0)
  IN IF Unreadable(bad, "task", TaskReads) \/ dtb = Err THEN Err
     ELSE [pid |-> IF t.tgid # 0 THEN t.tgid ELSE t.pid, dtb |-> dtb,
           path |-> ProcessPath(bad), command_line |-> CommandLine(bad, dtb),
           arch |-> process_arch_from_binfmt(
                      IF t.mm = NULL THEN NULL ELSE OrElse(bad, "mm", "binfmt", t.binfmt, NULL)),
           state |-> process_state(bad),
           env_start |-> env("env_start", t.env[1]), env_end |-> env("env_end", t.env[2])]

InfoSites ==
  ((TaskReads \cup {"fs", "exit_state", "exit_code"}) \X {"task"})
    \cup (MmReads \X {"mm"})
    \cup ({"pgd", "translation"} \X {world.task.mm, world.task.active_mm})
    \cup ({"mnt", "dentry"} \X {"f_path", "root"})
    \cup ({"name", "parent"} \X DOMAIN world.fs.parent)
    \cup ({"mnt_root", "mnt_parent", "mountpoint"} \X DOMAIN world.fs.mnt_root)

process_by_info ==
  /\ Free
  /\ WithFaults(InfoSites, LAMBDA bad :
       LET info == process_info_from_task(bad)
       IN /\ process' = IF info = Err THEN None ELSE [info |-> info, bad |-> bad]
          /\ answer' = [call |-> "info", result |-> IF info = Err THEN Err ELSE "Ok"])
  /\ UNCHANGED <<target, kallsyms, size, cached_modules, filled, lost, told>>

DropProcess ==
  /\ Idle /\ process # None
  /\ process' = None /\ UNCHANGED answer
  /\ UNCHANGED <<target, kallsyms, size, cached_modules, filled, lost, faults, told>>

----------------------------------------------------------------------------
(* The environment of the process the owner has *)

Memory == world.memory[process.info.dtb]
HoleSites == {"hole"} \X DOMAIN Memory

envar_list_from_address(env_block, architecture, stop) ==
  WithFaults(HoleSites, LAMBDA bad :
    LET holes == {site[2] : site \in bad}
        data == read_environment_data(Memory, holes, env_block, process.info.env_start,
                                      process.info.env_end)
    IN answer' = [call |-> "env", env_block |-> env_block, holes |-> holes, stop |-> stop,
                  result |-> IF architecture # process.info.arch \/ data = NoData THEN Err
                             ELSE FirstUpTo(Variables(data, env_block), stop)])

environment_block_address(architecture) ==
  IF architecture # process.info.arch THEN 0 ELSE process.info.env_start

\* Another architecture, and a process without an environment, have no variables.
envar_list_callback(target_arch, stop) ==
  LET env_block == environment_block_address(process.info.arch)
  IN IF target_arch \notin {None, process.info.arch} \/ env_block = 0
     THEN answer' = [call |-> "no_env"] /\ UNCHANGED faults
     ELSE envar_list_from_address(env_block, process.info.arch, stop)

\* The starts of the strings an owner can know of.
Starts == {a \in DOMAIN Memory : a = 1 \/ Memory[a - 1] = NUL}

Environment(stop) ==
  /\ Idle /\ process # None
  /\ \/ \E target_arch \in {None, CompatArch, LinuxArch} : envar_list_callback(target_arch, stop)
     \/ \E env_block \in Starts, architecture \in {CompatArch, LinuxArch} :
          envar_list_from_address(env_block, architecture, stop)
  /\ UNCHANGED <<target, kallsyms, size, cached_modules, process, filled, lost, told>>

----------------------------------------------------------------------------
\* The owner is done with an answer.
Taken ==
  /\ ~Idle
  /\ answer' = [call |-> "none"]
  /\ UNCHANGED <<target, kallsyms, size, cached_modules, process, filled, lost, faults, told>>

\* The target loads and unloads modules.
Mutate ==
  /\ modules' \in world.lists \ {modules}
  /\ UNCHANGED <<world, kallsyms, size, cached_modules, process, answer, filled, lost, faults, told>>

\* LinuxKernel::new: with the kallsyms of the scanner, if it has any, the size is known at once.
Init ==
  /\ world \in Worlds
  /\ modules \in world.lists
  /\ cached_modules = None /\ process = None /\ filled = None
  /\ answer = [call |-> "none"]
  /\ told = {}
  /\ kallsyms \in {NoLayout, KallsymsInfo(world.table, {})}
  /\ \/ kallsyms = NoLayout /\ size = 0 /\ lost = {} /\ faults = 0
     \/ /\ kallsyms # NoLayout
        /\ \E bad \in {{}} \cup {{s} : s \in SymbolSites} :
             /\ size = approximate_kernel_size(world.table, bad, kallsyms)
             /\ lost = IF bad = {} THEN {} ELSE {"size"}
             /\ faults = Cardinality(bad)

ModuleAddresses == UNION {{m.address : m \in Range(list)} : list \in world.lists}
Stops(n) == 1 .. n + 1

Next ==
  \/ \E stop \in Stops(3) : module_address_list_callback(stop)
  \/ \E found \in BOOLEAN : kernel_module_by_address(found)
  \/ \E a \in ModuleAddresses : module_by_address(a) \/ module_lists_refused(a)
  \/ module_section_list_callback
  \/ \E found \in BOOLEAN, stop \in Stops(Len(world.table.syms)) :
       module_export_list_callback(found, stop)
  \/ process_by_info
  \/ DropProcess
  \/ \E stop \in Stops(2) : Environment(stop)
  \/ Taken
  \/ Mutate

Spec == Init /\ [][Next]_vars

----------------------------------------------------------------------------
(* Correctness *)


(***************************************************************************)
(* Exports (module_export_list_callback) are the kernel's symbols in table *)
(* order with their own names and addresses, for both layouts, any number  *)
(* of symbols and any alignment left over; a read that fails or a callback *)
(* that stops ends the list early and nothing else does.  A table is       *)
(* refused only if a read failed, it was not found, it is empty, or one of *)
(* its first four symbols lies below the kernel.                           *)
(***************************************************************************)
SymbolsTrue ==
  answer.call = "exports" =>
    LET t == world.table
        truth == [k \in DOMAIN t.syms |->
                    [name |-> TrueSyms(t)[k].name,
                     offset |-> SaturatingSub(t.syms[k].addr, VirtText)]]
    IN /\ answer.result # Err =>
            /\ IsPrefix(answer.result, truth)
            /\ answer.bad = {} => answer.result = FirstUpTo(truth, answer.stop)
       /\ answer.result = Err /\ answer.found /\ answer.bad = {} =>
            \/ t.syms = <<>>
            \/ \E k \in 1 .. Min({4, Len(t.syms)}) : ~looks_like_kernel_pointer(t.syms[k].addr)

(***************************************************************************)
(* The variables of a process (envar_list_from_address) are those of its   *)
(* environment block, all of them, in order and with their whole values;   *)
(* a hole in its memory leaves the ones in front of it as they are.  The   *)
(* address of a variable is right if every string in front of it is valid  *)
(* UTF-8 and not empty.  A block read from a pointer ends at the first     *)
(* empty string; if that is out of reach, what is returned is still right. *)
(***************************************************************************)
EnvTrue ==
  answer.call = "env" /\ answer.result # Err =>
    LET from == answer.env_block
        ranged == from = process.info.env_start /\ process.info.env_end # 0
        to == IF ranged THEN process.info.env_end
              ELSE CHOOSE k \in from .. Len(Memory) + 1 :
                     /\ k > Len(Memory) \/ (Memory[k] = NUL /\ Byte(Memory, {}, k + 1) = NUL)
                     /\ \A j \in from .. k - 1 :
                          ~(Memory[j] = NUL /\ Byte(Memory, {}, j + 1) = NUL)
        truth == TrueVariables(Memory, from, to)
        Text(v) == <<v.name, v.value>>
        Texts(vs) == [k \in DOMAIN vs |-> Text(vs[k])]
        before(v) == \A a \in answer.holes : v.address + Len(v.name) + Len(v.value) + 1 < a
        sure == FirstUpTo(Texts(SelectSeq(truth, before)), answer.stop)
        fits == ranged \/ to + 1 < from + MAX_ENVIRONMENT_BYTES
    IN /\ fits => IsPrefix(sure, Texts(answer.result))
       /\ fits /\ answer.holes = {} => Texts(answer.result) = sure
       /\ ~fits /\ answer.holes = {} /\ (\E k \in 1 .. MAX_ENVIRONMENT_BYTES :
                                           Byte(Memory, {}, from + k - 1) = NUL) =>
            IsPrefix(Texts(answer.result), Texts(truth))
       /\ answer.holes = {} => \A k \in DOMAIN answer.result \cap DOMAIN truth :
            PlainUpTo(Memory, from, truth[k].address) =>
              answer.result[k].address = truth[k].address

(***************************************************************************)
(* The module list is taken once (kernel_module_cache): it is the list of  *)
(* formed modules the target had then, in order, with the extent of their  *)
(* memory; a failed read may leave modules out or make the extent of one   *)
(* smaller, but adds nothing.                                              *)
(* So an address that module_address_list_callback told the owner resolves *)
(* ever after, to the same module, whatever the target loads and unloads.  *)
(***************************************************************************)
ModulesAgree ==
  LET truth == collect_kernel_modules(filled, {})
      Within(e, w) == e.address = w.address /\ w.base <= e.base /\ e.base + e.size <= w.base + w.size
  IN /\ cached_modules # None =>
          /\ IsSubsequence(Addresses(cached_modules), Addresses(truth))
          /\ \A e \in Range(cached_modules) : \E w \in Range(truth) : Within(e, w)
          /\ "modules" \notin lost => cached_modules = truth
     /\ answer.call = "by_address" /\ answer.address \in told \ {VirtText} =>
          /\ answer.result # Err
          /\ answer.result.address = answer.address
     /\ answer.call = "refused" /\ answer.address \in told => answer.result = "NotImplemented"

(***************************************************************************)
(* os_info.size is unknown, or the extent of the kernel's symbols          *)
(* (approximate_kernel_size); a walk over the symbols cut short by a       *)
(* failed read may make it smaller, never larger.  Once whole it stays so, *)
(* whatever fails in the calls after it.                                   *)
(***************************************************************************)
SizeSound ==
  LET t == world.table
      extent == Max({s.addr : s \in Range(t.syms)} \cup {VirtText}) - VirtText + Page
  IN size # 0 => /\ kallsyms # NoLayout
                 /\ size \in Page .. extent
                 /\ "size" \notin lost => size = extent
============================================================================
