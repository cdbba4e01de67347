------------------------------ MODULE MCVmlinux ------------------------------
(***************************************************************************)
(* vmlinux files for TLC: the types of a kernel, as BTF and as DWARF, in   *)
(* the layouts and with the gaps that real images have.                    *)
(***************************************************************************)
EXTENDS Vmlinux, TLC

\* The invented names as the resolvers format them: type_id and, for DWARF,
\* {:?} of a DebugInfoOffset.
Number(sec, id) ==
  IF sec = "btf" THEN ToString(id) ELSE "DebugInfoOffset(" \o ToString(id) \o ")"
MCSuffixed(sec, name, id) == name \o "_" \o Number(sec, id)
MCNameless(sec, kind, id) == "__" \o sec \o "_" \o kind \o "_" \o Number(sec, id)
MCAnonField(n) == "__anon_field_" \o ToString(n)

(***************************************************************************)
(* A layout: without maple trees and module_memory (old), the fields of    *)
(* mm_struct in anonymous members (anon), a struct met as a declaration    *)
(* before its definition (remote), a second type of the same name (twin),  *)
(* a type met before or after it that has the name made up for it, or a    *)
(* member that has the key of a nameless one (clash), and what is wrong    *)
(* with the section (broken).                                              *)
(***************************************************************************)
Layout == [old |-> FALSE, anon |-> "none", remote |-> "", twin |-> "", clash |-> "",
           broken |-> ""]

\* Numbers of types: the structs of Roots in their order, and then
Id(name) == CHOOSE i \in DOMAIN Roots : Roots[i] = name
ModuleState == 18
IntType == 19
CharArray == 20
MemoryArray == 21
Anon1 == 22
Anon2 == 23
Twin == 24
Declaration == 25
Alias == 26
Clashing == 27
Ptr(t) == 30 + t
Nowhere == 99

\* The fields of a struct in their order.
Fields ==
  [task_struct |-> <<"__state", "state", "tasks", "mm", "active_mm", "exit_state", "exit_code",
                     "in_execve", "pid", "tgid", "real_parent", "parent", "group_leader", "comm",
                     "files", "signal", "fs">>,
   mm_struct |-> <<"mmap", "mm_mt", "pgd", "start_code", "end_code", "arg_start", "arg_end",
                   "env_start", "env_end", "binfmt", "exe_file">>,
   vm_area_struct |-> <<"vm_start", "vm_end", "vm_next", "vm_flags", "vm_file">>,
   list_head |-> <<"next", "prev">>,
   module |-> <<"state", "list", "name", "mem">>,
   fs_struct |-> <<"root", "pwd">>,
   file |-> <<"f_path">>,
   path |-> <<"mnt", "dentry">>,
   mount |-> <<"mnt_parent", "mnt_mountpoint", "mnt">>,
   vfsmount |-> <<"mnt_root">>,
   dentry |-> <<"d_parent", "d_name">>,
   qstr |-> <<"name">>,
   maple_tree |-> <<"ma_root">>,
   maple_range_64 |-> <<"pivot", "slot", "meta">>,
   maple_arange_64 |-> <<"pivot", "slot", "meta">>,
   maple_metadata |-> <<"end">>,
   module_memory |-> <<"base", "size">>]

Embedded ==
  [tasks |-> Id("list_head"), list |-> Id("list_head"), state |-> ModuleState, mem |-> MemoryArray,
   root |-> Id("path"), pwd |-> Id("path"), f_path |-> Id("path"), d_name |-> Id("qstr"),
   mm_mt |-> Id("maple_tree"), meta |-> Id("maple_metadata"),
   comm |-> CharArray, pivot |-> CharArray, slot |-> CharArray]
Pointers ==
  [fs |-> Id("fs_struct"), mm |-> Id("mm_struct"), active_mm |-> Id("mm_struct"),
   real_parent |-> Id("task_struct"), parent |-> Id("task_struct"),
   group_leader |-> Id("task_struct"), exe_file |-> Id("file"), vm_file |-> Id("file"),
   mmap |-> Id("vm_area_struct"), vm_next |-> Id("vm_area_struct"), next |-> Id("list_head"),
   prev |-> Id("list_head"), dentry |-> Id("dentry"), mnt_parent |-> Id("mount"),
   mnt_mountpoint |-> Id("dentry"), mnt_root |-> Id("dentry"), d_parent |-> Id("dentry"),
   files |-> Twin, signal |-> Declaration]

FieldType(v, s, f) ==
  CASE v.clash = "before" /\ f = "exit_code" -> Ptr(Clashing)
    [] v.clash = "after" /\ f = "signal" -> Ptr(Clashing)
    [] v.broken = "dangling" /\ f = "mnt_root" -> Nowhere
    [] v.broken = "array" /\ f = "comm" -> IntType
    [] s = "mount" /\ f = "mnt" -> Id("vfsmount")
    [] s = "path" /\ f = "mnt" -> Ptr(Id("vfsmount"))
    [] s = "module" /\ f = "name" -> CharArray
    [] s = "task_struct" /\ f = "state" -> IntType
    [] f = "mm" -> Alias
    [] OTHER -> IF f \in DOMAIN Embedded THEN Embedded[f]
                ELSE IF f \in DOMAIN Pointers THEN Ptr(Pointers[f]) ELSE IntType

Absent(v, s) ==
  (IF v.old THEN {"mm_mt", "mem", "__state"}
   ELSE {"mmap", "vm_next"} \cup (IF s = "task_struct" THEN {"state"} ELSE {}))
    \cup (IF v.broken = "field" THEN {"exe_file"} ELSE {})

\* BTF counts bits; DWARF counts bytes, and says nothing of a first member.
Placed(sec, name, type, byte) ==
  LET bit == name = "in_execve"
  IN  [name |-> name, type |-> type, bitfield |-> bit,
       by |-> IF sec = "btf" \/ bit THEN "bit" ELSE IF byte = 0 THEN "none" ELSE "byte",
       at |-> IF bit THEN 8 * byte + 3 ELSE IF sec = "btf" THEN 8 * byte ELSE byte]
MembersOf(sec, v, s, shift, In(_)) ==
  LET seq == SelectSeq(Fields[s], LAMBDA f : f \notin Absent(v, s) /\ In(f))
  IN  [k \in DOMAIN seq |-> Placed(sec, seq[k], FieldType(v, s, seq[k]), 8 * (k - 1) + shift)]
AllOf(f) == TRUE
Half(f) == f \in {"pgd", "exe_file", "arg_start", "arg_end"}
OtherHalf(f) == ~Half(f)

Around(sec, v) ==
  CASE v.anon = "none" -> MembersOf(sec, v, "mm_struct", 0, AllOf)
    [] v.clash = "member" -> <<Placed(sec, "", Anon1, 16), Placed(sec, MCAnonField(0), IntType, 8)>>
    [] v.anon \in {"one", "two"} -> <<Placed(sec, "", Anon1, 16)>>
    [] v.anon = "siblings" -> <<Placed(sec, "", Anon1, 16), Placed(sec, "", Anon2, 80)>>
InAnon1(sec, v) ==
  CASE v.anon = "two" -> <<Placed(sec, "", Anon2, 24)>>
    [] v.anon = "siblings" -> MembersOf(sec, v, "mm_struct", 0, Half)
    [] OTHER -> MembersOf(sec, v, "mm_struct", 0, AllOf)
InAnon2(sec, v) ==
  IF v.anon = "siblings" THEN MembersOf(sec, v, "mm_struct", 0, OtherHalf)
  ELSE MembersOf(sec, v, "mm_struct", 0, AllOf)

Plainly(kind, name, to) ==
  [kind |-> kind, name |-> name, to |-> to, decl |-> FALSE, size |-> 0, members |-> <<>>,
   dims |-> <<>>, constants |-> {}]
StructOf(kind, name, members) ==
  [Plainly(kind, name, 0) EXCEPT !.members = members, !.size = 8 * Len(members) + 8]
Counted(sec, n) ==
  IF sec = "btf" THEN <<[by |-> "count", n |-> n]>>
  ELSE <<[by |-> "none", n |-> 0], [by |-> "upper", n |-> n - 1]>>

Gone(v, s) ==
  \/ v.broken = "root" /\ s = "mount"
  \/ v.old /\ s \in {"maple_tree", "maple_range_64", "maple_arange_64", "maple_metadata", "module_memory"}
  \/ v.broken = "maple" /\ s = "maple_metadata"

TypeAt(sec, v, i) ==
  CASE i \in DOMAIN Roots ->
         IF Gone(v, Roots[i]) THEN Plainly("other", "", 0)
         ELSE StructOf("struct", Roots[i],
                       IF Roots[i] = "mm_struct" THEN Around(sec, v)
                       ELSE MembersOf(sec, v, Roots[i], 0, AllOf))
    [] i = ModuleState ->
         [Plainly(IF v.broken = "enum" THEN "enum64" ELSE "enum", "module_state", 0) EXCEPT
            !.constants = ModuleStates \ (IF v.broken = "const" THEN {"MODULE_STATE_GOING"} ELSE {})]
    [] i = CharArray -> [Plainly("array", "", IntType) EXCEPT !.dims = Counted(sec, 16)]
    [] i = MemoryArray ->
         [Plainly("array", "", Id("module_memory")) EXCEPT
            !.dims = IF sec = "btf" THEN Counted(sec, 7) ELSE <<[by |-> "none", n |-> 0]>>]
    [] i = Anon1 -> StructOf("union", "", InAnon1(sec, v))
    [] i = Anon2 -> StructOf("struct", "", InAnon2(sec, v))
    [] i = Twin /\ v.twin = "module_state" -> Plainly("enum", "module_state", 0)
    [] i = Twin /\ v.twin # "" ->
         StructOf("struct", v.twin, MembersOf(sec, v, v.twin, 8, AllOf))
    [] i = Declaration /\ v.remote # "" ->
         IF sec = "btf" THEN Plainly("fwd", v.remote, 0)
         ELSE [Plainly("struct", v.remote, 0) EXCEPT !.decl = TRUE]
    [] i = Clashing /\ v.twin # "" ->
         StructOf("struct", MCSuffixed(sec, v.twin, Twin), <<Placed(sec, "pad", IntType, 0)>>)
    [] i = Alias -> Plainly("alias", "", Ptr(Id("mm_struct")))
    [] i > 30 -> Plainly("ptr", "", i - 30)
    [] OTHER -> Plainly("other", "", 0)
TypesOf(sec, v) == [i \in 1 .. 30 + Clashing |-> TypeAt(sec, v, i)]

----------------------------------------------------------------------------
Layouts ==
  LET anons == {"none", "one", "two", "siblings"}
  IN  {[Layout EXCEPT !.old = o, !.anon = a, !.remote = r, !.twin = t]
         : o \in BOOLEAN, a \in anons, r \in {"", "fs_struct", "qstr"},
           t \in {"", "path", "file", "module_state"}}
        \cup {[Layout EXCEPT !.broken = b, !.anon = a]
               : b \in {"field", "array", "const", "enum", "root", "maple", "dangling"}, a \in anons}
        \cup {[Layout EXCEPT !.clash = c, !.twin = t, !.anon = a]
               : c \in {"before", "after", "member"}, t \in {"path", "file", "module_state"},
                 a \in {"none", "one"}}

Intact == [fault |-> "", btf_state |-> "ok", btf |-> Layout, dwarf_state |-> "ok", dwarf |-> Layout]

Files ==
  {[Intact EXCEPT !.btf = v] : v \in Layouts}
    \cup {[Intact EXCEPT !.btf_state = "absent", !.dwarf = v] : v \in Layouts}
    \cup {[Intact EXCEPT !.btf.broken = b, !.btf.anon = a, !.dwarf.anon = "two", !.dwarf.old = o]
           : b \in {"enum", "root", "dangling"}, a \in {"none", "one"}, o \in BOOLEAN}
    \cup {[Intact EXCEPT !.btf_state = s, !.dwarf_state = d]
           : s \in {"absent", "unreadable", "bad"}, d \in {"bad", "ok"}}
    \cup {[Intact EXCEPT !.fault = f]
           : f \in {"header", "symtab", "banner", "no_banner_symbol", "no_text", "twice"}}

Sym(name, defined, value) == [name |-> name, defined |-> defined, value |-> value]
SymbolsOf(fault) ==
  <<Sym("", TRUE, 1), Sym("init_task", FALSE, 5), Sym("modules", TRUE, 0), Sym("init_task", TRUE, 8),
    Sym(IF fault = "no_text" THEN "init_task" ELSE "_text", TRUE, 3)>>
  \o (IF fault = "no_banner_symbol" THEN <<>> ELSE <<Sym("linux_banner", TRUE, 9)>>)
  \o (IF fault = "twice" THEN <<Sym("_text", TRUE, 4), Sym("elf_format", TRUE, 6)>> ELSE <<>>)

MCImages ==
  {[header |-> i.fault # "header", symtab |-> i.fault # "symtab", symbols |-> SymbolsOf(i.fault),
    banner |-> i.fault # "banner", btf_state |-> i.btf_state, btf |-> TypesOf("btf", i.btf),
    dwarf_state |-> i.dwarf_state, dwarf |-> TypesOf("dwarf", i.dwarf)] : i \in Files}
============================================================================
