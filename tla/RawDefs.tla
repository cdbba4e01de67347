------------------------------- MODULE RawDefs -------------------------------
(***************************************************************************)
(* LinuxDefs::from_raw: the offsets, array lengths, symbols and enum       *)
(* constants of a defs file, looked up by name in a raw profile, the type  *)
(* tables a resolver has extracted from a vmlinux.                         *)
(*                                                                         *)
(* A raw profile has user_types, enums and symbols.  Of a RawTypeRef only  *)
(* what named_user_type and array_len tell of it is kept: user and len.    *)
(* Left out of the defs are what is computed from the fields found (the    *)
(* two meta_end, each the sum of two offsets), the size of module_memory   *)
(* and the values of the constants of module_state.                        *)
(***************************************************************************)
EXTENDS Integers, FiniteSets, Sequences

CONSTANTS
  MaxNesting,  \* the depth limit of resolve_field_inner
  NoName,      \* user of a type that names no struct or union
  NoLen        \* len of a type that is no array

ASSUME RawAssumption == MaxNesting \in Nat
ASSUME NoNameAssumption == NoName \notin STRING

REQUIRED_SYMBOLS == {"_text", "init_task", "linux_banner"}
OPTIONAL_SYMBOLS ==
  {"init_top_pgt", "level4_kernel_pgt", "modules", "elf_format", "compat_elf_format"}

FieldsOf(type, names) == {type} \X names

\* The fields without which there is no defs file.
RequiredFields ==
  UNION {FieldsOf("task_struct", {"comm", "tasks", "pid", "tgid", "mm", "active_mm", "exit_state",
                                  "exit_code", "real_parent", "parent", "group_leader", "fs",
                                  "files", "signal"}),
         FieldsOf("mm_struct", {"pgd", "exe_file", "start_code", "end_code", "arg_start",
                                "arg_end", "env_start", "env_end"}),
         FieldsOf("vm_area_struct", {"vm_start", "vm_end", "vm_flags", "vm_file"}),
         FieldsOf("list_head", {"next", "prev"}),
         FieldsOf("module", {"name", "list", "state"}),
         FieldsOf("fs_struct", {"root", "pwd"}),
         FieldsOf("file", {"f_path"}),
         FieldsOf("path", {"mnt", "dentry"}),
         FieldsOf("mount", {"mnt_parent", "mnt_mountpoint", "mnt"}),
         FieldsOf("vfsmount", {"mnt_root"}),
         FieldsOf("dentry", {"d_parent", "d_name"}),
         FieldsOf("qstr", {"name"})}
OptionalFields ==
  UNION {FieldsOf("module", {"mem"}), FieldsOf("module_memory", {"base", "size"}),
         FieldsOf("mm_struct", {"mmap", "mm_mt", "binfmt"}),
         FieldsOf("vm_area_struct", {"vm_next"})}
StateFields == FieldsOf("task_struct", {"__state", "state"})  \* one of them is required
\* Required if mm_struct has mm_mt.
MapleFields ==
  UNION {FieldsOf("maple_tree", {"ma_root"}), FieldsOf("maple_metadata", {"end"}),
         FieldsOf("maple_range_64", {"pivot", "slot", "meta"}),
         FieldsOf("maple_arange_64", {"pivot", "slot", "meta"})}
\* All that from_raw looks up.
DefsFields == RequiredFields \cup MapleFields \cup OptionalFields \cup StateFields
\* Fields that must be arrays if they are required.
ArrayFields ==
  {"task_struct"} \X {"comm"} \cup {"module"} \X {"name"}
    \cup {"maple_range_64", "maple_arange_64"} \X {"pivot", "slot"}
ModuleStates ==
  {"MODULE_STATE_LIVE", "MODULE_STATE_COMING", "MODULE_STATE_GOING", "MODULE_STATE_UNFORMED"}

----------------------------------------------------------------------------
(* RawProfile *)

\* A mutant: the offset of the anonymous field around is forgotten.
NotDisplaced(r, base) == [offset |-> r.offset, len |-> r.len]

\* A field as resolve_field_inner returns it, displaced by the fields around it.
Displaced(r, base) == [offset |-> r.offset + base, len |-> r.len]

(***************************************************************************)
(* resolve_field_inner: the field of that name, or one in a field without  *)
(* name.  Those are tried in the order of a HashMap, so every field that   *)
(* may be returned is in the set.                                          *)
(***************************************************************************)
resolve_field_inner(raw, type, name) ==
  LET types == DOMAIN raw.user_types
      Nested(t) == {k \in DOMAIN raw.user_types[t].fields :
                      /\ raw.user_types[t].fields[k].anonymous
                      /\ raw.user_types[t].fields[k].user # NoName}
      Inner[depth \in 0 .. MaxNesting + 1] ==
        [t \in types \cup {type} |->
           IF depth > MaxNesting \/ t \notin types THEN {}
           ELSE LET fields == raw.user_types[t].fields
                IN  IF name \in DOMAIN fields THEN {Displaced(fields[name], 0)}
                    ELSE UNION {{Displaced(r, fields[k].offset)
                                  : r \in Inner[depth + 1][fields[k].user]} : k \in Nested(t)}]
  IN  Inner[0][type]

resolve_field(raw, w) == resolve_field_inner(raw, w[1], w[2])
Has(raw, w) == resolve_field(raw, w) # {}

required_symbol(raw, name) == name \in DOMAIN raw.symbols
required_enum_constant(raw, enum, constant) ==
  enum \in DOMAIN raw.enums /\ constant \in raw.enums[enum]

----------------------------------------------------------------------------
(* from_raw *)

Maple(raw) == Has(raw, <<"mm_struct", "mm_mt">>)
Needed(raw) == RequiredFields \cup (IF Maple(raw) THEN MapleFields ELSE {})

Fails(raw) ==
  \/ \E s \in REQUIRED_SYMBOLS : ~required_symbol(raw, s)
  \/ \E w \in Needed(raw) : ~Has(raw, w)
  \/ \E w \in Needed(raw) \cap ArrayFields : \E r \in resolve_field(raw, w) : r.len = NoLen
  \/ \A w \in StateFields : ~Has(raw, w)
  \/ \E c \in ModuleStates : ~required_enum_constant(raw, "module_state", c)

\* The old name of the field is tried if there is none of the new one.
StateField(raw) ==
  IF Has(raw, <<"task_struct", "__state">>) THEN <<"task_struct", "__state">>
  ELSE <<"task_struct", "state">>

\* The defs: for every field found, what may have been found for it.
from_raw(raw) ==
  LET found == {w \in Needed(raw) \cup OptionalFields \cup {StateField(raw)} : Has(raw, w)}
  IN  [fields |-> [w \in found |-> resolve_field(raw, w)],
       symbols |-> [s \in (REQUIRED_SYMBOLS \cup OPTIONAL_SYMBOLS) \cap DOMAIN raw.symbols
                      |-> raw.symbols[s]]]
============================================================================
