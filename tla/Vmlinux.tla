------------------------------- MODULE Vmlinux -------------------------------
(***************************************************************************)
(* Defs generation from a vmlinux: the ELF symbols, the types of its .BTF  *)
(* section or else of its DWARF, and the defs that from_raw makes of them. *)
(*                                                                         *)
(* The types of a section are a graph of records, numbered in file order:  *)
(* BTF ids, or .debug_info offsets.  A resolver walks the graph from the   *)
(* types the defs need and enters what it meets in tables keyed by name.   *)
(* Names are not unique, so it gives the second type of a name a suffixed  *)
(* one; types refer to each other in cycles, so it enters a type before    *)
(* its members.  The recursion of ensure_user_type is the variable stack.  *)
(***************************************************************************)
EXTENDS RawDefs

CONSTANTS
  Images,             \* the vmlinux files
  Suffixed(_, _, _),  \* a name made of one that is used: section, that name, number of the type
  Nameless(_, _, _),  \* the name of a type that has none: section, kind, number
  AnonField(_)        \* the key of a member that has none: the number it is counted under

Void == 0
Composite == {"struct", "union"}
Enumeration == {"enum", "enum64"}

\* Where a member is: at a bit or at a byte, or at the start when nothing is said.
Member == [name : STRING, type : Nat, by : {"bit", "byte", "none"}, at : Nat, bitfield : BOOLEAN]
\* alias: a typedef or a qualifier; other: what a profile says nothing of.  A
\* type whose members are not in the file is a fwd in BTF, a decl in DWARF.
Type == [kind : Composite \cup Enumeration \cup {"ptr", "array", "alias", "fwd", "other"},
         name : STRING, to : Nat, decl : BOOLEAN, size : Nat, members : Seq(Member),
         dims : Seq([by : {"count", "upper", "none"}, n : Nat]), constants : SUBSET STRING]
Symbol == [name : STRING, defined : BOOLEAN, value : Nat]

\* As in C, no two members of a struct or union have one name.
MembersDistinct(types) ==
  \A t \in DOMAIN types : \A j, k \in DOMAIN types[t].members :
    types[t].members[j].name = types[t].members[k].name => j = k \/ types[t].members[j].name = ""
\* A type that is only declared has no members.
DeclarationsEmpty(types) == \A t \in DOMAIN types : types[t].decl => types[t].members = <<>>

UserDefined(types) == {t \in DOMAIN types : types[t].kind \in Composite \cup Enumeration}

\* The name a type has, or is given for want of one, and the one it gets when
\* that is used.
OwnNameIn(sec, types, t) ==
  IF types[t].name = "" THEN Nameless(sec, types[t].kind, t) ELSE types[t].name
MadeUpIn(sec, types, t) == Suffixed(sec, OwnNameIn(sec, types, t), t)

AnonymousBefore(members, k) == Cardinality({i \in 1 .. k - 1 : members[i].name = ""})

\* The key of a member in the table of fields.  A BTF resolver counts all the
\* members, a DWARF resolver those without name.
FieldKey(sec, members, k) ==
  IF members[k].name # "" THEN members[k].name
  ELSE AnonField(IF sec = "btf" THEN k - 1 ELSE AnonymousBefore(members, k))

(***************************************************************************)
(* What the invented names are told apart by: their last part is a number, *)
(* which a made-up name has after a name, and a nameless type after the    *)
(* words for its section and kind.                                         *)
(***************************************************************************)
NumbersTellApart(sec, types) ==
  /\ \A a \in UserDefined(types) :
       OwnNameIn(sec, types, a) \in STRING /\ MadeUpIn(sec, types, a) \in STRING
  /\ \A a, b \in UserDefined(types) :
       /\ MadeUpIn(sec, types, a) = MadeUpIn(sec, types, b) => a = b
       /\ types[b].name = "" => MadeUpIn(sec, types, a) # OwnNameIn(sec, types, b)
  /\ \A t \in DOMAIN types : \A m, n \in 0 .. Len(types[t].members) :
       AnonField(m) = AnonField(n) => m = n

ASSUME ImageAssumption ==
  \A f \in Images :
    /\ f \in [header : BOOLEAN, symtab : BOOLEAN, symbols : Seq(Symbol), banner : BOOLEAN,
             btf_state : {"absent", "unreadable", "bad", "ok"}, btf : Seq(Type),
             dwarf_state : {"bad", "ok"}, dwarf : Seq(Type)]
    /\ MembersDistinct(f.btf) /\ MembersDistinct(f.dwarf)
    /\ DeclarationsEmpty(f.btf) /\ DeclarationsEmpty(f.dwarf)
    /\ NumbersTellApart("btf", f.btf) /\ NumbersTellApart("dwarf", f.dwarf)

VARIABLES
  file,        \* the vmlinux
  pc,          \* what load_vmlinux and from_raw do next
  source,      \* the section the types come from: "btf" or "dwarf"
  root,        \* the entry of Roots that is looked up
  stack,       \* the calls of ensure_user_type under way
  user_types, enums, type_names, used_names,  \* the resolver's tables
  defs         \* the defs, or None
tables == <<user_types, enums, type_names, used_names>>
vars == <<file, pc, source, root, stack, tables, defs>>

NoFunction == [k \in {} |-> k]
With(f, k, v) == [x \in DOMAIN f \cup {k} |-> IF x = k THEN v ELSE f[x]]

Types == IF source = "btf" THEN file.btf ELSE file.dwarf

REQUIRED_TYPES ==
  <<"task_struct", "mm_struct", "vm_area_struct", "list_head", "module", "fs_struct", "file",
    "path", "mount", "vfsmount", "dentry", "qstr">>
OPTIONAL_MAPLE_TYPES == <<"maple_tree", "maple_range_64", "maple_arange_64", "maple_metadata">>
\* The structs looked up by name, the ones that must be there first.
Roots == REQUIRED_TYPES \o OPTIONAL_MAPLE_TYPES \o <<"module_memory">>

----------------------------------------------------------------------------
(* The ELF file *)

Defined(s) == s.name # "" /\ s.defined /\ s.value # 0

\* The first defined entry of .symtab with that name.
load_symbols(tab) ==
  LET entries(n) == {i \in DOMAIN tab : Defined(tab[i]) /\ tab[i].name = n}
      first(n) == CHOOSE i \in entries(n) : \A j \in entries(n) : i <= j
  IN  [n \in {tab[i].name : i \in {j \in DOMAIN tab : Defined(tab[j])}} |-> tab[first(n)].value]

Symbols == load_symbols(file.symbols)
read_symbol_cstring == "linux_banner" \in DOMAIN Symbols /\ file.banner

----------------------------------------------------------------------------
(* Lookups by name: the first type of that kind and name *)

FirstOf(ids) == IF ids = {} THEN Void ELSE CHOOSE i \in ids : \A j \in ids : i <= j

BtfFile_find_named(types, kind, name) ==
  FirstOf({i \in DOMAIN types : types[i].kind = kind /\ types[i].name = name})
DwarfFile_find_named(types, kind, name) ==
  FirstOf({i \in DOMAIN types : types[i].kind = kind /\ types[i].name = name /\ ~types[i].decl})

find_named(kind, name) ==
  IF source = "btf" THEN BtfFile_find_named(Types, kind, name)
  ELSE DwarfFile_find_named(Types, kind, name)

----------------------------------------------------------------------------
(***************************************************************************)
(* raw_type_ref: the struct, union or enum at the end of the pointers,     *)
(* arrays and qualifiers that a type is made of, Void if there is none;    *)
(* its array length; and whether named_user_type sees the end of it.  A    *)
(* type that is not there is its own end, and Missing.                     *)
(***************************************************************************)
Ends(t) == [leaf |-> t, len |-> NoLen, named |-> TRUE]
Missing(types, r) == r.leaf # Void /\ r.leaf \notin DOMAIN types

\* The index type of an array is an integer, which is resolved and dropped.
btf_raw_type_ref(types, type) ==
  LET Ref[t \in Nat] ==
        IF t \notin DOMAIN types \/ types[t].kind \in Composite \cup Enumeration THEN Ends(t)
        ELSE CASE types[t].kind = "ptr" -> [Ref[types[t].to] EXCEPT !.len = NoLen]
               [] types[t].kind = "array" -> [Ref[types[t].to] EXCEPT !.len = types[t].dims[1].n]
               [] types[t].kind = "alias" -> Ref[types[t].to]
               [] OTHER -> Ends(Void)
  IN  Ref[type]

dwarf_subrange_count(d) == IF d.by = "upper" THEN d.n + 1 ELSE d.n

\* An array without a counted dimension is Unknown, its element type resolved.
dwarf_raw_type_ref(types, type) ==
  LET Counted(t) == SelectSeq(types[t].dims, LAMBDA d : d.by # "none")
      raw_array_type(t, r) ==
        IF Counted(t) = <<>> THEN [r EXCEPT !.len = NoLen, !.named = FALSE]
        ELSE [r EXCEPT !.len = dwarf_subrange_count(Head(Counted(t)))]
      Ref[t \in Nat] ==
        IF t \notin DOMAIN types \/ types[t].kind \in Composite \cup Enumeration THEN Ends(t)
        ELSE CASE types[t].kind = "ptr" -> [Ref[types[t].to] EXCEPT !.len = NoLen]
               [] types[t].kind = "array" -> raw_array_type(t, Ref[types[t].to])
               [] types[t].kind = "alias" -> Ref[types[t].to]
               [] OTHER -> Ends(Void)
  IN  Ref[type]

BtfMember_offset(m) == m.at \div 8
dwarf_member_offset(m) ==
  CASE m.by = "bit" -> m.at \div 8 [] m.by = "byte" -> m.at [] m.by = "none" -> 0

----------------------------------------------------------------------------
(* The resolver's tables *)

OwnName(id) == OwnNameIn(source, Types, id)
MadeUp(id) == MadeUpIn(source, Types, id)

\* A mutant: the second type of a name gets it too.
NameShared(id) == OwnName(id)

\* The name of a type that has none yet: its own, or one made of its number.
\* Whether that one is used, too, is not looked at.
Candidate(id) == IF OwnName(id) \in used_names THEN MadeUp(id) ELSE OwnName(id)

TypeName(id) == IF id \in DOMAIN type_names THEN type_names[id] ELSE Candidate(id)

ensure_type_name(id) ==
  /\ type_names' = With(type_names, id, TypeName(id))
  /\ used_names' = used_names \cup {TypeName(id)}

Entered(id) == TypeName(id) \in DOMAIN user_types

\* A mutant: a type is entered only when all its members are resolved.
SeededLast(id) == user_types

Seeded(id) == With(user_types, TypeName(id), [size |-> Types[id].size, fields |-> NoFunction])

\* ensure_user_type for a type not yet entered: its members are next.
Enter(id) ==
  /\ ensure_type_name(id)
  /\ user_types' = Seeded(id)
  /\ stack' = Append(stack, [id |-> id, next |-> 1, fields |-> NoFunction])
  /\ UNCHANGED enums

ensure_enum(id) ==
  /\ ensure_type_name(id)
  /\ enums' = IF TypeName(id) \in DOMAIN enums THEN enums
              ELSE With(enums, TypeName(id), Types[id].constants)

Top == stack[Len(stack)]
Popped == SubSeq(stack, 1, Len(stack) - 1)
Current == Types[Top.id].members[Top.next]

\* The field is inserted and the next member is due.
Insert(key, offset, r) ==
  LET composite == r.leaf # Void /\ Types[r.leaf].kind \in Composite
      field == [offset |-> offset, anonymous |-> Current.name = "",
                user |-> IF composite /\ r.named THEN TypeName(r.leaf) ELSE NoName,
                len |-> IF Current.bitfield THEN NoLen ELSE r.len]
  IN  stack' = [stack EXCEPT ![Len(stack)] =
                  [id |-> Top.id, next |-> Top.next + 1, fields |-> With(Top.fields, key, field)]]

(***************************************************************************)
(* One member of the type on top: its type is resolved, in a call of its   *)
(* own if it is a struct or union not yet entered, and then inserted.      *)
(***************************************************************************)
ResolveMember(key, offset, r) ==
  LET kind == IF r.leaf = Void THEN "other" ELSE Types[r.leaf].kind
  IN  \/ kind \in Composite /\ ~Entered(r.leaf) /\ Enter(r.leaf)
      \/ /\ kind \in Composite /\ Entered(r.leaf)
         /\ ensure_type_name(r.leaf)
         /\ Insert(key, offset, r)
         /\ UNCHANGED <<user_types, enums>>
      \/ kind \in Enumeration /\ ensure_enum(r.leaf) /\ Insert(key, offset, r) /\ UNCHANGED user_types
      \/ kind = "other" /\ Insert(key, offset, r) /\ UNCHANGED tables

BtfRef == btf_raw_type_ref(Types, Current.type)
DwarfRef == dwarf_raw_type_ref(Types, Current.type)
CurrentRef == IF source = "btf" THEN BtfRef ELSE DwarfRef
MemberDue == pc = "resolve" /\ stack # <<>> /\ Top.next <= Len(Types[Top.id].members)

BtfMember ==
  /\ MemberDue /\ source = "btf" /\ ~Missing(Types, BtfRef)
  /\ ResolveMember(FieldKey("btf", Types[Top.id].members, Top.next),
                   BtfMember_offset(Current), BtfRef)
  /\ UNCHANGED <<file, pc, source, root, defs>>

DwarfMember ==
  /\ MemberDue /\ source = "dwarf" /\ ~Missing(Types, DwarfRef)
  /\ ResolveMember(FieldKey("dwarf", Types[Top.id].members, Top.next),
                   dwarf_member_offset(Current), DwarfRef)
  /\ UNCHANGED <<file, pc, source, root, defs>>

\* ensure_user_type returns: the fields replace the empty ones.
Leave ==
  /\ pc = "resolve" /\ stack # <<>> /\ Top.next > Len(Types[Top.id].members)
  /\ user_types' = [user_types EXCEPT ![TypeName(Top.id)].fields = Top.fields]
  /\ stack' = Popped
  /\ UNCHANGED <<file, pc, source, root, enums, type_names, used_names, defs>>

\* load_btf_profile and load_dwarf_profile, one struct.
ResolveRoot ==
  /\ pc = "resolve" /\ stack = <<>> /\ root <= Len(Roots)
  /\ LET id == find_named("struct", Roots[root])
     IN  \/ id # Void /\ ~Entered(id) /\ Enter(id) /\ UNCHANGED root
         \/ /\ id # Void /\ Entered(id)
            /\ ensure_type_name(id)
            /\ root' = root + 1
            /\ UNCHANGED <<stack, user_types, enums>>
         \/ /\ id = Void /\ root > Len(REQUIRED_TYPES)
            /\ root' = root + 1
            /\ UNCHANGED <<stack, tables>>
  /\ UNCHANGED <<file, pc, source, defs>>

\* ... and the enum, the last step.
ResolveModuleState ==
  /\ pc = "resolve" /\ stack = <<>> /\ root = Len(Roots) + 1
  /\ find_named("enum", "module_state") # Void
  /\ ensure_enum(find_named("enum", "module_state"))
  /\ pc' = "symbols"
  /\ UNCHANGED <<file, source, root, stack, user_types, defs>>

----------------------------------------------------------------------------
(* load_vmlinux and from_vmlinux *)

ParseElf ==
  /\ pc = "elf"
  /\ pc' = IF file.header /\ file.symtab THEN "banner" ELSE "err"
  /\ UNCHANGED <<file, source, root, stack, tables, defs>>

ReadBanner ==
  /\ pc = "banner"
  /\ pc' = IF read_symbol_cstring THEN "section" ELSE "err"
  /\ UNCHANGED <<file, source, root, stack, tables, defs>>

\* A .BTF section that lies outside the file is an error, not a fallback.
section_data_optional ==
  /\ pc = "section"
  /\ pc' = IF file.btf_state = "unreadable" THEN "err" ELSE "parse"
  /\ source' = IF file.btf_state = "absent" THEN "dwarf" ELSE "btf"
  /\ UNCHANGED <<file, root, stack, tables, defs>>

SectionState == IF source = "btf" THEN file.btf_state ELSE file.dwarf_state

ParseTypes ==
  /\ pc = "parse"
  /\ SectionState = "ok"
  /\ pc' = "resolve"
  /\ UNCHANGED <<file, source, root, stack, tables, defs>>

NoStruct(last) ==
  pc = "resolve" /\ stack = <<>> /\ root <= last /\ find_named("struct", Roots[root]) = Void
NoEnum ==
  pc = "resolve" /\ stack = <<>> /\ root = Len(Roots) + 1 /\ find_named("enum", "module_state") = Void

\* A mutant: the structs that old kernels do not have are required.
MapleRequired ==
  \/ pc = "parse" /\ SectionState # "ok"
  \/ NoStruct(Len(Roots)) \/ NoEnum
  \/ MemberDue /\ Missing(Types, CurrentRef)

\* What a loader gives up on: a section that does not parse, a required type
\* that is not there, a reference to a type that is not there.
GivesUp ==
  \/ pc = "parse" /\ SectionState # "ok"
  \/ NoStruct(Len(REQUIRED_TYPES)) \/ NoEnum
  \/ MemberDue /\ Missing(Types, CurrentRef)

\* A mutant: the fallback goes on with the tables of the BTF resolver.
FallBackKeeping ==
  /\ GivesUp
  /\ source = "btf" /\ pc' = "parse" /\ source' = "dwarf" /\ root' = 1 /\ stack' = <<>>
  /\ UNCHANGED <<file, tables, defs>>

\* After BTF a new resolver, with tables of its own, tries DWARF.
FallBack ==
  /\ GivesUp
  /\ source = "btf"
  /\ pc' = "parse" /\ source' = "dwarf" /\ root' = 1 /\ stack' = <<>>
  /\ user_types' = NoFunction /\ enums' = NoFunction /\ type_names' = NoFunction /\ used_names' = {}
  /\ UNCHANGED <<file, defs>>

LoadFails ==
  /\ GivesUp
  /\ source = "dwarf"
  /\ pc' = "err"
  /\ UNCHANGED <<file, source, root, stack, tables, defs>>

LookUpSymbols ==
  /\ pc = "symbols"
  /\ pc' = IF REQUIRED_SYMBOLS \subseteq DOMAIN Symbols THEN "convert" ELSE "err"
  /\ UNCHANGED <<file, source, root, stack, tables, defs>>

Raw == [user_types |-> user_types, enums |-> enums, symbols |-> Symbols]

\* from_raw: there is no falling back from here.
Convert ==
  /\ pc = "convert"
  /\ pc' = IF Fails(Raw) THEN "err" ELSE "ok"
  /\ defs' = IF Fails(Raw) THEN defs ELSE from_raw(Raw)
  /\ UNCHANGED <<file, source, root, stack, tables>>

Done == pc \in {"ok", "err"} /\ UNCHANGED vars

NoDefs == [fields |-> NoFunction, symbols |-> {}]
Init ==
  /\ file \in Images
  /\ pc = "elf" /\ source = "btf" /\ root = 1 /\ stack = <<>>
  /\ user_types = NoFunction /\ enums = NoFunction /\ type_names = NoFunction /\ used_names = {}
  /\ defs = NoDefs

Next ==
  \/ ParseElf \/ ReadBanner \/ section_data_optional \/ ParseTypes
  \/ BtfMember \/ DwarfMember \/ Leave \/ ResolveRoot \/ ResolveModuleState
  \/ FallBack \/ LoadFails \/ LookUpSymbols \/ Convert \/ Done

Spec == Init /\ [][Next]_vars

----------------------------------------------------------------------------
(* Properties *)

(***************************************************************************)
(* No type is resolved inside the resolution of itself: the tables are     *)
(* seeded before the members, so that list_head, whose next points to a    *)
(* list_head, is entered once and the recursion is no deeper than there    *)
(* are types.                                                              *)
(***************************************************************************)
SeededOnce == \A i, j \in DOMAIN stack : i # j => stack[i].id # stack[j].id

(***************************************************************************)
(* Two types are given one name only where the file itself has the name    *)
(* that ensure_type_name makes up: if one of the two is the second type of *)
(* some name, with its number for a suffix, and the other one's own name   *)
(* is that very text and was met before, for the made-up name is not       *)
(* looked up in used_names.  The second of them then counts as entered,    *)
(* and its fields are looked up in the first.                              *)
(***************************************************************************)
TakesNameOf(a, b) == type_names[a] = MadeUp(a) /\ MadeUp(a) = OwnName(b)
NamesApart ==
  \A a, b \in DOMAIN type_names :
    type_names[a] = type_names[b] => a = b \/ TakesNameOf(a, b) \/ TakesNameOf(b, a)

(***************************************************************************)
(* No name that a resolver invents is taken for one of the file's: a       *)
(* made-up name is no type's name, the key of a member without name is no  *)
(* key of a sibling, and neither is among the names that from_raw looks    *)
(* up.  The resolvers take this for granted.                               *)
(***************************************************************************)
RootSet == {Roots[i] : i \in DOMAIN Roots} \cup {"module_state"}
FieldNames == {w[2] : w \in DefsFields}
Unclashed(sec, types) ==
  /\ \A a, b \in UserDefined(types) : MadeUpIn(sec, types, a) # types[b].name
  /\ \A a \in UserDefined(types) :
       /\ MadeUpIn(sec, types, a) \notin RootSet
       /\ types[a].name = "" => OwnNameIn(sec, types, a) \notin RootSet
  /\ \A t \in DOMAIN types : \A k \in DOMAIN types[t].members :
       types[t].members[k].name = "" =>
         /\ FieldKey(sec, types[t].members, k) \notin FieldNames
         /\ \A j \in DOMAIN types[t].members :
              FieldKey(sec, types[t].members, k) # types[t].members[j].name
NoClash == Unclashed("btf", file.btf) /\ Unclashed("dwarf", file.dwarf)

\* What the file says of member k of a type, whoever reads it.
MemberOffset(m) == IF source = "btf" THEN BtfMember_offset(m) ELSE dwarf_member_offset(m)
MemberRef(m) ==
  IF source = "btf" THEN btf_raw_type_ref(Types, m.type) ELSE dwarf_raw_type_ref(Types, m.type)
MemberLen(m) == IF m.bitfield THEN NoLen ELSE MemberRef(m).len
IsComposite(id) == id # Void /\ Types[id].kind \in Composite

(***************************************************************************)
(* The tables say what the section says, once a loader is done with it: a  *)
(* struct or union it met has, under the name it was given, its size and   *)
(* one field for every member, at its offset and of its array length,      *)
(* which refers by name to the very type the member has - also when types  *)
(* refer to each other in cycles, or when a BTF resolver gave up half way  *)
(* and a DWARF resolver started again.  Here and below, unless an invented *)
(* name is also one of the file's.                                         *)
(***************************************************************************)
ProfileFaithful ==
  pc = "symbols" /\ NoClash =>
    \A id \in DOMAIN type_names :
       IsComposite(id) =>
         LET entry == user_types[type_names[id]]
             members == Types[id].members
         IN  /\ type_names[id] \in DOMAIN user_types
             /\ entry.size = Types[id].size
             /\ Cardinality(DOMAIN entry.fields) = Len(members)
             /\ \A k \in DOMAIN members :
                  \E key \in DOMAIN entry.fields :
                    LET f == entry.fields[key]
                        r == MemberRef(members[k])
                    IN  /\ f.anonymous = (members[k].name = "")
                        /\ members[k].name # "" => key = members[k].name
                        /\ f.offset = MemberOffset(members[k]) /\ f.len = MemberLen(members[k])
                        /\ IF IsComposite(r.leaf) /\ r.named
                             THEN r.leaf \in DOMAIN type_names /\ f.user = type_names[r.leaf]
                             ELSE f.user = NoName

\* The places of a field in a type of the section: its own members, and those
\* of members without name, which may be nested as deep as the limit says.
Members(id) == {Types[id].members[k] : k \in DOMAIN Types[id].members}
OwnPlaces(id, name) ==
  {[offset |-> MemberOffset(m), len |-> MemberLen(m)] : m \in {x \in Members(id) : x.name = name}}
Unnamed(id) ==
  {m \in Members(id) :
     LET r == MemberRef(m)
     IN  m.name = "" /\ r.named /\ r.leaf \in DOMAIN Types /\ Types[r.leaf].kind \in Composite}
Places(id, name) ==
  LET At[depth \in 0 .. MaxNesting + 1] ==
        [t \in DOMAIN Types |->
           IF depth > MaxNesting THEN {}
           ELSE OwnPlaces(t, name)
                  \cup UNION {{[offset |-> r.offset + MemberOffset(m), len |-> r.len]
                                : r \in At[depth + 1][MemberRef(m).leaf]} : m \in Unnamed(t)}]
  IN  At[0][id]

Definitions(kinds, name) ==
  {id \in DOMAIN Types : Types[id].kind \in kinds /\ Types[id].name = name /\ ~Types[id].decl}
PlacesIn(kinds, w) == UNION {Places(id, w[2]) : id \in Definitions(kinds, w[1])}

(***************************************************************************)
(* Every offset and length of the defs is that of the field in a           *)
(* definition of a type with the struct's name - in the only one, if there *)
(* is one only - whatever order the HashMap gave resolve_field_inner the   *)
(* anonymous fields in; and every symbol has the address of a defined      *)
(* entry of .symtab.                                                       *)
(***************************************************************************)
DefsTrue ==
  pc = "ok" =>
    /\ NoClash => \A w \in DOMAIN defs.fields : defs.fields[w] \subseteq PlacesIn(Composite, w)
    /\ \A s \in DOMAIN defs.symbols : \E i \in DOMAIN file.symbols :
         LET e == file.symbols[i]
         IN  e.name = s /\ e.defined /\ e.value # 0 /\ e.value = defs.symbols[s]

ElfLacks ==
  \/ ~file.header \/ ~file.symtab \/ ~file.banner \/ file.btf_state = "unreadable"
  \/ \E s \in REQUIRED_SYMBOLS : s \notin DOMAIN Symbols

\* A loader cannot read the section, or not find in it what it looks up.
SectionLacks ==
  \/ SectionState # "ok"
  \/ \E t \in DOMAIN Types : \E k \in DOMAIN Types[t].members :
       Missing(Types, MemberRef(Types[t].members[k]))
  \/ \E i \in DOMAIN REQUIRED_TYPES : Definitions({"struct"}, REQUIRED_TYPES[i]) = {}
  \/ Definitions({"enum"}, "module_state") = {}

\* A field, an array length or a constant that the defs need is in no definition.
DefinitionsLack ==
  LET places(w) == PlacesIn({"struct"}, w)
      needed == RequiredFields
                  \cup (IF places(<<"mm_struct", "mm_mt">>) = {} THEN {} ELSE MapleFields)
  IN  \/ \E w \in needed : places(w) = {}
      \/ \E w \in needed \cap ArrayFields : \E r \in places(w) : r.len = NoLen
      \/ \A w \in StateFields : places(w) = {}
      \/ \E c \in ModuleStates : \A e \in Definitions({"enum"}, "module_state") : c \notin Types[e].constants

\* Two types of the section have a name that the defs need.
Ambiguous(alike(_)) ==
  \E a, b \in DOMAIN Types :
    /\ a # b /\ Types[a].name = Types[b].name
    /\ Types[a].name \in RootSet
    /\ Types[a].kind \in Composite \cup Enumeration /\ Types[b].kind \in Composite \cup Enumeration
    /\ alike(a) /\ alike(b)

(***************************************************************************)
(* Defs are refused for cause only: because the ELF file, the section the  *)
(* types were last looked for in or the definitions there lack something,  *)
(* or because two types have a name that the defs need.  DWARF is turned   *)
(* to only if there is no .BTF, or what a loader looks up is not in it.    *)
(***************************************************************************)
RefusedForCause ==
  pc \in {"ok", "err"} /\ NoClash =>
    /\ pc = "err" => ElfLacks \/ SectionLacks \/ DefinitionsLack \/ Ambiguous(LAMBDA t : TRUE)
    /\ source = "dwarf" /\ file.btf_state = "ok" =>
         \/ \E t \in DOMAIN file.btf : \E k \in DOMAIN file.btf[t].members :
              Missing(file.btf, btf_raw_type_ref(file.btf, file.btf[t].members[k].type))
         \/ \E i \in DOMAIN REQUIRED_TYPES : BtfFile_find_named(file.btf, "struct", REQUIRED_TYPES[i]) = Void
         \/ BtfFile_find_named(file.btf, "enum", "module_state") = Void

(***************************************************************************)
(* The parser "falls back to DWARF when the kernel image does not embed    *)
(* usable BTF type information": DWARF that defines once all that the defs *)
(* need is enough.  It is not, if the walk meets a declaration of a type   *)
(* before its definition: the declaration takes the name.                  *)
(***************************************************************************)
DwarfComplete ==
  pc = "err" /\ source = "dwarf" /\ NoClash =>
    ElfLacks \/ SectionLacks \/ DefinitionsLack \/ Ambiguous(LAMBDA t : ~Types[t].decl)
============================================================================
