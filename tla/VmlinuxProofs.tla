---------------------------- MODULE VmlinuxProofs ----------------------------
(***************************************************************************)
(* Proofs about the resolvers, for every vmlinux: types are named apart,   *)
(* no type is resolved inside its own resolution, and, if no name that a   *)
(* resolver invents is in the file, the profile says of a field what its   *)
(* section says, the defs made from it are true, and defs are refused for  *)
(* cause only.                                                             *)
(***************************************************************************)
EXTENDS Vmlinux, FunctionTheorems, FiniteSetTheorems, WellFoundedInduction, TLAPS

\* A set of numbers that is not empty has a least element.
LEMMA LeastNumber ==
  ASSUME NEW T, T \subseteq Nat, T # {}
  PROVE  \E i \in T : \A j \in T : i <= j
<1>1. PICK i \in T : \A j \in T : ~(<<j, i>> \in OpToRel(<, Nat))
  BY NatLessThanWellFounded, WFMin
<1>2. \A j \in T : ~(j < i)
  BY <1>1 DEF OpToRel
<1>. QED BY <1>2

\* The section's types are a sequence, and so are the members of each.
LEMMA TypesAreSequences ==
  ASSUME file \in Images
  PROVE  /\ Types \in Seq(Type) /\ Len(Types) \in Nat /\ DOMAIN Types = 1 .. Len(Types)
         /\ MembersDistinct(Types)
         /\ \A id \in DOMAIN Types :
              LET members == Types[id].members
              IN  /\ members \in Seq(Member) /\ Len(members) \in Nat
                  /\ DOMAIN members = 1 .. Len(members)
<1>1. file.btf \in Seq(Type) /\ file.dwarf \in Seq(Type)
  BY ImageAssumption
<1>2. Types \in Seq(Type) /\ MembersDistinct(Types)
  BY <1>1, ImageAssumption DEF Types
<1>3. \A id \in DOMAIN Types : Types[id].members \in Seq(Member)
  <2>1. \A id \in DOMAIN Types : Types[id] \in Type
    BY <1>2
  <2>2. \A t \in Type : t.members \in Seq(Member)
    BY DEF Type
  <2>. QED BY <2>1, <2>2
<1>. QED BY <1>2, <1>3

\* A lookup by name finds a type of the kind it asks for.
LEMMA FindNamed ==
  ASSUME file \in Images, NEW kind, NEW name, find_named(kind, name) # Void
  PROVE  find_named(kind, name) \in DOMAIN Types /\ Types[find_named(kind, name)].kind = kind
<1>1. ASSUME NEW ids, ids \subseteq DOMAIN Types, FirstOf(ids) # Void PROVE FirstOf(ids) \in ids
  <2>1. ids # {} /\ ids \subseteq Nat
    BY <1>1, TypesAreSequences DEF FirstOf
  <2>2. \E i \in ids : \A j \in ids : i <= j
    BY <2>1, LeastNumber
  <2>. QED BY <2>1, <2>2 DEF FirstOf
<1>. DEFINE B == {i \in DOMAIN Types : Types[i].kind = kind /\ Types[i].name = name}
            D == {i \in DOMAIN Types : Types[i].kind = kind /\ Types[i].name = name /\ ~Types[i].decl}
<1>2. find_named(kind, name) = FirstOf(B) \/ find_named(kind, name) = FirstOf(D)
  BY DEF find_named, BtfFile_find_named, DwarfFile_find_named
<1>3. B \subseteq DOMAIN Types /\ D \subseteq DOMAIN Types
  OBVIOUS
<1>4. find_named(kind, name) \in B \/ find_named(kind, name) \in D
  <2>. HIDE DEF B, D
  <2>. QED BY <1>1, <1>2, <1>3
<1>. QED BY <1>4

----------------------------------------------------------------------------
(* Names of types *)

\* What is assumed of the invented names, and NoClash, for the section in use.
LEMMA SectionNames ==
  ASSUME file \in Images, source \in {"btf", "dwarf"}
  PROVE  NumbersTellApart(source, Types) /\ (NoClash => Unclashed(source, Types))
<1>1. NumbersTellApart("btf", file.btf) /\ NumbersTellApart("dwarf", file.dwarf)
  BY ImageAssumption
<1>. QED BY <1>1 DEF Types, NoClash

LEMMA SectionNamesKept ==
  ASSUME UNCHANGED <<file, source>>
  PROVE  Types' = Types /\ \A id : OwnName(id)' = OwnName(id) /\ MadeUp(id)' = MadeUp(id)
<1>1. Types' = Types
  BY DEF Types
<1>. QED BY <1>1 DEF OwnName, MadeUp

\* A type has its own name or the one made up for it, and these are the used ones.
NamedAfter == \A a \in DOMAIN type_names : type_names[a] \in {OwnName(a), MadeUp(a)}
UsedNames == used_names = {type_names[a] : a \in DOMAIN type_names}
NamedTypes ==
  /\ file \in Images /\ source \in {"btf", "dwarf"}
  /\ pc \in {"elf", "banner", "section", "parse"} => DOMAIN type_names = {}
  /\ DOMAIN type_names \subseteq UserDefined(Types)
NamesInv == NamedTypes /\ NamedAfter /\ UsedNames /\ NamesApart

\* No two types have one made-up name.
LEMMA MadeUpDiffer ==
  ASSUME NamedTypes, NEW a \in UserDefined(Types), NEW b \in UserDefined(Types), MadeUp(a) = MadeUp(b)
  PROVE  a = b
BY SectionNames DEF NamedTypes, NumbersTellApart, MadeUp

\* Without a clash none of them is the own name of a type.
LEMMA MadeUpIsNoName ==
  ASSUME NamedTypes, NoClash, NEW a \in UserDefined(Types), NEW b \in UserDefined(Types)
  PROVE  MadeUp(a) # OwnName(b)
<1>1. NumbersTellApart(source, Types) /\ Unclashed(source, Types)
  BY SectionNames DEF NamedTypes
<1>2. CASE Types[b].name = ""
  BY <1>1, <1>2 DEF NumbersTellApart, MadeUp, OwnName
<1>3. CASE Types[b].name # ""
  BY <1>1, <1>3 DEF Unclashed, MadeUp, OwnName, OwnNameIn
<1>. QED BY <1>2, <1>3

\* Then the types that have names have different ones,
LEMMA NamesDiffer ==
  ASSUME NamesInv, NoClash, NEW a \in DOMAIN type_names, NEW b \in DOMAIN type_names,
         type_names[a] = type_names[b]
  PROVE  a = b
<1>1. \A c, d \in UserDefined(Types) : MadeUp(c) # OwnName(d)
  BY MadeUpIsNoName DEF NamesInv
<1>2. a \in UserDefined(Types) /\ b \in UserDefined(Types)
  BY DEF NamesInv, NamedTypes
<1>. QED BY <1>1, <1>2 DEF NamesInv, NamesApart, TakesNameOf

\* and a type that has none is offered one that nothing else has.
LEMMA CandidateFresh ==
  ASSUME NamesInv, NoClash, NEW id \in UserDefined(Types), id \notin DOMAIN type_names
  PROVE  Candidate(id) \notin used_names
<1>1. CASE OwnName(id) \notin used_names
  BY <1>1 DEF Candidate
<1>2. CASE OwnName(id) \in used_names
  <2>1. Candidate(id) = MadeUp(id)
    BY <1>2 DEF Candidate
  <2>2. ASSUME NEW a \in DOMAIN type_names, type_names[a] = MadeUp(id) PROVE FALSE
    <3>1. a \in UserDefined(Types) /\ type_names[a] \in {OwnName(a), MadeUp(a)}
      BY DEF NamesInv, NamedTypes, NamedAfter
    <3>2. MadeUp(id) # OwnName(a)
      BY <3>1, MadeUpIsNoName DEF NamesInv
    <3>3. MadeUp(id) # MadeUp(a)
      BY <3>1, MadeUpDiffer DEF NamesInv
    <3>. QED BY <2>2, <3>1, <3>2, <3>3
  <2>. QED BY <2>1, <2>2 DEF NamesInv, UsedNames
<1>. QED BY <1>1, <1>2

\* After a call of ensure_type_name.
LEMMA EnsureTypeName ==
  ASSUME NEW id \in UserDefined(Types), NamesInv, ensure_type_name(id), UNCHANGED <<file, source>>,
         pc' \notin {"elf", "banner", "section", "parse"}
  PROVE  NamesInv'
<1>1. /\ DOMAIN type_names' = DOMAIN type_names \cup {id}
      /\ \A a \in DOMAIN type_names : type_names'[a] = type_names[a]
      /\ type_names'[id] = TypeName(id) /\ used_names' = used_names \cup {TypeName(id)}
  BY DEF ensure_type_name, With, TypeName
<1>2. Types' = Types /\ \A a : OwnName(a)' = OwnName(a) /\ MadeUp(a)' = MadeUp(a)
  BY SectionNamesKept
<1>3. NamedTypes'
  BY <1>1, <1>2 DEF NamesInv, NamedTypes
<1>4. TypeName(id) \in {OwnName(id), MadeUp(id)}
  BY DEF TypeName, Candidate, NamesInv, NamedAfter
<1>5. NamedAfter'
  BY <1>1, <1>2, <1>4 DEF NamesInv, NamedAfter
<1>6. UsedNames'
  BY <1>1 DEF NamesInv, UsedNames
<1>7. ASSUME NEW a \in DOMAIN type_names, id \notin DOMAIN type_names, type_names[a] = TypeName(id)
      PROVE  TypeName(id) = MadeUp(id) /\ MadeUp(id) = OwnName(a)
  <2>1. type_names[a] \in used_names /\ TypeName(id) = Candidate(id)
    BY <1>7 DEF TypeName, NamesInv, UsedNames
  <2>2. TypeName(id) = MadeUp(id)
    BY <1>7, <2>1 DEF Candidate
  <2>3. type_names[a] \in {OwnName(a), MadeUp(a)} /\ a # id /\ a \in UserDefined(Types)
    BY <1>7 DEF NamesInv, NamedAfter, NamedTypes
  <2>4. MadeUp(id) # MadeUp(a)
    BY <2>3, MadeUpDiffer DEF NamesInv
  <2>. QED BY <1>7, <2>2, <2>3, <2>4
<1>8. ASSUME NEW a \in DOMAIN type_names, NEW b \in DOMAIN type_names, type_names[a] = type_names[b]
      PROVE  a = b \/ TakesNameOf(a, b)' \/ TakesNameOf(b, a)'
  <2>1. a = b \/ TakesNameOf(a, b) \/ TakesNameOf(b, a)
    BY <1>8 DEF NamesInv, NamesApart
  <2>. QED BY <1>1, <1>2, <2>1 DEF TakesNameOf
<1>9. NamesApart'
  <2>. SUFFICES ASSUME NEW a \in DOMAIN type_names', NEW b \in DOMAIN type_names',
                       type_names'[a] = type_names'[b], a # b
                PROVE  TakesNameOf(a, b)' \/ TakesNameOf(b, a)'
    BY DEF NamesApart
  <2>1. CASE a \in DOMAIN type_names /\ b \in DOMAIN type_names
    BY <1>1, <1>8, <2>1
  <2>2. CASE a \notin DOMAIN type_names
    <3>1. a = id /\ b \in DOMAIN type_names /\ type_names[b] = TypeName(id)
      BY <1>1, <2>2
    <3>2. TypeName(id) = MadeUp(id) /\ MadeUp(id) = OwnName(b)
      BY <1>7, <2>2, <3>1
    <3>. QED BY <1>1, <1>2, <3>1, <3>2 DEF TakesNameOf
  <2>3. CASE b \notin DOMAIN type_names
    <3>1. b = id /\ a \in DOMAIN type_names /\ type_names[a] = TypeName(id)
      BY <1>1, <2>3
    <3>2. TypeName(id) = MadeUp(id) /\ MadeUp(id) = OwnName(a)
      BY <1>7, <2>3, <3>1
    <3>. QED BY <1>1, <1>2, <3>1, <3>2 DEF TakesNameOf
  <2>. QED BY <2>1, <2>2, <2>3
<1>. QED BY <1>3, <1>5, <1>6, <1>9 DEF NamesInv

LEMMA NamesKept ==
  ASSUME NamesInv, UNCHANGED <<file, source, type_names, used_names>>,
         pc' \in {"elf", "banner", "section", "parse"} => pc \in {"elf", "banner", "section", "parse"}
  PROVE  NamesInv'
<1>1. Types' = Types /\ \A a : OwnName(a)' = OwnName(a) /\ MadeUp(a)' = MadeUp(a)
  BY SectionNamesKept
<1>2. NamedTypes' /\ NamedAfter' /\ UsedNames'
  BY <1>1 DEF NamesInv, NamedTypes, NamedAfter, UsedNames
<1>3. \A a, b : TakesNameOf(a, b)' <=> TakesNameOf(a, b)
  BY <1>1 DEF TakesNameOf
<1>. QED BY <1>2, <1>3 DEF NamesInv, NamesApart

LEMMA NoNamesYet ==
  ASSUME file \in Images, source \in {"btf", "dwarf"}, DOMAIN type_names = {}, used_names = {}
  PROVE  NamesInv
BY DEF NamesInv, NamedTypes, NamedAfter, UsedNames, NamesApart

LEMMA NamesNext ==
  ASSUME NamesInv, [Next]_vars
  PROVE  NamesInv'
<1>. DEFINE Early == {"elf", "banner", "section", "parse"}
<1>1. CASE BtfMember \/ DwarfMember
  <2>1. PICK key, offset, r : ResolveMember(key, offset, r) /\ ~Missing(Types, r)
    BY <1>1 DEF BtfMember, DwarfMember
  <2>2. UNCHANGED <<file, source, pc>> /\ pc = "resolve"
    BY <1>1 DEF BtfMember, DwarfMember, MemberDue
  <2>3. CASE r.leaf \in UserDefined(Types) /\ ensure_type_name(r.leaf)
    BY <2>2, <2>3, EnsureTypeName
  <2>4. CASE UNCHANGED <<type_names, used_names>>
    BY <2>2, <2>4, NamesKept
  <2>5. r.leaf # Void => r.leaf \in DOMAIN Types
    BY <2>1 DEF Missing
  <2>. QED
    BY <2>1, <2>3, <2>4, <2>5 DEF ResolveMember, Enter, ensure_enum, tables, UserDefined, Composite, Enumeration
<1>2. CASE ResolveRoot
  <2>1. PICK id : id = find_named("struct", Roots[root])
    OBVIOUS
  <2>2. UNCHANGED <<file, source, pc>> /\ pc = "resolve"
    BY <1>2 DEF ResolveRoot
  <2>3. id # Void => id \in UserDefined(Types)
    BY <2>1, FindNamed DEF NamesInv, NamedTypes, UserDefined, Composite
  <2>4. CASE id # Void /\ ensure_type_name(id)
    BY <2>2, <2>3, <2>4, EnsureTypeName
  <2>5. CASE UNCHANGED <<type_names, used_names>>
    BY <2>2, <2>5, NamesKept
  <2> QED
    BY <1>2, <2>1, <2>4, <2>5 DEF ResolveRoot, Enter, tables
<1>3. CASE ResolveModuleState
  <2>1. PICK id : id = find_named("enum", "module_state")
    OBVIOUS
  <2>2. UNCHANGED <<file, source>> /\ pc' = "symbols" /\ id # Void /\ ensure_type_name(id)
    BY <1>3, <2>1 DEF ResolveModuleState, ensure_enum
  <2>3. id \in UserDefined(Types)
    BY <2>1, <2>2, FindNamed DEF NamesInv, NamedTypes, UserDefined, Enumeration
  <2>. QED BY <2>2, <2>3, EnsureTypeName
<1>4. CASE FallBack \/ section_data_optional
  <2>1. /\ DOMAIN type_names' = {} /\ used_names' = {} /\ file' \in Images /\ source' \in {"btf", "dwarf"}
    BY <1>4 DEF FallBack, section_data_optional, NoFunction, tables, NamesInv, NamedTypes, UsedNames
  <2>. QED BY <2>1 DEF NamesInv, NamedTypes, NamedAfter, UsedNames, NamesApart
<1>5. CASE /\ UNCHANGED <<file, source, type_names, used_names>>
           /\ pc' \in Early => pc \in Early
  BY <1>5, NamesKept
<1>6. CASE ParseElf \/ ReadBanner \/ ParseTypes \/ Leave \/ LoadFails \/ LookUpSymbols \/ Convert
  BY <1>5, <1>6 DEF ParseElf, ReadBanner, ParseTypes, Leave, LoadFails, LookUpSymbols, Convert, tables
<1>7. CASE UNCHANGED vars
  BY <1>5, <1>7 DEF vars, tables
<1>. QED BY <1>1, <1>2, <1>3, <1>4, <1>6, <1>7 DEF Next, Done

(***************************************************************************)
(* Whatever types share names in a vmlinux, the resolver gives each one a  *)
(* name of its own, unless the file has a type with the very name that is  *)
(* made up for another one.  The invariant that carries the proof says     *)
(* that a type has its own name or the one made up with its own number, so *)
(* that two made-up names are never the same, and two own names are not as *)
(* the second one is found among the used.                                 *)
(***************************************************************************)
THEOREM TypesNamedApart == Spec => []NamesApart
<1>1. Init => NamesInv
  <2>1. Init => /\ DOMAIN type_names = {} /\ used_names = {}
                /\ file \in Images /\ source \in {"btf", "dwarf"}
    BY DEF Init, NoFunction
  <2>. QED BY <2>1, NoNamesYet
<1>2. NamesInv /\ [Next]_vars => NamesInv'
  BY NamesNext
<1>3. NamesInv => NamesApart
  BY DEF NamesInv
<1>. QED BY <1>1, <1>2, <1>3, PTL DEF Spec

----------------------------------------------------------------------------
\* Every type on the stack has a name, and is entered under it.
StackSeeded ==
  \A i \in DOMAIN stack : /\ stack[i].id \in DOMAIN type_names
                          /\ type_names[stack[i].id] \in DOMAIN user_types
StackIsSeq == \E S : stack \in Seq(S)
StackInv == StackIsSeq /\ StackSeeded /\ SeededOnce

\* The tables only grow, and a name once given stays.
Grown ==
  /\ \A a \in DOMAIN type_names : a \in DOMAIN type_names' /\ type_names'[a] = type_names[a]
  /\ DOMAIN user_types \subseteq DOMAIN user_types'

LEMMA NamesGrow ==
  ASSUME NEW id, ensure_type_name(id)
  PROVE  /\ \A a \in DOMAIN type_names : a \in DOMAIN type_names' /\ type_names'[a] = type_names[a]
         /\ id \in DOMAIN type_names' /\ type_names'[id] = TypeName(id)
BY DEF ensure_type_name, With, TypeName

LEMMA EnterKeeps ==
  ASSUME NEW id, StackInv, Enter(id), ~Entered(id)
  PROVE  StackInv'
<1> DEFINE e == [id |-> id, next |-> 1, fields |-> NoFunction]
<1>1. PICK S : stack \in Seq(S)
  BY DEF StackInv, StackIsSeq
<1>2. stack' = Append(stack, e)
  BY DEF Enter
<1>3. stack \in Seq(S \cup {e}) /\ e \in S \cup {e}
  BY <1>1
<1>4. /\ stack' \in Seq(S \cup {e})
      /\ Len(stack) \in Nat
      /\ DOMAIN stack = 1 .. Len(stack)
      /\ DOMAIN stack' = 1 .. Len(stack) + 1
      /\ stack'[Len(stack) + 1] = e
      /\ \A i \in DOMAIN stack : stack'[i] = stack[i]
  BY <1>2, <1>3
<1>5. Grown /\ id \in DOMAIN type_names' /\ type_names'[id] = TypeName(id)
  BY NamesGrow DEF Grown, Enter, Seeded, With
<1>6. TypeName(id) \in DOMAIN user_types'
  BY DEF Enter, Seeded, With
<1>7. \A i \in DOMAIN stack : stack[i].id # id
  BY DEF StackInv, StackSeeded, Entered, TypeName
<1>8. e.id = id
  OBVIOUS
<1>9. StackSeeded'
  BY <1>4, <1>5, <1>6, <1>8 DEF StackInv, StackSeeded, Grown
<1>10. SeededOnce'
  BY <1>4, <1>7, <1>8 DEF StackInv, SeededOnce
<1> QED
  BY <1>4, <1>9, <1>10 DEF StackInv, StackIsSeq

LEMMA InsertKeeps ==
  ASSUME NEW key, NEW offset, NEW r, StackInv, stack # <<>>, Insert(key, offset, r), Grown
  PROVE  StackInv'
<1>1. PICK S : stack \in Seq(S)
  BY DEF StackInv, StackIsSeq
<1>2. PICK n, f : stack' = [stack EXCEPT ![Len(stack)] = [id |-> Top.id, next |-> n, fields |-> f]]
  BY Zenon DEF Insert
<1> DEFINE e == [id |-> Top.id, next |-> n, fields |-> f]
<1>3. Len(stack) \in Nat /\ DOMAIN stack = 1 .. Len(stack) /\ Len(stack) \in DOMAIN stack
  BY <1>1
<1>4. DOMAIN stack' = DOMAIN stack /\ \A i \in DOMAIN stack : stack'[i].id = stack[i].id
  BY <1>2, <1>3 DEF Top
<1>5. stack' \in Seq(S \cup {e})
  <2>1. stack \in Seq(S \cup {e}) /\ e \in S \cup {e}
    BY <1>1
  <2> QED
    BY <1>2, <1>3, <2>1
<1>6. StackSeeded'
  BY <1>4 DEF StackInv, StackSeeded, Grown
<1>7. SeededOnce'
  BY <1>4 DEF StackInv, SeededOnce
<1> QED
  BY <1>5, <1>6, <1>7 DEF StackInv, StackIsSeq

LEMMA StackKept ==
  ASSUME StackInv, Grown, UNCHANGED stack
  PROVE  StackInv'
BY DEF StackInv, StackIsSeq, StackSeeded, SeededOnce, Grown

LEMMA StackNext ==
  ASSUME StackInv, [Next]_vars
  PROVE  StackInv'
<1>1. CASE BtfMember \/ DwarfMember
  <2>1. PICK key, offset, r : stack # <<>> /\ ResolveMember(key, offset, r)
    BY <1>1 DEF BtfMember, DwarfMember, MemberDue
  <2>2. CASE ~Entered(r.leaf) /\ Enter(r.leaf)
    BY <2>2, EnterKeeps
  <2>3. CASE Insert(key, offset, r) /\ Grown
    BY <2>1, <2>3, InsertKeeps
  <2>4. ensure_type_name(r.leaf) /\ UNCHANGED user_types => Grown
    BY NamesGrow DEF Grown
  <2>5. UNCHANGED tables => Grown
    BY DEF Grown, tables
  <2> QED
    BY <2>1, <2>2, <2>3, <2>4, <2>5 DEF ResolveMember, ensure_enum
<1>2. CASE ResolveRoot
  <2> DEFINE id == find_named("struct", Roots[root])
  <2>1. CASE ~Entered(id) /\ Enter(id)
    BY <2>1, EnterKeeps
  <2>2. CASE ensure_type_name(id) /\ UNCHANGED <<stack, user_types>>
    BY <2>2, NamesGrow, StackKept DEF Grown
  <2>3. CASE UNCHANGED <<stack, tables>>
    BY <2>3, StackKept DEF Grown, tables
  <2> QED
    BY <1>2, <2>1, <2>2, <2>3 DEF ResolveRoot
<1>3. CASE ResolveModuleState
  BY <1>3, NamesGrow, StackKept DEF ResolveModuleState, ensure_enum, Grown
<1>4. CASE FallBack
  <2>1. stack' = <<>> /\ <<>> \in Seq({})
    BY <1>4 DEF FallBack
  <2> QED
    BY <2>1 DEF StackInv, StackIsSeq, StackSeeded, SeededOnce
<1>5. CASE Leave
  <2>1. PICK S : stack \in Seq(S)
    BY DEF StackInv, StackIsSeq
  <2>2. /\ stack' \in Seq(S)
        /\ \A i \in DOMAIN stack' : i \in DOMAIN stack /\ stack'[i] = stack[i]
    BY <1>5, <2>1 DEF Leave, Popped
  <2>3. Grown
    BY <1>5 DEF Leave, Grown
  <2> QED
    BY <2>2, <2>3 DEF StackInv, StackIsSeq, StackSeeded, SeededOnce, Grown
<1>6. CASE UNCHANGED <<stack, tables>>
  BY <1>6, StackKept DEF Grown, tables
<1> QED
  BY <1>1, <1>2, <1>3, <1>4, <1>5, <1>6
  DEF Next, vars, ParseElf, ReadBanner, section_data_optional, ParseTypes, LoadFails,
      LookUpSymbols, Convert, Done

(***************************************************************************)
(* Whatever cycles the types of a vmlinux have, ensure_user_type is never  *)
(* called for a type that it is already resolving: the recursion is at     *)
(* most as deep as there are types.  A type is on the stack only under a   *)
(* name that is in user_types already, and names do not change.            *)
(***************************************************************************)
THEOREM RecursionBounded == Spec => []SeededOnce
<1>1. Init => StackInv
  <2>1. Init => stack = <<>> /\ <<>> \in Seq({})
    BY DEF Init
  <2> QED
    BY <2>1 DEF StackInv, StackIsSeq, StackSeeded, SeededOnce
<1>2. StackInv /\ [Next]_vars => StackInv'
  BY StackNext
<1>3. StackInv => SeededOnce
  BY DEF StackInv
<1> QED
  BY <1>1, <1>2, <1>3, PTL DEF Spec

----------------------------------------------------------------------------
(* The tables say what the section says *)

\* The key of member k.
Key(id, k) == FieldKey(source, Types[id].members, k)

\* What a field says of its member.
Tells(f, m) ==
  LET r == MemberRef(m)
  IN  /\ f.anonymous = (m.name = "")
      /\ f.offset = MemberOffset(m) /\ f.len = MemberLen(m)
      /\ IF IsComposite(r.leaf) /\ r.named
           THEN r.leaf \in DOMAIN type_names /\ f.user = type_names[r.leaf]
           ELSE f.user = NoName

\* The fields of the first n members of a type.
Filled(fields, id, n) ==
  /\ DOMAIN fields = {Key(id, k) : k \in 1 .. n}
  /\ \A k \in 1 .. n : Tells(fields[Key(id, k)], Types[id].members[k])

FrameHolds(e) ==
  /\ e.id \in DOMAIN Types /\ IsComposite(e.id)
  /\ e.next \in 1 .. Len(Types[e.id].members) + 1
  /\ Filled(e.fields, e.id, e.next - 1)

Stored(id) ==
  /\ id \in DOMAIN Types
  /\ type_names[id] \in DOMAIN user_types
  /\ \E fields : user_types[type_names[id]] = [size |-> Types[id].size, fields |-> fields]
Complete(id) == Filled(user_types[type_names[id]].fields, id, Len(Types[id].members))
Open(id) == \E i \in DOMAIN stack : stack[i].id = id

\* What is done when the types are resolved.
Resolved == {"symbols", "convert", "ok"}

FaithInv ==
  /\ file \in Images /\ source \in {"btf", "dwarf"}
  /\ pc \in {"elf", "banner", "section", "parse"} =>
       stack = <<>> /\ DOMAIN type_names = {} /\ DOMAIN user_types = {}
  /\ pc \in Resolved => stack = <<>>
  /\ DOMAIN user_types \subseteq used_names
  /\ \A i \in DOMAIN stack : FrameHolds(stack[i])
  /\ \A id \in DOMAIN type_names :
       IsComposite(id) => Stored(id) /\ (Open(id) \/ Complete(id))

\* Counting the elements of a set below a number tells its elements apart.
LEMMA CountBelow ==
  ASSUME NEW S, NEW j \in Nat \ {0}, NEW k \in Nat \ {0}, j < k, j \in S
  PROVE  /\ Cardinality((1 .. j - 1) \cap S) \in Nat
         /\ Cardinality((1 .. j - 1) \cap S) < Cardinality((1 .. k - 1) \cap S)
<1>1. PICK A : A = (1 .. j - 1) \cap S
  OBVIOUS
<1>2. PICK B : B = (1 .. k - 1) \cap S
  OBVIOUS
<1>3. IsFiniteSet(1 .. j - 1) /\ IsFiniteSet(1 .. k - 1)
  BY FS_Interval
<1>4. IsFiniteSet(A) /\ IsFiniteSet(B)
  BY <1>1, <1>2, <1>3, FS_Subset
<1>5. j \notin A /\ A \cup {j} \subseteq B
  BY <1>1, <1>2
<1>6. Cardinality(A \cup {j}) = Cardinality(A) + 1 /\ Cardinality(A) \in Nat /\ Cardinality(B) \in Nat
  BY <1>4, <1>5, FS_AddElement, FS_CardinalityType
<1>7. Cardinality(A \cup {j}) <= Cardinality(B)
  BY <1>4, <1>5, FS_Subset
<1>8. Cardinality(A) < Cardinality(B)
  BY <1>6, <1>7
<1>. QED BY <1>1, <1>2, <1>6, <1>8

\* Elements of a set with as many elements below them are one.
LEMMA CountTellsApart ==
  ASSUME NEW S, NEW j \in Nat \ {0}, NEW k \in Nat \ {0}, j \in S, k \in S,
         Cardinality((1 .. j - 1) \cap S) = Cardinality((1 .. k - 1) \cap S)
  PROVE  j = k
<1>1. ~(j < k)
  BY CountBelow
<1>2. ~(k < j)
  BY CountBelow
<1>. QED BY <1>1, <1>2

\* A member is counted under a number below the number of members.
LEMMA CountBounded ==
  ASSUME NEW members \in Seq(Member), NEW k \in DOMAIN members
  PROVE  AnonymousBefore(members, k) \in 0 .. Len(members)
<1>1. PICK A : A = {i \in 1 .. k - 1 : members[i].name = ""}
  OBVIOUS
<1>2. k \in Nat \ {0} /\ k <= Len(members) /\ Len(members) \in Nat
  OBVIOUS
<1>3. IsFiniteSet(1 .. k - 1) /\ Cardinality(1 .. k - 1) = k - 1
  <2>1. PICK n : n = k - 1
    OBVIOUS
  <2>2. n \in Nat
    BY <1>2, <2>1
  <2>3. IsFiniteSet(1 .. n) /\ Cardinality(1 .. n) = IF 1 > n THEN 0 ELSE n - 1 + 1
    BY <2>2, FS_Interval
  <2>4. (IF 1 > n THEN 0 ELSE n - 1 + 1) = n
    BY <2>2
  <2>. QED BY <2>1, <2>3, <2>4
<1>4. A \subseteq 1 .. k - 1
  BY <1>1
<1>5. IsFiniteSet(A) /\ Cardinality(A) <= k - 1
  <2>1. PICK B : B = 1 .. k - 1
    OBVIOUS
  <2>2. IsFiniteSet(B) /\ A \subseteq B
    BY <1>3, <1>4, <2>1
  <2>3. IsFiniteSet(A) /\ Cardinality(A) <= Cardinality(B)
    BY <2>2, FS_Subset
  <2>. QED BY <1>3, <2>1, <2>3
<1>6. Cardinality(A) \in Nat
  BY <1>5, FS_CardinalityType
<1>7. Cardinality(A) \in 0 .. Len(members)
  BY <1>2, <1>5, <1>6
<1>. QED BY <1>1, <1>7 DEF AnonymousBefore

\* No two members of a type have one key, unless a nameless one has the key of
\* another that has a name.
LEMMA KeysApart ==
  ASSUME file \in Images, source \in {"btf", "dwarf"}, NoClash, NEW id \in DOMAIN Types,
         NEW j \in DOMAIN Types[id].members, NEW k \in DOMAIN Types[id].members,
         Key(id, j) = Key(id, k)
  PROVE  j = k
<1>. DEFINE members == Types[id].members
<1>1. /\ members \in Seq(Member) /\ j \in Nat \ {0} /\ k \in Nat \ {0}
      /\ Len(members) \in Nat /\ DOMAIN members = 1 .. Len(members)
  BY TypesAreSequences
<1>2. NumbersTellApart(source, Types) /\ Unclashed(source, Types)
  BY SectionNames
<1>3. ASSUME NEW a \in DOMAIN members, NEW b \in DOMAIN members, Key(id, a) = Key(id, b),
             members[a].name # ""
      PROVE  members[b].name # ""
  <2>1. Key(id, a) = members[a].name
    BY <1>3 DEF Key, FieldKey
  <2>2. members[b].name = "" => Key(id, b) # members[a].name
    BY <1>2 DEF Unclashed, Key
  <2>. QED BY <1>3, <2>1, <2>2
<1>4. CASE members[j].name # ""
  <2>1. members[k].name # ""
    BY <1>3, <1>4
  <2>2. members[j].name = members[k].name
    BY <1>4, <2>1 DEF Key, FieldKey
  <2>. QED BY <1>4, <2>2, TypesAreSequences DEF MembersDistinct
<1>5. CASE members[j].name = ""
  <2>1. members[k].name = ""
    BY <1>3, <1>5
  <2>2. \A m, n \in 0 .. Len(members) : AnonField(m) = AnonField(n) => m = n
    BY <1>2 DEF NumbersTellApart
  <2>3. CASE source = "btf"
    <3>1. AnonField(j - 1) = AnonField(k - 1)
      BY <1>5, <2>1, <2>3 DEF Key, FieldKey
    <3>2. j - 1 \in 0 .. Len(members) /\ k - 1 \in 0 .. Len(members)
      BY <1>1
    <3>3. j - 1 = k - 1
      BY <2>2, <3>1, <3>2, Zenon
    <3>. QED BY <1>1, <3>3
  <2>4. CASE source # "btf"
    <3>1. AnonField(AnonymousBefore(members, j)) = AnonField(AnonymousBefore(members, k))
      BY <1>5, <2>1, <2>4 DEF Key, FieldKey
    <3>2. AnonymousBefore(members, j) = AnonymousBefore(members, k)
      BY <1>1, <2>2, <3>1, CountBounded, Zenon
    <3>3. PICK S : S = {i \in Nat : members[i].name = ""}
      OBVIOUS
    <3>4. 1 .. j - 1 \subseteq Nat /\ 1 .. k - 1 \subseteq Nat
      BY <1>1
    <3>5. /\ {i \in 1 .. j - 1 : members[i].name = ""} = (1 .. j - 1) \cap S
          /\ {i \in 1 .. k - 1 : members[i].name = ""} = (1 .. k - 1) \cap S
      BY <3>3, <3>4, Zenon
    <3>6. Cardinality((1 .. j - 1) \cap S) = Cardinality((1 .. k - 1) \cap S)
      BY <3>2, <3>5, Zenon DEF AnonymousBefore
    <3>7. j \in S /\ k \in S
      BY <1>1, <1>5, <2>1, <3>3, Zenon
    <3>. QED BY <1>1, <3>6, <3>7, CountTellsApart, Zenon
  <2>. QED BY <2>3, <2>4
<1>. QED BY <1>4, <1>5

\* One field for every member.
LEMMA OneFieldEach ==
  ASSUME file \in Images, source \in {"btf", "dwarf"}, NoClash, NEW id \in DOMAIN Types, NEW fields,
         Filled(fields, id, Len(Types[id].members))
  PROVE  Cardinality(DOMAIN fields) = Len(Types[id].members)
<1>. DEFINE n == Len(Types[id].members)
            f == [k \in 1 .. n |-> Key(id, k)]
<1>1. n \in Nat /\ DOMAIN Types[id].members = 1 .. n
  BY TypesAreSequences
<1>2. DOMAIN fields = {f[k] : k \in 1 .. n}
  BY DEF Filled
<1>3. \A j, k \in 1 .. n : f[j] = f[k] => j = k
  BY <1>1, KeysApart
<1>4. f \in Bijection(1 .. n, DOMAIN fields)
  <2>. HIDE DEF n
  <2>1. f \in [1 .. n -> DOMAIN fields]
    BY <1>2
  <2>2. \A t \in DOMAIN fields : \E k \in 1 .. n : f[k] = t
    BY <1>2
  <2>. HIDE DEF f
  <2>. QED BY <1>3, <2>1, <2>2, Fun_IsBij
<1>5. IsFiniteSet(1 .. n) /\ Cardinality(1 .. n) = n
  BY <1>1, FS_Interval
<1>. HIDE DEF f, n
<1>6. Cardinality(DOMAIN fields) = n
  BY <1>4, <1>5, FS_Bijection DEF ExistsBijection
<1>. QED BY <1>6 DEF n

\* What is said of the section depends on the section alone.
LEMMA SectionKept ==
  ASSUME UNCHANGED <<file, source>>
  PROVE  /\ Types' = Types
         /\ \A id, k : Key(id, k)' = Key(id, k)
         /\ \A m : /\ MemberRef(m)' = MemberRef(m) /\ MemberOffset(m)' = MemberOffset(m)
                   /\ MemberLen(m)' = MemberLen(m)
         /\ \A id : IsComposite(id)' <=> IsComposite(id)
<1>1. Types' = Types
  BY DEF Types
<1>2. \A m : MemberRef(m)' = MemberRef(m)
  BY <1>1 DEF MemberRef
<1>. QED BY <1>1, <1>2 DEF Key, MemberLen, MemberOffset, IsComposite

\* Fields that tell what the section says still do when more types have names.
LEMMA StillFilled ==
  ASSUME UNCHANGED <<file, source>>,
         \A a \in DOMAIN type_names : a \in DOMAIN type_names' /\ type_names'[a] = type_names[a],
         NEW fields, NEW id, NEW n, Filled(fields, id, n)
  PROVE  Filled(fields, id, n)'
<1>1. ASSUME NEW f, NEW m, Tells(f, m) PROVE Tells(f, m)'
  BY <1>1, SectionKept DEF Tells
<1>2. DOMAIN fields = {Key(id, k)' : k \in 1 .. n}
  BY SectionKept DEF Filled
<1>3. ASSUME NEW k \in 1 .. n PROVE Tells(fields[Key(id, k)], Types[id].members[k])'
  <2>1. PICK f : f = fields[Key(id, k)]
    OBVIOUS
  <2>2. PICK m : m = Types[id].members[k]
    OBVIOUS
  <2>3. Tells(f, m)'
    BY <1>1, <2>1, <2>2 DEF Filled
  <2>4. f = fields[Key(id, k)'] /\ m = Types'[id].members[k]
    BY <2>1, <2>2, SectionKept
  <2>. QED BY <2>3, <2>4
<1>. QED BY <1>2, <1>3 DEF Filled

\* The stack's frames are not disturbed by names given meanwhile.
LEMMA FrameStill ==
  ASSUME UNCHANGED <<file, source>>,
         \A a \in DOMAIN type_names : a \in DOMAIN type_names' /\ type_names'[a] = type_names[a],
         NEW e, FrameHolds(e)
  PROVE  FrameHolds(e)'
<1>1. PICK fields, id, n : fields = e.fields /\ id = e.id /\ n = e.next - 1
  OBVIOUS
<1>2. Filled(fields, id, n)'
  BY <1>1, StillFilled DEF FrameHolds
<1>. QED BY <1>1, <1>2, SectionKept DEF FrameHolds

\* Nor is an entry of the tables that nothing writes to.
LEMMA EntryStill ==
  ASSUME UNCHANGED <<file, source>>,
         \A a \in DOMAIN type_names : a \in DOMAIN type_names' /\ type_names'[a] = type_names[a],
         NEW id \in DOMAIN type_names, Stored(id),
         type_names[id] \in DOMAIN user_types',
         user_types'[type_names[id]] = user_types[type_names[id]]
  PROVE  Stored(id)' /\ (Complete(id) => Complete(id)')
<1>1. type_names'[id] = type_names[id] /\ Types' = Types
  BY SectionKept
<1>2. Stored(id)'
  BY <1>1 DEF Stored
<1>3. ASSUME Complete(id) PROVE Complete(id)'
  <2>1. PICK fields, n : fields = user_types[type_names[id]].fields /\ n = Len(Types[id].members)
    OBVIOUS
  <2>2. Filled(fields, id, n)'
    BY <1>3, <2>1, StillFilled DEF Complete
  <2>. QED BY <1>1, <2>1, <2>2 DEF Complete
<1>. QED BY <1>2, <1>3

\* A struct or union whose name is in user_types has that name.
LEMMA EnteredIsNamed ==
  ASSUME NamesInv, FaithInv, NoClash, NEW id \in DOMAIN Types
  PROVE  Entered(id) /\ IsComposite(id) => id \in DOMAIN type_names
BY CandidateFresh DEF Entered, TypeName, FaithInv, IsComposite, UserDefined

\* A type on entry: seeded, and on the stack with no member done.
LEMMA EnterFaithful ==
  ASSUME FaithInv, NamesInv, StackInv, UNCHANGED <<file, source, pc>>, pc = "resolve",
         NEW id \in DOMAIN Types, IsComposite(id), ~Entered(id), Enter(id)
  PROVE  FaithInv'
<1>. DEFINE e == [id |-> id, next |-> 1, fields |-> NoFunction]
<1>1. PICK S : stack \in Seq(S)
  BY DEF StackInv, StackIsSeq
<1>2. /\ DOMAIN stack = 1 .. Len(stack) /\ DOMAIN stack' = 1 .. Len(stack) + 1 /\ Len(stack) \in Nat
      /\ stack'[Len(stack) + 1] = e
      /\ \A i \in DOMAIN stack : stack'[i] = stack[i]
  <2>1. stack \in Seq(S \cup {e}) /\ e \in S \cup {e} /\ stack' = Append(stack, e)
    BY <1>1 DEF Enter
  <2>. QED BY <2>1
<1>3. /\ \A a \in DOMAIN type_names : a \in DOMAIN type_names' /\ type_names'[a] = type_names[a]
      /\ DOMAIN type_names' = DOMAIN type_names \cup {id} /\ type_names'[id] = TypeName(id)
      /\ used_names' = used_names \cup {TypeName(id)}
  BY NamesGrow DEF Enter, ensure_type_name, With
<1>4. /\ DOMAIN user_types' = DOMAIN user_types \cup {TypeName(id)}
      /\ user_types'[TypeName(id)] = [size |-> Types[id].size, fields |-> NoFunction]
      /\ \A n \in DOMAIN user_types : user_types'[n] = user_types[n]
  BY DEF Enter, Seeded, With, Entered
<1>5. FrameHolds(e)'
  <2>1. DOMAIN NoFunction = {} /\ 1 .. 0 = {}
    BY DEF NoFunction
  <2>2. Filled(NoFunction, id, 0)'
    BY <2>1 DEF Filled
  <2>3. e.id = id /\ e.next = 1 /\ e.fields = NoFunction /\ e.next - 1 = 0
    OBVIOUS
  <2>4. Types' = Types /\ IsComposite(id)' /\ Len(Types[id].members) \in Nat
    BY SectionKept, TypesAreSequences DEF FaithInv
  <2>. HIDE DEF e
  <2>. QED BY <2>2, <2>3, <2>4 DEF FrameHolds
<1>6. \A i \in DOMAIN stack : FrameHolds(stack[i])'
  <2>. SUFFICES ASSUME NEW i \in DOMAIN stack PROVE FrameHolds(stack[i])'
    OBVIOUS
  <2>1. PICK f : f = stack[i]
    OBVIOUS
  <2>2. FrameHolds(f)'
    BY <1>3, <2>1, FrameStill DEF FaithInv
  <2>3. f = stack'[i]
    BY <1>2, <2>1
  <2>. QED BY <2>2, <2>3
<1>7. \A i \in DOMAIN stack' : FrameHolds(stack[i])'
  <2>. SUFFICES ASSUME NEW i \in DOMAIN stack' PROVE FrameHolds(stack[i])'
    OBVIOUS
  <2>1. CASE i \in DOMAIN stack
    BY <1>6, <2>1
  <2>2. CASE i = Len(stack) + 1
    <3>1. PICK f : f = e
      OBVIOUS
    <3>2. FrameHolds(f)' /\ f = stack'[i]
      BY <1>2, <1>5, <2>2, <3>1
    <3>. QED BY <3>2
  <2>. QED BY <1>2, <2>1, <2>2
<1>8. ASSUME NEW a \in DOMAIN type_names', IsComposite(a)'
      PROVE  Stored(a)' /\ (Open(a)' \/ Complete(a)')
  <2>1. CASE a = id
    <3>1. Stored(a)'
      <4>1. type_names'[a] \in DOMAIN user_types'
        BY <1>3, <1>4, <2>1
      <4>2. user_types'[type_names'[a]] = [size |-> Types'[a].size, fields |-> NoFunction]
        BY <1>3, <1>4, <2>1, SectionKept
      <4>. QED BY <2>1, <4>1, <4>2, SectionKept DEF Stored
    <3>2. Open(a)'
      BY <1>2, <2>1 DEF Open
    <3>. QED BY <3>1, <3>2
  <2>2. CASE a # id
    <3>1. a \in DOMAIN type_names /\ IsComposite(a)
      BY <1>3, <1>8, <2>2, SectionKept
    <3>2. Stored(a) /\ (Open(a) \/ Complete(a))
      BY <3>1 DEF FaithInv
    <3>3. type_names[a] \in DOMAIN user_types' /\ user_types'[type_names[a]] = user_types[type_names[a]]
      BY <1>4, <3>2 DEF Stored
    <3>4. Stored(a)' /\ (Complete(a) => Complete(a)')
      BY <1>3, <3>1, <3>2, <3>3, EntryStill
    <3>5. Open(a) => Open(a)'
      BY <1>2 DEF Open
    <3>. QED BY <3>2, <3>4, <3>5
  <2>. QED BY <2>1, <2>2
<1>9. DOMAIN user_types' \subseteq used_names'
  BY <1>3, <1>4 DEF FaithInv
<1>10. file' \in Images /\ source' \in {"btf", "dwarf"} /\ pc' = "resolve"
  BY DEF FaithInv
<1>. QED BY <1>7, <1>8, <1>9, <1>10 DEF FaithInv, Resolved

\* The field of the member that is due joins those before it.
LEMMA InsertFaithful ==
  ASSUME NoClash, FaithInv, NamesInv, StackInv, UNCHANGED <<file, source, pc, user_types>>, pc = "resolve",
         MemberDue, Insert(Key(Top.id, Top.next), MemberOffset(Current), MemberRef(Current)),
         \A a \in DOMAIN type_names : a \in DOMAIN type_names' /\ type_names'[a] = type_names[a],
         \A a \in DOMAIN type_names' : IsComposite(a) => a \in DOMAIN type_names,
         used_names \subseteq used_names',
         IsComposite(MemberRef(Current).leaf) => MemberRef(Current).leaf \in DOMAIN type_names
  PROVE  FaithInv'
<1>1. PICK S : stack \in Seq(S)
  BY DEF StackInv, StackIsSeq
<1>2. stack # <<>> /\ Len(stack) \in Nat /\ DOMAIN stack = 1 .. Len(stack) /\ Len(stack) \in DOMAIN stack
  BY <1>1 DEF MemberDue
<1>3. FrameHolds(Top) /\ Top.id \in DOMAIN Types
  BY <1>2 DEF FaithInv, Top, FrameHolds
<1>4. /\ Len(Types[Top.id].members) \in Nat
      /\ DOMAIN Types[Top.id].members = 1 .. Len(Types[Top.id].members)
      /\ Top.next \in DOMAIN Types[Top.id].members
  BY <1>3, TypesAreSequences DEF FaithInv, FrameHolds, MemberDue
<1>5. PICK id, n, m, r, fields :
        /\ id = Top.id /\ n = Top.next /\ m = Current /\ r = MemberRef(Current) /\ fields = Top.fields
  OBVIOUS
<1>6. PICK key, field :
        /\ key = Key(id, n)
        /\ field.anonymous = (m.name = "") /\ field.offset = MemberOffset(m) /\ field.len = MemberLen(m)
        /\ field.user = IF IsComposite(r.leaf) /\ r.named THEN TypeName(r.leaf) ELSE NoName
        /\ stack' = [stack EXCEPT ![Len(stack)] =
                       [id |-> id, next |-> n + 1, fields |-> With(fields, key, field)]]
  <2>. DEFINE f == [offset |-> MemberOffset(Current), anonymous |-> Current.name = "",
                    user |-> IF IsComposite(MemberRef(Current).leaf) /\ MemberRef(Current).named
                               THEN TypeName(MemberRef(Current).leaf) ELSE NoName,
                    len |-> IF Current.bitfield THEN NoLen ELSE MemberRef(Current).len]
  <2>1. stack' = [stack EXCEPT ![Len(stack)] =
                    [id |-> Top.id, next |-> Top.next + 1,
                     fields |-> With(Top.fields, Key(Top.id, Top.next), f)]]
    BY Zenon DEF Insert, IsComposite
  <2>2. /\ f.anonymous = (m.name = "") /\ f.offset = MemberOffset(m) /\ f.len = MemberLen(m)
        /\ f.user = IF IsComposite(r.leaf) /\ r.named THEN TypeName(r.leaf) ELSE NoName
    BY <1>5 DEF MemberLen
  <2>. HIDE DEF f
  <2>. QED BY <1>5, <2>1, <2>2
<1>7. PICK W : W = With(fields, key, field)
  OBVIOUS
<1>8. /\ DOMAIN W = DOMAIN fields \cup {key} /\ W[key] = field
      /\ \A x \in DOMAIN fields : x # key => W[x] = fields[x]
  BY <1>7 DEF With
<1>9. Filled(W, id, n)
  <2>1. /\ DOMAIN fields = {Key(id, k) : k \in 1 .. n - 1} /\ n \in 1 .. Len(Types[id].members)
        /\ \A k \in 1 .. n - 1 : Tells(fields[Key(id, k)], Types[id].members[k])
    BY <1>3, <1>4, <1>5 DEF FrameHolds, Filled
  <2>2. n \in Nat \ {0} /\ 1 .. n = (1 .. n - 1) \cup {n}
    BY <1>4, <2>1
  <2>3. DOMAIN W = {Key(id, k) : k \in 1 .. n}
    BY <1>6, <1>8, <2>1, <2>2, Zenon
  <2>4. Tells(W[Key(id, n)], Types[id].members[n])
    <3>1. m = Types[id].members[n] /\ r = MemberRef(m)
      BY <1>5 DEF Current
    <3>2. IsComposite(r.leaf) => r.leaf \in DOMAIN type_names /\ TypeName(r.leaf) = type_names[r.leaf]
      BY <1>5 DEF TypeName
    <3>3. Tells(field, m)
      BY <1>6, <3>1, <3>2 DEF Tells
    <3>. QED BY <1>6, <1>8, <3>1, <3>3
  <2>5. ASSUME NEW k \in 1 .. n - 1 PROVE Tells(W[Key(id, k)], Types[id].members[k])
    <3>1. k \in DOMAIN Types[id].members /\ n \in DOMAIN Types[id].members /\ k # n
      BY <1>4, <1>5, <2>1, <2>2
    <3>2. Key(id, k) # Key(id, n)
      BY <1>3, <1>5, <3>1, KeysApart DEF FaithInv
    <3>3. W[Key(id, k)] = fields[Key(id, k)]
      BY <1>6, <1>8, <2>1, <3>2
    <3>. QED BY <2>1, <3>3
  <2>. QED BY <2>2, <2>3, <2>4, <2>5 DEF Filled
<1>10. Filled(W, id, n)'
  BY <1>9, StillFilled
<1>11. PICK e : e = [id |-> id, next |-> n + 1, fields |-> W]
  OBVIOUS
<1>12. /\ DOMAIN stack' = DOMAIN stack /\ stack'[Len(stack)] = e
       /\ \A i \in DOMAIN stack : i # Len(stack) => stack'[i] = stack[i]
       /\ \A i \in DOMAIN stack : stack'[i].id = stack[i].id
  BY <1>2, <1>5, <1>6, <1>7, <1>11 DEF Top
<1>13. FrameHolds(e)'
  <2>1. e.id = id /\ e.next = n + 1 /\ e.fields = W /\ n \in Nat /\ (n + 1) - 1 = n
    BY <1>4, <1>5, <1>11
  <2>2. id \in DOMAIN Types' /\ IsComposite(id)' /\ n + 1 \in 1 .. Len(Types'[id].members) + 1
    BY <1>3, <1>4, <1>5, SectionKept DEF FrameHolds
  <2>. QED BY <1>10, <2>1, <2>2 DEF FrameHolds
<1>14. ASSUME NEW i \in DOMAIN stack' PROVE FrameHolds(stack[i])'
  <2>1. CASE i = Len(stack)
    BY <1>12, <1>13, <2>1
  <2>2. CASE i # Len(stack)
    <3>1. PICK f : f = stack[i]
      OBVIOUS
    <3>2. FrameHolds(f)' /\ f = stack'[i]
      BY <1>12, <2>2, <3>1, FrameStill DEF FaithInv
    <3>. QED BY <3>2
  <2>. QED BY <2>1, <2>2
<1>15. ASSUME NEW a \in DOMAIN type_names', IsComposite(a)'
       PROVE  Stored(a)' /\ (Open(a)' \/ Complete(a)')
  <2>1. a \in DOMAIN type_names /\ IsComposite(a)
    BY <1>15, SectionKept
  <2>2. Stored(a) /\ (Open(a) \/ Complete(a)) /\ type_names[a] \in DOMAIN user_types'
    BY <2>1 DEF FaithInv, Stored
  <2>3. Stored(a)' /\ (Complete(a) => Complete(a)')
    BY <2>1, <2>2, EntryStill
  <2>4. Open(a) => Open(a)'
    BY <1>12 DEF Open
  <2>. QED BY <2>2, <2>3, <2>4
<1>16. /\ file' \in Images /\ source' \in {"btf", "dwarf"} /\ pc' = "resolve"
       /\ DOMAIN user_types' \subseteq used_names'
  BY DEF FaithInv
<1>. QED BY <1>14, <1>15, <1>16 DEF FaithInv, Resolved

\* A type whose members are all done is complete.
LEMMA LeaveFaithful ==
  ASSUME NoClash, FaithInv, NamesInv, StackInv, Leave
  PROVE  FaithInv'
<1>1. PICK S : stack \in Seq(S)
  BY DEF StackInv, StackIsSeq
<1>2. /\ UNCHANGED <<file, pc, source, type_names, used_names>> /\ pc = "resolve"
      /\ stack # <<>> /\ Len(stack) \in Nat /\ DOMAIN stack = 1 .. Len(stack) /\ Len(stack) \in DOMAIN stack
      /\ \A i \in DOMAIN stack' : i \in DOMAIN stack /\ stack'[i] = stack[i]
      /\ \A i \in DOMAIN stack : i # Len(stack) => i \in DOMAIN stack'
  BY <1>1 DEF Leave, Popped
<1>3. PICK id, fields : id = Top.id /\ fields = Top.fields
  OBVIOUS
<1>4. FrameHolds(Top) /\ id \in DOMAIN Types /\ id \in DOMAIN type_names /\ IsComposite(id)
  BY <1>2, <1>3 DEF FaithInv, Top, FrameHolds, StackInv, StackSeeded
<1>5. Top.next - 1 = Len(Types[id].members)
  <2>1. Len(Types[id].members) \in Nat
    BY <1>4, TypesAreSequences DEF FaithInv
  <2>2. Top.next \in 1 .. Len(Types[id].members) + 1 /\ Top.next > Len(Types[id].members)
    BY <1>3, <1>4 DEF FrameHolds, Leave
  <2>. QED BY <2>1, <2>2
<1>6. Filled(fields, id, Len(Types[id].members))
  BY <1>3, <1>4, <1>5 DEF FrameHolds
<1>7. PICK name : name = type_names[id] /\ name = TypeName(id) /\ name \in DOMAIN user_types
  BY <1>4 DEF TypeName, FaithInv, Stored
<1>8. PICK old : user_types[name] = [size |-> Types[id].size, fields |-> old]
  BY <1>4, <1>7 DEF FaithInv, Stored
<1>9. user_types' = [user_types EXCEPT ![name].fields = fields]
  BY <1>3, <1>7 DEF Leave
<1>10. /\ DOMAIN user_types' = DOMAIN user_types
       /\ user_types'[name] = [size |-> Types[id].size, fields |-> fields]
       /\ \A x \in DOMAIN user_types : x # name => user_types'[x] = user_types[x]
  BY <1>7, <1>8, <1>9
<1>11. ASSUME NEW i \in DOMAIN stack' PROVE FrameHolds(stack[i])'
  <2>1. PICK f : f = stack[i]
    OBVIOUS
  <2>2. FrameHolds(f)' /\ f = stack'[i]
    BY <1>2, <2>1, FrameStill DEF FaithInv
  <2>. QED BY <2>2
<1>12. ASSUME NEW a \in DOMAIN type_names', IsComposite(a)'
       PROVE  Stored(a)' /\ (Open(a)' \/ Complete(a)')
  <2>1. a \in DOMAIN type_names /\ IsComposite(a) /\ Types' = Types
    BY <1>2, <1>12, SectionKept
  <2>2. CASE a = id
    <3>1. Stored(a)'
      <4>1. a \in DOMAIN Types' /\ type_names'[a] = name
        BY <1>2, <1>4, <1>7, <2>1, <2>2
      <4>2. name \in DOMAIN user_types' /\ user_types'[name] = [size |-> Types'[a].size, fields |-> fields]
        BY <1>7, <1>10, <2>1, <2>2
      <4>. QED BY <4>1, <4>2 DEF Stored
    <3>2. PICK n : n = Len(Types[id].members)
      OBVIOUS
    <3>3. Filled(fields, id, n)'
      BY <1>2, <1>6, <3>2, StillFilled
    <3>4. n = Len(Types'[a].members)
      BY <2>1, <2>2, <3>2
    <3>5. user_types'[type_names'[a]].fields = fields
      <4>1. type_names'[a] = name
        BY <1>2, <1>7, <2>2
      <4>2. user_types'[name].fields = fields
        BY <1>10
      <4>. QED BY <4>1, <4>2
    <3>6. Complete(a)'
      BY <2>2, <3>3, <3>4, <3>5 DEF Complete
    <3>. QED BY <3>1, <3>6
  <2>3. CASE a # id
    <3>1. Stored(a) /\ (Open(a) \/ Complete(a)) /\ type_names[a] \in DOMAIN user_types'
      BY <1>10, <2>1 DEF FaithInv, Stored
    <3>2. type_names[a] # name
      BY <1>4, <1>7, <2>1, <2>3, NamesDiffer
    <3>3. user_types'[type_names[a]] = user_types[type_names[a]]
      BY <1>10, <3>1, <3>2
    <3>4. Stored(a)' /\ (Complete(a) => Complete(a)')
      BY <1>2, <2>1, <3>1, <3>3, EntryStill
    <3>5. Open(a) => Open(a)'
      BY <1>2, <1>3, <2>3 DEF Open, Top
    <3>. QED BY <3>1, <3>4, <3>5
  <2>. QED BY <2>2, <2>3
<1>13. /\ file' \in Images /\ source' \in {"btf", "dwarf"} /\ pc' = "resolve"
       /\ DOMAIN user_types' \subseteq used_names'
  BY <1>2, <1>10 DEF FaithInv
<1>. QED BY <1>11, <1>12, <1>13 DEF FaithInv, Resolved

\* Steps that leave the stack and the entries alone, and name no struct or union.
LEMMA KeptFaithful ==
  ASSUME FaithInv, UNCHANGED <<file, source, stack, user_types>>,
         \A a \in DOMAIN type_names : a \in DOMAIN type_names' /\ type_names'[a] = type_names[a],
         \A a \in DOMAIN type_names' : IsComposite(a) => a \in DOMAIN type_names,
         used_names \subseteq used_names',
         pc' \in {"elf", "banner", "section", "parse"} => pc \in {"elf", "banner", "section", "parse"},
         pc' \in {"elf", "banner", "section", "parse"} => DOMAIN type_names' = {},
         pc' \in Resolved => stack = <<>>
  PROVE  FaithInv'
<1>1. ASSUME NEW i \in DOMAIN stack' PROVE FrameHolds(stack[i])'
  <2>1. PICK f : f = stack[i]
    OBVIOUS
  <2>2. FrameHolds(f)' /\ f = stack'[i]
    BY <2>1, FrameStill DEF FaithInv
  <2>. QED BY <2>2
<1>2. ASSUME NEW a \in DOMAIN type_names', IsComposite(a)'
      PROVE  Stored(a)' /\ (Open(a)' \/ Complete(a)')
  <2>1. a \in DOMAIN type_names /\ IsComposite(a)
    BY <1>2, SectionKept
  <2>2. Stored(a) /\ (Open(a) \/ Complete(a)) /\ type_names[a] \in DOMAIN user_types'
    BY <2>1 DEF FaithInv, Stored
  <2>3. Stored(a)' /\ (Complete(a) => Complete(a)')
    BY <2>1, <2>2, EntryStill
  <2>4. Open(a) => Open(a)'
    BY DEF Open
  <2>. QED BY <2>2, <2>3, <2>4
<1>. QED BY <1>1, <1>2 DEF FaithInv

\* The member step of either resolver.
LEMMA MemberFaithful ==
  ASSUME NoClash, FaithInv, NamesInv, StackInv, MemberDue, UNCHANGED <<file, source, pc>>,
         ~Missing(Types, MemberRef(Current)),
         ResolveMember(Key(Top.id, Top.next), MemberOffset(Current), MemberRef(Current))
  PROVE  FaithInv'
<1>1. PICK leaf : leaf = MemberRef(Current).leaf
  OBVIOUS
<1>2. pc = "resolve" /\ (leaf # Void => leaf \in DOMAIN Types)
  BY <1>1 DEF MemberDue, Missing
<1>3. CASE IsComposite(leaf) /\ ~Entered(leaf) /\ Enter(leaf)
  BY <1>2, <1>3, EnterFaithful DEF IsComposite
<1>4. CASE /\ IsComposite(leaf) /\ Entered(leaf) /\ ensure_type_name(leaf) /\ UNCHANGED user_types
           /\ Insert(Key(Top.id, Top.next), MemberOffset(Current), MemberRef(Current))
  <2>1. leaf \in DOMAIN type_names
    BY <1>2, <1>4, EnteredIsNamed DEF IsComposite
  <2>2. DOMAIN type_names' = DOMAIN type_names /\ used_names \subseteq used_names'
        /\ \A a \in DOMAIN type_names : type_names'[a] = type_names[a]
    BY <1>4, <2>1 DEF ensure_type_name, With, TypeName
  <2>. QED BY <1>1, <1>2, <1>4, <2>1, <2>2, InsertFaithful
<1>5. CASE /\ leaf # Void /\ Types[leaf].kind \in Enumeration /\ ensure_type_name(leaf)
           /\ UNCHANGED user_types
           /\ Insert(Key(Top.id, Top.next), MemberOffset(Current), MemberRef(Current))
  <2>1. ~IsComposite(leaf)
    BY <1>5 DEF IsComposite, Composite, Enumeration
  <2>2. DOMAIN type_names' = DOMAIN type_names \cup {leaf} /\ used_names \subseteq used_names'
        /\ \A a \in DOMAIN type_names : type_names'[a] = type_names[a]
    BY <1>5 DEF ensure_type_name, With, TypeName
  <2>. QED BY <1>1, <1>2, <1>5, <2>1, <2>2, InsertFaithful
<1>6. CASE /\ leaf = Void \/ Types[leaf].kind = "other"
           /\ UNCHANGED tables
           /\ Insert(Key(Top.id, Top.next), MemberOffset(Current), MemberRef(Current))
  <2>1. ~IsComposite(leaf)
    BY <1>6 DEF IsComposite, Composite
  <2>. QED BY <1>1, <1>2, <1>6, <2>1, InsertFaithful DEF tables
<1>. QED BY <1>1, <1>3, <1>4, <1>5, <1>6
         DEF ResolveMember, IsComposite, Composite, Enumeration, ensure_enum

\* Every step keeps the invariant.
LEMMA FaithNext ==
  ASSUME NoClash, FaithInv, NamesInv, StackInv, [Next]_vars
  PROVE  FaithInv'
<1>1. CASE BtfMember
  <2>1. /\ source = "btf" /\ MemberDue /\ UNCHANGED <<file, source, pc>>
        /\ BtfRef = MemberRef(Current) /\ BtfMember_offset(Current) = MemberOffset(Current)
    BY <1>1 DEF BtfMember, BtfRef, MemberRef, MemberOffset
  <2>2. FieldKey("btf", Types[Top.id].members, Top.next) = Key(Top.id, Top.next)
    BY <2>1 DEF Key
  <2>3. ~Missing(Types, BtfRef)
        /\ ResolveMember(Key(Top.id, Top.next), BtfMember_offset(Current), BtfRef)
    BY <1>1, <2>2, Zenon DEF BtfMember
  <2>. QED BY <2>1, <2>3, MemberFaithful
<1>2. CASE DwarfMember
  <2>1. /\ source = "dwarf" /\ MemberDue /\ UNCHANGED <<file, source, pc>>
        /\ DwarfRef = MemberRef(Current) /\ dwarf_member_offset(Current) = MemberOffset(Current)
    BY <1>2 DEF DwarfMember, DwarfRef, MemberRef, MemberOffset
  <2>2. FieldKey("dwarf", Types[Top.id].members, Top.next) = Key(Top.id, Top.next)
    BY <2>1 DEF Key
  <2>3. ~Missing(Types, DwarfRef)
        /\ ResolveMember(Key(Top.id, Top.next), dwarf_member_offset(Current), DwarfRef)
    BY <1>2, <2>2, Zenon DEF DwarfMember
  <2>. QED BY <2>1, <2>3, MemberFaithful
<1>3. CASE Leave
  BY <1>3, LeaveFaithful
<1>4. CASE ResolveRoot
  <2>1. PICK id : id = find_named("struct", Roots[root])
    OBVIOUS
  <2>2. UNCHANGED <<file, source, pc>> /\ pc = "resolve"
    BY <1>4 DEF ResolveRoot
  <2>3. id # Void => id \in DOMAIN Types /\ IsComposite(id)
    BY <2>1, FindNamed DEF FaithInv, IsComposite, Composite
  <2>4. CASE id # Void /\ ~Entered(id) /\ Enter(id)
    BY <2>2, <2>3, <2>4, EnterFaithful
  <2>5. CASE id # Void /\ Entered(id) /\ ensure_type_name(id) /\ UNCHANGED <<stack, user_types>>
    <3>1. id \in DOMAIN type_names
      BY <2>3, <2>5, EnteredIsNamed
    <3>2. DOMAIN type_names' = DOMAIN type_names /\ used_names \subseteq used_names'
          /\ \A a \in DOMAIN type_names : type_names'[a] = type_names[a]
      BY <2>5, <3>1 DEF ensure_type_name, With, TypeName
    <3>. QED BY <2>2, <2>5, <3>2, KeptFaithful DEF Resolved
  <2>6. CASE UNCHANGED <<stack, tables>>
    BY <2>2, <2>6, KeptFaithful DEF tables, Resolved
  <2>. QED BY <1>4, <2>1, <2>4, <2>5, <2>6 DEF ResolveRoot
<1>5. CASE ResolveModuleState
  <2>1. PICK id : id = find_named("enum", "module_state")
    OBVIOUS
  <2>2. /\ UNCHANGED <<file, source, stack, user_types>> /\ pc' = "symbols" /\ stack = <<>>
        /\ id # Void /\ ensure_type_name(id)
    BY <1>5, <2>1 DEF ResolveModuleState, ensure_enum
  <2>3. ~IsComposite(id)
    BY <2>1, <2>2, FindNamed DEF FaithInv, IsComposite, Composite
  <2>4. DOMAIN type_names' = DOMAIN type_names \cup {id} /\ used_names \subseteq used_names'
        /\ \A a \in DOMAIN type_names : type_names'[a] = type_names[a]
    BY <2>2 DEF ensure_type_name, With, TypeName
  <2>. QED BY <2>2, <2>3, <2>4, KeptFaithful
<1>6. CASE FallBack \/ section_data_optional
  <2>1. /\ DOMAIN type_names' = {} /\ DOMAIN user_types' = {} /\ stack' = <<>> /\ DOMAIN stack' = {}
        /\ file' = file /\ source' \in {"btf", "dwarf"} /\ pc' \notin Resolved
    BY <1>6 DEF FallBack, section_data_optional, FaithInv, NoFunction, tables, Resolved
  <2>. QED BY <2>1 DEF FaithInv
<1>7. CASE /\ UNCHANGED <<file, source, stack, tables>>
           /\ pc' \in Resolved => pc \in Resolved
           /\ pc' \in {"elf", "banner", "section", "parse"} => pc \in {"elf", "banner", "section", "parse"}
  <2>1. pc' \in {"elf", "banner", "section", "parse"} => DOMAIN type_names' = {}
    BY <1>7 DEF FaithInv, tables
  <2>2. pc' \in Resolved => stack = <<>>
    BY <1>7 DEF FaithInv
  <2>. QED BY <1>7, <2>1, <2>2, KeptFaithful DEF tables
<1>8. CASE UNCHANGED <<file, source, stack, tables, pc>>
  <2>1. pc' \in {"elf", "banner", "section", "parse"} => DOMAIN type_names' = {}
    BY <1>8 DEF FaithInv, tables
  <2>2. pc' \in Resolved => stack = <<>>
    BY <1>8 DEF FaithInv
  <2>. QED BY <1>8, <2>1, <2>2, KeptFaithful DEF tables
<1>9. CASE ParseElf \/ ReadBanner \/ ParseTypes \/ LoadFails \/ LookUpSymbols \/ Convert
  BY <1>7, <1>9 DEF ParseElf, ReadBanner, ParseTypes, LoadFails, LookUpSymbols, Convert, Resolved
<1>. QED BY <1>1, <1>2, <1>3, <1>4, <1>5, <1>6, <1>8, <1>9 DEF Next, vars, Done

\* The invented names of a file do not change.
LEMMA ClashKept ==
  ASSUME [Next]_vars
  PROVE  NoClash' => NoClash
<1>1. file' = file
  BY DEF Next, vars, ParseElf, ReadBanner, section_data_optional, ParseTypes, BtfMember, DwarfMember,
         Leave, ResolveRoot, ResolveModuleState, FallBack, LoadFails, LookUpSymbols, Convert, Done
<1>. QED BY <1>1 DEF NoClash

\* What the initial states are like.
LEMMA AtFirst ==
  ASSUME Init
  PROVE  FaithInv /\ NamesInv /\ StackInv
<1>1. /\ DOMAIN type_names = {} /\ DOMAIN user_types = {} /\ used_names = {} /\ DOMAIN stack = {}
      /\ stack = <<>> /\ <<>> \in Seq({}) /\ pc = "elf" /\ source = "btf" /\ file \in Images
  BY DEF Init, NoFunction
<1>2. NamesInv
  BY <1>1, NoNamesYet
<1>. QED BY <1>1, <1>2 DEF FaithInv, StackInv, StackIsSeq, StackSeeded, SeededOnce, Resolved

(***************************************************************************)
(* When a loader is done, every struct and union it met has in the tables, *)
(* under its own name, its size and one field for each member, at the      *)
(* member's offset and referring to the member's type: for every vmlinux,  *)
(* whatever its types refer to and wherever a BTF resolver gave up, unless *)
(* an invented name is also one of the file's.  The invariant says of a    *)
(* type that is still being resolved that the frame of its call has the    *)
(* fields of the members before the one that is due.                       *)
(***************************************************************************)
THEOREM TablesFaithful == Spec => []ProfileFaithful
<1>. DEFINE Inv == NamesInv /\ StackInv /\ (NoClash => FaithInv)
<1>1. Init => Inv
  <2>. SUFFICES ASSUME Init PROVE Inv
    OBVIOUS
  <2>. QED BY AtFirst
<1>2. Inv /\ [Next]_vars => Inv'
  BY FaithNext, NamesNext, StackNext, ClashKept
<1>3. Inv => ProfileFaithful
  <2>. SUFFICES ASSUME FaithInv, NoClash, pc = "symbols", NEW id \in DOMAIN type_names, IsComposite(id)
                PROVE  LET entry == user_types[type_names[id]]
                           members == Types[id].members
                       IN  /\ type_names[id] \in DOMAIN user_types
                           /\ entry.size = Types[id].size
                           /\ Cardinality(DOMAIN entry.fields) = Len(members)
                           /\ \A k \in DOMAIN members :
                                \E key \in DOMAIN entry.fields :
                                  LET f == entry.fields[key]
                                      r == MemberRef(members[k])
                                  IN  /\ f.anonymous = (members[k].name = "")
                                      /\ members[k].name # "" => key = members[k].name
                                      /\ f.offset = MemberOffset(members[k]) /\ f.len = MemberLen(members[k])
                                      /\ IF IsComposite(r.leaf) /\ r.named
                                           THEN r.leaf \in DOMAIN type_names /\ f.user = type_names[r.leaf]
                                           ELSE f.user = NoName
    BY DEF ProfileFaithful
  <2>1. Stored(id) /\ Complete(id)
    BY DEF FaithInv, Open, Resolved
  <2>2. PICK fields : user_types[type_names[id]] = [size |-> Types[id].size, fields |-> fields]
    BY <2>1 DEF Stored
  <2>3. PICK entry : entry = user_types[type_names[id]]
    OBVIOUS
  <2>4. entry.size = Types[id].size /\ entry.fields = fields
    BY <2>2, <2>3
  <2>5. Filled(fields, id, Len(Types[id].members))
    BY <2>1, <2>3, <2>4 DEF Complete
  <2>6. Cardinality(DOMAIN fields) = Len(Types[id].members)
    BY <2>1, <2>5, OneFieldEach DEF FaithInv, Stored
  <2>7. ASSUME NEW k \in DOMAIN Types[id].members
        PROVE  /\ Key(id, k) \in DOMAIN fields
               /\ Tells(fields[Key(id, k)], Types[id].members[k])
               /\ Types[id].members[k].name # "" => Key(id, k) = Types[id].members[k].name
    <3>1. k \in 1 .. Len(Types[id].members)
      BY <2>1, TypesAreSequences DEF FaithInv, Stored
    <3>. QED BY <2>5, <3>1 DEF Filled, Key, FieldKey
  <2>. QED BY <2>1, <2>3, <2>4, <2>6, <2>7, Zenon DEF Tells, Stored
<1>. QED BY <1>1, <1>2, <1>3, PTL DEF Spec

----------------------------------------------------------------------------
(* Searches in nested types *)

(***************************************************************************)
(* resolve_field_inner and Places search in the same way.  A node t has    *)
(* places of its own, own[t], and inner nodes: inner[t] has pairs of an    *)
(* offset and a node.  What is found at one level, given what is found     *)
(* below it:                                                               *)
(***************************************************************************)
Shifted(r, e) == [offset |-> r.offset + e[1], len |-> r.len]
FoundAt(own, inner, below, t) ==
  own[t] \cup UNION {{Shifted(r, e) : r \in below[e[2]]} : e \in inner[t]}
Level(own, inner, below) == [t \in DOMAIN own |-> FoundAt(own, inner, below, t)]
Nothing(own) == [t \in DOMAIN own |-> {}]
IsSearch(f, own, inner) ==
  f = [d \in 0 .. MaxNesting + 1 |->
         IF d > MaxNesting THEN Nothing(own) ELSE Level(own, inner, f[d + 1])]

\* There is such a search, as a level depends only on the one below it.
LEMMA SearchExists ==
  ASSUME NEW own, NEW inner
  PROVE  \E f : IsSearch(f, own, inner)
<1>. DEFINE N == MaxNesting + 1
            At(f, d) == IF d > MaxNesting THEN Nothing(own) ELSE Level(own, inner, f[d + 1])
            Good(f, n) == /\ f = [d \in 0 .. N |-> f[d]]
                          /\ \A d \in 0 .. N : d + n >= N => f[d] = At(f, d)
            Bad == {n \in 0 .. N : \A f : ~Good(f, n)}
<1>1. N \in Nat /\ MaxNesting \in Nat
  BY RawAssumption
<1>2. \A f, g : \A d \in 0 .. N : f[d + 1] = g[d + 1] => At(f, d) = At(g, d)
  OBVIOUS
<1>3. \A d \in 0 .. N : d + 0 >= N => \A f : At(f, d) = Nothing(own)
  BY <1>1
<1>. HIDE DEF At
<1>4. Bad = {}
  <2>. SUFFICES ASSUME Bad # {} PROVE FALSE
    OBVIOUS
  <2>0. Bad \subseteq Nat
    BY <1>1
  <2>1. PICK n \in Bad : \A j \in Bad : n <= j
    <3>. HIDE DEF Bad
    <3>. QED BY <2>0, LeastNumber
  <2>2. CASE n = 0
    <3>. DEFINE f == [d \in 0 .. N |-> Nothing(own)]
    <3>1. f = [d \in 0 .. N |-> f[d]]
      OBVIOUS
    <3>2. \A d \in 0 .. N : d + n >= N => f[d] = At(f, d)
      BY <1>3, <2>2
    <3>. HIDE DEF f
    <3>. QED BY <3>1, <3>2
  <2>3. CASE n > 0
    <3>1. n - 1 \in 0 .. N /\ n - 1 \notin Bad
      BY <1>1, <2>1, <2>3
    <3>2. PICK f : Good(f, n - 1)
      BY <3>1
    <3>. DEFINE g == [d \in 0 .. N |-> IF d + n = N THEN At(f, d) ELSE f[d]]
    <3>3. g = [d \in 0 .. N |-> g[d]]
      OBVIOUS
    <3>4. ASSUME NEW d \in 0 .. N, d + n >= N PROVE g[d] = At(g, d)
      <4>1. CASE d = N
        <5>1. At(g, d) = At(f, d)
          BY <1>1, <1>3, <4>1
        <5>2. d + n # N /\ d + (n - 1) >= N
          BY <1>1, <2>3, <4>1
        <5>. QED BY <3>2, <5>1, <5>2
      <4>2. CASE d # N
        <5>1. d + 1 \in 0 .. N /\ (d + 1) + n # N
          BY <1>1, <2>3, <3>4, <4>2
        <5>2. g[d + 1] = f[d + 1]
          BY <5>1
        <5>3. At(g, d) = At(f, d)
          BY <1>2, <5>2
        <5>4. CASE d + n = N
          BY <5>3, <5>4
        <5>5. CASE d + n # N
          <6>1. d + (n - 1) >= N
            BY <1>1, <2>3, <3>4, <5>5
          <6>. QED BY <3>2, <5>3, <5>5, <6>1
        <5>. QED BY <5>4, <5>5
      <4>. QED BY <4>1, <4>2
    <3>. HIDE DEF g
    <3>5. Good(g, n)
      BY <3>3, <3>4
    <3>. QED BY <3>5
  <2>. QED BY <1>1, <2>2, <2>3
<1>5. N \in 0 .. N /\ N \notin Bad
  BY <1>1, <1>4
<1>6. PICK f : Good(f, N)
  BY <1>5
<1>7. \A d \in 0 .. N : f[d] = At(f, d)
  BY <1>1, <1>6
<1>8. f = [d \in 0 .. N |-> At(f, d)]
  BY <1>6, <1>7
<1>. QED BY <1>8 DEF IsSearch, At

\* The levels of a search.
LEMMA SearchLevel ==
  ASSUME NEW f, NEW own, NEW inner, IsSearch(f, own, inner), NEW d \in 0 .. MaxNesting,
         NEW t \in DOMAIN own
  PROVE  f[d][t] = FoundAt(own, inner, f[d + 1], t)
<1>1. d \in 0 .. MaxNesting + 1 /\ ~(d > MaxNesting)
  BY RawAssumption
<1>2. f[d] = Level(own, inner, f[d + 1])
  BY <1>1 DEF IsSearch
<1>. QED BY <1>2 DEF Level

LEMMA SearchBottom ==
  ASSUME NEW f, NEW own, NEW inner, IsSearch(f, own, inner), NEW t \in DOMAIN own
  PROVE  f[MaxNesting + 1][t] = {}
<1>1. MaxNesting + 1 \in 0 .. MaxNesting + 1 /\ MaxNesting + 1 > MaxNesting
  BY RawAssumption
<1>2. f[MaxNesting + 1] = Nothing(own)
  BY <1>1 DEF IsSearch
<1>. QED BY <1>2 DEF Nothing

\* Nothing is found at a node that has nothing.
LEMMA SearchEmpty ==
  ASSUME NEW f, NEW own, NEW inner, IsSearch(f, own, inner), NEW t \in DOMAIN own,
         own[t] = {}, inner[t] = {}
  PROVE  f[0][t] = {}
<1>1. 0 \in 0 .. MaxNesting
  BY RawAssumption
<1>2. f[0][t] = FoundAt(own, inner, f[0 + 1], t)
  BY <1>1, SearchLevel
<1>. QED BY <1>2 DEF FoundAt

(***************************************************************************)
(* R relates the nodes of two searches such that what one has at a node    *)
(* the other has at the related one.  Then it finds no less.               *)
(***************************************************************************)
Matches(own1, inner1, own2, inner2, R) ==
  \A a, b : <<a, b>> \in R =>
    /\ a \in DOMAIN own1 /\ b \in DOMAIN own2
    /\ own1[a] \subseteq own2[b]
    /\ \A e \in inner1[a] : \E g \in inner2[b] : g[1] = e[1] /\ <<e[2], g[2]>> \in R

LEMMA SearchWithin ==
  ASSUME NEW f1, NEW own1, NEW inner1, IsSearch(f1, own1, inner1),
         NEW f2, NEW own2, NEW inner2, IsSearch(f2, own2, inner2),
         NEW R, Matches(own1, inner1, own2, inner2, R)
  PROVE  \A a, b : <<a, b>> \in R => f1[0][a] \subseteq f2[0][b]
<1>. \A a, b : <<a, b>> \in R =>
       /\ a \in DOMAIN own1 /\ b \in DOMAIN own2
       /\ own1[a] \subseteq own2[b]
       /\ \A e \in inner1[a] : \E g \in inner2[b] : g[1] = e[1] /\ <<e[2], g[2]>> \in R
  BY Zenon DEF Matches
<1>. DEFINE N == MaxNesting + 1
            Within(d) == \A a, b : <<a, b>> \in R => f1[d][a] \subseteq f2[d][b]
            Bad == {n \in 0 .. N : ~Within(N - n)}
<1>0. \A d \in 0 .. MaxNesting :
        /\ \A a \in DOMAIN own1 : f1[d][a] = FoundAt(own1, inner1, f1[d + 1], a)
        /\ \A b \in DOMAIN own2 : f2[d][b] = FoundAt(own2, inner2, f2[d + 1], b)
  BY SearchLevel
<1>1. N \in Nat /\ MaxNesting \in Nat
  BY RawAssumption
<1>2. Within(N)
  <2>. SUFFICES ASSUME NEW a, NEW b, <<a, b>> \in R PROVE f1[N][a] \subseteq f2[N][b]
    OBVIOUS
  <2>1. a \in DOMAIN own1
    OBVIOUS
  <2>2. f1[N][a] = {}
    BY <2>1, SearchBottom, Zenon
  <2>. QED BY <2>2
<1>3. ASSUME NEW d \in 0 .. MaxNesting, Within(d + 1) PROVE Within(d)
  <2>. SUFFICES ASSUME NEW a, NEW b, <<a, b>> \in R, NEW x \in f1[d][a] PROVE x \in f2[d][b]
    OBVIOUS
  <2>1. a \in DOMAIN own1 /\ b \in DOMAIN own2
    OBVIOUS
  <2>2. f1[d][a] = FoundAt(own1, inner1, f1[d + 1], a)
    BY <1>0, <2>1
  <2>3. f2[d][b] = FoundAt(own2, inner2, f2[d + 1], b)
    BY <1>0, <2>1
  <2>4. CASE x \in own1[a]
    BY <2>3, <2>4 DEF FoundAt
  <2>5. CASE x \notin own1[a]
    <3>1. PICK e \in inner1[a] : \E r \in f1[d + 1][e[2]] : x = Shifted(r, e)
      BY <2>2, <2>5 DEF FoundAt
    <3>2. PICK r \in f1[d + 1][e[2]] : x = Shifted(r, e)
      BY <3>1
    <3>3. PICK g \in inner2[b] : g[1] = e[1] /\ <<e[2], g[2]>> \in R
      OBVIOUS
    <3>4. r \in f2[d + 1][g[2]]
      BY <1>3, <3>2, <3>3
    <3>5. x = Shifted(r, g)
      BY <3>2, <3>3 DEF Shifted
    <3>. QED BY <2>3, <3>3, <3>4, <3>5 DEF FoundAt
  <2>. QED BY <2>4, <2>5
<1>. HIDE DEF Within
<1>4. Bad = {}
  <2>. SUFFICES ASSUME Bad # {} PROVE FALSE
    OBVIOUS
  <2>0. Bad \subseteq Nat
    BY <1>1
  <2>1. PICK n \in Bad : \A j \in Bad : n <= j
    <3>. HIDE DEF Bad
    <3>. QED BY <2>0, LeastNumber
  <2>2. n \in 0 .. N /\ n # 0
    <3>1. N - 0 = N
      BY <1>1
    <3>. QED BY <1>2, <3>1
  <2>3. n - 1 \in 0 .. N /\ n - 1 \notin Bad
    BY <1>1, <2>1, <2>2
  <2>4. N - n \in 0 .. MaxNesting /\ N - (n - 1) = (N - n) + 1
    BY <1>1, <2>2
  <2>5. Within((N - n) + 1)
    BY <2>3, <2>4 DEF FoundAt
  <2>. QED BY <1>3, <2>4, <2>5
<1>5. N \in 0 .. N /\ N - N = 0
  BY <1>1
<1>. QED BY <1>4, <1>5 DEF Within

\* The search that resolve_field_inner makes.
RawOwn(raw, type, name) ==
  [t \in DOMAIN raw.user_types \cup {type} |->
     IF t \in DOMAIN raw.user_types /\ name \in DOMAIN raw.user_types[t].fields
       THEN {Displaced(raw.user_types[t].fields[name], 0)} ELSE {}]
RawNested(raw, t) ==
  {k \in DOMAIN raw.user_types[t].fields :
     /\ raw.user_types[t].fields[k].anonymous
     /\ raw.user_types[t].fields[k].user # NoName}
RawEdge(raw, t, k) == <<raw.user_types[t].fields[k].offset, raw.user_types[t].fields[k].user>>
RawInner(raw, type, name) ==
  [t \in DOMAIN raw.user_types \cup {type} |->
     IF t \in DOMAIN raw.user_types /\ name \notin DOMAIN raw.user_types[t].fields
       THEN {RawEdge(raw, t, k) : k \in RawNested(raw, t)} ELSE {}]

LEMMA ResolveIsSearch ==
  ASSUME NEW raw, NEW type, NEW name
  PROVE  \E f : /\ IsSearch(f, RawOwn(raw, type, name), RawInner(raw, type, name))
                /\ resolve_field_inner(raw, type, name) = f[0][type]
<1>. DEFINE types == DOMAIN raw.user_types
            all == types \cup {type}
            own == RawOwn(raw, type, name)
            inner == RawInner(raw, type, name)
            Body(f, depth, t) ==
              IF depth > MaxNesting \/ t \notin types THEN {}
              ELSE LET fields == raw.user_types[t].fields
                   IN  IF name \in DOMAIN fields THEN {Displaced(fields[name], 0)}
                       ELSE UNION {{Displaced(r, fields[k].offset)
                                     : r \in f[depth + 1][fields[k].user]} : k \in RawNested(raw, t)}
            Shape(f) == f = [depth \in 0 .. MaxNesting + 1 |-> [t \in all |-> Body(f, depth, t)]]
<1>1. resolve_field_inner(raw, type, name) = (CHOOSE f : Shape(f))[0][type]
  BY Zenon DEF resolve_field_inner, RawNested
<1>2. ASSUME NEW f, NEW d \in 0 .. MaxNesting + 1
      PROVE  (IF d > MaxNesting THEN Nothing(own) ELSE Level(own, inner, f[d + 1]))
               = [t \in all |-> Body(f, d, t)]
  <2>0. DOMAIN own = all
    BY DEF RawOwn
  <2>1. CASE d > MaxNesting
    BY <2>0, <2>1 DEF Nothing
  <2>2. CASE ~(d > MaxNesting)
    <3>1. ASSUME NEW t \in all PROVE FoundAt(own, inner, f[d + 1], t) = Body(f, d, t)
      <4>1. CASE t \notin types
        <5>1. own[t] = {} /\ inner[t] = {}
          BY <4>1 DEF RawOwn, RawInner
        <5>. QED BY <4>1, <5>1 DEF FoundAt
      <4>2. CASE t \in types /\ name \in DOMAIN raw.user_types[t].fields
        <5>1. own[t] = {Displaced(raw.user_types[t].fields[name], 0)} /\ inner[t] = {}
          BY <4>2 DEF RawOwn, RawInner
        <5>2. Body(f, d, t) = {Displaced(raw.user_types[t].fields[name], 0)}
          BY <2>2, <4>2
        <5>. HIDE DEF Body
        <5>. QED BY <5>1, <5>2 DEF FoundAt
      <4>3. CASE t \in types /\ name \notin DOMAIN raw.user_types[t].fields
        <5>1. own[t] = {} /\ inner[t] = {RawEdge(raw, t, k) : k \in RawNested(raw, t)}
          BY <4>3 DEF RawOwn, RawInner
        <5>2. Body(f, d, t) = UNION {{Displaced(r, raw.user_types[t].fields[k].offset)
                                       : r \in f[d + 1][raw.user_types[t].fields[k].user]}
                                      : k \in RawNested(raw, t)}
          BY <2>2, <4>3
        <5>3. \A k : LET e == RawEdge(raw, t, k)
                     IN  /\ e[2] = raw.user_types[t].fields[k].user
                         /\ \A r : Shifted(r, e) = Displaced(r, raw.user_types[t].fields[k].offset)
          BY DEF RawEdge, Shifted, Displaced
        <5>. HIDE DEF Body, own, inner
        <5>4. FoundAt(own, inner, f[d + 1], t)
                = UNION {{Shifted(r, e) : r \in f[d + 1][e[2]]} : e \in inner[t]}
          BY <5>1 DEF FoundAt
        <5>5. ASSUME NEW x PROVE x \in FoundAt(own, inner, f[d + 1], t) <=> x \in Body(f, d, t)
          <6>1. x \in FoundAt(own, inner, f[d + 1], t)
                  <=> \E k \in RawNested(raw, t) :
                        \E r \in f[d + 1][RawEdge(raw, t, k)[2]] : x = Shifted(r, RawEdge(raw, t, k))
            BY <5>1, <5>4
          <6>2. x \in Body(f, d, t)
                  <=> \E k \in RawNested(raw, t) :
                        \E r \in f[d + 1][raw.user_types[t].fields[k].user] :
                          x = Displaced(r, raw.user_types[t].fields[k].offset)
            BY <5>2
          <6>. QED BY <5>3, <6>1, <6>2
        <5>. QED BY <5>5
      <4>. QED BY <4>1, <4>2, <4>3
    <3>2. Level(own, inner, f[d + 1]) = [t \in all |-> FoundAt(own, inner, f[d + 1], t)]
      BY <2>0 DEF Level
    <3>. HIDE DEF Body, own, inner, all
    <3>. QED BY <2>2, <3>1, <3>2
  <2>. QED BY <2>1, <2>2
<1>. HIDE DEF Body, own, inner, all
<1>3. \A f : IsSearch(f, own, inner) <=> Shape(f)
  BY <1>2 DEF IsSearch
<1>4. \E f : Shape(f)
  BY <1>3, SearchExists
<1>5. Shape(CHOOSE f : Shape(f))
  BY <1>4
<1>. QED BY <1>1, <1>3, <1>5 DEF own, inner

\* The search that Places makes in the section.
SectionOwn(name) == [t \in DOMAIN Types |-> OwnPlaces(t, name)]
SectionEdge(m) == <<MemberOffset(m), MemberRef(m).leaf>>
SectionInner == [t \in DOMAIN Types |-> {SectionEdge(m) : m \in Unnamed(t)}]

LEMMA PlacesIsSearch ==
  ASSUME NEW name
  PROVE  \E f : /\ IsSearch(f, SectionOwn(name), SectionInner)
                /\ \A id : Places(id, name) = f[0][id]
<1>. DEFINE own == SectionOwn(name)
            Body(f, depth, t) ==
              IF depth > MaxNesting THEN {}
              ELSE OwnPlaces(t, name)
                     \cup UNION {{[offset |-> r.offset + MemberOffset(m), len |-> r.len]
                                   : r \in f[depth + 1][MemberRef(m).leaf]} : m \in Unnamed(t)}
            Shape(f) == f = [depth \in 0 .. MaxNesting + 1 |-> [t \in DOMAIN Types |-> Body(f, depth, t)]]
<1>1. \A id : Places(id, name) = (CHOOSE f : Shape(f))[0][id]
  BY Zenon DEF Places
<1>2. ASSUME NEW f, NEW d \in 0 .. MaxNesting + 1
      PROVE  (IF d > MaxNesting THEN Nothing(own) ELSE Level(own, SectionInner, f[d + 1]))
               = [t \in DOMAIN Types |-> Body(f, d, t)]
  <2>0. DOMAIN own = DOMAIN Types
    BY DEF SectionOwn
  <2>1. CASE d > MaxNesting
    BY <2>0, <2>1 DEF Nothing
  <2>2. CASE ~(d > MaxNesting)
    <3>1. ASSUME NEW t \in DOMAIN Types PROVE FoundAt(own, SectionInner, f[d + 1], t) = Body(f, d, t)
      <4>1. own[t] = OwnPlaces(t, name) /\ SectionInner[t] = {SectionEdge(m) : m \in Unnamed(t)}
        BY DEF SectionOwn, SectionInner
      <4>2. Body(f, d, t) = OwnPlaces(t, name)
                     \cup UNION {{[offset |-> r.offset + MemberOffset(m), len |-> r.len]
                                   : r \in f[d + 1][MemberRef(m).leaf]} : m \in Unnamed(t)}
        BY <2>2
      <4>3. \A m : LET e == SectionEdge(m)
                   IN  /\ e[2] = MemberRef(m).leaf
                       /\ \A r : Shifted(r, e) = [offset |-> r.offset + MemberOffset(m), len |-> r.len]
        BY DEF SectionEdge, Shifted
      <4>. HIDE DEF Body, own
      <4>4. ASSUME NEW x PROVE x \in FoundAt(own, SectionInner, f[d + 1], t) <=> x \in Body(f, d, t)
        <5>1. x \in FoundAt(own, SectionInner, f[d + 1], t)
                <=> \/ x \in OwnPlaces(t, name)
                    \/ \E m \in Unnamed(t) :
                         \E r \in f[d + 1][SectionEdge(m)[2]] : x = Shifted(r, SectionEdge(m))
          BY <4>1 DEF FoundAt
        <5>2. x \in Body(f, d, t)
                <=> \/ x \in OwnPlaces(t, name)
                    \/ \E m \in Unnamed(t) : \E r \in f[d + 1][MemberRef(m).leaf] :
                         x = [offset |-> r.offset + MemberOffset(m), len |-> r.len]
          BY <4>2
        <5>. QED BY <4>3, <5>1, <5>2
      <4>. QED BY <4>4
    <3>2. Level(own, SectionInner, f[d + 1])
            = [t \in DOMAIN Types |-> FoundAt(own, SectionInner, f[d + 1], t)]
      BY <2>0 DEF Level
    <3>. HIDE DEF Body, own
    <3>. QED BY <2>2, <3>1, <3>2
  <2>. QED BY <2>1, <2>2
<1>. HIDE DEF Body, own
<1>3. \A f : IsSearch(f, own, SectionInner) <=> Shape(f)
  BY <1>2 DEF IsSearch
<1>4. \E f : Shape(f)
  BY <1>3, SearchExists
<1>5. Shape(CHOOSE f : Shape(f))
  BY <1>4
<1>. QED BY <1>1, <1>3, <1>5 DEF own


----------------------------------------------------------------------------
(* The defs say what the section says *)

\* An entry of user_types is that of a struct or union that has the name, and
\* a name is the type's own, with or without its number.
KeysNamed ==
  \A n \in DOMAIN user_types : \E id \in DOMAIN type_names : IsComposite(id) /\ type_names[id] = n
DefsMade == pc = "ok" => defs = from_raw(Raw)

\* Steps that enter nothing in user_types.
LEMMA KeysKept ==
  ASSUME KeysNamed, UNCHANGED <<file, source>>, DOMAIN user_types' = DOMAIN user_types,
         \A a \in DOMAIN type_names : a \in DOMAIN type_names' /\ type_names'[a] = type_names[a]
  PROVE  KeysNamed'
BY SectionKept DEF KeysNamed

LEMMA KeysEnter ==
  ASSUME KeysNamed, UNCHANGED <<file, source>>, NEW id, IsComposite(id), Enter(id)
  PROVE  KeysNamed'
<1>1. DOMAIN user_types' = DOMAIN user_types \cup {TypeName(id)} /\ ensure_type_name(id)
  BY DEF Enter, Seeded, With
<1>. QED BY <1>1, NamesGrow, SectionKept DEF KeysNamed

LEMMA TablesNext ==
  ASSUME FaithInv, KeysNamed, [Next]_vars
  PROVE  KeysNamed'
<1>. DEFINE Grew(id) == /\ ensure_type_name(id)
                        /\ \/ UNCHANGED user_types
                           \/ IsComposite(id) /\ Enter(id)
<1>1. ASSUME NEW id, Grew(id), UNCHANGED <<file, source>> PROVE KeysNamed'
  <2>1. CASE UNCHANGED user_types
    BY <1>1, <2>1, NamesGrow, KeysKept
  <2>2. CASE IsComposite(id) /\ Enter(id)
    BY <1>1, <2>2, KeysEnter
  <2>. QED BY <1>1, <2>1, <2>2
<1>2. ASSUME UNCHANGED <<file, source, type_names>>, DOMAIN user_types' = DOMAIN user_types
      PROVE  KeysNamed'
  BY <1>2, KeysKept
<1>3. CASE BtfMember \/ DwarfMember
  <2>1. PICK key, offset, r : ResolveMember(key, offset, r)
    BY <1>3 DEF BtfMember, DwarfMember
  <2>2. Grew(r.leaf) \/ UNCHANGED tables
    BY <2>1 DEF ResolveMember, Enter, ensure_enum, IsComposite, Composite
  <2>3. UNCHANGED <<file, source>>
    BY <1>3 DEF BtfMember, DwarfMember
  <2>. HIDE DEF Grew
  <2>. QED BY <1>1, <1>2, <2>2, <2>3 DEF tables
<1>4. CASE ResolveRoot
  <2>1. PICK id : id = find_named("struct", Roots[root])
    OBVIOUS
  <2>2. id # Void => IsComposite(id)
    BY <2>1, FindNamed DEF FaithInv, IsComposite, Composite
  <2>3. Grew(id) \/ UNCHANGED tables
    BY <1>4, <2>1, <2>2 DEF ResolveRoot, Enter
  <2>4. UNCHANGED <<file, source>>
    BY <1>4 DEF ResolveRoot
  <2>. HIDE DEF Grew
  <2>. QED BY <1>1, <1>2, <2>3, <2>4 DEF tables
<1>5. CASE ResolveModuleState
  BY <1>1, <1>5 DEF ResolveModuleState, ensure_enum
<1>6. CASE FallBack \/ section_data_optional
  <2>1. DOMAIN type_names' = {} /\ DOMAIN user_types' = {}
    BY <1>6 DEF FallBack, section_data_optional, FaithInv, NoFunction, tables
  <2>. QED BY <2>1 DEF KeysNamed
<1>7. CASE Leave
  <2>1. UNCHANGED <<file, source, type_names>> /\ DOMAIN user_types' = DOMAIN user_types
    BY <1>7 DEF Leave
  <2>. QED BY <1>2, <2>1
<1>8. CASE UNCHANGED <<file, source, tables>>
  BY <1>2, <1>8 DEF tables
<1>9. CASE ParseElf \/ ReadBanner \/ ParseTypes \/ LoadFails \/ LookUpSymbols \/ Convert
  BY <1>8, <1>9 DEF ParseElf, ReadBanner, ParseTypes, LoadFails, LookUpSymbols, Convert
<1>. QED BY <1>3, <1>4, <1>5, <1>6, <1>7, <1>8, <1>9 DEF Next, vars, Done

LEMMA DefsMadeNext ==
  ASSUME DefsMade, [Next]_vars
  PROVE  DefsMade'
<1>1. CASE Convert
  <2>1. Raw' = Raw
    BY <1>1 DEF Convert, Raw, Symbols, tables
  <2>2. pc' = "ok" => defs' = from_raw(Raw)
    BY <1>1 DEF Convert
  <2>. QED BY <2>1, <2>2 DEF DefsMade
<1>2. CASE UNCHANGED vars
  <2>1. Raw' = Raw /\ UNCHANGED <<pc, defs>>
    BY <1>2 DEF vars, Raw, Symbols, tables
  <2>. QED BY <2>1 DEF DefsMade
<1>3. CASE pc' # "ok"
  BY <1>3 DEF DefsMade
<1>4. CASE \/ ParseElf \/ ReadBanner \/ section_data_optional \/ ParseTypes
           \/ BtfMember \/ DwarfMember \/ Leave \/ ResolveRoot \/ ResolveModuleState
           \/ FallBack \/ LoadFails \/ LookUpSymbols
  BY <1>3, <1>4 DEF ParseElf, ReadBanner, section_data_optional, ParseTypes, BtfMember, DwarfMember,
     MemberDue, Leave, ResolveRoot, ResolveModuleState, FallBack, LoadFails, LookUpSymbols
<1>. QED BY <1>1, <1>2, <1>4 DEF Next, Done

----------------------------------------------------------------------------
LEMMA OffsetsAreNumbers ==
  ASSUME file \in Images, NEW id \in DOMAIN Types, NEW k \in DOMAIN Types[id].members
  PROVE  MemberOffset(Types[id].members[k]) \in Nat
<1>1. Types[id].members[k] \in Member
  BY TypesAreSequences
<1>2. PICK m \in Member : m = Types[id].members[k]
  BY <1>1
<1>3. m.at \in Nat /\ m.by \in {"bit", "byte", "none"}
  BY <1>2 DEF Member
<1>4. m.at \div 8 \in Nat
  BY <1>3
<1>. QED BY <1>2, <1>3, <1>4 DEF MemberOffset, BtfMember_offset, dwarf_member_offset

\* The fields of a type in the tables are those of its members.
LEMMA FieldOfMember ==
  ASSUME FaithInv, pc \in Resolved, NEW id \in DOMAIN type_names, IsComposite(id)
  PROVE  /\ id \in DOMAIN Types /\ type_names[id] \in DOMAIN user_types
         /\ \A key \in DOMAIN user_types[type_names[id]].fields :
              \E k \in DOMAIN Types[id].members :
                key = Key(id, k) /\ Tells(user_types[type_names[id]].fields[key], Types[id].members[k])
<1>1. Stored(id) /\ Complete(id)
  BY DEF FaithInv, Open
<1>2. id \in DOMAIN Types /\ type_names[id] \in DOMAIN user_types
  BY <1>1 DEF Stored
<1>3. DOMAIN Types[id].members = 1 .. Len(Types[id].members)
  BY <1>2, TypesAreSequences DEF FaithInv
<1>. QED BY <1>1, <1>2, <1>3 DEF Complete, Filled

HasName(name) == name # ""

LEMMA PlusZero == \A n \in Nat : n + 0 = n
OBVIOUS

LEMMA EmptyDomain == DOMAIN <<>> = {}
OBVIOUS

\* The tables and the section are searched alike: related are the names of the
\* structs and unions and their numbers.
NamePairs == {<<type_names[id], id>> : id \in {a \in DOMAIN type_names : IsComposite(a)}}

LEMMA TablesMatchSection ==
  ASSUME FaithInv, NoClash, pc \in Resolved, NEW type, NEW name \in FieldNames
  PROVE  Matches(RawOwn(Raw, type, name), RawInner(Raw, type, name), SectionOwn(name), SectionInner, NamePairs)
<1>. SUFFICES ASSUME NEW a, NEW b, <<a, b>> \in NamePairs
              PROVE  /\ a \in DOMAIN RawOwn(Raw, type, name) /\ b \in DOMAIN SectionOwn(name)
                     /\ RawOwn(Raw, type, name)[a] \subseteq SectionOwn(name)[b]
                     /\ \A e \in RawInner(Raw, type, name)[a] :
                          \E g \in SectionInner[b] : g[1] = e[1] /\ <<e[2], g[2]>> \in NamePairs
  BY Zenon DEF Matches
<1>1. b \in DOMAIN type_names /\ IsComposite(b) /\ a = type_names[b]
  BY DEF NamePairs
<1>2. PICK T, fields : T = user_types /\ fields = T[a].fields
  OBVIOUS
<1>3. Raw.user_types = T
  BY <1>2 DEF Raw
<1>4. /\ b \in DOMAIN Types /\ a \in DOMAIN T
      /\ \A key \in DOMAIN fields :
           \E k \in DOMAIN Types[b].members : key = Key(b, k) /\ Tells(fields[key], Types[b].members[k])
  BY <1>1, <1>2, FieldOfMember
<1>5. a \in DOMAIN RawOwn(Raw, type, name) /\ b \in DOMAIN SectionOwn(name)
  BY <1>3, <1>4 DEF RawOwn, SectionOwn
<1>6. RawOwn(Raw, type, name)[a] \subseteq SectionOwn(name)[b]
  <2>1. SectionOwn(name)[b] = OwnPlaces(b, name)
    BY <1>4 DEF SectionOwn
  <2>2. CASE name \in DOMAIN fields
    <3>1. PICK k \in DOMAIN Types[b].members :
            name = Key(b, k) /\ Tells(fields[name], Types[b].members[k])
      BY <1>4, <2>2
    <3>2. PICK m, f : m = Types[b].members[k] /\ f = fields[name]
      OBVIOUS
    <3>3. m.name = name
      <4>1. Unclashed(source, Types)
        BY SectionNames DEF FaithInv
      <4>2. m.name = "" => Key(b, k) \notin FieldNames
        BY <1>4, <3>1, <3>2, <4>1 DEF Unclashed, Key
      <4>3. m.name # "" => Key(b, k) = m.name
        BY <3>2 DEF Key, FieldKey
      <4>. QED BY <3>1, <4>2, <4>3
    <3>4. f.offset = MemberOffset(m) /\ f.len = MemberLen(m)
      BY <3>1, <3>2 DEF Tells
    <3>5. Displaced(f, 0) = [offset |-> MemberOffset(m), len |-> MemberLen(m)]
      <4>1. MemberOffset(m) \in Nat
        BY <1>4, <3>2, OffsetsAreNumbers DEF FaithInv
      <4>2. f.offset + 0 = MemberOffset(m)
        BY <3>4, <4>1, PlusZero, Zenon
      <4>. QED BY <3>4, <4>2 DEF Displaced
    <3>6. m \in Members(b)
      BY <3>2 DEF Members
    <3>7. Displaced(f, 0) \in OwnPlaces(b, name)
      BY <3>3, <3>5, <3>6 DEF OwnPlaces
    <3>8. RawOwn(Raw, type, name)[a] = {Displaced(f, 0)}
      BY <1>2, <1>3, <1>4, <2>2, <3>2 DEF RawOwn
    <3>. QED BY <2>1, <3>7, <3>8
  <2>3. CASE name \notin DOMAIN fields
    BY <1>2, <1>3, <1>4, <2>3 DEF RawOwn
  <2>. QED BY <2>2, <2>3
<1>7. ASSUME NEW e \in RawInner(Raw, type, name)[a]
      PROVE  \E g \in SectionInner[b] : g[1] = e[1] /\ <<e[2], g[2]>> \in NamePairs
  <2>1. PICK key \in RawNested(Raw, a) : e = RawEdge(Raw, a, key)
    BY <1>3, <1>4, <1>7 DEF RawInner
  <2>2. PICK f : f = fields[key]
    OBVIOUS
  <2>3. key \in DOMAIN fields /\ f.anonymous /\ f.user # NoName /\ e[1] = f.offset /\ e[2] = f.user
    BY <1>2, <1>3, <2>1, <2>2 DEF RawNested, RawEdge
  <2>4. PICK k \in DOMAIN Types[b].members : Tells(f, Types[b].members[k])
    BY <1>4, <2>2, <2>3
  <2>5. PICK m, r : m = Types[b].members[k] /\ r = MemberRef(m)
    OBVIOUS
  <2>6. /\ m.name = "" /\ f.offset = MemberOffset(m)
        /\ IsComposite(r.leaf) /\ r.named /\ r.leaf \in DOMAIN type_names /\ f.user = type_names[r.leaf]
    BY <2>3, <2>4, <2>5 DEF Tells
  <2>7. r.leaf \in DOMAIN Types
    BY <2>6, FieldOfMember
  <2>8. m \in Unnamed(b)
    BY <2>5, <2>6, <2>7 DEF Unnamed, Members, IsComposite
  <2>9. SectionEdge(m) \in SectionInner[b]
    BY <1>4, <2>8 DEF SectionInner
  <2>10. SectionEdge(m)[1] = e[1] /\ SectionEdge(m)[2] = r.leaf
    BY <2>3, <2>5, <2>6 DEF SectionEdge
  <2>11. <<e[2], r.leaf>> \in NamePairs
    BY <2>3, <2>6 DEF NamePairs
  <2>. QED BY <2>9, <2>10, <2>11
<1>. QED BY <1>5, <1>6, <1>7

\* A name that is looked up was not invented.
LEMMA NamedAsLookedUp ==
  ASSUME NamedTypes, NamedAfter, NoClash, NEW id \in DOMAIN type_names, type_names[id] \in RootSet
  PROVE  Types[id].name = type_names[id]
<1>1. Unclashed(source, Types) /\ id \in UserDefined(Types)
  BY SectionNames DEF NamedTypes
<1>2. /\ MadeUp(id) \notin RootSet
      /\ Types[id].name = "" => OwnName(id) \notin RootSet
  BY <1>1 DEF Unclashed, MadeUp, OwnName
<1>3. type_names[id] = OwnName(id) \/ type_names[id] = MadeUp(id)
  BY DEF NamedAfter
<1>4. Types[id].name # "" => OwnName(id) = Types[id].name
  BY DEF OwnName, OwnNameIn
<1>. QED BY <1>2, <1>3, <1>4

\* The structs that are looked up, the required ones first.
StructNames ==
  {"task_struct", "mm_struct", "vm_area_struct", "list_head", "module", "fs_struct", "file", "path",
   "mount", "vfsmount", "dentry", "qstr", "maple_tree", "maple_range_64", "maple_arange_64",
   "maple_metadata", "module_memory"}

LEMMA PairParts == \A A, B : \A w \in A \X B : w[1] \in A /\ w[2] \in B
OBVIOUS

\* The fields that from_raw looks up have names, and their structs are looked up.
LEMMA FieldsRooted ==
  \A w \in DefsFields :
    HasName(w[2]) /\ w[1] \in StructNames
<1>1. ASSUME NEW type \in StructNames, NEW names, "" \notin names, NEW w \in FieldsOf(type, names)
      PROVE  HasName(w[2]) /\ w[1] \in StructNames
  BY <1>1, PairParts DEF FieldsOf, HasName
<1>2. ASSUME NEW w \in RequiredFields PROVE HasName(w[2]) /\ w[1] \in StructNames
  <2>1. \A S, type, names : S = FieldsOf(type, names) /\ type \in StructNames /\ "" \notin names
          => \A x \in S : HasName(x[2]) /\ x[1] \in StructNames
    BY <1>1
  <2>2. PICK S : /\ w \in S
                 /\ S \in {FieldsOf("task_struct",
                                   {"comm", "tasks", "pid", "tgid", "mm", "active_mm", "exit_state", "exit_code",
                                    "real_parent", "parent", "group_leader", "fs", "files", "signal"}),
                          FieldsOf("mm_struct", {"pgd", "exe_file", "start_code", "end_code", "arg_start",
                                                 "arg_end", "env_start", "env_end"}),
                          FieldsOf("vm_area_struct", {"vm_start", "vm_end", "vm_flags", "vm_file"}),
                          FieldsOf("list_head", {"next", "prev"}),
                          FieldsOf("module", {"name", "list", "state"}),
                          FieldsOf("fs_struct", {"root", "pwd"}),
                          FieldsOf("file", {"f_path"}),
                          FieldsOf("path", {"mnt", "dentry"}),
                          FieldsOf("mount", {"mnt_parent", "mnt_mountpoint", "mnt"}),
                          FieldsOf("vfsmount", {"mnt_root"}),
                          FieldsOf("dentry", {"d_parent", "d_name"}),
                          FieldsOf("qstr", {"name"})}
    BY Zenon DEF RequiredFields
  <2>. QED BY <2>1, <2>2 DEF StructNames
<1>3. \A w \in MapleFields : HasName(w[2]) /\ w[1] \in StructNames
  <2>1. {"maple_tree", "maple_metadata", "maple_range_64", "maple_arange_64"} \subseteq StructNames
    BY DEF StructNames
  <2>. QED BY <1>1, <2>1 DEF MapleFields
<1>4. \A w \in OptionalFields : HasName(w[2]) /\ w[1] \in StructNames
  <2>1. {"module", "module_memory", "mm_struct", "vm_area_struct"} \subseteq StructNames
    BY DEF StructNames
  <2>. QED BY <1>1, <2>1 DEF OptionalFields
<1>5. \A w \in StateFields : HasName(w[2]) /\ w[1] \in StructNames
  BY <1>1 DEF StateFields, StructNames
<1>. QED BY <1>2, <1>3, <1>4, <1>5 DEF DefsFields

\* u continues s, and holds what t holds.
Extends(u, s, t) ==
  /\ \A i \in DOMAIN s : i \in DOMAIN u /\ u[i] = s[i]
  /\ \A i \in DOMAIN t : \E j \in DOMAIN u : u[j] = t[i]

LEMMA Concatenated ==
  ASSUME NEW S, NEW s \in Seq(S), NEW t \in Seq(S), NEW u, u = s \o t
  PROVE  u \in Seq(S) /\ Extends(u, s, t)
<1>1. u \in Seq(S) /\ Len(u) = Len(s) + Len(t) /\ Len(s) \in Nat /\ Len(t) \in Nat
  OBVIOUS
<1>2. DOMAIN u = 1 .. Len(s) + Len(t) /\ DOMAIN s = 1 .. Len(s) /\ DOMAIN t = 1 .. Len(t)
  BY <1>1
<1>3. ASSUME NEW i \in DOMAIN s PROVE i \in DOMAIN u /\ u[i] = s[i]
  BY <1>1, <1>2
<1>4. ASSUME NEW i \in DOMAIN t PROVE Len(s) + i \in DOMAIN u /\ u[Len(s) + i] = t[i]
  BY <1>1, <1>2
<1>. QED BY <1>1, <1>3, <1>4 DEF Extends

LEMMA RootNames ==
  /\ Roots \in Seq(StructNames) /\ Len(Roots) \in Nat /\ DOMAIN Roots = 1 .. Len(Roots)
  /\ DOMAIN REQUIRED_TYPES = 1 .. Len(REQUIRED_TYPES) /\ Len(REQUIRED_TYPES) \in Nat
  /\ \A i \in DOMAIN REQUIRED_TYPES : i \in DOMAIN Roots /\ Roots[i] = REQUIRED_TYPES[i]
  /\ StructNames \subseteq {Roots[i] : i \in DOMAIN Roots}
<1>1. PICK A, B, C : A = REQUIRED_TYPES /\ B = OPTIONAL_MAPLE_TYPES /\ C = <<"module_memory">>
  OBVIOUS
<1>2. A \in Seq(StructNames)
  BY <1>1 DEF REQUIRED_TYPES, StructNames
<1>3. B \in Seq(StructNames)
  BY <1>1 DEF OPTIONAL_MAPLE_TYPES, StructNames
<1>4. C \in Seq(StructNames)
  BY <1>1 DEF StructNames
<1>5. Roots = (A \o B) \o C
  BY <1>1 DEF Roots
<1>6. PICK S : S = StructNames
  OBVIOUS
<1>7. /\ Roots \in Seq(S) /\ Len(Roots) \in Nat /\ DOMAIN Roots = 1 .. Len(Roots)
      /\ \A i \in DOMAIN A : i \in DOMAIN Roots /\ Roots[i] = A[i]
      /\ \A i \in DOMAIN B : \E j \in DOMAIN Roots : Roots[j] = B[i]
      /\ \E j \in DOMAIN Roots : Roots[j] = C[1]
  <2>1. A \in Seq(S) /\ B \in Seq(S) /\ C \in Seq(S) /\ 1 \in DOMAIN C
    BY <1>1, <1>2, <1>3, <1>4, <1>6
  <2>2. PICK D : D = A \o B
    OBVIOUS
  <2>3. D \in Seq(S) /\ Extends(D, A, B)
    BY <2>1, <2>2, Concatenated
  <2>4. Roots \in Seq(S) /\ Extends(Roots, D, C)
    <3>1. Roots = D \o C
      BY <1>5, <2>2
    <3>. QED BY <2>1, <2>3, <3>1, Concatenated
  <2>5. Len(Roots) \in Nat /\ DOMAIN Roots = 1 .. Len(Roots)
    BY <2>4
  <2>. QED BY <2>1, <2>3, <2>4, <2>5 DEF Extends
<1>8. DOMAIN A = 1 .. Len(A) /\ Len(A) \in Nat
  BY <1>2
<1>9. ASSUME NEW n \in StructNames
      PROVE  (\E i \in DOMAIN A : A[i] = n) \/ (\E i \in DOMAIN B : B[i] = n) \/ n = C[1]
  <2>1. {A[1], A[2], A[3], A[4], A[5], A[6], A[7], A[8], A[9], A[10], A[11], A[12]} \subseteq {A[i] : i \in DOMAIN A}
    BY <1>1 DEF REQUIRED_TYPES
  <2>2. {B[1], B[2], B[3], B[4]} \subseteq {B[i] : i \in DOMAIN B}
    BY <1>1 DEF OPTIONAL_MAPLE_TYPES
  <2>3. StructNames = {A[1], A[2], A[3], A[4], A[5], A[6], A[7], A[8], A[9], A[10], A[11], A[12],
                   B[1], B[2], B[3], B[4], C[1]}
    BY <1>1 DEF REQUIRED_TYPES, OPTIONAL_MAPLE_TYPES, StructNames
  <2>. QED BY <1>9, <2>1, <2>2, <2>3
<1>10. StructNames \subseteq {Roots[i] : i \in DOMAIN Roots}
  BY <1>7, <1>9
<1>. QED BY <1>1, <1>6, <1>7, <1>8, <1>10

LEMMA StructsAreRoots == StructNames \subseteq RootSet
BY RootNames DEF RootSet

LEMMA RootsHaveNames == \A i \in DOMAIN Roots : HasName(Roots[i])
<1>1. \A n \in StructNames : HasName(n)
  BY DEF StructNames, HasName
<1>2. \A i \in DOMAIN Roots : Roots[i] \in StructNames
  BY RootNames
<1>. QED BY <1>1, <1>2

\* What from_raw may find for a field is in a definition of a type of that name.
LEMMA ResolveTrue ==
  ASSUME FaithInv, NamesInv, NoClash, KeysNamed, pc \in Resolved,
         NEW w, NEW type \in RootSet, NEW name \in FieldNames, type = w[1], name = w[2]
  PROVE  resolve_field(Raw, w) \subseteq PlacesIn(Composite, w)
<1>0. PICK own1, inner1, own2, inner2, R :
        /\ own1 = RawOwn(Raw, type, name) /\ inner1 = RawInner(Raw, type, name)
        /\ own2 = SectionOwn(name) /\ inner2 = SectionInner
        /\ R = NamePairs
  OBVIOUS
<1>1. PICK f : IsSearch(f, own1, inner1) /\ resolve_field(Raw, w) = f[0][type]
  BY <1>0, ResolveIsSearch DEF resolve_field
<1>2. PICK g : IsSearch(g, own2, inner2) /\ \A id : Places(id, name) = g[0][id]
  BY <1>0, PlacesIsSearch
<1>3. \A a, b : <<a, b>> \in R => f[0][a] \subseteq g[0][b]
  <2>1. Matches(own1, inner1, own2, inner2, R)
    BY <1>0, TablesMatchSection
  <2>. QED BY <1>1, <1>2, <2>1, SearchWithin
<1>4. Raw.user_types = user_types
  BY DEF Raw
<1>5. CASE type \notin DOMAIN user_types
  <2>1. /\ type \in DOMAIN own1
        /\ own1[type] = {} /\ inner1[type] = {}
    BY <1>0, <1>4, <1>5 DEF RawOwn, RawInner
  <2>2. f[0][type] = {}
    BY <1>1, <2>1, SearchEmpty, Zenon
  <2>. QED BY <1>1, <2>2
<1>6. CASE type \in DOMAIN user_types
  <2>1. PICK id \in DOMAIN type_names : IsComposite(id) /\ type_names[id] = type
    BY <1>6 DEF KeysNamed
  <2>2. id \in DOMAIN Types
    BY <2>1, FieldOfMember
  <2>3. Types[id].name = type
    BY <2>1, NamedAsLookedUp DEF NamesInv
  <2>4. f[0][type] \subseteq Places(id, name)
    <3>1. <<type, id>> \in NamePairs
      BY <2>1 DEF NamePairs
    <3>2. f[0][type] \subseteq g[0][id]
      BY <1>0, <1>3, <3>1, Zenon
    <3>3. Places(id, name) = g[0][id]
      BY <1>2
    <3>. QED BY <3>2, <3>3
  <2>5. CASE ~Types[id].decl
    <3>1. id \in Definitions(Composite, type)
      BY <2>1, <2>2, <2>3, <2>5 DEF Definitions, IsComposite
    <3>. QED BY <1>1, <2>4, <3>1 DEF PlacesIn
  <2>6. CASE Types[id].decl
    <3>1. Types[id].members = <<>>
      <4>1. DeclarationsEmpty(Types)
        BY ImageAssumption DEF Types, FaithInv
      <4>. QED BY <2>2, <2>6, <4>1 DEF DeclarationsEmpty
    <3>2. Members(id) = {}
      <4>1. DOMAIN Types[id].members = {}
        BY <3>1, EmptyDomain, Zenon
      <4>. QED BY <4>1 DEF Members
    <3>3. OwnPlaces(id, name) = {} /\ Unnamed(id) = {}
      BY <3>2 DEF OwnPlaces, Unnamed
    <3>4. id \in DOMAIN own2 /\ own2[id] = {} /\ inner2[id] = {}
      BY <1>0, <2>2, <3>3 DEF SectionOwn, SectionInner
    <3>5. g[0][id] = {}
      BY <1>2, <3>4, SearchEmpty, Zenon
    <3>. QED BY <1>1, <1>2, <2>4, <3>5
  <2>. QED BY <2>5, <2>6
<1>. QED BY <1>5, <1>6

\* Every symbol of the table is an entry of .symtab.
LEMMA SymbolsAreEntries ==
  ASSUME file \in Images, NEW s \in DOMAIN Symbols
  PROVE  \E i \in DOMAIN file.symbols :
           Defined(file.symbols[i]) /\ file.symbols[i].name = s /\ file.symbols[i].value = Symbols[s]
<1>. DEFINE tab == file.symbols
            E == {i \in DOMAIN tab : Defined(tab[i]) /\ tab[i].name = s}
            first == CHOOSE i \in E : \A j \in E : i <= j
<1>1. tab \in Seq(Symbol)
  BY ImageAssumption
<1>2. E \subseteq Nat
  BY <1>1
<1>3. s \in {tab[i].name : i \in {j \in DOMAIN tab : Defined(tab[j])}} /\ Symbols[s] = tab[first].value
  BY DEF Symbols, load_symbols
<1>4. E # {}
  BY <1>3
<1>5. first \in E
  <2>. HIDE DEF E
  <2>. QED BY <1>2, <1>4, LeastNumber
<1>. QED BY <1>3, <1>5

(***************************************************************************)
(* For every vmlinux, an offset or length of the defs is that of the field *)
(* in a definition of a type with the struct's name, unless an invented    *)
(* name is also one of the file's, and a symbol has the address of a       *)
(* defined entry of .symtab.  The tables are faithful to the section, and  *)
(* what resolve_field_inner may find in them, in whatever order it tries   *)
(* the anonymous fields, is by induction on the depth that is left among   *)
(* what is found in the section.                                           *)
(***************************************************************************)
THEOREM DefsAreTrue == Spec => []DefsTrue
<1>. DEFINE Inv == NamesInv /\ StackInv /\ DefsMade /\ (NoClash => FaithInv /\ KeysNamed)
<1>1. Init => Inv
  <2>. SUFFICES ASSUME Init PROVE Inv
    OBVIOUS
  <2>1. DOMAIN user_types = {} /\ pc = "elf"
    BY DEF Init, NoFunction
  <2>2. DefsMade /\ KeysNamed
    BY <2>1 DEF KeysNamed, DefsMade
  <2>. QED BY <2>2, AtFirst
<1>2. Inv /\ [Next]_vars => Inv'
  BY FaithNext, NamesNext, StackNext, TablesNext, DefsMadeNext, ClashKept
<1>3. Inv => DefsTrue
  <2>. SUFFICES ASSUME Inv, pc = "ok"
                PROVE  /\ NoClash => \A w \in DOMAIN defs.fields : defs.fields[w] \subseteq PlacesIn(Composite, w)
                       /\ \A s \in DOMAIN defs.symbols : \E i \in DOMAIN file.symbols :
                            LET e == file.symbols[i]
                            IN  e.name = s /\ e.defined /\ e.value # 0 /\ e.value = defs.symbols[s]
    BY DEF DefsTrue
  <2>1. defs = from_raw(Raw) /\ Raw.symbols = Symbols /\ file \in Images
    BY DEF DefsMade, Raw, NamesInv, NamedTypes
  <2>2. ASSUME NoClash, NEW w \in DOMAIN defs.fields PROVE defs.fields[w] \subseteq PlacesIn(Composite, w)
    <3>1. /\ w \in Needed(Raw) \cup OptionalFields \cup {StateField(Raw)}
          /\ defs.fields[w] = resolve_field(Raw, w)
      BY <2>1, <2>2 DEF from_raw
    <3>2. w \in DefsFields
      <4>1. StateField(Raw) \in StateFields
        BY DEF StateField, StateFields, FieldsOf
      <4>2. Needed(Raw) \subseteq DefsFields
        BY DEF Needed, DefsFields
      <4>. QED BY <3>1, <4>1, <4>2 DEF DefsFields
    <3>3. PICK type, name : type = w[1] /\ name = w[2]
      OBVIOUS
    <3>4. name \in FieldNames /\ type \in RootSet
      BY <3>2, <3>3, FieldsRooted, StructsAreRoots DEF FieldNames
    <3>5. resolve_field(Raw, w) \subseteq PlacesIn(Composite, w)
      <4>1. FaithInv /\ NamesInv /\ KeysNamed /\ pc \in Resolved
        BY <2>2 DEF Resolved
      <4>. QED BY <2>2, <3>3, <3>4, <4>1, ResolveTrue, Zenon
    <3>. QED BY <3>1, <3>5
  <2>3. ASSUME NEW s \in DOMAIN defs.symbols
        PROVE  \E i \in DOMAIN file.symbols :
                 LET e == file.symbols[i]
                 IN  e.name = s /\ e.defined /\ e.value # 0 /\ e.value = defs.symbols[s]
    <3>1. s \in DOMAIN Symbols /\ defs.symbols[s] = Symbols[s]
      BY <2>1, <2>3 DEF from_raw
    <3>2. PICK i \in DOMAIN file.symbols :
            Defined(file.symbols[i]) /\ file.symbols[i].name = s /\ file.symbols[i].value = Symbols[s]
      BY <2>1, <3>1, SymbolsAreEntries
    <3>. QED BY <3>1, <3>2 DEF Defined
  <2>. QED BY <2>2, <2>3
<1>. QED BY <1>1, <1>2, <1>3, PTL DEF Spec

----------------------------------------------------------------------------
(* Defs are refused for cause only *)

\* What is in the section when a loader is done: the structs and the enum that
\* were looked up have names, and the enums their constants.
Reached(kind, name) == find_named(kind, name) # Void => find_named(kind, name) \in DOMAIN type_names
RootsReached ==
  /\ root \in Nat \ {0}
  /\ pc \in {"elf", "banner", "section", "parse"} => root = 1
  /\ pc \in Resolved => root = Len(Roots) + 1 /\ Reached("enum", "module_state")
  /\ \A i \in DOMAIN Roots : i < root => Reached("struct", Roots[i])
\* A type is given another name than its own only if a second type has it.
Shares(a) == \E b \in DOMAIN type_names : b # a /\ Types[b].name = Types[a].name
NamedUnlessShared ==
  \A a \in DOMAIN type_names :
    /\ a \in DOMAIN Types /\ Types[a].kind \in Composite \cup Enumeration
    /\ Types[a].name \in RootSet => type_names[a] = Types[a].name \/ Shares(a)
HasConstants(a) ==
  Types[a].kind \in Enumeration =>
    type_names[a] \in DOMAIN enums /\ enums[type_names[a]] = Types[a].constants
EnumsHeld == DOMAIN enums \subseteq used_names /\ \A a \in DOMAIN type_names : HasConstants(a)
CauseInv == RootsReached /\ NamedUnlessShared /\ EnumsHeld

\* What a step does to the names.
NamesReset == DOMAIN type_names' = {} /\ DOMAIN enums' \subseteq used_names'
NamesUntouched == UNCHANGED <<file, source, type_names, used_names, enums>>
NamesStruct(id) ==
  /\ UNCHANGED <<file, source, enums>> /\ ensure_type_name(id)
  /\ id \in DOMAIN Types /\ IsComposite(id)
NamesEnum(id) ==
  /\ UNCHANGED <<file, source>> /\ ensure_enum(id)
  /\ id \in DOMAIN Types /\ id # Void /\ Types[id].kind \in Enumeration

LEMMA NamingSteps ==
  ASSUME FaithInv, EnumsHeld, [Next]_vars
  PROVE  NamesReset \/ NamesUntouched \/ \E id : NamesStruct(id) \/ NamesEnum(id)
<1>1. CASE BtfMember \/ DwarfMember
  <2>1. PICK key, offset, r : ResolveMember(key, offset, r) /\ ~Missing(Types, r)
    BY <1>1 DEF BtfMember, DwarfMember
  <2>2. UNCHANGED <<file, source>>
    BY <1>1 DEF BtfMember, DwarfMember
  <2>3. r.leaf # Void => r.leaf \in DOMAIN Types
    BY <2>1 DEF Missing
  <2>4. NamesStruct(r.leaf) \/ NamesEnum(r.leaf) \/ NamesUntouched
    BY <2>1, <2>2, <2>3 DEF ResolveMember, Enter, NamesStruct, NamesEnum, NamesUntouched, IsComposite,
       Composite, Enumeration, tables
  <2>. QED BY <2>4
<1>2. CASE ResolveRoot
  <2>1. PICK id : id = find_named("struct", Roots[root])
    OBVIOUS
  <2>2. id # Void => id \in DOMAIN Types /\ IsComposite(id)
    BY <2>1, FindNamed DEF FaithInv, IsComposite, Composite
  <2>3. NamesStruct(id) \/ NamesUntouched
    BY <1>2, <2>1, <2>2 DEF ResolveRoot, Enter, NamesStruct, NamesUntouched, tables
  <2>. QED BY <2>3
<1>3. CASE ResolveModuleState
  <2>1. PICK id : id = find_named("enum", "module_state")
    OBVIOUS
  <2>2. id # Void /\ ensure_enum(id) /\ UNCHANGED <<file, source>>
    BY <1>3, <2>1 DEF ResolveModuleState
  <2>3. id \in DOMAIN Types /\ Types[id].kind \in Enumeration
    BY <2>1, <2>2, FindNamed DEF FaithInv, Enumeration
  <2>. QED BY <2>2, <2>3 DEF NamesEnum
<1>4. CASE FallBack \/ section_data_optional
  BY <1>4 DEF FallBack, section_data_optional, FaithInv, NoFunction, tables, NamesReset, EnumsHeld
<1>5. CASE UNCHANGED <<file, source, type_names, used_names, enums>>
  BY <1>5 DEF NamesUntouched
<1>6. CASE ParseElf \/ ReadBanner \/ ParseTypes \/ Leave \/ LoadFails \/ LookUpSymbols \/ Convert
  BY <1>5, <1>6 DEF ParseElf, ReadBanner, ParseTypes, Leave, LoadFails, LookUpSymbols, Convert, tables
<1>. QED BY <1>1, <1>2, <1>3, <1>4, <1>5, <1>6 DEF Next, vars, tables, Done

LEMMA LookedUpHaveNames == \A n \in RootSet : HasName(n)
<1>1. HasName("module_state")
  BY DEF HasName
<1>. QED BY <1>1, RootsHaveNames DEF RootSet

LEMMA NamedUnlessSharedNext ==
  ASSUME FaithInv, NamesInv, NoClash, EnumsHeld, NamedUnlessShared, [Next]_vars
  PROVE  NamedUnlessShared'
<1>1. CASE NamesReset
  BY <1>1 DEF NamesReset, NamedUnlessShared
<1>2. CASE NamesUntouched
  <2>1. Types' = Types /\ type_names' = type_names
    BY <1>2, SectionKept DEF NamesUntouched
  <2>2. \A a : Shares(a)' <=> Shares(a)
    BY <2>1 DEF Shares
  <2>. QED BY <2>1, <2>2 DEF NamedUnlessShared
<1>3. ASSUME NEW id, NamesStruct(id) \/ NamesEnum(id) PROVE NamedUnlessShared'
  <2>1. /\ UNCHANGED <<file, source>> /\ ensure_type_name(id) /\ Types' = Types
        /\ id # Void /\ id \in DOMAIN Types /\ Types[id].kind \in Composite \cup Enumeration
    BY <1>3, SectionKept DEF NamesStruct, NamesEnum, IsComposite, ensure_enum
  <2>2. /\ DOMAIN type_names' = DOMAIN type_names \cup {id}
        /\ \A a \in DOMAIN type_names : type_names'[a] = type_names[a]
        /\ type_names'[id] = TypeName(id)
    BY <2>1 DEF ensure_type_name, With, TypeName
  <2>3. \A a : Shares(a) => Shares(a)'
    BY <2>1, <2>2 DEF Shares
  <2>4. Types[id].name \in RootSet => TypeName(id) = Types[id].name \/ Shares(id)
    <3>1. CASE id \in DOMAIN type_names
      BY <3>1 DEF TypeName, NamedUnlessShared
    <3>2. CASE id \notin DOMAIN type_names
      <4>. SUFFICES ASSUME Types[id].name \in RootSet, TypeName(id) # Types[id].name PROVE Shares(id)
        OBVIOUS
      <4>1. OwnName(id) = Types[id].name /\ Types[id].name \in used_names
        <5>1. HasName(Types[id].name)
          BY LookedUpHaveNames
        <5>2. OwnName(id) = Types[id].name
          BY <5>1 DEF OwnName, OwnNameIn, HasName
        <5>. QED BY <3>2, <5>2 DEF TypeName, Candidate
      <4>2. PICK b \in DOMAIN type_names : type_names[b] = Types[id].name
        BY <4>1 DEF NamesInv, UsedNames
      <4>3. Types[b].name = Types[id].name
        BY <4>2, NamedAsLookedUp DEF NamesInv
      <4>. QED BY <3>2, <4>2, <4>3 DEF Shares
    <3>. QED BY <3>1, <3>2
  <2>5. ASSUME NEW a \in DOMAIN type_names'
        PROVE  /\ a \in DOMAIN Types /\ Types[a].kind \in Composite \cup Enumeration
               /\ Types[a].name \in RootSet => type_names'[a] = Types[a].name \/ Shares(a)
    <3>1. CASE a = id
      BY <2>1, <2>2, <2>4, <3>1
    <3>2. CASE a # id
      BY <2>2, <3>2 DEF NamedUnlessShared
    <3>. QED BY <3>1, <3>2
  <2>. QED BY <2>1, <2>3, <2>5 DEF NamedUnlessShared
<1>. QED BY <1>1, <1>2, <1>3, NamingSteps

LEMMA EnumsHeldNext ==
  ASSUME FaithInv, NamesInv, NoClash, EnumsHeld, [Next]_vars
  PROVE  EnumsHeld'
<1>1. CASE NamesReset
  BY <1>1 DEF NamesReset, EnumsHeld
<1>2. CASE NamesUntouched
  BY <1>2, SectionKept DEF NamesUntouched, EnumsHeld, HasConstants
<1>3. ASSUME NEW id, NamesStruct(id) PROVE EnumsHeld'
  <2>1. /\ UNCHANGED <<file, source, enums>> /\ ensure_type_name(id) /\ Types' = Types
        /\ Types[id].kind \notin Enumeration
    BY <1>3, SectionKept DEF NamesStruct, IsComposite, Composite, Enumeration
  <2>2. /\ DOMAIN type_names' = DOMAIN type_names \cup {id}
        /\ \A a \in DOMAIN type_names : type_names'[a] = type_names[a]
        /\ used_names \subseteq used_names'
    BY <2>1 DEF ensure_type_name, With, TypeName
  <2>. QED BY <2>1, <2>2 DEF EnumsHeld, HasConstants
<1>4. ASSUME NEW id, NamesEnum(id) PROVE EnumsHeld'
  <2>1. /\ UNCHANGED <<file, source>> /\ ensure_type_name(id) /\ Types' = Types
        /\ id \in DOMAIN Types /\ Types[id].kind \in Enumeration
    BY <1>4, SectionKept DEF NamesEnum, ensure_enum
  <2>2. /\ DOMAIN type_names' = DOMAIN type_names \cup {id}
        /\ \A a \in DOMAIN type_names : type_names'[a] = type_names[a]
        /\ type_names'[id] = TypeName(id)
        /\ used_names' = used_names \cup {TypeName(id)}
    BY <2>1 DEF ensure_type_name, With, TypeName
  <2>3. CASE id \in DOMAIN type_names
    <3>1. TypeName(id) \in DOMAIN enums /\ enums' = enums
      BY <1>4, <2>1, <2>3 DEF NamesEnum, ensure_enum, EnumsHeld, HasConstants, TypeName
    <3>. QED BY <2>1, <2>2, <2>3, <3>1 DEF EnumsHeld, HasConstants
  <2>4. CASE id \notin DOMAIN type_names
    <3>1. TypeName(id) \notin used_names
      BY <2>1, <2>4, CandidateFresh DEF TypeName, UserDefined
    <3>2. enums' = With(enums, TypeName(id), Types[id].constants)
      BY <1>4, <3>1 DEF NamesEnum, ensure_enum, EnumsHeld
    <3>3. /\ DOMAIN enums' = DOMAIN enums \cup {TypeName(id)}
          /\ enums'[TypeName(id)] = Types[id].constants
          /\ \A n \in DOMAIN enums : enums'[n] = enums[n]
      BY <3>1, <3>2 DEF With, EnumsHeld
    <3>4. DOMAIN enums' \subseteq used_names'
      BY <2>2, <3>3 DEF EnumsHeld
    <3>5. ASSUME NEW a \in DOMAIN type_names' PROVE HasConstants(a)'
      BY <2>1, <2>2, <3>3 DEF EnumsHeld, HasConstants
    <3>. QED BY <3>4, <3>5 DEF EnumsHeld
  <2>. QED BY <2>3, <2>4
<1>. QED BY <1>1, <1>2, <1>3, <1>4, NamingSteps

LEMMA FindKept ==
  ASSUME UNCHANGED <<file, source>>
  PROVE  \A kind, name : find_named(kind, name)' = find_named(kind, name)
BY SectionKept DEF find_named, BtfFile_find_named, DwarfFile_find_named

LEMMA ReachedKept ==
  ASSUME UNCHANGED <<file, source>>, DOMAIN type_names \subseteq DOMAIN type_names',
         NEW kind, NEW name, Reached(kind, name)
  PROVE  Reached(kind, name)'
BY FindKept DEF Reached

LEMMA RootsReachedNext ==
  ASSUME FaithInv, EnumsHeld, RootsReached, [Next]_vars
  PROVE  RootsReached'
<1>0. Len(Roots) \in Nat /\ DOMAIN Roots = 1 .. Len(Roots) /\ root \in Nat \ {0}
  <2>1. root \in Nat \ {0}
    BY DEF RootsReached
  <2>. QED BY <2>1, RootNames
<1>1. CASE FallBack \/ section_data_optional
  <2>1. root' = 1 /\ pc' \notin Resolved
    <3>1. CASE FallBack
      BY <3>1 DEF FallBack, Resolved
    <3>2. CASE section_data_optional
      BY <3>2 DEF section_data_optional, RootsReached, Resolved
    <3>. QED BY <1>1, <3>1, <3>2
  <2>2. \A i \in DOMAIN Roots : ~(i < root')
    BY <1>0, <2>1
  <2>. QED BY <2>1, <2>2 DEF RootsReached
<1>2. CASE ResolveRoot
  <2>1. pc = "resolve" /\ UNCHANGED <<file, source, pc>>
    BY <1>2 DEF ResolveRoot
  <2>2. DOMAIN type_names \subseteq DOMAIN type_names'
    BY <1>2, NamesGrow DEF ResolveRoot, Enter, tables
  <2>3. PICK n : n = Roots[root]
    OBVIOUS
  <2>4. root' = root \/ (root' = root + 1 /\ Reached("struct", n)')
    <3>1. CASE ensure_type_name(find_named("struct", n))
      <4>1. Reached("struct", n)'
        BY <2>1, <3>1, NamesGrow, FindKept DEF Reached
      <4>. QED BY <1>2, <4>1 DEF ResolveRoot
    <3>2. CASE find_named("struct", n) = Void
      <4>1. Reached("struct", n)'
        BY <2>1, <3>2, FindKept DEF Reached
      <4>. QED BY <1>2, <4>1 DEF ResolveRoot
    <3>. QED BY <1>2, <2>3, <3>1, <3>2 DEF ResolveRoot
  <2>5. ASSUME NEW i \in DOMAIN Roots, i < root' PROVE Reached("struct", Roots[i])'
    <3>1. CASE i < root
      BY <2>1, <2>2, <3>1, ReachedKept DEF RootsReached
    <3>2. CASE ~(i < root)
      <4>1. i = root
        BY <1>0, <2>4, <2>5, <3>2
      <4>2. n = Roots[i] /\ root' # root
        BY <2>3, <2>5, <3>2, <4>1
      <4>. QED BY <2>4, <4>2
    <3>. QED BY <3>1, <3>2
  <2>6. root' \in Nat \ {0}
    BY <1>0, <2>4
  <2>. QED BY <2>1, <2>5, <2>6 DEF RootsReached, Resolved
<1>3. CASE ResolveModuleState
  <2>1. /\ UNCHANGED <<file, source, root>> /\ pc' = "symbols" /\ root = Len(Roots) + 1
        /\ ensure_type_name(find_named("enum", "module_state"))
    BY <1>3 DEF ResolveModuleState, ensure_enum
  <2>2. DOMAIN type_names \subseteq DOMAIN type_names' /\ Reached("enum", "module_state")'
    BY <2>1, NamesGrow, FindKept DEF Reached
  <2>3. \A i \in DOMAIN Roots : i < root' => Reached("struct", Roots[i])'
    BY <2>1, <2>2, ReachedKept DEF RootsReached
  <2>. QED BY <1>0, <2>1, <2>2, <2>3 DEF RootsReached
<1>4. CASE /\ UNCHANGED <<file, source, root>> /\ DOMAIN type_names \subseteq DOMAIN type_names'
           /\ pc' \in Resolved => pc \in Resolved
           /\ pc' \in {"elf", "banner", "section", "parse"} => pc \in {"elf", "banner", "section", "parse"}
  <2>1. \A i \in DOMAIN Roots : i < root' => Reached("struct", Roots[i])'
    BY <1>4, ReachedKept DEF RootsReached
  <2>2. pc' \in Resolved => Reached("enum", "module_state")'
    BY <1>4, ReachedKept DEF RootsReached
  <2>. QED BY <1>4, <2>1, <2>2 DEF RootsReached
<1>5. CASE BtfMember \/ DwarfMember
  <2>1. PICK key, offset, r : ResolveMember(key, offset, r)
    BY <1>5 DEF BtfMember, DwarfMember
  <2>2. DOMAIN type_names \subseteq DOMAIN type_names'
    BY <2>1, NamesGrow DEF ResolveMember, Enter, ensure_enum, tables
  <2>. QED BY <1>4, <1>5, <2>2 DEF BtfMember, DwarfMember
<1>6. CASE ParseElf \/ ReadBanner \/ ParseTypes \/ Leave \/ LoadFails \/ LookUpSymbols \/ Convert
  BY <1>4, <1>6 DEF ParseElf, ReadBanner, ParseTypes, Leave, LoadFails, LookUpSymbols, Convert, tables, Resolved
<1>7. CASE UNCHANGED vars
  BY <1>4, <1>7 DEF vars, tables
<1>. QED BY <1>1, <1>2, <1>3, <1>5, <1>6, <1>7 DEF Next, Done

(***************************************************************************)
(* R relates the nodes of two searches such that where the second has      *)
(* something the first has, too.  Then it finds something if the second    *)
(* does.                                                                   *)
(***************************************************************************)
Answers(own1, inner1, own2, inner2, R) ==
  \A a, b : <<a, b>> \in R =>
    /\ a \in DOMAIN own1 /\ b \in DOMAIN own2
    /\ own2[b] # {} => own1[a] # {}
    /\ own1[a] = {} => \A g \in inner2[b] : \E e \in inner1[a] : <<e[2], g[2]>> \in R

LEMMA SearchFinds ==
  ASSUME NEW f1, NEW own1, NEW inner1, IsSearch(f1, own1, inner1),
         NEW f2, NEW own2, NEW inner2, IsSearch(f2, own2, inner2),
         NEW R, Answers(own1, inner1, own2, inner2, R)
  PROVE  \A a, b : <<a, b>> \in R /\ f2[0][b] # {} => f1[0][a] # {}
<1>. \A a, b : <<a, b>> \in R =>
       /\ a \in DOMAIN own1 /\ b \in DOMAIN own2
       /\ own2[b] # {} => own1[a] # {}
       /\ own1[a] = {} => \A g \in inner2[b] : \E e \in inner1[a] : <<e[2], g[2]>> \in R
  BY Zenon DEF Answers
<1>. DEFINE N == MaxNesting + 1
            Found(d) == \A a, b : <<a, b>> \in R /\ f2[d][b] # {} => f1[d][a] # {}
            Bad == {n \in 0 .. N : ~Found(N - n)}
<1>0. \A d \in 0 .. MaxNesting :
        /\ \A a \in DOMAIN own1 : f1[d][a] = FoundAt(own1, inner1, f1[d + 1], a)
        /\ \A b \in DOMAIN own2 : f2[d][b] = FoundAt(own2, inner2, f2[d + 1], b)
  BY SearchLevel
<1>1. N \in Nat /\ MaxNesting \in Nat
  BY RawAssumption
<1>2. Found(N)
  <2>. SUFFICES ASSUME NEW a, NEW b, <<a, b>> \in R PROVE f2[N][b] = {}
    OBVIOUS
  <2>1. b \in DOMAIN own2
    OBVIOUS
  <2>. QED BY <2>1, SearchBottom, Zenon
<1>3. ASSUME NEW d \in 0 .. MaxNesting, Found(d + 1) PROVE Found(d)
  <2>. SUFFICES ASSUME NEW a, NEW b, <<a, b>> \in R, NEW x \in f2[d][b] PROVE f1[d][a] # {}
    OBVIOUS
  <2>1. a \in DOMAIN own1 /\ b \in DOMAIN own2
    OBVIOUS
  <2>2. f1[d][a] = FoundAt(own1, inner1, f1[d + 1], a)
    BY <1>0, <2>1
  <2>3. f2[d][b] = FoundAt(own2, inner2, f2[d + 1], b)
    BY <1>0, <2>1
  <2>4. CASE own1[a] # {}
    BY <2>2, <2>4 DEF FoundAt
  <2>5. CASE own1[a] = {}
    <3>1. x \notin own2[b]
      BY <2>5
    <3>2. PICK g \in inner2[b] : \E r \in f2[d + 1][g[2]] : x = Shifted(r, g)
      BY <2>3, <3>1 DEF FoundAt
    <3>3. PICK e \in inner1[a] : <<e[2], g[2]>> \in R
      BY <2>5, <3>2
    <3>4. PICK r : r \in f1[d + 1][e[2]]
      BY <1>3, <3>2, <3>3
    <3>5. Shifted(r, e) \in f1[d][a]
      BY <2>2, <3>3, <3>4 DEF FoundAt
    <3>. QED BY <3>5
  <2>. QED BY <2>4, <2>5
<1>. HIDE DEF Found
<1>4. Bad = {}
  <2>. SUFFICES ASSUME Bad # {} PROVE FALSE
    OBVIOUS
  <2>0. Bad \subseteq Nat
    BY <1>1
  <2>1. PICK n \in Bad : \A j \in Bad : n <= j
    <3>. HIDE DEF Bad
    <3>. QED BY <2>0, LeastNumber
  <2>2. n \in 0 .. N /\ n # 0
    <3>1. N - 0 = N
      BY <1>1
    <3>. QED BY <1>2, <3>1
  <2>3. n - 1 \in 0 .. N /\ n - 1 \notin Bad
    BY <1>1, <2>1, <2>2
  <2>4. N - n \in 0 .. MaxNesting /\ N - (n - 1) = (N - n) + 1
    BY <1>1, <2>2
  <2>5. Found((N - n) + 1)
    BY <2>3, <2>4
  <2>. QED BY <1>3, <2>4, <2>5
<1>5. N \in 0 .. N /\ N - N = 0
  BY <1>1
<1>. QED BY <1>4, <1>5 DEF Found

\* Every member of a type has its field in the tables.
LEMMA MemberHasField ==
  ASSUME FaithInv, pc \in Resolved, NEW id \in DOMAIN type_names, IsComposite(id),
         NEW k \in DOMAIN Types[id].members
  PROVE  /\ Key(id, k) \in DOMAIN user_types[type_names[id]].fields
         /\ Tells(user_types[type_names[id]].fields[Key(id, k)], Types[id].members[k])
<1>1. Stored(id) /\ Complete(id)
  BY DEF FaithInv, Open
<1>2. k \in 1 .. Len(Types[id].members)
  BY <1>1, TypesAreSequences DEF FaithInv, Stored
<1>. QED BY <1>1, <1>2 DEF Complete, Filled

\* A name that was given is a name.
LEMMA NamesAreNames ==
  ASSUME NamesInv, NEW id \in DOMAIN type_names
  PROVE  type_names[id] # NoName
<1>1. id \in UserDefined(Types) /\ NumbersTellApart(source, Types)
  BY SectionNames DEF NamesInv, NamedTypes
<1>2. OwnName(id) \in STRING /\ MadeUp(id) \in STRING
  BY <1>1 DEF NumbersTellApart, OwnName, MadeUp
<1>3. type_names[id] \in STRING
  BY <1>2 DEF NamesInv, NamedAfter
<1>. QED BY <1>3, NoNameAssumption

LEMMA TypesNumbered ==
  ASSUME file \in Images
  PROVE  Void \notin DOMAIN Types
BY TypesAreSequences DEF Void

LEMMA TablesAnswer ==
  ASSUME FaithInv, NamesInv, pc \in Resolved, NEW type, NEW name, HasName(name)
  PROVE  Answers(RawOwn(Raw, type, name), RawInner(Raw, type, name), SectionOwn(name), SectionInner, NamePairs)
<1>. SUFFICES ASSUME NEW a, NEW b, <<a, b>> \in NamePairs
              PROVE  /\ a \in DOMAIN RawOwn(Raw, type, name) /\ b \in DOMAIN SectionOwn(name)
                     /\ SectionOwn(name)[b] # {} => RawOwn(Raw, type, name)[a] # {}
                     /\ RawOwn(Raw, type, name)[a] = {} =>
                          \A g \in SectionInner[b] :
                            \E e \in RawInner(Raw, type, name)[a] : <<e[2], g[2]>> \in NamePairs
  BY Zenon DEF Answers
<1>1. b \in DOMAIN type_names /\ IsComposite(b) /\ a = type_names[b]
  BY DEF NamePairs
<1>2. PICK T, fields : T = user_types /\ fields = T[a].fields
  OBVIOUS
<1>3. Raw.user_types = T
  BY <1>2 DEF Raw
<1>4. b \in DOMAIN Types /\ a \in DOMAIN T
  BY <1>1, <1>2, FieldOfMember
<1>5. \A k \in DOMAIN Types[b].members : Key(b, k) \in DOMAIN fields /\ Tells(fields[Key(b, k)], Types[b].members[k])
  BY <1>1, <1>2, MemberHasField
<1>6. a \in DOMAIN RawOwn(Raw, type, name) /\ b \in DOMAIN SectionOwn(name)
  BY <1>3, <1>4 DEF RawOwn, SectionOwn
<1>7. SectionOwn(name)[b] # {} => name \in DOMAIN fields
  <2>. SUFFICES ASSUME SectionOwn(name)[b] # {} PROVE name \in DOMAIN fields
    OBVIOUS
  <2>1. PICK m \in Members(b) : m.name = name
    BY <1>4 DEF SectionOwn, OwnPlaces
  <2>2. PICK k \in DOMAIN Types[b].members : m = Types[b].members[k]
    BY DEF Members
  <2>3. Key(b, k) = name
    BY <2>1, <2>2 DEF Key, FieldKey, HasName
  <2>. QED BY <1>5, <2>3
<1>8. RawOwn(Raw, type, name)[a] = {} <=> name \notin DOMAIN fields
  BY <1>2, <1>3, <1>4 DEF RawOwn
<1>9. ASSUME name \notin DOMAIN fields, NEW g \in SectionInner[b]
      PROVE  \E e \in RawInner(Raw, type, name)[a] : <<e[2], g[2]>> \in NamePairs
  <2>1. PICK m \in Unnamed(b) : g = SectionEdge(m)
    BY <1>4 DEF SectionInner
  <2>2. PICK r : r = MemberRef(m)
    OBVIOUS
  <2>3. m \in Members(b) /\ m.name = "" /\ r.named /\ r.leaf \in DOMAIN Types /\ Types[r.leaf].kind \in Composite
    BY <2>1, <2>2 DEF Unnamed
  <2>4. PICK k \in DOMAIN Types[b].members : m = Types[b].members[k]
    BY <2>3 DEF Members
  <2>5. PICK key, f : key = Key(b, k) /\ f = fields[key]
    OBVIOUS
  <2>6. key \in DOMAIN fields /\ Tells(f, m)
    BY <1>5, <2>4, <2>5
  <2>7. IsComposite(r.leaf)
    <3>1. r.leaf # Void
      BY <2>3, TypesNumbered, Zenon DEF FaithInv
    <3>. QED BY <2>3, <3>1 DEF IsComposite
  <2>8. f.anonymous /\ r.leaf \in DOMAIN type_names /\ f.user = type_names[r.leaf]
    BY <2>2, <2>3, <2>6, <2>7 DEF Tells
  <2>9. f.user # NoName
    BY <2>8, NamesAreNames
  <2>10. key \in RawNested(Raw, a)
    BY <1>2, <1>3, <2>5, <2>6, <2>8, <2>9 DEF RawNested
  <2>11. RawEdge(Raw, a, key) \in RawInner(Raw, type, name)[a]
    BY <1>2, <1>3, <1>4, <1>9, <2>10 DEF RawInner
  <2>12. RawEdge(Raw, a, key)[2] = type_names[r.leaf] /\ g[2] = r.leaf
    BY <1>2, <1>3, <2>1, <2>2, <2>5, <2>8 DEF RawEdge, SectionEdge
  <2>13. <<type_names[r.leaf], r.leaf>> \in NamePairs
    BY <2>7, <2>8 DEF NamePairs
  <2>. QED BY <2>11, <2>12, <2>13
<1>. QED BY <1>6, <1>7, <1>8, <1>9

\* The first definition that a lookup by name may find.
LEMMA FindDefined ==
  ASSUME file \in Images, NEW kind, NEW name, NEW id \in Definitions({kind}, name)
  PROVE  LET found == find_named(kind, name)
         IN  found \in DOMAIN Types /\ Types[found].kind = kind /\ Types[found].name = name
<1>1. ASSUME NEW ids, ids \subseteq DOMAIN Types, ids # {} PROVE FirstOf(ids) \in ids
  <2>1. ids \subseteq Nat
    BY <1>1, TypesAreSequences
  <2>2. \E i \in ids : \A j \in ids : i <= j
    BY <1>1, <2>1, LeastNumber
  <2>. QED BY <1>1, <2>2 DEF FirstOf
<1>. DEFINE B == {i \in DOMAIN Types : Types[i].kind = kind /\ Types[i].name = name}
            D == {i \in DOMAIN Types : Types[i].kind = kind /\ Types[i].name = name /\ ~Types[i].decl}
<1>2. find_named(kind, name) = FirstOf(B) \/ find_named(kind, name) = FirstOf(D)
  BY DEF find_named, BtfFile_find_named, DwarfFile_find_named
<1>3. B \subseteq DOMAIN Types /\ D \subseteq DOMAIN Types /\ id \in B /\ id \in D
  BY DEF Definitions
<1>4. find_named(kind, name) \in B \/ find_named(kind, name) \in D
  <2>. HIDE DEF B, D
  <2>. QED BY <1>1, <1>2, <1>3
<1>. QED BY <1>4

\* No two types have a name that the defs need.
OneOfAName ==
  \A a, b \in DOMAIN Types :
    /\ Types[a].name = Types[b].name /\ Types[a].name \in RootSet
    /\ Types[a].kind \in Composite \cup Enumeration /\ Types[b].kind \in Composite \cup Enumeration
    => a = b

LEMMA NotAmbiguous ==
  ASSUME ~Ambiguous(LAMBDA t : TRUE)
  PROVE  OneOfAName
BY DEF Ambiguous, OneOfAName

\* Then a type that was looked up has its own name.
LEMMA OwnNameGiven ==
  ASSUME FaithInv, CauseInv, OneOfAName, NEW kind \in {"struct", "enum"}, NEW name \in RootSet,
         Reached(kind, name),
         NEW id \in Definitions({kind}, name)
  PROVE  id \in DOMAIN type_names /\ type_names[id] = name
<1>1. /\ id \in DOMAIN Types /\ Types[id].name = name /\ Types[id].kind = kind
      /\ kind \in Composite \cup Enumeration
  BY DEF Definitions, Composite, Enumeration
<1>2. PICK found : found = find_named(kind, name)
  OBVIOUS
<1>3. found \in DOMAIN Types /\ Types[found].kind = kind /\ Types[found].name = name
  BY <1>2, FindDefined DEF FaithInv
<1>4. found = id
  BY <1>1, <1>3 DEF OneOfAName
<1>5. found # Void
  BY <1>3, TypesNumbered DEF FaithInv
<1>6. id \in DOMAIN type_names
  BY <1>2, <1>4, <1>5 DEF Reached
<1>7. ~Shares(id)
  <2>1. \A b \in DOMAIN type_names : b \in DOMAIN Types /\ Types[b].kind \in Composite \cup Enumeration
    BY DEF CauseInv, NamedUnlessShared
  <2>. QED BY <1>1, <2>1 DEF Shares, OneOfAName
<1>. QED BY <1>1, <1>6, <1>7 DEF CauseInv, NamedUnlessShared

\* What is in a definition of a struct that was looked up, from_raw finds.
LEMMA FoundInTables ==
  ASSUME FaithInv, NamesInv, CauseInv, OneOfAName, pc \in Resolved,
         NEW w, NEW type, NEW name, type = w[1], name = w[2], HasName(name), type \in StructNames,
         PlacesIn({"struct"}, w) # {}
  PROVE  Has(Raw, w)
<1>0. PICK own1, inner1, own2, inner2, R :
        /\ own1 = RawOwn(Raw, type, name) /\ inner1 = RawInner(Raw, type, name)
        /\ own2 = SectionOwn(name) /\ inner2 = SectionInner
        /\ R = NamePairs
  OBVIOUS
<1>1. PICK f : IsSearch(f, own1, inner1) /\ resolve_field(Raw, w) = f[0][type]
  BY <1>0, ResolveIsSearch DEF resolve_field
<1>2. PICK g : IsSearch(g, own2, inner2) /\ \A id : Places(id, name) = g[0][id]
  BY <1>0, PlacesIsSearch
<1>3. \A a, b : <<a, b>> \in R /\ g[0][b] # {} => f[0][a] # {}
  <2>1. Answers(own1, inner1, own2, inner2, R)
    BY <1>0, TablesAnswer
  <2>. QED BY <1>1, <1>2, <2>1, SearchFinds
<1>4. PICK id \in Definitions({"struct"}, type) : Places(id, name) # {}
  BY DEF PlacesIn
<1>5. id \in DOMAIN type_names /\ type_names[id] = type
  <2>1. PICK i \in DOMAIN Roots : Roots[i] = type
    BY RootNames
  <2>2. Reached("struct", type) /\ type \in RootSet
    <3>1. i < Len(Roots) + 1 /\ root = Len(Roots) + 1
      BY RootNames DEF CauseInv, RootsReached
    <3>. QED BY <2>1, <3>1, StructsAreRoots DEF CauseInv, RootsReached
  <2>. QED BY <1>4, <2>2, OwnNameGiven
<1>6. IsComposite(id)
  BY <1>4, TypesNumbered DEF FaithInv, Definitions, IsComposite, Composite
<1>7. <<type, id>> \in R
  BY <1>0, <1>5, <1>6 DEF NamePairs
<1>8. f[0][type] # {}
  BY <1>2, <1>3, <1>4, <1>7
<1>. QED BY <1>1, <1>8 DEF Has

\* A struct that is defined is the only struct or union of its name.
LEMMA StructsOnly ==
  ASSUME OneOfAName, NEW w, w[1] \in RootSet, Definitions({"struct"}, w[1]) # {}
  PROVE  PlacesIn(Composite, w) = PlacesIn({"struct"}, w)
<1>1. PICK id \in Definitions({"struct"}, w[1]) : TRUE
  OBVIOUS
<1>2. ASSUME NEW a \in Definitions(Composite, w[1]) PROVE a = id
  BY <1>1 DEF Definitions, OneOfAName, Composite
<1>3. id \in Definitions(Composite, w[1])
  BY <1>1 DEF Definitions, Composite
<1>4. Definitions(Composite, w[1]) = Definitions({"struct"}, w[1])
  <2>1. Definitions({"struct"}, w[1]) \subseteq Definitions(Composite, w[1])
    BY DEF Definitions, Composite
  <2>. QED BY <1>1, <1>2, <2>1
<1>. QED BY <1>4 DEF PlacesIn

\* from_raw refuses a profile for cause.
LEMMA ConvertRefuses ==
  ASSUME FaithInv, NamesInv, NoClash, KeysNamed, CauseInv, pc \in Resolved, Fails(Raw)
  PROVE  ElfLacks \/ SectionLacks \/ DefinitionsLack \/ Ambiguous(LAMBDA t : TRUE)
<1>. SUFFICES ASSUME ~ElfLacks, ~SectionLacks, ~DefinitionsLack, ~Ambiguous(LAMBDA t : TRUE) PROVE FALSE
  OBVIOUS
<1>. DEFINE places(w) == PlacesIn({"struct"}, w)
            needed == RequiredFields
                        \cup (IF places(<<"mm_struct", "mm_mt">>) = {} THEN {} ELSE MapleFields)
            fields == DefsFields
<1>1. OneOfAName
  BY NotAmbiguous
<1>2. /\ \A w \in needed : places(w) # {}
      /\ \A w \in needed \cap ArrayFields : \A r \in places(w) : r.len # NoLen
      /\ \E w \in StateFields : places(w) # {}
      /\ \A c \in ModuleStates : \E e \in Definitions({"enum"}, "module_state") : c \in Types[e].constants
  BY Zenon DEF DefinitionsLack
<1>3. ASSUME NEW w \in fields, places(w) # {} PROVE Has(Raw, w)
  <2>1. PICK type, name : type = w[1] /\ name = w[2]
    OBVIOUS
  <2>2. HasName(name) /\ type \in StructNames
    BY <2>1, FieldsRooted
  <2>. QED BY <1>1, <1>3, <2>1, <2>2, FoundInTables
<1>4. ASSUME NEW w \in fields, NEW r \in resolve_field(Raw, w), Definitions({"struct"}, w[1]) # {}
      PROVE  r \in places(w)
  <2>1. PICK type, name : type = w[1] /\ name = w[2]
    OBVIOUS
  <2>2. name \in FieldNames /\ type \in RootSet
    BY <2>1, FieldsRooted, StructsAreRoots DEF FieldNames
  <2>3. resolve_field(Raw, w) \subseteq PlacesIn(Composite, w)
    BY <2>1, <2>2, ResolveTrue
  <2>4. PlacesIn(Composite, w) = places(w)
    BY <1>1, <1>4, <2>1, <2>2, StructsOnly
  <2>. QED BY <1>4, <2>3, <2>4
<1>5. \A w : places(w) # {} => Definitions({"struct"}, w[1]) # {}
  BY DEF PlacesIn
<1>6. ASSUME Maple(Raw) PROVE places(<<"mm_struct", "mm_mt">>) # {}
  <2>1. PICK w : w = <<"mm_struct", "mm_mt">>
    OBVIOUS
  <2>2. w \in fields /\ w[1] = "mm_struct"
    BY <2>1 DEF DefsFields, OptionalFields, FieldsOf
  <2>3. Definitions({"struct"}, "mm_struct") # {}
    <3>1. 2 \in DOMAIN REQUIRED_TYPES /\ REQUIRED_TYPES[2] = "mm_struct"
      BY DEF REQUIRED_TYPES
    <3>. QED BY <3>1 DEF SectionLacks
  <2>4. PICK r : r \in resolve_field(Raw, w)
    BY <1>6, <2>1 DEF Maple, Has
  <2>. QED BY <1>4, <2>1, <2>2, <2>3, <2>4
<1>7. Needed(Raw) \subseteq needed /\ needed \subseteq fields
  BY <1>6 DEF Needed, DefsFields
<1>. HIDE DEF needed, fields, places
<1>8. \A s \in REQUIRED_SYMBOLS : required_symbol(Raw, s)
  BY DEF ElfLacks, required_symbol, Raw
<1>9. \A w \in Needed(Raw) : Has(Raw, w)
  BY <1>2, <1>3, <1>7
<1>10. \A w \in Needed(Raw) \cap ArrayFields : \A r \in resolve_field(Raw, w) : r.len # NoLen
  BY <1>2, <1>4, <1>5, <1>7
<1>11. \E w \in StateFields : Has(Raw, w)
  BY <1>2, <1>3 DEF fields, DefsFields
<1>12. ASSUME NEW c \in ModuleStates PROVE required_enum_constant(Raw, "module_state", c)
  <2>1. PICK e \in Definitions({"enum"}, "module_state") : c \in Types[e].constants
    BY <1>2
  <2>2. e \in DOMAIN type_names /\ type_names[e] = "module_state"
    <3>1. Reached("enum", "module_state") /\ "module_state" \in RootSet
      BY DEF CauseInv, RootsReached, RootSet
    <3>. QED BY <1>1, <2>1, <3>1, OwnNameGiven
  <2>3. Types[e].kind \in Enumeration
    BY <2>1 DEF Definitions, Enumeration
  <2>4. "module_state" \in DOMAIN enums /\ enums["module_state"] = Types[e].constants
    BY <2>2, <2>3 DEF CauseInv, EnumsHeld, HasConstants
  <2>. QED BY <2>1, <2>4 DEF required_enum_constant, Raw
<1>. QED BY <1>8, <1>9, <1>10, <1>11, <1>12 DEF Fails

\* A section is searched in one way.
LEMMA SearchUnique ==
  ASSUME NEW f, NEW g, NEW own, NEW inner, IsSearch(f, own, inner), IsSearch(g, own, inner),
         \A t \in DOMAIN own : \A e \in inner[t] : e[2] \in DOMAIN own
  PROVE  \A t \in DOMAIN own : f[0][t] = g[0][t]
<1>. DEFINE R == {<<t, t>> : t \in DOMAIN own}
<1>1. Matches(own, inner, own, inner, R)
  BY DEF Matches
<1>2. \A t \in DOMAIN own : <<t, t>> \in R
  OBVIOUS
<1>. HIDE DEF R
<1>3. \A a, b : <<a, b>> \in R => f[0][a] \subseteq g[0][b]
  BY <1>1, SearchWithin
<1>4. \A a, b : <<a, b>> \in R => g[0][a] \subseteq f[0][b]
  BY <1>1, SearchWithin
<1>5. ASSUME NEW t \in DOMAIN own PROVE f[0][t] = g[0][t]
  <2>1. f[0][t] \subseteq g[0][t] /\ g[0][t] \subseteq f[0][t]
    BY <1>2, <1>3, <1>4
  <2>. QED BY <2>1
<1>. QED BY <1>5

LEMMA AllPlacesSearched ==
  \A name : \E f : IsSearch(f, SectionOwn(name), SectionInner) /\ \A id : Places(id, name) = f[0][id]
BY PlacesIsSearch

LEMMA AllPlacesSearchedNext ==
  (\A name : \E f : IsSearch(f, SectionOwn(name), SectionInner) /\ \A id : Places(id, name) = f[0][id])'
BY AllPlacesSearched, PTL

LEMMA PlacesKept ==
  ASSUME UNCHANGED <<file, source>>, NEW id \in DOMAIN Types, NEW name
  PROVE  Places(id, name)' = Places(id, name)
<1>1. /\ Types' = Types
      /\ \A m : /\ MemberRef(m)' = MemberRef(m) /\ MemberOffset(m)' = MemberOffset(m)
                /\ MemberLen(m)' = MemberLen(m)
  BY SectionKept
<1>2. \A t : Members(t)' = Members(t)
  BY <1>1 DEF Members
<1>3. \A t : OwnPlaces(t, name)' = OwnPlaces(t, name)
  BY <1>1, <1>2 DEF OwnPlaces
<1>4. \A t : Unnamed(t)' = Unnamed(t)
  BY <1>1, <1>2 DEF Unnamed
<1>5. \A m : SectionEdge(m)' = SectionEdge(m)
  BY <1>1 DEF SectionEdge
<1>6. SectionOwn(name)' = SectionOwn(name)
  BY <1>1, <1>3 DEF SectionOwn
<1>7. SectionInner' = SectionInner
  <2>1. \A t : {SectionEdge(m) : m \in Unnamed(t)}' = {SectionEdge(m) : m \in Unnamed(t)}
    BY <1>4, <1>5
  <2>. QED BY <1>1, <2>1 DEF SectionInner
<1>8. PICK own, inner : own = SectionOwn(name) /\ inner = SectionInner
  OBVIOUS
<1>9. PICK g : IsSearch(g, own, inner) /\ Places(id, name) = g[0][id]
  BY <1>8, PlacesIsSearch
<1>10. PICK f : IsSearch(f, own, inner) /\ Places(id, name)' = f[0][id]
  <2>1. \E f : IsSearch(f, SectionOwn(name)', SectionInner') /\ \A x : Places(x, name)' = f[0][x]
    BY AllPlacesSearchedNext DEF IsSearch, Nothing, Level, FoundAt, Shifted
  <2>. QED BY <1>6, <1>7, <1>8, <2>1
<1>11. id \in DOMAIN own /\ \A t \in DOMAIN own : \A e \in inner[t] : e[2] \in DOMAIN own
  <2>1. DOMAIN own = DOMAIN Types
    BY <1>8 DEF SectionOwn
  <2>2. ASSUME NEW t \in DOMAIN Types, NEW e \in inner[t] PROVE e[2] \in DOMAIN Types
    <3>1. PICK m \in Unnamed(t) : e = SectionEdge(m)
      BY <1>8, <2>2 DEF SectionInner
    <3>2. MemberRef(m).leaf \in DOMAIN Types
      BY <3>1 DEF Unnamed
    <3>. QED BY <3>1, <3>2 DEF SectionEdge
  <2>. QED BY <2>1, <2>2
<1>. QED BY <1>9, <1>10, <1>11, SearchUnique

LEMMA PlacesInKept ==
  ASSUME UNCHANGED <<file, source>>
  PROVE  /\ \A kinds, name : Definitions(kinds, name)' = Definitions(kinds, name)
         /\ \A kinds, w : PlacesIn(kinds, w)' = PlacesIn(kinds, w)
<1>1. \A kinds, name : Definitions(kinds, name)' = Definitions(kinds, name)
  BY SectionKept DEF Definitions
<1>2. \A kinds, name : Definitions(kinds, name) \subseteq DOMAIN Types
  BY DEF Definitions
<1>3. \A id \in DOMAIN Types : \A name : Places(id, name)' = Places(id, name)
  BY PlacesKept
<1>4. ASSUME NEW kinds, NEW w PROVE PlacesIn(kinds, w)' = PlacesIn(kinds, w)
  <2>1. \A x : x \in PlacesIn(kinds, w)' <=> \E id \in Definitions(kinds, w[1])' : x \in Places(id, w[2])'
    BY DEF PlacesIn
  <2>2. \A x : x \in PlacesIn(kinds, w) <=> \E id \in Definitions(kinds, w[1]) : x \in Places(id, w[2])
    BY DEF PlacesIn
  <2>3. Definitions(kinds, w[1])' = Definitions(kinds, w[1])
    BY <1>1, Zenon
  <2>4. \A id \in Definitions(kinds, w[1]) : Places(id, w[2])' = Places(id, w[2])
    BY <1>2, <1>3
  <2>. QED BY <2>1, <2>2, <2>3, <2>4
<1>. QED BY <1>1, <1>4

\* The causes, which depend on the file and the section only.
Cause == ElfLacks \/ SectionLacks \/ DefinitionsLack \/ Ambiguous(LAMBDA t : TRUE)

LEMMA CauseKept ==
  ASSUME UNCHANGED <<file, source>>, Cause
  PROVE  Cause'
<1>1. Types' = Types /\ \A m : MemberRef(m)' = MemberRef(m)
  BY SectionKept
<1>2. ElfLacks => ElfLacks'
  BY DEF ElfLacks, Symbols
<1>3. SectionLacks => SectionLacks'
  <2>1. SectionState' = SectionState
    BY DEF SectionState
  <2>. QED BY <1>1, <2>1, PlacesInKept DEF SectionLacks, Missing
<1>4. DefinitionsLack => DefinitionsLack'
  BY <1>1, PlacesInKept DEF DefinitionsLack
<1>5. Ambiguous(LAMBDA t : TRUE) => Ambiguous(LAMBDA t : TRUE)'
  BY <1>1 DEF Ambiguous
<1>. QED BY <1>2, <1>3, <1>4, <1>5 DEF Cause

\* What a lookup does not find is not defined.
LEMMA NotFound ==
  ASSUME file \in Images, NEW kind, NEW name, find_named(kind, name) = Void
  PROVE  Definitions({kind}, name) = {}
BY FindDefined, TypesNumbered

\* The member that is due, and its type.
LEMMA DueMember ==
  ASSUME FaithInv, StackInv, MemberDue
  PROVE  \E t \in DOMAIN Types : \E k \in DOMAIN Types[t].members : CurrentRef = MemberRef(Types[t].members[k])
<1>1. PICK S : stack \in Seq(S)
  BY DEF StackInv, StackIsSeq
<1>2. stack # <<>> /\ Len(stack) \in DOMAIN stack
  BY <1>1 DEF MemberDue
<1>3. FrameHolds(Top) /\ Top.id \in DOMAIN Types
  BY <1>2 DEF FaithInv, Top, FrameHolds
<1>4. Top.next \in DOMAIN Types[Top.id].members
  BY <1>3, TypesAreSequences DEF FaithInv, FrameHolds, MemberDue
<1>5. CurrentRef = MemberRef(Types[Top.id].members[Top.next])
  BY DEF CurrentRef, BtfRef, DwarfRef, MemberRef, Current
<1>. QED BY <1>3, <1>4, <1>5

\* What a loader gives up on.
LEMMA GivesUpForCause ==
  ASSUME FaithInv, StackInv, CauseInv, GivesUp
  PROVE  \/ SectionState # "ok"
         \/ \E t \in DOMAIN Types : \E k \in DOMAIN Types[t].members :
              Missing(Types, MemberRef(Types[t].members[k]))
         \/ \E i \in DOMAIN REQUIRED_TYPES : find_named("struct", REQUIRED_TYPES[i]) = Void
         \/ find_named("enum", "module_state") = Void
<1>1. CASE NoStruct(Len(REQUIRED_TYPES))
  <2>1. root \in Nat \ {0} /\ root <= Len(REQUIRED_TYPES) /\ find_named("struct", Roots[root]) = Void
    BY <1>1 DEF NoStruct, CauseInv, RootsReached
  <2>2. root \in DOMAIN REQUIRED_TYPES
    BY <2>1, RootNames
  <2>3. Roots[root] = REQUIRED_TYPES[root]
    BY <2>2, RootNames
  <2>. QED BY <2>1, <2>2, <2>3
<1>2. CASE MemberDue /\ Missing(Types, CurrentRef)
  BY <1>2, DueMember
<1>. QED BY <1>1, <1>2 DEF GivesUp, NoEnum

\* What BTF lacks if it was given up.
BtfLacks ==
  \/ \E t \in DOMAIN file.btf : \E k \in DOMAIN file.btf[t].members :
       Missing(file.btf, btf_raw_type_ref(file.btf, file.btf[t].members[k].type))
  \/ \E i \in DOMAIN REQUIRED_TYPES : BtfFile_find_named(file.btf, "struct", REQUIRED_TYPES[i]) = Void
  \/ BtfFile_find_named(file.btf, "enum", "module_state") = Void
Abandoned == source = "dwarf" /\ file.btf_state = "ok" => BtfLacks
Refused == pc = "err" => Cause

LEMMA AbandonedNext ==
  ASSUME FaithInv, StackInv, CauseInv, Abandoned, [Next]_vars
  PROVE  Abandoned'
<1>1. CASE UNCHANGED <<file, source>>
  BY <1>1 DEF Abandoned, BtfLacks
<1>2. CASE section_data_optional
  <2>1. source' = "dwarf" => file'.btf_state = "absent"
    BY <1>2 DEF section_data_optional
  <2>. QED BY <2>1 DEF Abandoned
<1>3. CASE FallBack
  <2>1. source = "btf" /\ GivesUp /\ file' = file
    BY <1>3 DEF FallBack
  <2>2. /\ Types = file.btf /\ SectionState = file.btf_state
        /\ \A m : MemberRef(m) = btf_raw_type_ref(file.btf, m.type)
        /\ \A kind, name : find_named(kind, name) = BtfFile_find_named(file.btf, kind, name)
    BY <2>1 DEF Types, SectionState, MemberRef, find_named
  <2>3. file.btf_state = "ok" => BtfLacks
    BY <2>1, <2>2, GivesUpForCause DEF BtfLacks
  <2>4. BtfLacks => BtfLacks'
    BY <2>1 DEF BtfLacks
  <2>. QED BY <2>1, <2>3, <2>4 DEF Abandoned
<1>. QED BY <1>1, <1>2, <1>3 DEF Next, vars, tables, ParseElf, ReadBanner, ParseTypes, BtfMember,
  DwarfMember, Leave, ResolveRoot, ResolveModuleState, LoadFails, LookUpSymbols, Convert, Done

LEMMA RefusedNext ==
  ASSUME NoClash, FaithInv, NamesInv, StackInv, KeysNamed, CauseInv, Refused, [Next]_vars
  PROVE  Refused'
<1>1. CASE pc' # "err"
  BY <1>1 DEF Refused
<1>2. CASE UNCHANGED <<file, source>> /\ Cause
  <2>1. Cause'
    BY <1>2, CauseKept
  <2>. QED BY <2>1 DEF Refused
<1>3. CASE ParseElf \/ ReadBanner \/ LookUpSymbols
  <2>1. pc' = "err" => ElfLacks
    <3>1. REQUIRED_SYMBOLS \subseteq DOMAIN Symbols \/ ElfLacks
      BY DEF ElfLacks
    <3>2. "linux_banner" \in REQUIRED_SYMBOLS
      BY DEF REQUIRED_SYMBOLS
    <3>. QED BY <1>3, <3>1, <3>2 DEF ParseElf, ReadBanner, LookUpSymbols, read_symbol_cstring, ElfLacks
  <2>2. UNCHANGED <<file, source>>
    BY <1>3 DEF ParseElf, ReadBanner, LookUpSymbols
  <2>. QED BY <1>1, <1>2, <2>1, <2>2 DEF Cause
<1>4. CASE section_data_optional
  <2>1. pc' = "err" => ElfLacks'
    BY <1>4 DEF section_data_optional, ElfLacks
  <2>. QED BY <2>1 DEF Refused, Cause
<1>5. CASE LoadFails
  <2>1. GivesUp /\ UNCHANGED <<file, source>>
    BY <1>5 DEF LoadFails
  <2>2. SectionLacks
    BY <2>1, GivesUpForCause, NotFound DEF SectionLacks, FaithInv
  <2>. QED BY <1>2, <2>1, <2>2 DEF Cause
<1>6. CASE Convert
  <2>1. UNCHANGED <<file, source>> /\ pc \in Resolved /\ (pc' = "err" => Fails(Raw))
    BY <1>6 DEF Convert, Resolved
  <2>2. pc' = "err" => Cause
    BY <2>1, ConvertRefuses DEF Cause
  <2>. QED BY <1>1, <1>2, <2>1, <2>2
<1>7. CASE UNCHANGED vars
  <2>1. UNCHANGED <<file, source, pc>>
    BY <1>7 DEF vars
  <2>. QED BY <1>1, <1>2, <2>1 DEF Refused
<1>8. CASE \/ ParseTypes \/ BtfMember \/ DwarfMember \/ Leave \/ ResolveRoot \/ ResolveModuleState \/ FallBack
  BY <1>1, <1>8 DEF ParseTypes, BtfMember, DwarfMember, MemberDue, Leave, ResolveRoot, ResolveModuleState, FallBack
<1>. QED BY <1>3, <1>4, <1>5, <1>6, <1>7, <1>8 DEF Next, Done

(***************************************************************************)
(* For every vmlinux in which no name is one that a resolver invents, defs *)
(* are refused for cause only, and DWARF is turned to only if there is no  *)
(* .BTF or what a loader looks up is not in it.  A profile that from_raw   *)
(* refuses comes from a section that has no definition of what is needed,  *)
(* or two types of one name: the tables answer for each struct that was    *)
(* looked up whatever the section does.                                    *)
(***************************************************************************)
THEOREM RefusalsHaveCause == Spec => []RefusedForCause
<1>. DEFINE Causes == FaithInv /\ KeysNamed /\ CauseInv /\ Refused /\ Abandoned
            Inv == NamesInv /\ StackInv /\ (NoClash => Causes)
<1>1. Init => Inv
  <2>. SUFFICES ASSUME Init PROVE Inv
    OBVIOUS
  <2>1. /\ DOMAIN type_names = {} /\ DOMAIN user_types = {} /\ DOMAIN enums = {} /\ root = 1
        /\ pc = "elf" /\ source = "btf"
    BY DEF Init, NoFunction
  <2>2. RootsReached
    <3>1. \A i \in DOMAIN Roots : ~(i < 1)
      BY RootNames
    <3>. QED BY <2>1, <3>1 DEF RootsReached, Resolved
  <2>3. KeysNamed /\ NamedUnlessShared /\ EnumsHeld /\ Refused /\ Abandoned
    BY <2>1 DEF KeysNamed, NamedUnlessShared, EnumsHeld, Refused, Abandoned
  <2>. QED BY <2>2, <2>3, AtFirst DEF CauseInv
<1>2. Inv /\ [Next]_vars => Inv'
  <2>. SUFFICES ASSUME Inv, [Next]_vars PROVE Inv'
    OBVIOUS
  <2>1. NamesInv' /\ StackInv' /\ (NoClash' => NoClash)
    BY NamesNext, StackNext, ClashKept
  <2>2. ASSUME NoClash PROVE FaithInv' /\ KeysNamed'
    BY <2>2, FaithNext, TablesNext
  <2>3. ASSUME NoClash PROVE CauseInv'
    BY <2>3, RootsReachedNext, NamedUnlessSharedNext, EnumsHeldNext DEF CauseInv
  <2>4. ASSUME NoClash PROVE Refused' /\ Abandoned'
    BY <2>4, RefusedNext, AbandonedNext
  <2>. QED BY <2>1, <2>2, <2>3, <2>4
<1>3. Inv => RefusedForCause
  BY DEF Refused, Abandoned, RefusedForCause, Cause, BtfLacks
<1>. QED BY <1>1, <1>2, <1>3, PTL DEF Spec
============================================================================
