------------------------------ MODULE Kallsyms ------------------------------
(***************************************************************************)
(* The in-kernel symbol table: where its parts lie, which of two encodings *)
(* it has, and the walk over its compressed names.                         *)
(*                                                                         *)
(* Memory is counted in words, the 32-bit entries of kallsyms_offsets, and *)
(* a word has 2^WordBits values, an address at most MaxAddr.  Name bytes   *)
(* are cut down to values below 2 * HighBit.  t is a table of the target:  *)
(*   words        the words around the table, those not there reading as 0 *)
(*   names, token_index   the addresses parse_expand_symbol extracts       *)
(*   name_bytes, tokens   kallsyms_names and the token table               *)
(*   syms         the symbols it was made from: addr and codes, the token  *)
(*                bytes of the name                                        *)
(* The reads that fail are the set bad: <<"word", address>>,               *)
(* <<"name", position>> and <<"token", byte>>.                             *)
(***************************************************************************)
EXTENDS Integers, SequencesExt, FiniteSetsExt, TLC

CONSTANTS
  WordBits,
  HighBit,              \* 0x80
  MaxAddr,              \* u64::MAX, which is also Address::INVALID
  KernelMin,            \* 0xffff_8000_0000_0000
  TokenIndexWords,      \* KALLSYMS_TOKEN_INDEX_BYTES
  Alignment,            \* the alignment find_kallsyms passes
  NoLayout              \* no table recovered

ASSUME KallsymsAssumption ==
  /\ {WordBits, HighBit, Alignment} \subseteq Nat \ {0}
  /\ TokenIndexWords \in Nat /\ KernelMin \in 0 .. MaxAddr /\ MaxAddr \in Nat

align_down_address(a) == a - (a % Alignment)
align_up_address(a) == align_down_address(a + Alignment - 1)
looks_like_kernel_pointer(a) == KernelMin <= a /\ a < MaxAddr

Readable(bad, a) == <<"word", a>> \notin bad
Word(t, a) == IF a \in DOMAIN t.words THEN t.words[a] ELSE 0
\* read::<i32>
Signed(w) == IF w >= 2 ^ (WordBits - 1) THEN w - 2 ^ WordBits ELSE w
SaturatingAdd(a, b) == Min({a + b, MaxAddr})

num_syms_addr(t) == align_down_address(t.names - 1)

\* Plausible bug: the odd half-unit behind an odd number of offsets is not skipped.
BaseUnaligned(t, n) ==
  LET offsets == align_up_address(t.token_index + TokenIndexWords)
  IN [offsets |-> offsets, relative_base_addr |-> offsets + n, encoding |-> "RelativeUnsigned"]

\* kallsyms_offsets and kallsyms_relative_base behind the token index.
modern_layout(t, n) ==
  LET offsets == align_up_address(t.token_index + TokenIndexWords)
  IN [offsets |-> offsets, relative_base_addr |-> align_up_address(offsets + n),
      encoding |-> "RelativeUnsigned"]

\* The same in front of kallsyms_num_syms; an address below 0 is no layout.
legacy_layout(t, n) ==
  LET base == align_down_address(num_syms_addr(t) - Alignment)
  IN IF num_syms_addr(t) < Alignment \/ base < n THEN NoLayout
     ELSE [offsets |-> align_down_address(base - n), relative_base_addr |-> base,
           encoding |-> "LegacySigned"]

\* The address an offset stands for.
Decode(encoding, relative_base, w) ==
  IF encoding = "RelativeUnsigned" THEN SaturatingAdd(relative_base, w)
  ELSE IF Signed(w) < 0 THEN relative_base - 1 - Signed(w)
  ELSE Signed(w)

is_plausible_layout(t, bad, layout, n) ==
  LET base == Word(t, layout.relative_base_addr)
      at(k) == layout.offsets + k
      address(k) == Decode(layout.encoding, base, Word(t, at(k)))
      first == 0 .. Min({n, 4}) - 1
  IN /\ Readable(bad, layout.relative_base_addr)
     /\ looks_like_kernel_pointer(base)
     /\ \A k \in first : Readable(bad, at(k)) /\ looks_like_kernel_pointer(address(k))
     /\ \A k \in first \ {0} : address(k - 1) <= address(k)

resolve_layout(t, bad, n) ==
  LET modern == modern_layout(t, n)
      legacy == legacy_layout(t, n)
  IN IF n = 0 THEN NoLayout
     ELSE IF is_plausible_layout(t, bad, modern, n) THEN modern
     ELSE IF legacy # NoLayout /\ is_plausible_layout(t, bad, legacy, n) THEN legacy
     ELSE NoLayout

\* KallsymsInfo::new
KallsymsInfo(t, bad) ==
  LET n == Word(t, num_syms_addr(t))
      layout == resolve_layout(t, bad, n)
  IN IF ~Readable(bad, num_syms_addr(t)) \/ layout = NoLayout THEN NoLayout
     ELSE [offsets |-> layout.offsets, encoding |-> layout.encoding, num_syms |-> n,
           relative_base |-> Word(t, layout.relative_base_addr)]

----------------------------------------------------------------------------
(* The iterator *)

\* Positions of name_bytes count from 0 here, as kallsyms_names + offset does.
NameByte(t, k) == IF k + 1 \in DOMAIN t.name_bytes THEN t.name_bytes[k + 1] ELSE 0
NameReadable(bad, k) == <<"name", k>> \notin bad

decode_symbol_len_prefix(first, second) ==
  IF first < HighBit THEN [len |-> first, header |-> 1]
  ELSE [len |-> (first % HighBit) + second * HighBit, header |-> 2]

LenReadable(t, bad, k) ==
  NameReadable(bad, k) /\ (NameByte(t, k) >= HighBit => NameReadable(bad, k + 1))

\* A name is its tokens in a row without the first character, the symbol's type.
Expanded(t, codes) ==
  FlattenSeq([i \in DOMAIN codes |-> IF i = 1 THEN Tail(t.tokens[codes[1]])
                                      ELSE t.tokens[codes[i]]])

expand_symbol(t, k) ==
  LET prefix == decode_symbol_len_prefix(NameByte(t, k), NameByte(t, k + 1))
      codes == [i \in 1 .. prefix.len |-> NameByte(t, k + prefix.header + i - 1)]
  IN [codes |-> codes, next |-> k + prefix.header + prefix.len, start |-> k + prefix.header]

ExpandReadable(t, bad, k) ==
  /\ LenReadable(t, bad, k)
  /\ LET e == expand_symbol(t, k)
     IN /\ \A i \in e.start .. e.next - 1 : NameReadable(bad, i)
        /\ \A c \in Range(e.codes) : c \in DOMAIN t.tokens /\ <<"token", c>> \notin bad

sym_address(t, info, idx) == Decode(info.encoding, info.relative_base, Word(t, info.offsets + idx))

\* next_allocfree until it returns None: the first read that fails ends the walk too.
RECURSIVE SymsFrom(_, _, _, _, _)
SymsFrom(t, bad, info, idx, k) ==
  IF \/ idx >= info.num_syms
     \/ ~Readable(bad, info.offsets + idx)
     \/ ~ExpandReadable(t, bad, k)
  THEN <<>>
  ELSE <<[addr |-> sym_address(t, info, idx), name |-> Expanded(t, expand_symbol(t, k).codes)]>>
         \o SymsFrom(t, bad, info, idx + 1, expand_symbol(t, k).next)
syms_iter(t, bad, info) == SymsFrom(t, bad, info, 0, 0)

----------------------------------------------------------------------------
(* The tables of the target, as scripts/kallsyms of the kernel emits them *)

\* The symbols a table was made from.
TrueSyms(t) ==
  [k \in DOMAIN t.syms |-> [addr |-> t.syms[k].addr, name |-> Expanded(t, t.syms[k].codes)]]

NameBytes(codes) ==
  (IF Len(codes) < HighBit THEN <<Len(codes)>>
   ELSE <<HighBit + (Len(codes) % HighBit), Len(codes) \div HighBit>>) \o codes

Placed(at, seq) == [a \in at .. at + Len(seq) - 1 |-> seq[a - at + 1]]

\* The same parts in the same order as the code expects, every label aligned.
Emit(modern, start, base, syms, rest, tokens) ==
  LET n == Len(syms)
      encode(s) == IF modern THEN s.addr - base
                   ELSE IF s.addr < base THEN s.addr
                   ELSE 2 ^ WordBits - 1 - (s.addr - base)
      offs == [k \in 1 .. n |-> encode(syms[k])]
      padded == offs \o [k \in 1 .. align_up_address(n) - n |-> 0]
      pad(v) == <<v>> \o [k \in 1 .. Alignment - 1 |-> 0]
      front == IF modern THEN pad(n) ELSE padded \o pad(base) \o pad(n)
      names == start + Len(front)
      token_index == names + Alignment   \* the tables between are as if one unit long
      back == [k \in 1 .. align_up_address(TokenIndexWords) |-> 1]
                \o (IF modern THEN padded \o pad(base) ELSE <<>>) \o rest
  IN [words |-> Placed(start, front) @@ Placed(token_index, back),
      names |-> names, token_index |-> token_index, tokens |-> tokens, syms |-> syms,
      name_bytes |-> FlattenSeq([k \in 1 .. n |-> NameBytes(syms[k].codes)])]
============================================================================
