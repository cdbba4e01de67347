------------------------------ MODULE EnvBlock ------------------------------
(***************************************************************************)
(* The strings of a process: its environment block and its arguments, NUL  *)
(* terminated strings packed one behind the other in its own memory.       *)
(*                                                                         *)
(* mem is a sequence of byte classes: NUL, EQ ("="), BAD (a byte that is   *)
(* no UTF-8), or any other byte.  The address of mem[k] is k; 0 is null.   *)
(* Bytes behind the end of mem and in holes are not mapped: a partial read *)
(* succeeds and leaves the zeros of the buffer in their place.             *)
(***************************************************************************)
EXTENDS Integers, SequencesExt

CONSTANTS
  MAX_ENVIRONMENT_BYTES, MAX_ARGUMENT_BYTES,
  NUL, EQ, BAD,
  NoData        \* Result::Err, as bytes read

Byte(mem, holes, k) == IF k \in DOMAIN mem \ holes THEN mem[k] ELSE NUL
ReadRaw(mem, holes, start, len) == [k \in 1 .. len |-> Byte(mem, holes, start + k - 1)]

read_string_range(mem, holes, start, end, max) ==
  IF end < start \/ 0 \in {start, end, end - start} \/ end - start > max THEN NoData
  ELSE ReadRaw(mem, holes, start, end - start)

\* The least position of data, or Len(data) + 1, where P holds.
FirstAt(data, P(_)) ==
  CHOOSE k \in 1 .. Len(data) + 1 :
    /\ k = Len(data) + 1 \/ P(k)
    /\ \A j \in 1 .. k - 1 : ~P(j)

read_environment_data(mem, holes, env_block, env_start, env_end) ==
  IF env_block = 0 THEN NoData
  ELSE IF env_block = env_start /\ env_end # 0
  THEN read_string_range(mem, holes, env_start, env_end, MAX_ENVIRONMENT_BYTES)
  ELSE LET buf == ReadRaw(mem, holes, env_block, MAX_ENVIRONMENT_BYTES)
           pair == FirstAt(buf, LAMBDA k : k < Len(buf) /\ buf[k] = NUL /\ buf[k + 1] = NUL)
           single == FirstAt(buf, LAMBDA k : buf[k] = NUL)
       IN SubSeq(buf, 1, IF pair <= Len(buf) THEN pair ELSE single - 1)

\* All parts between NULs, with the position each starts at.
Parts(data) ==
  LET ends == SelectSeq([k \in 1 .. Len(data) + 1 |-> k],
                        LAMBDA k : k = Len(data) + 1 \/ data[k] = NUL)
      start(k) == IF k = 1 THEN 1 ELSE ends[k - 1] + 1
  IN [k \in DOMAIN ends |-> [at |-> start(k), text |-> SubSeq(data, start(k), ends[k] - 1)]]

nul_split_strings(data) ==
  LET full == SelectSeq(Parts(data), LAMBDA p : p.text # <<>>)
  IN [k \in DOMAIN full |-> full[k].text]

read_command_line(mem, holes, start, end) ==
  LET data == read_string_range(mem, holes, start, end, MAX_ARGUMENT_BYTES)
  IN IF data = NoData THEN NoData ELSE nul_split_strings(data)

\* String::len of a decoded string: U+FFFD takes three bytes.
Utf8Len(text) == FoldSeq(LAMBDA b, n : n + (IF b = BAD THEN 3 ELSE 1), 0, text)

\* Plausible bug: the NUL behind a string is not counted.
NulForgotten(items, k) == FoldSeq(LAMBDA t, n : n + Utf8Len(t), 0, SubSeq(items, 1, k - 1))

\* offset when the loop of envar_list_from_address comes to item k.
OffsetOf(items, k) == FoldSeq(LAMBDA t, n : n + Utf8Len(t) + 1, 0, SubSeq(items, 1, k - 1))

HasValue(text) == EQ \in Range(text)
Variable(text, address) ==
  LET eq == FirstAt(text, LAMBDA k : text[k] = EQ)
  IN [name |-> SubSeq(text, 1, eq - 1), value |-> SubSeq(text, eq + 1, Len(text)),
      address |-> address]

\* What envar_list_from_address hands to a callback that takes everything.
Variables(data, env_block) ==
  LET items == nul_split_strings(data)
      all == [k \in DOMAIN items |-> [text |-> items[k], address |-> env_block + OffsetOf(items, k)]]
      kept == SelectSeq(all, LAMBDA i : HasValue(i.text))
  IN [k \in DOMAIN kept |-> Variable(kept[k].text, kept[k].address)]

----------------------------------------------------------------------------
(* What the environment is *)

\* The variables of the strings of mem that lie in start .. end - 1, at their own addresses.
TrueVariables(mem, start, end) ==
  LET parts == Parts(SubSeq(mem, start, end - 1))
      kept == SelectSeq(parts, LAMBDA p : HasValue(p.text))
  IN [k \in DOMAIN kept |-> Variable(kept[k].text, start + kept[k].at - 1)]

\* No empty string and no undecodable byte lies between start and a.
PlainUpTo(mem, start, a) ==
  \A k \in start .. a - 1 :
    mem[k] # BAD /\ (mem[k] = NUL => (k > start /\ mem[k - 1] # NUL))
============================================================================
