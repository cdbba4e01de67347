---------------------------- MODULE MCProcessView ----------------------------
(* Six states of the address space of a process over two files: modules of one  *)
(* and of several mappings, a gap within and one beyond the merge gap, a file   *)
(* mapped without its header, anonymous memory, and nothing mapped.             *)
EXTENDS ProcessView

V(s, e, f, h) == [start |-> s, end |-> e, file |-> f, elf |-> h]

MCMaps == {
  {},
  {V(1, 2, 1, TRUE), V(2, 3, 1, FALSE), V(4, 5, 2, TRUE)},
  {V(1, 2, 1, TRUE), V(4, 5, 1, FALSE), V(8, 9, 1, TRUE)},
  {V(1, 2, 1, TRUE), V(2, 3, 2, TRUE), V(3, 4, 1, FALSE)},
  {V(1, 2, 2, FALSE), V(3, 4, 1, TRUE), V(5, 6, NoFile, FALSE)},
  {V(2, 4, 2, TRUE), V(7, 8, 2, FALSE), V(8, 9, 1, FALSE)} }

MCProcs == {
  [mm |-> TRUE, exe_file |-> 1, start_code |-> 3, end_code |-> 4],
  [mm |-> TRUE, exe_file |-> NoFile, start_code |-> 2, end_code |-> 3],
  [mm |-> FALSE, exe_file |-> NoFile, start_code |-> 0, end_code |-> 0] }
MCWalkers == {{"maple"}, {"mmap"}, {"maple", "mmap"}, {}}
============================================================================
