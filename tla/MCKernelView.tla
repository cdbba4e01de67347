---------------------------- MODULE MCKernelView ----------------------------
(* Targets for KernelView: each differs from the plain one in one respect,  *)
(* its symbol table, its task, strings or modules.                            *)
EXTENDS KernelView

Tokens == [b \in 0 .. 3 |-> <<<<"T">>, <<"t", "a">>, <<"b">>, <<"c", "d">>>>[b + 1]]
Codes == <<<<1>>, <<0, 2>>, <<0, 3, 2>>, <<1, 2, 2, 3>>, <<0, 0>>>>
Syms(addrs) == [k \in DOMAIN addrs |-> [addr |-> addrs[k], codes |-> Codes[k]]]
Sorted == {<<104>>, <<104, 107>>, <<104, 104, 109>>, <<104, 105, 106, 107>>,
           <<104, 105, 105, 110, 119>>}
\* Legacy tables and what follows them: nothing, or what nearly is a modern table, a pointer
\* behind offsets that decrease or that leave the address space.
Legacy ==
  (Sorted \X {<<>>})
    \cup ({<<104, 107>>} \X {<<5, 3, 110>>, <<31, 31, 110>>})
    \cup ({<<104, 104, 109>>} \X {<<1, 5, 3, 0, 110>>})
    \cup ({<<104, 105, 106, 107>>} \X {<<1, 5, 6, 2, 110>>})
Tables ==
  {Emit(TRUE, 4, 104, Syms(a), <<>>, Tokens) : a \in Sorted}
    \cup {Emit(FALSE, 4, 104, Syms(l[1]), l[2], Tokens) : l \in Legacy}
    \* with a per-CPU symbol, and without symbols
    \cup {Emit(FALSE, 4, 104, Syms(<<2, 104>>), <<>>, Tokens), Emit(TRUE, 4, 104, <<>>, <<>>, Tokens)}

Dentries == {"r", "usr", "bin", "lib", "x", "s", "app", "data", "mnt"}
FileSystem ==
  [parent |-> [d \in Dentries |->
                 CASE d \in {"r", "usr"} -> "r" [] d = "bin" -> "usr" [] d = "lib" -> "bin"
                   [] d = "x" -> "lib" [] d \in {"s", "app", "mnt"} -> "s" [] d = "data" -> "app"],
   name |-> [d \in Dentries |-> IF d \in {"r", "s"} THEN "/" ELSE d],
   \* M2 is mounted on /usr, M3 binds M2's /app to its /mnt.
   mnt_root |-> [M1 |-> "r", M2 |-> "s", M3 |-> "app"],
   mnt_parent |-> [M1 |-> "M1", M2 |-> "M1", M3 |-> "M2"],
   mountpoint |-> [M1 |-> "r", M2 |-> "usr", M3 |-> "mnt"]]
Places ==
  ({"M1"} \X {"r", "usr", "bin", "lib", "x"}) \cup ({"M2"} \X {"s", "app", "data", "mnt"})
    \cup ({"M3"} \X {"app", "data"})
Loose == {NULL} \X {"s", "data", "x"}
Roots == {NULL} \cup ({"M1"} \X {"r", "usr", "bin"}) \cup ({"M2"} \X {"s", "app"})
           \cup {<<"M3", "app">>}

Args == <<"a", NUL, NUL, "b", NUL>>
Env == <<"x", EQ, "1", NUL, "y", EQ, NUL>>
Envs ==
  {Env,
   <<NUL, "x", EQ, "1", NUL>>,                                    \* an empty string first
   <<"x", EQ, BAD, NUL, "y", EQ, NUL>>,
   <<"h", NUL, "x", EQ, "1", NUL>>,                               \* a string without "="
   <<"x", EQ, EQ, NUL, NUL, "y", EQ, NUL>>,                       \* an empty string between
   <<"x", EQ, "1", NUL, "y", EQ, "1", "2", NUL, "z", EQ, NUL>>,   \* over the limit
   <<"x", EQ, "1", "2", "3", "4", "5", "6", "7", NUL>>}           \* one string over the limit
ExecFn == <<"f", NUL>>
Space(env) == Args \o env \o ExecFn

Task == [pid |-> 2, tgid |-> 1, comm |-> "sh", mm |-> "mm1", active_mm |-> "mm1", binfmt |-> "elf",
         exe_file |-> <<"M1", "bin">>, root |-> <<"M1", "r">>, exit_state |-> 0, exit_code |-> 9,
         arg |-> <<1, 6>>, env |-> <<6, 13>>]
World == [table |-> Emit(TRUE, 4, 104, Syms(<<104, 107>>), <<>>, Tokens), fs |-> FileSystem,
          task |-> Task, lists |-> {<<>>}, pgd |-> [mm1 |-> "p1", mm2 |-> "p2"],
          memory |-> [p1 |-> Space(Env), p2 |-> <<>>, kernel |-> <<>>]]
Tasks ==
  {[Task EXCEPT !.exe_file = p, !.root = r] : p \in Places, r \in Roots}
    \cup {[Task EXCEPT !.exe_file = p] : p \in Loose}
    \cup {[Task EXCEPT !.mm = NULL, !.active_mm = m] : m \in {NULL, "mm2"}}
    \cup {[Task EXCEPT !.exe_file = NULL, !.tgid = 0, !.binfmt = COMPAT, !.exit_state = 16]}

Module(a, state, mem) == [address |-> a, state |-> state, mem |-> mem]
Region(b, n) == [base |-> b, size |-> n]
ModuleA == Module(201, "live", <<Region(0, 5), Region(300, 4), Region(298, 1), Region(290, 0)>>)
ModuleB == Module(202, "live", <<Region(310, 4)>>)
Lists ==
  {<<ModuleA, Module(203, "unformed", <<Region(320, 4)>>), ModuleB>>,
   <<ModuleB, Module(204, "live", <<>>)>>}

\* A kernel thread, and a process whose strings are not there: what is varied is elsewhere.
Thread == [Task EXCEPT !.mm = NULL, !.active_mm = NULL, !.root = NULL]
NoStrings(t) == [World EXCEPT !.memory.p1 = <<>>, !.task = [t EXCEPT !.arg = <<0, 0>>, !.env = <<0, 0>>]]
MCWorlds ==
  {[World EXCEPT !.table = t, !.task = Thread] : t \in Tables}
    \cup {[World EXCEPT !.lists = Lists, !.task = Thread]}
    \cup {NoStrings(t) : t \in Tasks}
    \cup {[World EXCEPT !.memory.p1 = Space(e), !.task.env = <<6, 6 + Len(e)>>] : e \in Envs}
    \cup {[World EXCEPT !.task.env = <<6, 0>>]}
============================================================================
