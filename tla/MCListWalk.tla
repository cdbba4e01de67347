----------------------------- MODULE MCListWalk ------------------------------
(* Three entries; the iteration bound is the smallest that lets the task walk *)
(* visit the head and every entry.                                            *)
EXTENDS ListWalk

CONSTANTS n1, n2, n3
============================================================================
