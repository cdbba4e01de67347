----------------------------- MODULE MCVmaRanges -----------------------------
(* Up to three VMAs in seven addresses, of two page types, any window, gaps up to *)
(* the largest imem.                                                              *)
EXTENDS VmaRanges

MCFlagSets == {{"VM_READ"}, {"VM_READ", "VM_WRITE"}}
MCGapSizes == {-1, 0, 1, 7}
============================================================================
