----------------------------- MODULE MCChunkScan -----------------------------
(* Memories of up to seven bytes read in chunks of three, with no hole, a hole of *)
(* one byte anywhere, or one of two bytes.                                        *)
EXTENDS ChunkScan

MCHoleSets == {{}} \cup {{a} : a \in 0 .. MaxTotal - 1} \cup {{3, 4}}
MCGoodSets == {{}, {0}, {2}, {3}, {4}, {2, 4}}
============================================================================
