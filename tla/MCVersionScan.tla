---------------------------- MODULE MCVersionScan ----------------------------
(* Chunks of four bytes, prefixes of two, versions of two, memories of up to twelve. *)
EXTENDS VersionScan

MCHoleSets == {{}} \cup {{a} : a \in 0 .. MaxTotal - 1} \cup {{2, 8}}
============================================================================
