----------------------------- MODULE MCPipeline -----------------------------
(***************************************************************************)
(* A variable of each sort, and versions up to one that is too large to be *)
(* parsed.                                                                 *)
(***************************************************************************)
EXTENDS Pipeline

Sorts == [x |-> "Real", y |-> "Bool", n |-> "Int"]
=============================================================================
