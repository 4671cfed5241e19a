----------------------------- MODULE MCGhClassify -----------------------------
(* The instance of GhClassify: the whole table, and every word in each place    *)
(* where it can make a difference.                                              *)
EXTENDS GhClassify

Flags == {"--log", "--log-failed", "--log=true", "--json"}
Operands == {"12345", "view", "token", "forward", "add", "delete"}
=============================================================================
