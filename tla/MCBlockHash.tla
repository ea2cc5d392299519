---------------------------- MODULE MCBlockHash ----------------------------
(***************************************************************************)
(* The hashers never look at a byte, so a message whose bytes are all      *)
(* different stands for every message of its length.  A word of SHA-256    *)
(* and SM3 is so small here that counters of it wrap.                      *)
(***************************************************************************)
EXTENDS BlockHash

MCData == [i \in 1 .. 20 |-> i]
MCModulus == [k \in Kinds |-> IF k = "sha512" THEN 256 ELSE 16]

\* Pieces that the 32-bit counter of SM3 can count.
MCPiece == [k \in Kinds |-> IF k = "sm3" THEN 15 ELSE 20]
=============================================================================
