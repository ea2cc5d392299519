----------------------------- MODULE MCWinQuery -----------------------------
(* Values around the lengths that matter to a first buffer of three. *)
EXTENDS WinQuery

MCValues == {"", "ab", "abc", "abcd", "abcdef"}
MCLength == [v \in MCValues |-> CASE v = "" -> 0 [] v = "ab" -> 2 [] v = "abc" -> 3
                                  [] v = "abcd" -> 4 [] v = "abcdef" -> 6]
=============================================================================
