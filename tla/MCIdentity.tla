----------------------------- MODULE MCIdentity -----------------------------
(* Cards and details for TLC.                                               *)
EXTENDS Identity

CONSTANTS ama, kofi, clear, other, blurred

MCShows == [i \in Images |-> CASE i = clear -> {ama} [] i = other -> {kofi} [] OTHER -> {}]
=============================================================================
