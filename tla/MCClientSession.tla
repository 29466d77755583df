--------------------------- MODULE MCClientSession ---------------------------
(* ClientSession for model checking: the sockets are interchangeable. *)
EXTENDS ClientSession, TLC

Symmetry == Permutations(Socks)
=============================================================================
