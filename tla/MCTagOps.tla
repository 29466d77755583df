------------------------------ MODULE MCTagOps ------------------------------
(* Reads and writes for model checking.  TagOps: a data block with two      *)
(* symbols that may swap their cells and one with a single symbol.          *)
(* Transfer: how one of its requests is cut.  They share no state, so a     *)
(* behaviour is one of either: MCInit chooses, the other stays as it began. *)
EXTENDS TagOps, Transfer

CONSTANTS symA, symB, symC, x1, x2, y1, dbx, dby

MCSymmetry == Permutations(Nodes)
MCSymbols == {symA, symB, symC}
MCCells   == {x1, x2, y1}
MCRootOf  == (symA :> dbx) @@ (symB :> dbx) @@ (symC :> dby) @@ (x1 :> dbx) @@ (x2 :> dbx) @@ (y1 :> dby)

Path(s)       == [sym |-> s, cell |-> NoCell, addr |-> "path", plain |-> TRUE, crc |-> FALSE, named |-> TRUE]
Hex(s, l, k, d) == [sym |-> s, cell |-> l, addr |-> "hex", plain |-> FALSE, crc |-> k, named |-> d]

MCRequests ==
  { <<Path(symA), Path(symC)>>, <<Path(symB)>>,
    <<Path(symB), Path(symA)>>,
    <<Hex(symA, x1, TRUE, FALSE), Hex(symB, x2, FALSE, TRUE)>>,
    <<Hex(symA, x1, FALSE, FALSE)>> }

-----------------------------------------------------------------------------
VARIABLE part

MCInit ==
  /\ Init /\ TransferInit
  /\ \/ part = "tags" /\ \A limit \in PlcLimits : plcLimit <= limit
     \/ part = "transfer" /\ layout = (symA :> x1) @@ (symB :> x2) @@ (symC :> y1)

MCNext ==
  \/ part = "tags" /\ Next /\ UNCHANGED <<part, transfer>>
  \/ part = "transfer" /\ TransferNext /\ UNCHANGED <<part, vars>>

MCSpec == MCInit /\ [][MCNext]_<<vars, transfer, part>>
=============================================================================
