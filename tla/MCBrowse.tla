------------------------------ MODULE MCBrowse ------------------------------
(* Browse for model checking: a block with a struct, arrays of numbers and  *)
(* of structs and a DTL, a block with an array of DTLs and a member whose   *)
(* type the PLC does not have, one that cannot be read, and an area with an *)
(* array of packed Bools of two dimensions.  BrowseSessions: the sessions   *)
(* in which the editor browses.  They share no state, so a behaviour is one *)
(* of either: MCInit chooses, the other stays as it began.                  *)
EXTENDS Browse, BrowseSessions

Scalar(name, lid, sd, rel) ==
  [name |-> name, lid |-> lid, sd |-> sd, dims |-> <<>>, lowers |-> <<>>, rel |-> rel]
Array(name, lid, sd, dims, lowers, rel) ==
  [name |-> name, lid |-> lid, sd |-> sd, dims |-> dims, lowers |-> lowers, rel |-> rel]

MCTypes  == {"T1", "T2", "T3", "T4", "TD", "TM"}
MCRelIds == MCTypes \cup {"T9"}
MCTypeOf ==
  [ T1 |-> << Scalar("a", 9, "int", NoType), Scalar("b", 10, "struct", "T2"),
              Array("n", 11, "int", <<3>>, <<1>>, NoType),
              Array("s", 12, "struct", <<2>>, <<0>>, "T2"), Scalar("d", 13, "dtl", "TD") >>,
    T2 |-> << Scalar("x", 9, "int", NoType), Scalar("y", 10, "odd", NoType),
              Scalar("z", 11, "struct", "T3") >>,
    T3 |-> << Scalar("x", 9, "bbool", NoType), Array("o", 10, "odd", <<3>>, <<0>>, NoType) >>,
    T4 |-> << Array("t", 9, "dtl", <<2>>, <<0>>, "TD"), Scalar("w", 10, "struct", "T9"),
              Scalar("e", 11, "int", NoType) >>,
    TD |-> << Scalar("year", 9, "int", NoType) >>,
    TM |-> << Array("m", 10, "bbool", <<3, 2>>, <<0, 1>>, NoType) >> ]
MCCarried == [t \in MCTypes |-> IF t \in {"T1", "T4"} THEN {t, "T2"} ELSE {t}]

MCBlocks == << [name |-> "db1", rid |-> 101, ti |-> "T1"], [name |-> "db2", rid |-> 102, ti |-> "T4"],
               [name |-> "db3", rid |-> 103, ti |-> NoType] >>
MCAreas  == << [name |-> "M", rid |-> 82, ti |-> "TM"], [name |-> "C", rid |-> 83, ti |-> "T9"] >>
MCScopes == { {"db1", "C"}, {"db2"}, {"M"} }

MCPaths ==
  { <<Named("db1"), Named("s"), Index(<<1>>), Named("z"), Named("x")>>, <<Named("db1"), Named("b")>>,
    <<Named("db1"), Named("n"), Index(<<3>>)>>,
    <<Named("db2"), Named("t"), Index(<<1>>), Named("year")>>, <<Named("db2"), Named("e"), Named("v")>>,
    <<Named("C"), Named("v")>>, <<Named("M"), Named("m"), Index(<<4>>)>> }

-----------------------------------------------------------------------------
MCSymmetry == Permutations(Requests)

VARIABLE part

MCInit == BrowseInit /\ SessionsInit /\ part \in {"browse", "sessions"}

MCNext ==
  \/ part = "browse" /\ Next /\ UNCHANGED <<part, sessionVars>>
  \/ part = "sessions" /\ SessionsNext /\ UNCHANGED <<part, vars>>

MCSpec == MCInit /\ [][MCNext]_<<vars, sessionVars, part>>
=============================================================================
