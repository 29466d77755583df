----------------------------- MODULE TypeFetch -----------------------------
(***************************************************************************)
(* The type objects that a scoped browse fetches: _fetchTypeInfoForRoots() *)
(* and collectReferencedRelIds().                                          *)
(*                                                                         *)
(* An Explore of a relation id returns that type, and whatever objects it  *)
(* carries along, but not the types its members refer to.  The client      *)
(* explores one id after the other until no id is left that it has not     *)
(* asked for.  The order of its queue makes no difference to what it has   *)
(* in the end: the queue is a set here.                                    *)
(***************************************************************************)
EXTENDS Integers, Sequences, FiniteSets

CONSTANTS
  Types,    \* relation ids of the type objects the PLC has
  RelIds,   \* those and the ids of types it does not have
  TypeOf,   \* vartypeList and varnameList of each type: its members
  Carried,  \* the objects the answer to an explore of a type contains
  NoType    \* the relation id 0

ASSUME TypesAssumption ==
  /\ Types \subseteq RelIds /\ NoType \notin RelIds
  /\ \A t \in Types :
       /\ t \in Carried[t] /\ Carried[t] \subseteq Types
       /\ \A i \in DOMAIN TypeOf[t] : TypeOf[t][i].rel \in RelIds \cup {NoType}

VARIABLES
  wanted,     \* history: the ids the fetch was begun with
  queue,      \* ids to explore
  requested,  \* ids that are or were in the queue
  collected   \* the type objects received

fetch == <<wanted, queue, requested, collected>>

Packed == {"dtl"}

\* A member whose type the browse descends into: an array with a relation or a
\* scalar with one that is not read as a whole.
Descends(m) == m.rel # NoType /\ (m.dims # <<>> \/ m.sd \notin Packed)

\* Mutant: the element types of arrays are forgotten.
References_NoArrays(t) ==
  {TypeOf[t][i].rel : i \in {j \in DOMAIN TypeOf[t] : Descends(TypeOf[t][j]) /\ TypeOf[t][j].dims = <<>>}}

\* collectReferencedRelIds().
References(t) == {TypeOf[t][i].rel : i \in {j \in DOMAIN TypeOf[t] : Descends(TypeOf[t][j])}}

\* The objects in the PLC's answer to an explore of r.
Answer(r) == IF r \in Types THEN Carried[r] ELSE {}

FetchInit == wanted = {} /\ queue = {} /\ requested = {} /\ collected = {}

\* The ids the fetch begins with, of the scope's blocks and areas.
FetchStart(roots) ==
  /\ wanted' = roots \ {NoType} /\ queue' = roots \ {NoType}
  /\ requested' = roots \ {NoType} /\ collected' = {}

\* Mutant: only the type that was asked for is searched for references.
NewIds_TopOnly(r) == (UNION {References(t) : t \in Answer(r) \cap {r}}) \ requested

\* The ids the objects of an answer refer to and that nobody has asked for.
NewIds(r) == (UNION {References(t) : t \in Answer(r)}) \ requested

\* One round trip.
FetchStep ==
  \E r \in queue :
    /\ queue' = (queue \ {r}) \cup NewIds(r)
    /\ requested' = requested \cup NewIds(r)
    /\ collected' = collected \cup Answer(r)
    /\ UNCHANGED wanted

\* The browse is over, or an explore has failed and all of it with it.
FetchEnd == wanted' = {} /\ queue' = {} /\ requested' = {} /\ collected' = {}

FetchNext == (\E roots \in SUBSET RelIds : queue = {} /\ FetchStart(roots)) \/ FetchStep \/ FetchEnd

FetchSpec == FetchInit /\ [][FetchNext]_fetch

-----------------------------------------------------------------------------
(* Properties *)

\* A set of ids that contains what the answers to its ids refer to.
Closed(S) == \A r \in S : \A t \in Answer(r) : References(t) \subseteq S

\* A scoped browse fetches neither too little nor too much: when no id is left
\* in the queue the ids asked for are the least closed set that contains the
\* scope's, and what was received is their answers (_fetchTypeInfoForRoots:
\* "repeat until closure").
FetchedIsClosure ==
  queue = {} =>
    /\ wanted \subseteq requested /\ Closed(requested)
    /\ collected = UNION {Answer(r) : r \in requested}
    /\ \A S \in SUBSET requested : wanted \subseteq S /\ Closed(S) => S = requested

\* No id is explored twice, so that a type that refers to itself, directly or
\* over others, does not keep the browse going: an id that has left the queue
\* does not come back to it in the same fetch.
ExploredOnce == [][ queue # {} => (requested \ queue) \cap queue' = {} ]_fetch
=============================================================================
