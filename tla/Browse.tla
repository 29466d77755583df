------------------------------- MODULE Browse -------------------------------
(***************************************************************************)
(* The browse operations of the client, with the browse state they share:  *)
(* browseFull(), browseRoots(), browseRootsCached(), browseChildren() and  *)
(* the walk of resolveSymbolicPath() and resolveSymbolicBatch().           *)
(*                                                                         *)
(* Each operation holds the user lock while it awaits the PLC (module      *)
(* UserLock says when operations overlap); clearBrowseState() takes no     *)
(* lock and may come at any await.  The PLC's program stays as it is.      *)
(***************************************************************************)
EXTENDS BrowseTree

CONSTANTS
  Blocks,     \* the data blocks the PLC may have: [name, rid, ti], ti being
              \* NoType when its LID 1 cannot be read
  Scopes,     \* names of blocks and areas: the scopes of a browse
  Limits,     \* the symbol limits of a browse, NoLimit among them
  Everything, \* the scope of a full browse
  Paths,      \* the symbolic paths that are looked up in the tree
  CacheMax    \* TYPE_INFO_CACHE_MAX

ASSUME CacheAssumption == CacheMax \in Nat /\ NoLimit \in Limits
                          /\ \A r \in RelIds : Cardinality(Answer(r)) <= CacheMax

VARIABLES
  dbList,    \* state.dbList
  fresh,     \* state._rootsFetchedAt is less than maxAgeMs ago
  cache,     \* state.typeInfoCache: the relation ids it has an object for
  op,        \* the operation that holds the user lock
  orphaned,  \* the browse state it began with has been cleared
  exported,  \* what browseFull() has returned in this step
  walk       \* a walk along a symbolic path

vars == <<fetch, dbList, fresh, cache, op, orphaned, exported, walk>>

NoOp     == [name |-> "none"]
NoWalk   == [at |-> "none"]
NoResult == [scope |-> Everything, limit |-> NoLimit, list |-> [symbols |-> <<>>, exceeded |-> FALSE]]
NoChild  == [t |-> "none"]
Missing  == [error |-> "not found"]
NoLeaf   == [error |-> "no leaf"]

\* The data blocks as the program's explore lists them, of which those remain
\* whose LID 1 could be read: _parseDbListFromPlcExplore() and
\* _readTiRelIdsForDbs().
DbList == SelectSeq(Blocks, LAMBDA b : b.ti # NoType)

\* The blocks and areas of a scope.
InScope(bs, scope) ==
  IF scope = Everything THEN bs ELSE SelectSeq(bs, LAMBDA b : b.name \in scope)

BrowseInit ==
  /\ FetchInit
  /\ dbList = <<>> /\ fresh = FALSE /\ cache = {}
  /\ op = NoOp /\ orphaned = FALSE
  /\ exported = NoResult /\ walk = NoWalk

Free == op = NoOp

\* Operation o takes the lock; it works on the browse state of this moment.
Begin(o) == Free /\ op' = o /\ orphaned' = FALSE

-----------------------------------------------------------------------------
(* browseFull() *)

\* The types of a scope are those of its blocks and areas.
ScopeRoots(scope) ==
  LET bs == InScope(DbList, scope) \o InScope(MemoryAreas, scope)
  IN  {bs[i].ti : i \in DOMAIN bs}

BrowseFull(scope) ==
  /\ Begin([name |-> "full", scope |-> scope])
  /\ FetchStart(IF scope = Everything THEN {} ELSE ScopeRoots(scope))
  /\ UNCHANGED <<dbList, fresh, cache, walk>> /\ exported' = NoResult

\* One Explore of a scoped browse.
FetchTypeInfo ==
  /\ op.name = "full" /\ FetchStep
  /\ UNCHANGED <<dbList, fresh, cache, op, orphaned, walk>> /\ exported' = NoResult

\* _seedBrowseStateFromFullBrowse() and _seedBrowseStateFromScopedBrowse().
Seeded(dbs, objs) == dbList' = dbs /\ fresh' = TRUE /\ cache' = objs

\* The types are at hand: those of the whole container or those collected.
\* They replace the browse state of this moment, and the list is built.  The
\* limit is the caller's; nothing before depends on it.
BrowseFullDone(limit) ==
  LET scope == op.scope
      objs  == IF scope = Everything THEN Types ELSE collected
      dbs   == InScope(DbList, scope)
  IN  /\ op.name = "full" /\ queue = {}
      /\ exported' = [scope |-> scope, limit |-> limit,
                      list |-> FlatList(objs, limit, dbs \o InScope(MemoryAreas, scope))]
      /\ Seeded(dbs, objs)
      /\ op' = NoOp /\ orphaned' = FALSE /\ FetchEnd
      /\ UNCHANGED walk

-----------------------------------------------------------------------------
(* The walk of resolveSymbolicPath() *)

\* The walk has ended without a leaf.
EndWith(outcome) == [at |-> "done", path |-> walk.path, cached |-> walk.cached, outcome |-> outcome]

\* A walk begins with the roots: browseRoots(), or browseRootsCached() in a
\* batch.
StartWalk(path, cached) ==
  /\ walk = NoWalk
  /\ walk' = [at |-> "roots", path |-> path, cached |-> cached]
  /\ UNCHANGED <<fetch, dbList, fresh, cache, op, orphaned>> /\ exported' = NoResult

\* The walk has its roots and enters the one its path begins with.
EnterRoot(dbs) ==
  LET roots == BlockRoots(dbs)
      named == SelectSeq(roots, LAMBDA r : r.label = Head(walk.path))
  IN  walk' = IF named = <<>> THEN EndWith(Missing)
              ELSE [at |-> "node", path |-> walk.path, cached |-> walk.cached,
                    rest |-> Tail(walk.path), node |-> Head(named)]

\* browseRootsCached() that finds a list that is young enough.
RootsFromCache ==
  /\ Free /\ walk.at = "roots" /\ walk.cached /\ dbList # <<>> /\ fresh
  /\ EnterRoot(dbList)
  /\ UNCHANGED <<fetch, dbList, fresh, cache, op, orphaned>> /\ exported' = NoResult

AskRoots ==
  /\ walk.at = "roots" /\ ~(walk.cached /\ dbList # <<>> /\ fresh)
  /\ Begin([name |-> "roots"])
  /\ UNCHANGED <<fetch, dbList, fresh, cache, walk>> /\ exported' = NoResult

\* The list goes into the browse state the operation began with.  Only
\* browseRootsCached() notes the time.
RootsDone ==
  /\ op.name = "roots"
  /\ EnterRoot(DbList)
  /\ dbList' = IF orphaned THEN dbList ELSE DbList
  /\ fresh' = (fresh \/ (walk.cached /\ ~orphaned))
  /\ op' = NoOp /\ orphaned' = FALSE
  /\ UNCHANGED <<fetch, cache>> /\ exported' = NoResult

\* The walk takes the child its path names next.
Descend(types) ==
  LET child == FindChild(walk.node, Head(walk.rest), types, NoChild)
  IN  walk' = IF child = NoChild THEN EndWith(Missing)
              ELSE [walk EXCEPT !.node = child, !.rest = Tail(@)]

NeedsTypes == walk.node.t \in {"block", "struct"} /\ walk.node.rel \notin cache

CanDescend == Free /\ walk.at = "node" /\ walk.rest # <<>>

\* browseChildren() of a node whose types are cached, or that needs none.
WalkDown ==
  /\ CanDescend /\ HasChildren(walk.node) /\ ~NeedsTypes
  /\ Descend(cache)
  /\ UNCHANGED <<fetch, dbList, fresh, cache, op, orphaned>> /\ exported' = NoResult

\* _ensureTypeInfoLoaded() asks the PLC.
AskTypes ==
  /\ CanDescend /\ HasChildren(walk.node) /\ NeedsTypes
  /\ Begin([name |-> "types"])
  /\ UNCHANGED <<fetch, dbList, fresh, cache, walk>> /\ exported' = NoResult

\* _cacheTypeInfoObjects(): a cache that has grown too large is dropped.
Cached(types, objs) == IF Cardinality(types \cup objs) > CacheMax THEN {} ELSE types \cup objs

\* Mutant: the type is not put back when its answer has made the cache drop all.
TypesDone_Dropped ==
  /\ op.name = "types"
  /\ LET with == Cached(cache, Answer(walk.node.rel))
     IN  cache' = with /\ Descend(with)
  /\ op' = NoOp /\ orphaned' = FALSE
  /\ UNCHANGED <<fetch, dbList, fresh>> /\ exported' = NoResult

\* The answer goes into the cache of this moment; the type that was asked for
\* is put back after the cache was dropped, if it is still the same cache.
TypesDone ==
  /\ op.name = "types"
  /\ LET with == Cached(cache, Answer(walk.node.rel))
         kept == IF orphaned \/ walk.node.rel \notin Types THEN with ELSE with \cup {walk.node.rel}
     IN  cache' = kept /\ Descend(kept)
  /\ op' = NoOp /\ orphaned' = FALSE
  /\ UNCHANGED <<fetch, dbList, fresh>> /\ exported' = NoResult

\* The path is at its end: browseResolve(), or there is nothing to resolve.
WalkEnd ==
  /\ Free /\ walk.at = "node"
  /\ \/ walk.rest = <<>> /\ walk.node.t = "leaf"
        /\ walk' = EndWith(ResolveLeaf(walk.node))
     \/ walk.rest = <<>> /\ walk.node.t # "leaf" /\ walk' = EndWith(NoLeaf)
     \/ walk.rest # <<>> /\ ~HasChildren(walk.node) /\ walk' = EndWith(Missing)
  /\ UNCHANGED <<fetch, dbList, fresh, cache, op, orphaned>> /\ exported' = NoResult

\* Its caller has the result.
Returned ==
  /\ walk.at = "done" /\ walk' = NoWalk
  /\ UNCHANGED <<fetch, dbList, fresh, cache, op, orphaned>> /\ exported' = NoResult

-----------------------------------------------------------------------------
(* What comes in between *)

\* The browse state is gone; whoever awaits works on the old one.
Dropped == dbList' = <<>> /\ fresh' = FALSE /\ cache' = {}

\* clearBrowseState(), by a self-heal or by the editor.
ClearBrowseState ==
  /\ Dropped
  /\ orphaned' = (op # NoOp)
  /\ UNCHANGED <<fetch, op, walk>> /\ exported' = NoResult

\* The session ends: the operation that awaits and the walk it belongs to fail.
SessionLost ==
  /\ Dropped
  /\ op' = NoOp /\ orphaned' = FALSE /\ FetchEnd /\ walk' = NoWalk
  /\ exported' = NoResult

\* maxAgeMs have passed.
RootsAge ==
  /\ fresh /\ fresh' = FALSE
  /\ UNCHANGED <<fetch, dbList, cache, op, orphaned, walk>> /\ exported' = NoResult

Next ==
  \/ \E scope \in Scopes \cup {Everything} : BrowseFull(scope)
  \/ FetchTypeInfo
  \/ \E limit \in Limits : BrowseFullDone(limit)
  \/ \E path \in Paths, cached \in BOOLEAN : StartWalk(path, cached)
  \/ RootsFromCache \/ AskRoots \/ RootsDone
  \/ WalkDown \/ AskTypes \/ TypesDone \/ WalkEnd \/ Returned
  \/ ClearBrowseState \/ SessionLost \/ RootsAge

Spec == BrowseInit /\ [][Next]_vars

-----------------------------------------------------------------------------
(* Properties *)

Whole == FlatList(Types, NoLimit, DbList \o MemoryAreas).symbols

\* The part of a list that lies in a scope.
Within(list, scope) ==
  IF scope = Everything THEN list
  ELSE SelectSeq(list, LAMBDA s : Head(s.name).name \in scope)

\* What is listed without a limit.
ScopedIsFull ==
  exported.limit = NoLimit => exported.list.symbols = Within(Whole, exported.scope)

\* What a limit leaves out.
CappedIsPrefix ==
  LET full == Within(Whole, exported.scope)
  IN  /\ IsPrefix(exported.list.symbols, full)
      /\ Len(full) > exported.limit => Len(exported.list.symbols) = exported.limit
      /\ ~exported.list.exceeded => exported.list.symbols = full

\* A browse of a few blocks and areas gives exactly their part of a browse of
\* everything: the types fetched for it are enough for every symbol
\* (_fetchTypeInfoForRoots, "Mirrors the exact relation conditions
\* FlatBrowser.addSubNodes uses").  A limit cuts the list off at its end, never
\* in the middle, although it also bounds how far each array is expanded, and
\* it says so whenever a symbol is left out ("partial result when exceeded").
ExportIsExact == exported # NoResult => ScopedIsFull /\ CappedIsPrefix

\* The names of symbols that an array of several dimensions is no part of.
Numbered(s) == \A i \in DOMAIN s.name : Len(s.name[i].ix) <= 1

\* The walk and the flat list agree: a leaf the walk finds has the address and
\* the CRC that the list has for this name, and a walk from fresh roots finds
\* every name of the list, however the browse state was cleared, replaced or
\* dropped between its steps.
WalkIsFlat ==
  walk.at = "done" =>
    LET listed == {s \in ToSet(Whole) : s.name = walk.path /\ Numbered(s)}
    IN  \/ listed = {} \/ walk.outcome \in listed
        \/ walk.cached /\ walk.outcome = Missing

\* What a walk resolves is in the flat list, by its name.
\* What the code does violates it for arrays of several dimensions.
ResolvedIsListed ==
  walk.at = "done" /\ walk.outcome \notin {Missing, NoLeaf} => walk.outcome \in ToSet(Whole)

\* A walk from cached roots finds the block of an exported symbol.
\* What the code does violates it: a scoped browse leaves its own blocks only.
CachedRootsComplete ==
  walk.at = "done" /\ walk.outcome = Missing => \A s \in ToSet(Whole) : s.name # walk.path
=============================================================================
