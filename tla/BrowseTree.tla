----------------------------- MODULE BrowseTree -----------------------------
(***************************************************************************)
(* How type objects become symbols: the flat list of browseFull()          *)
(* (flat-browser.js) and the tree the editor opens level by level          *)
(* (lazy.js).  Both give a symbol its name, its access sequence and the    *)
(* names and types its CRC is computed from, each in its own way.          *)
(*                                                                         *)
(* A member is a record [name, lid, sd, dims, lowers, rel]: dims has the   *)
(* element count of each dimension of an array, the fastest first, and is  *)
(* empty for a scalar.  Offsets within a block are left out: nothing is    *)
(* addressed by them.                                                      *)
(***************************************************************************)
EXTENDS TypeFetch, SequencesExt

CONSTANTS
  MemoryAreas,  \* [name, rid, ti] of each memory area: a sequence
  PageSize,     \* ARRAY_PAGE_SIZE
  NoLimit       \* maxSymbols when there is none: more than any list has

ASSUME BrowseAssumption == PageSize \in Nat \ {0} /\ NoLimit \in Nat

Supported == {"int", "bbool", "dtl"}
BBool     == "bbool"

\* Labels: a member's name, an index, a page of an array.
Named(name) == [name |-> name, ix |-> <<>>]
Index(ix)   == [name |-> "[]", ix |-> ix]
Page(a, b)  == [name |-> "[..]", ix |-> <<a, b>>]

\* A segment of a path, the same for both browsers.
RootSeg(b)            == [kind |-> "root", label |-> Named(b.name), id |-> b.rid, m |-> b]
VarSeg(m)             == [kind |-> "var", label |-> Named(m.name), id |-> m.lid, m |-> m]
ElementSeg(m, ix, id) == [kind |-> IF m.rel # NoType THEN "structarray" ELSE "array",
                          label |-> Index(ix), id |-> id, m |-> m]

Product(counts)  == FoldLeft(LAMBDA acc, n : acc * n, 1, counts)
ElementCount(m)  == Product(m.dims)
IsArray(m)       == m.dims # <<>>
IsLeafType(sd)   == sd \in Supported

\* What a segment contributes to the CRC; an element stands for its array.
ScalarCrc(m)  == [name |-> m.name, array |-> FALSE, sd |-> m.sd, lower |-> 0]
ElementCrc(m) == [name |-> m.name, array |-> TRUE, sd |-> m.sd, lower |-> m.lowers[1]]

-----------------------------------------------------------------------------
(* The flat list *)

\* The ids of the elements of an array.  Each row of an array of packed Bools
\* of more than one dimension begins at a multiple of eight.
ElementIds(m) ==
  LET row == m.dims[1]
      pad(e) == IF Len(m.dims) > 1 /\ m.sd = BBool /\ e % row = 0 /\ row % 8 # 0
                  THEN 8 - (row % 8) ELSE 0
      ids[e \in 0..ElementCount(m) - 1] == IF e = 0 THEN 0 ELSE ids[e - 1] + 1 + pad(e)
  IN  ids

\* The indices of element e, the slowest dimension first.
Indices(m, e) ==
  Reverse([d \in DOMAIN m.dims |->
             m.lowers[d] + ((e \div Product(SubSeq(m.dims, 1, d - 1))) % m.dims[d])])

\* _cappedArrayCount(): no more elements than symbols are asked for.
Expanded(m, max) == IF max = NoLimit \/ ElementCount(m) <= max THEN ElementCount(m) ELSE max

RECURSIVE SubNodes(_, _, _)
\* addSubNodes() and addMdimArrayChildren(): the nodes below one of type rel,
\* as far as the type objects are at hand.
SubNodes(objs, max, rel) ==
  LET below(m) == SubNodes(objs, max, m.rel)
      element(m, e) == [seg |-> ElementSeg(m, Indices(m, e), ElementIds(m)[e]),
                        childs |-> IF m.rel # NoType THEN below(m) ELSE <<>>]
      childs(m) == CASE IsArray(m) -> [i \in 1..Expanded(m, max) |-> element(m, i - 1)]
                     [] ~IsArray(m) /\ Descends(m) -> below(m)
                     [] OTHER -> <<>>
  IN  IF rel \notin objs THEN <<>>
      ELSE [i \in DOMAIN TypeOf[rel] |->
              [seg |-> VarSeg(TypeOf[rel][i]), childs |-> childs(TypeOf[rel][i])]]

\* A symbol and the node below it: how a node extends name, access sequence
\* and CRC path of its parent.
NoSym == [name |-> <<>>, access |-> <<>>, crc |-> <<>>]
Extended(sym, seg) ==
  [name   |-> Append(sym.name, seg.label),
   access |-> sym.access \o IF seg.kind = "structarray" THEN <<seg.id, 1>> ELSE <<seg.id>>,
   crc    |-> CASE seg.kind = "root" -> sym.crc
                [] seg.kind = "var" -> Append(sym.crc, ScalarCrc(seg.m))
                [] OTHER -> Append(Front(sym.crc), ElementCrc(seg.m))]

RECURSIVE FlatSubNodes(_, _)
\* addFlatSubnodes(), without a limit.
FlatSubNodes(node, sym) ==
  LET s == Extended(sym, node.seg)
  IN  IF node.childs = <<>>
        THEN IF IsLeafType(node.seg.m.sd) THEN <<s>> ELSE <<>>
        ELSE FlattenSeq([i \in DOMAIN node.childs |-> FlatSubNodes(node.childs[i], s)])

RECURSIVE Oversized(_, _)
\* _noteOversizedArray() of some array below a node.
Oversized(node, max) ==
  \/ node.seg.kind = "var" /\ IsArray(node.seg.m) /\ ElementCount(node.seg.m) > max
  \/ \E i \in DOMAIN node.childs : Oversized(node.childs[i], max)

\* The blocks and areas of a browse, with their nodes.
Trees(objs, max, blocks) ==
  [i \in DOMAIN blocks |->
     [seg |-> RootSeg(blocks[i]), childs |-> SubNodes(objs, max, blocks[i].ti)]]

\* _emitFlatSymbol(): the list ends at the limit.
Emitted(list, max) == IF Len(list) <= max THEN list ELSE SubSeq(list, 1, max)

\* buildFlatList(): limitExceeded is set as well when an array was cut.
FlatList(objs, max, blocks) ==
  LET trees == SelectSeq(Trees(objs, max, blocks), LAMBDA t : t.childs # <<>>)
      list  == FlattenSeq([i \in DOMAIN trees |-> FlatSubNodes(trees[i], NoSym)])
  IN  [symbols  |-> Emitted(list, max),
       exceeded |-> Len(list) > max \/ \E i \in DOMAIN trees : Oversized(trees[i], max)]

-----------------------------------------------------------------------------
(* The tree of the editor *)

\* A node: its label, what is under it, and the path that leads to it.  `n' is
\* the range of a page of elements.
TreeNode(label, t, path, rel, n) ==
  [label |-> label, t |-> t, path |-> path, rel |-> rel, n |-> n]
HasChildren(node) == node.t \notin {"leaf", "unsupported"}

BlockNode(b) == TreeNode(Named(b.name), "block", <<RootSeg(b)>>, b.ti, <<>>)

\* listBlockRoots().
BlockRoots(dbs) ==
  LET known == SelectSeq(dbs, LAMBDA d : d.ti # NoType) \o MemoryAreas
  IN  [i \in DOMAIN known |-> BlockNode(known[i])]

LeafKind(m) == IF IsLeafType(m.sd) THEN "leaf" ELSE "unsupported"

\* listMembersForTypeInfo().
Members(rel, path) ==
  [i \in DOMAIN TypeOf[rel] |->
     LET m  == TypeOf[rel][i]
         at == Append(path, VarSeg(m))
     IN  TreeNode(Named(m.name),
                  CASE IsArray(m) -> "array"
                    [] ~IsArray(m) /\ Descends(m) -> "struct"
                    [] OTHER -> LeafKind(m),
                  at, m.rel, <<>>)]

\* The lower bound the tree counts from: of an array of more than one
\* dimension it has none, its elements are numbered through.
ListedLower(m) == IF Len(m.dims) = 1 THEN m.lowers[1] ELSE 0

\* listArrayPages().
ArrayPages(node) ==
  LET m     == Last(node.path).m
      count == ElementCount(m)
      pages == (count + PageSize - 1) \div PageSize
      from(p) == (p - 1) * PageSize
      to(p)   == IF p = pages THEN count - 1 ELSE p * PageSize - 1
  IN  [p \in 1..pages |->
         TreeNode(Page(ListedLower(m) + from(p), ListedLower(m) + to(p)),
                  "arrpage", node.path, node.rel, <<from(p), to(p)>>)]

\* listArrayElements().
ArrayElements(node) ==
  LET m == Last(node.path).m
  IN  [k \in 1..(node.n[2] - node.n[1] + 1) |->
         LET e   == node.n[1] + k - 1
             seg == ElementSeg(m, <<ListedLower(m) + e>>, e)
         IN  TreeNode(seg.label, IF m.rel # NoType THEN "struct" ELSE LeafKind(m),
                      Append(node.path, seg), m.rel, <<>>)]

\* listChildren(), with the cached type objects.
Children(node, cache) ==
  CASE node.t \in {"block", "struct"} /\ node.rel \in cache -> Members(node.rel, node.path)
    [] node.t = "array" -> ArrayPages(node)
    [] node.t = "arrpage" -> ArrayElements(node)
    [] OTHER -> <<>>

\* buildCrcMeta(): an element replaces the segment of its array.
CrcMeta(path) ==
  LET vars == SelectSeq([i \in DOMAIN path |-> <<i, path[i]>>], LAMBDA p : p[2].kind = "var")
      isElement(i) == i < Len(path) /\ path[i + 1].kind \in {"array", "structarray"}
  IN  [i \in DOMAIN vars |-> IF isElement(vars[i][1]) THEN ElementCrc(vars[i][2].m)
                                                     ELSE ScalarCrc(vars[i][2].m)]

\* pathAccess(): a struct in an array is reached over its element and 1.
PathAccess(path) ==
  FlattenSeq([i \in DOMAIN path |-> IF path[i].kind = "structarray" THEN <<path[i].id, 1>>
                                                                  ELSE <<path[i].id>>])

\* resolveLeaf().
ResolveLeaf(node) ==
  [name   |-> [i \in DOMAIN node.path |-> node.path[i].label],
   access |-> PathAccess(node.path),
   crc    |-> CrcMeta(node.path)]

\* findChildByLabel(): among the children, or among those of each page.
\* NoChild when there is none.
FindChild(node, label, cache, NoChild) ==
  LET childs   == Children(node, cache)
      pages    == SelectSeq(childs, LAMBDA c : c.t = "arrpage")
      all      == childs \o FlattenSeq([i \in DOMAIN pages |-> Children(pages[i], cache)])
      matching == SelectSeq(all, LAMBDA c : c.label = label)
  IN  IF matching = <<>> THEN NoChild ELSE Head(matching)
=============================================================================
