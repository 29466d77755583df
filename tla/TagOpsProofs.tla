---------------------------- MODULE TagOpsProofs ----------------------------
(***************************************************************************)
(* Proofs about TagOps, for any number of nodes, symbols, cells and        *)
(* downloads and any lists of tags: a tag's value is never another         *)
(* symbol's (OwnSymbol), and the second attempt after a stale address      *)
(* meets no stale address of a symbol that stayed (HealsAtOnce).           *)
(*                                                                         *)
(* And about Transfer, for any number of items, any limits of the PLC, any *)
(* batch sizes and any number of lost sessions: each item gets its own     *)
(* result, is executed in its turn, in requests the PLC accepts.           *)
(***************************************************************************)
EXTENDS TagOps, Transfer, TLAPS

\* A function on the nodes: what EXCEPT keeps.
OnNodes(f) == f = [n \in Nodes |-> f[n]]

Shape ==
  /\ layout \in Layouts
  /\ OnNodes(at) /\ OnNodes(tags) /\ OnNodes(entries) /\ OnNodes(attempt) /\ OnNodes(stable)
  /\ \A n \in Nodes : /\ at[n] = "idle" => attempt[n] = 1
                     /\ DOMAIN entries[n] = DOMAIN tags[n].symbolic
  /\ holder \in Nodes \cup {NoNode}
  /\ holder # NoNode => at[holder] \in Waiting

\* The secured tags of a node carry an address and the CRC of their symbol.
SecuredTags ==
  \A n \in Nodes : \A i \in DOMAIN tags[n].secured :
    LET item == tags[n].secured[i] IN item.crc = {item.sym} /\ item.cell # NoCell

\* Symbols that have not moved are there.
StableThere == \A n \in Nodes : \A s \in stable[n] : s \in Symbols /\ layout[s] # NoCell

\* All that a resolution of symbol s may still find is its place of now.
Right(c, s) == c = NoCell \/ c = layout[s]

FreshFor(n) ==
  \A s \in stable[n] :
    /\ Right(cache[s], s)
    /\ holder # NoNode /\ at[holder] = "explore" => Right(answer[s], s)
    /\ \A i \in DOMAIN entries[n] : tags[n].symbolic[i] = s => Right(entries[n][i], s)

\* Since its heal a node has met nothing that was older than the heal.
SecondAttemptFresh == \A n \in Nodes : attempt[n] = 2 => FreshFor(n)

IInv == Shape /\ SecuredTags /\ StableThere /\ SecondAttemptFresh /\ OwnSymbol /\ HealsAtOnce

-----------------------------------------------------------------------------
(* The operators *)

\* No symbol but the one whose cell it is lies in a cell, so that an item with
\* its own CRC is served right or not at all.
LEMMA ServesOwn ==
  ASSUME layout \in Layouts, NEW item, item.crc = {item.sym}, item.cell # NoCell
  PROVE  Serve(item, item.sym) # "wrong"
<1> DEFINE there == {t \in Symbols : layout[t] = item.cell}
<1>1. CASE there = {} \/ ~(item.crc \subseteq there)
  BY <1>1 DEF Serve
<1>2. CASE ~(there = {} \/ ~(item.crc \subseteq there))
  <2>1. item.sym \in Symbols /\ layout[item.sym] = item.cell
    BY <1>2
  <2>2. \A t \in there : t = item.sym
    BY <2>1 DEF Layouts
  <2>3. there = {item.sym}
    BY <2>1, <2>2
  <2>. QED BY <1>2, <2>3 DEF Serve
<1>. QED BY <1>1, <1>2

\* An item with the place and the CRC of its symbol is not stale.
LEMMA ServesRight ==
  ASSUME NEW item, item.sym \in Symbols, item.crc = {item.sym}, item.cell = layout[item.sym]
  PROVE  Serve(item, item.sym) # "stale"
BY DEF Serve

\* A tag that goes to the PLC unresolved has an address and a CRC.
LEMMA SplitSecures ==
  ASSUME NEW ts \in Requests, NEW i \in DOMAIN Split(ts).secured
  PROVE  LET item == Split(ts).secured[i] IN item.crc = {item.sym} /\ item.cell # NoCell
<1>1. Split(ts).secured = [j \in {k \in DOMAIN ts : Route(ts[k]) = "secured"} |->
                            [sym |-> ts[j].sym, cell |-> ts[j].cell,
                             crc |-> IF ts[j].crc THEN {ts[j].sym} ELSE {}]]
  BY DEF Split
<1>2. i \in DOMAIN ts /\ Route(ts[i]) = "secured"
  BY <1>1
<1>3. ts[i].addr = "hex" /\ ts[i].crc
  BY <1>2 DEF Route
<1>4. ts[i].cell \in Cells
  BY <1>2, <1>3, TagOpsAssumption
<1>. QED BY <1>1, <1>2, <1>3, <1>4, TagOpsAssumption

\* An explore exports of each symbol its place of now, or nothing.
LEMMA ExportsRight ==
  ASSUME NEW r, NEW s \in Symbols
  PROVE  Right(Exported(r)[s], s)
BY DEF Exported, Right

LEMMA SeedsRight ==
  ASSUME NEW c, NEW exported, NEW s \in Symbols, Right(c[s], s), Right(exported[s], s)
  PROVE  Right(Seed(c, exported)[s], s)
BY DEF Seed, Right

LEMMA Initially == Init => IInv
BY TagOpsAssumption DEF Init, IInv, Shape, OnNodes, SecuredTags, NoTags, StableThere, SecondAttemptFresh,
  OwnSymbol, HealsAtOnce

-----------------------------------------------------------------------------
(* The steps *)

\* A download moves symbols; those it moves are stable no longer.
LEMMA DownloadKeeps == IInv /\ Download => IInv'
<1>. SUFFICES ASSUME IInv, Download PROVE IInv'
  OBVIOUS
<1>. USE DEF IInv
<1>1. PICK l \in Layouts : layout' = l /\ stable' = [n \in Nodes |-> {s \in stable[n] : l[s] = layout[s]}]
  BY DEF Download
<1>2. UNCHANGED <<cache, holder, answer, at, tags, entries, attempt>>
  BY DEF Download, conv
<1>3. \A n \in Nodes : \A s \in stable'[n] : s \in stable[n] /\ layout'[s] = layout[s]
  BY <1>1
<1>4. Shape'
  BY <1>1, <1>2 DEF Shape, OnNodes
<1>5. SecuredTags'
  BY <1>2 DEF SecuredTags
<1>6. StableThere'
  BY <1>3 DEF StableThere
<1>7. SecondAttemptFresh'
  BY <1>2, <1>3 DEF SecondAttemptFresh, FreshFor, Right
<1>8. OwnSymbol'
  BY <1>2 DEF OwnSymbol
<1>9. HealsAtOnce'
  <2>1. \A n \in Nodes : Items(n)' = Items(n)
    BY <1>2 DEF Items
  <2>. QED BY <1>2, <1>3, <2>1 DEF HealsAtOnce
<1>. QED BY <1>4, <1>5, <1>6, <1>7, <1>8, <1>9

\* A node begins: its second attempt is not yet, and it has no request.
LEMMA BeginKeeps ==
  ASSUME IInv, NEW n \in Nodes, at[n] = "idle", NEW tg, NEW es, NEW where,
         tags' = [tags EXCEPT ![n] = tg], entries' = [entries EXCEPT ![n] = es],
         at' = [at EXCEPT ![n] = where], Begin(n), UNCHANGED <<plc, cache, conv>>,
         \A i \in DOMAIN tg.secured : LET item == tg.secured[i] IN item.crc = {item.sym} /\ item.cell # NoCell,
         DOMAIN es = DOMAIN tg.symbolic
  PROVE  IInv'
<1>. USE DEF IInv
<1>1. UNCHANGED <<layout, cache, holder, answer, attempt>>
  BY DEF Begin, plc, conv
<1>2. stable' = [stable EXCEPT ![n] = {s \in Symbols : layout[s] # NoCell}]
  BY DEF Begin
<1>3. attempt[n] = 1 /\ holder # n
  BY TagOpsAssumption DEF Shape, Waiting
<1>4. \A m \in Nodes \ {n} : at'[m] = at[m] /\ tags'[m] = tags[m] /\ entries'[m] = entries[m] /\ stable'[m] = stable[m]
  BY <1>2 DEF Shape, OnNodes
<1>5. Shape'
  <2>1. OnNodes(at)' /\ OnNodes(tags)' /\ OnNodes(entries)' /\ OnNodes(attempt)' /\ OnNodes(stable)'
    BY <1>1, <1>2 DEF Shape, OnNodes
  <2>2. holder' # NoNode => at'[holder'] \in Waiting
    BY <1>1, <1>3, <1>4 DEF Shape
  <2>3. \A m \in Nodes : at'[m] = "idle" => attempt'[m] = 1
    BY <1>1, <1>3, <1>4 DEF Shape
  <2>4. tags'[n] = tg /\ entries'[n] = es
    BY DEF Shape, OnNodes
  <2>5. \A m \in Nodes : DOMAIN entries'[m] = DOMAIN tags'[m].symbolic
    BY <1>4, <2>4 DEF Shape
  <2>. QED BY <1>1, <2>1, <2>2, <2>3, <2>5 DEF Shape
<1>6. SecuredTags'
  <2>1. tags'[n] = tg
    BY DEF Shape, OnNodes
  <2>. QED BY <1>4, <2>1 DEF SecuredTags
<1>7. StableThere'
  BY <1>1, <1>2, <1>4 DEF StableThere, Shape, OnNodes
<1>8. \A m \in Nodes : holder # NoNode => at'[holder] = at[holder]
  BY <1>3, <1>4 DEF Shape
<1>9. SecondAttemptFresh'
  BY <1>1, <1>3, <1>4, <1>8 DEF SecondAttemptFresh, FreshFor, Right
<1>10. OwnSymbol'
  BY <1>1, <1>8, TagOpsAssumption DEF OwnSymbol, Shape
<1>11. HealsAtOnce'
  <2>1. \A m \in Nodes \ {n} : Items(m)' = Items(m)
    BY <1>4 DEF Items
  <2>. QED BY <1>1, <1>3, <1>4, <2>1 DEF HealsAtOnce
<1>. QED BY <1>5, <1>6, <1>7, <1>9, <1>10, <1>11

LEMMA InputKeeps ==
  ASSUME IInv, NEW n \in Nodes, NEW ts \in Requests, Input(n, ts)
  PROVE  IInv'
<1>1. PICK es, where : /\ DOMAIN es = DOMAIN Split(ts).symbolic
                       /\ entries' = [entries EXCEPT ![n] = es] /\ at' = [at EXCEPT ![n] = where]
  BY DEF Input, Lookup, Cached
<1>2. at[n] = "idle" /\ tags' = [tags EXCEPT ![n] = Split(ts)] /\ Begin(n) /\ UNCHANGED <<plc, cache, conv>>
  BY DEF Input
<1>. QED BY <1>1, <1>2, SplitSecures, BeginKeeps

LEMMA ExploreKeeps ==
  ASSUME IInv, NEW n \in Nodes, Explore(n)
  PROVE  IInv'
<1>1. /\ at[n] = "idle" /\ tags' = [tags EXCEPT ![n] = NoTags]
      /\ entries' = [entries EXCEPT ![n] = <<>>] /\ at' = [at EXCEPT ![n] = "explore"]
      /\ Begin(n) /\ UNCHANGED <<plc, cache, conv>>
  BY DEF Explore
<1>2. DOMAIN NoTags.secured = {} /\ NoTags.symbolic = <<>>
  BY DEF NoTags
<1>. QED BY <1>1, <1>2, BeginKeeps

\* An explore reaches the PLC; the entries of a second attempt that waits
\* elsewhere are none of its business.
LEMMA ExploreSentKeeps ==
  ASSUME IInv, NEW n \in Nodes, ExploreSent(n)
  PROVE  IInv'
<1>. USE DEF IInv
<1>1. /\ at[n] = "explore" /\ holder' = n /\ answer' = Exported(Head(todo[n]))
      /\ UNCHANGED <<layout, cache, at, tags, entries, attempt, stable>>
  BY DEF ExploreSent, plc
<1>2. Shape' /\ SecuredTags' /\ StableThere'
  BY <1>1 DEF Shape, OnNodes, Waiting, SecuredTags, StableThere
<1>3. SecondAttemptFresh'
  <2>1. \A s \in Symbols : Right(answer'[s], s)
    BY <1>1, ExportsRight
  <2>. QED BY <1>1, <2>1 DEF SecondAttemptFresh, FreshFor, Right, StableThere
<1>4. OwnSymbol' /\ HealsAtOnce'
  BY <1>1 DEF OwnSymbol, HealsAtOnce
<1>. QED BY <1>2, <1>3, <1>4

\* A read or write reaches the PLC.  Its items have the CRC of their symbol,
\* and those of a second attempt the place it has now, if it stayed.
LEMMA TagsSentKeeps ==
  ASSUME IInv, NEW n \in Nodes, TagsSent(n)
  PROVE  IInv'
<1>. USE DEF IInv
<1>1. /\ at[n] \in {"transfer", "secured"} /\ holder' = n
      /\ answer' = [i \in DOMAIN Items(n) |-> Serve(Items(n)[i], Items(n)[i].sym)]
      /\ UNCHANGED <<layout, cache, at, tags, entries, attempt, stable>>
  BY DEF TagsSent, plc
<1>2. Shape' /\ SecuredTags' /\ StableThere'
  BY <1>1 DEF Shape, OnNodes, Waiting, SecuredTags, StableThere
<1>3. SecondAttemptFresh'
  BY <1>1 DEF SecondAttemptFresh, FreshFor, Right
<1>4. \A i \in DOMAIN Items(n) : Items(n)[i].crc = {Items(n)[i].sym} /\ Items(n)[i].cell # NoCell
  BY <1>1 DEF Items, SecuredTags
<1>5. OwnSymbol'
  <2>1. layout \in Layouts
    BY DEF Shape
  <2>2. \A i \in DOMAIN Items(n) : Serve(Items(n)[i], Items(n)[i].sym) # "wrong"
    BY <1>4, <2>1, ServesOwn
  <2>. QED BY <1>1, <2>2 DEF OwnSymbol
<1>6. HealsAtOnce'
  <2>. SUFFICES ASSUME at[n] = "transfer", attempt[n] = 2, NEW i \in DOMAIN Items(n),
                       Items(n)[i].sym \in stable[n]
                PROVE  Serve(Items(n)[i], Items(n)[i].sym) # "stale"
    <3>1. \A m \in Nodes : Items(m)' = Items(m)
      BY <1>1 DEF Items
    <3>. QED BY <1>1, <3>1 DEF HealsAtOnce
  <2>1. /\ i \in DOMAIN entries[n] /\ entries[n][i] # NoCell
        /\ Items(n)[i].sym = tags[n].symbolic[i] /\ Items(n)[i].cell = entries[n][i]
    BY DEF Items
  <2>2. Items(n)[i].cell = layout[Items(n)[i].sym]
    BY <2>1 DEF SecondAttemptFresh, FreshFor, Right
  <2>3. Items(n)[i].sym \in Symbols
    BY DEF StableThere
  <2>. QED BY <1>4, <2>2, <2>3, ServesRight
<1>. QED BY <1>2, <1>3, <1>5, <1>6

\* A request is over, with an answer or without.
LEMMA ReleaseKeeps ==
  ASSUME IInv, NEW n \in Nodes, NEW where, where # "idle", NEW a,
         NEW es, DOMAIN es = DOMAIN tags[n].symbolic,
         UNCHANGED <<layout, tags, stable>>, holder' = NoNode,
         at' = [at EXCEPT ![n] = where], entries' = [entries EXCEPT ![n] = es],
         attempt' = [attempt EXCEPT ![n] = a],
         \A m \in Nodes : attempt'[m] = 2 => \A s \in stable[m] : Right(cache'[s], s),
         a = 2 => \A s \in stable[n] : \A i \in DOMAIN es : tags[n].symbolic[i] = s => Right(es[i], s)
  PROVE  IInv'
<1>. USE DEF IInv
<1>1. at'[n] = where /\ entries'[n] = es /\ attempt'[n] = a
  BY DEF Shape, OnNodes
<1>2. \A m \in Nodes \ {n} : at'[m] = at[m] /\ entries'[m] = entries[m] /\ attempt'[m] = attempt[m]
  BY DEF Shape, OnNodes
<1>3. Shape'
  <2>1. OnNodes(at)' /\ OnNodes(tags)' /\ OnNodes(entries)' /\ OnNodes(attempt)' /\ OnNodes(stable)'
    BY DEF Shape, OnNodes
  <2>. QED BY <1>1, <1>2, <2>1 DEF Shape
<1>4. SecuredTags' /\ StableThere'
  BY DEF SecuredTags, StableThere
<1>5. SecondAttemptFresh'
  BY <1>1, <1>2 DEF SecondAttemptFresh, FreshFor, Right
<1>6. OwnSymbol' /\ HealsAtOnce'
  BY TagOpsAssumption DEF OwnSymbol, HealsAtOnce
<1>. QED BY <1>3, <1>4, <1>5, <1>6

\* An explore is answered: what it seeds is right for every second attempt,
\* because it went out after that node's heal.
LEMMA ExploreDoneKeeps ==
  ASSUME IInv, NEW n \in Nodes, ExploreDone(n)
  PROVE  IInv'
<1> DEFINE c     == Seed(cache, answer)
           syms  == tags[n].symbolic
           again == Cached(syms, c)
           found == [i \in DOMAIN syms |-> IF entries[n][i] # NoCell THEN entries[n][i] ELSE again[i]]
           last  == Len(todo[n]) = 1
           es    == IF last THEN found ELSE entries[n]
           where == IF last THEN AfterResolving(found, tags[n].secured) ELSE at[n]
<1>1. /\ at[n] = "explore" /\ holder = n /\ cache' = c /\ holder' = NoNode
      /\ UNCHANGED <<layout, tags, stable, attempt>>
      /\ at' = [at EXCEPT ![n] = where] /\ entries' = [entries EXCEPT ![n] = es]
  BY DEF ExploreDone, plc
<1>2. where # "idle"
  BY <1>1 DEF AfterResolving
<1>3. attempt' = [attempt EXCEPT ![n] = attempt[n]]
  BY <1>1 DEF IInv, Shape, OnNodes
<1>4. \A m \in Nodes : attempt[m] = 2 => \A s \in stable[m] : Right(c[s], s)
  <2>. SUFFICES ASSUME NEW m \in Nodes, attempt[m] = 2, NEW s \in stable[m] PROVE Right(c[s], s)
    OBVIOUS
  <2>1. s \in Symbols /\ Right(cache[s], s) /\ Right(answer[s], s)
    BY <1>1, TagOpsAssumption DEF IInv, StableThere, SecondAttemptFresh, FreshFor
  <2>. QED BY <2>1, SeedsRight
<1>5. attempt[n] = 2 => \A s \in stable[n] : \A i \in DOMAIN es : syms[i] = s => Right(es[i], s)
  <2>. SUFFICES ASSUME attempt[n] = 2, NEW s \in stable[n], NEW i \in DOMAIN es, syms[i] = s
                PROVE  Right(es[i], s)
    OBVIOUS
  <2>1. CASE ~last
    BY <2>1 DEF IInv, SecondAttemptFresh, FreshFor
  <2>2. CASE last
    <3>1. i \in DOMAIN syms /\ again[i] = c[s]
      BY <2>2 DEF Cached
    <3>2. Right(c[s], s)
      BY <1>4
    <3>3. CASE entries[n][i] = NoCell
      BY <2>2, <3>1, <3>2, <3>3
    <3>4. CASE entries[n][i] # NoCell
      <4>1. es[i] = entries[n][i]
        BY <2>2, <3>1, <3>4
      <4>2. i \in DOMAIN entries[n]
        BY <3>1 DEF IInv, Shape
      <4>. QED BY <4>1, <4>2 DEF IInv, SecondAttemptFresh, FreshFor
    <3>. QED BY <3>3, <3>4
  <2>. QED BY <2>1, <2>2
<1>6. DOMAIN es = DOMAIN syms
  BY DEF IInv, Shape
<1>. HIDE DEF c, es, where
<1>. QED BY <1>1, <1>2, <1>3, <1>4, <1>5, <1>6, ReleaseKeeps

\* A second attempt is the first that looks into the cache it has cleared.
LEMMA HealKeeps ==
  ASSUME IInv, NEW n \in Nodes, Heal(n)
  PROVE  IInv'
<1> DEFINE es == Cached(tags[n].symbolic, Invalidated)
<1>1. PICK where : where # "idle" /\ at' = [at EXCEPT ![n] = where]
  BY DEF Heal, Lookup, AfterResolving
<1>2. /\ cache' = Invalidated /\ holder' = NoNode /\ UNCHANGED <<layout, tags, stable>>
      /\ entries' = [entries EXCEPT ![n] = es] /\ attempt' = [attempt EXCEPT ![n] = 2]
  BY DEF Heal, Lookup, plc
<1>3. \A m \in Nodes : \A s \in stable[m] : Right(Invalidated[s], s)
  BY DEF IInv, StableThere, Invalidated, Right
<1>4. \A s \in stable[n] : \A i \in DOMAIN es : tags[n].symbolic[i] = s => Right(es[i], s)
  BY <1>3 DEF Cached
<1>5. DOMAIN es = DOMAIN tags[n].symbolic
  BY DEF Cached
<1>. HIDE DEF es
<1>. QED BY <1>1, <1>2, <1>3, <1>4, <1>5, ReleaseKeeps

\* The requests that end otherwise touch neither cache nor entries.
LEMMA EndKeeps ==
  ASSUME IInv, NEW n \in Nodes, TagsDone(n) \/ Retry(n) \/ Fail(n)
  PROVE  IInv'
<1>1. PICK where : where # "idle" /\ at' = [at EXCEPT ![n] = where]
  <2>1. CASE TagsDone(n)
    BY <2>1 DEF TagsDone
  <2>2. CASE Retry(n)
    BY <2>2 DEF Retry, Lose, Waiting, IInv, Shape, OnNodes
  <2>3. CASE Fail(n)
    BY <2>3 DEF Fail
  <2>. QED BY <2>1, <2>2, <2>3
<1>2. holder' = NoNode /\ UNCHANGED <<layout, cache, tags, stable, entries, attempt>>
  BY DEF TagsDone, Retry, Fail, Lose, plc
<1>3. entries' = [entries EXCEPT ![n] = entries[n]] /\ attempt' = [attempt EXCEPT ![n] = attempt[n]]
  BY <1>2 DEF IInv, Shape, OnNodes
<1>4. \A m \in Nodes : attempt'[m] = 2 => \A s \in stable[m] : Right(cache'[s], s)
  BY <1>2 DEF IInv, SecondAttemptFresh, FreshFor
<1>5. attempt[n] = 2 =>
        \A s \in stable[n] : \A i \in DOMAIN entries[n] : tags[n].symbolic[i] = s => Right(entries[n][i], s)
  BY DEF IInv, SecondAttemptFresh, FreshFor
<1>6. DOMAIN entries[n] = DOMAIN tags[n].symbolic
  BY DEF IInv, Shape
<1>. QED BY <1>1, <1>2, <1>3, <1>4, <1>5, <1>6, ReleaseKeeps

\* A handler that has reported is idle again, and at its first attempt.
LEMMA ReportKeeps ==
  ASSUME IInv, NEW n \in Nodes, Report(n)
  PROVE  IInv'
<1>. USE DEF IInv
<1>1. /\ at[n] = "report" /\ at' = [at EXCEPT ![n] = "idle"] /\ tags' = [tags EXCEPT ![n] = NoTags]
      /\ entries' = [entries EXCEPT ![n] = <<>>] /\ attempt' = [attempt EXCEPT ![n] = 1]
      /\ stable' = [stable EXCEPT ![n] = {}] /\ UNCHANGED <<layout, cache, holder, answer>>
  BY DEF Report, plc, conv
<1>2. holder # n
  BY <1>1, TagOpsAssumption DEF Shape, Waiting
<1>3. /\ at'[n] = "idle" /\ tags'[n] = NoTags /\ attempt'[n] = 1 /\ stable'[n] = {}
      /\ \A m \in Nodes \ {n} : /\ at'[m] = at[m] /\ tags'[m] = tags[m] /\ entries'[m] = entries[m]
                               /\ attempt'[m] = attempt[m] /\ stable'[m] = stable[m]
  BY <1>1 DEF Shape, OnNodes
<1>4. Shape'
  <2>1. OnNodes(at)' /\ OnNodes(tags)' /\ OnNodes(entries)' /\ OnNodes(attempt)' /\ OnNodes(stable)'
    BY <1>1 DEF Shape, OnNodes
  <2>2. entries'[n] = <<>> /\ tags'[n].symbolic = <<>>
    BY <1>1 DEF Shape, OnNodes, NoTags
  <2>3. \A m \in Nodes : DOMAIN entries'[m] = DOMAIN tags'[m].symbolic
    BY <1>3, <2>2 DEF Shape
  <2>. QED BY <1>1, <1>2, <1>3, <2>1, <2>3 DEF Shape
<1>5. SecuredTags' /\ StableThere'
  BY <1>1, <1>3 DEF SecuredTags, StableThere, NoTags
<1>6. SecondAttemptFresh'
  BY <1>1, <1>2, <1>3 DEF SecondAttemptFresh, FreshFor, Right, Shape
<1>7. OwnSymbol'
  BY <1>1, <1>2, <1>3 DEF OwnSymbol, Shape
<1>8. HealsAtOnce'
  <2>1. \A m \in Nodes \ {n} : Items(m)' = Items(m)
    BY <1>3 DEF Items
  <2>. QED BY <1>1, <1>2, <1>3, <2>1 DEF HealsAtOnce
<1>. QED BY <1>4, <1>5, <1>6, <1>7, <1>8

LEMMA ExpireKeeps ==
  ASSUME IInv, NEW x \in Symbols, Expire(x)
  PROVE  IInv'
<1>. USE DEF IInv
<1>1. /\ cache' = [cache EXCEPT ![x] = NoCell]
      /\ UNCHANGED <<layout, holder, answer, at, tags, entries, attempt, stable>>
  BY DEF Expire, plc, conv
<1>2. Shape' /\ SecuredTags' /\ StableThere' /\ OwnSymbol'
  BY <1>1 DEF Shape, OnNodes, SecuredTags, StableThere, OwnSymbol
<1>3. SecondAttemptFresh'
  BY <1>1 DEF SecondAttemptFresh, FreshFor, Right
<1>4. HealsAtOnce'
  <2>1. \A n \in Nodes : Items(n)' = Items(n)
    BY <1>1 DEF Items
  <2>. QED BY <1>1, <2>1 DEF HealsAtOnce
<1>. QED BY <1>2, <1>3, <1>4

-----------------------------------------------------------------------------
(* The results *)

\* The invariant holds in every reachable state.
THEOREM TagInvariant == Spec => []IInv
<1>1. Init => IInv
  BY Initially
<1>2. IInv /\ [Next]_vars => IInv'
  <2>. SUFFICES ASSUME IInv, [Next]_vars PROVE IInv'
    OBVIOUS
  <2>1. CASE Download
    BY <2>1, DownloadKeeps
  <2>2. ASSUME NEW n \in Nodes, NEW ts \in Requests, Input(n, ts) PROVE IInv'
    BY <2>2, InputKeeps
  <2>3. ASSUME NEW n \in Nodes, Explore(n) PROVE IInv'
    BY <2>3, ExploreKeeps
  <2>4. ASSUME NEW n \in Nodes, ExploreSent(n) PROVE IInv'
    BY <2>4, ExploreSentKeeps
  <2>5. ASSUME NEW n \in Nodes, ExploreDone(n) PROVE IInv'
    BY <2>5, ExploreDoneKeeps
  <2>6. ASSUME NEW n \in Nodes, TagsSent(n) PROVE IInv'
    BY <2>6, TagsSentKeeps
  <2>7. ASSUME NEW n \in Nodes, TagsDone(n) \/ Retry(n) \/ Fail(n) PROVE IInv'
    BY <2>7, EndKeeps
  <2>8. ASSUME NEW n \in Nodes, Heal(n) PROVE IInv'
    BY <2>8, HealKeeps
  <2>9. ASSUME NEW n \in Nodes, Report(n) PROVE IInv'
    BY <2>9, ReportKeeps
  <2>10. ASSUME NEW s \in Symbols, Expire(s) PROVE IInv'
    BY <2>10, ExpireKeeps
  <2>11. CASE UNCHANGED vars
    <3>1. UNCHANGED <<layout, cache, holder, answer, at, tags, entries, attempt, stable>>
      BY <2>11 DEF vars, plc, conv
    <3>2. Shape' /\ SecuredTags' /\ StableThere' /\ OwnSymbol'
      BY <3>1 DEF IInv, Shape, OnNodes, SecuredTags, StableThere, OwnSymbol
    <3>3. SecondAttemptFresh'
      BY <3>1 DEF IInv, SecondAttemptFresh, FreshFor, Right
    <3>4. \A n \in Nodes : Items(n)' = Items(n)
      BY <3>1 DEF Items
    <3>5. HealsAtOnce'
      BY <3>1, <3>4 DEF IInv, HealsAtOnce
    <3>. QED BY <3>2, <3>3, <3>5 DEF IInv
  <2>. QED
    BY <2>1, <2>2, <2>3, <2>4, <2>5, <2>6, <2>7, <2>8, <2>9, <2>10, <2>11 DEF Next
<1>. QED BY <1>1, <1>2, PTL DEF Spec

\* No read or write touches another symbol than its tag names, for any number
\* of nodes, symbols and downloads and any lists of tags.
THEOREM NeverAnotherSymbol == Spec => []OwnSymbol
<1>1. IInv => OwnSymbol
  BY DEF IInv
<1>. QED BY <1>1, TagInvariant, PTL

\* A second attempt meets no stale address of a symbol that stayed.
THEOREM SecondAttemptHeals == Spec => []HealsAtOnce
<1>1. IInv => HealsAtOnce
  BY DEF IInv
<1>. QED BY <1>1, TagInvariant, PTL

-----------------------------------------------------------------------------
(* Transfer *)


Stages == {"idle", "batch", "request", "answer", "done", "again"}

TransferShape ==
  /\ call \in [kind : {"read", "write"}, n : Nat]
  /\ stage \in Stages /\ (stage # "idle" => call.n # 0)
  /\ batch \in [from : Nat, to : Nat, size : Nat \ {0}]
  /\ width \in Nat \ {0} /\ plcLimit \in Nat \ {0} /\ next \in Nat
  /\ trial \in {1, 2} /\ up \in BOOLEAN
  /\ DOMAIN executed = 1..call.n /\ DOMAIN results = 1..call.n
  /\ \A i \in 1..call.n : executed[i] \in Int

\* The batch, the next item and the request that is with the PLC.
Cut ==
  /\ stage \in {"batch", "request", "answer"} =>
       /\ 1 <= batch.from /\ batch.from <= batch.to /\ batch.to <= call.n
       /\ batch.from <= next /\ next <= batch.to + 1
  /\ stage = "batch" => next = batch.from
  /\ stage = "done" => next = call.n + 1
  /\ stage = "answer" =>
       /\ Len(sent) \in 1..plcLimit /\ next + Len(sent) - 1 <= batch.to
       /\ DOMAIN sent = 1..Len(sent) /\ \A k \in DOMAIN sent : sent[k] = next + k - 1

\* A session's limit cannot change under the requests of a batch.
WidthHolds ==
  stage = "answer" \/ (stage = "request" /\ next <= batch.to) => up /\ width = plcLimit

\* What the batch under way has of its items.
PartialOwn ==
  /\ stage \in {"request", "answer"} =>
       DOMAIN partial = batch.from..batch.to /\ \A i \in DOMAIN partial : partial[i] # Unset
  /\ stage \notin {"request", "answer"} => DOMAIN partial = {}
  /\ \A i \in DOMAIN partial : partial[i].item \in {0, i}

\* What the operation has: the items of earlier batches.
ResultsOwn ==
  /\ \A i \in 1..call.n : results[i].item \in {0, i}
  /\ stage \in {"batch", "request", "answer", "done"} =>
       \A i \in 1..call.n : i < batch.from \/ stage = "done" => results[i] # Unset

\* The first item that the attempt under way has not made the PLC execute.
Frontier == IF stage = "again" THEN 1
            ELSE IF stage = "answer" THEN next + Len(sent) ELSE next

\* How often the earlier attempt has made the PLC execute item i.
Before(i) == executed[i] - (IF i < Frontier THEN 1 ELSE 0)

Turns ==
  /\ \A i \in 1..call.n : Before(i) \in 0..(trial - 1)
  /\ \A i, j \in 1..call.n : i < j => Before(j) <= Before(i)

TInv == TransferShape /\ Cut /\ WidthHolds /\ PartialOwn /\ ResultsOwn /\ Turns

-----------------------------------------------------------------------------
LEMMA LeastOfNat ==
  ASSUME NEW a \in Nat, NEW b \in Nat
  PROVE  LeastOf(a, b) \in {a, b} /\ LeastOf(a, b) <= a /\ LeastOf(a, b) <= b
BY DEF LeastOf

LEMMA TInvImplies == TInv => EachItemServed
<1> SUFFICES ASSUME TInv PROVE EachItemServed
  OBVIOUS
<1> USE DEF TInv
<1>1. OwnResults
  BY DEF TransferShape, PartialOwn, ResultsOwn, OwnResults
<1>2. Frontier \in Int
  BY DEF TransferShape, Cut, Frontier
<1>3. ExecutedInOrder
  <2>1. \A i \in DOMAIN executed : executed[i] <= trial
    BY <1>2 DEF TransferShape, Turns, Before
  <2>2. ASSUME NEW i \in DOMAIN executed, NEW j \in DOMAIN executed, i < j
        PROVE  executed[j] <= executed[i]
    BY <1>2, <2>2 DEF TransferShape, Turns, Before
  <2>3. ASSUME stage = "done", NEW i \in DOMAIN executed
        PROVE  executed[i] >= 1
    BY <2>3 DEF TransferShape, Cut, Turns, Before, Frontier
  <2>4. QED
    BY <2>1, <2>2, <2>3 DEF ExecutedInOrder
<1>4. RequestFits
  BY DEF Cut, RequestFits
<1>5. QED
  BY <1>1, <1>3, <1>4 DEF EachItemServed

LEMMA TransferInitially == TransferInit => TInv
<1> SUFFICES ASSUME TransferInit PROVE TInv
  OBVIOUS
<1> USE TransferAssumption DEF TransferInit, NoCall
<1>1. TransferShape
  BY DEF TransferShape, Stages
<1>2. Cut /\ WidthHolds
  BY DEF Cut, WidthHolds
<1>3. PartialOwn /\ ResultsOwn
  BY DEF PartialOwn, ResultsOwn
<1>4. Turns
  BY DEF Turns
<1>5. QED
  BY <1>1, <1>2, <1>3, <1>4 DEF TInv

\* The operation begins, with nothing executed by the attempt.
LEMMA StartKeeps ==
  ASSUME NEW c \in [kind : {"read", "write"}, n : Nat \ {0}],
         FromTheStart(c), call' = c, plcLimit' = plcLimit, up' = up, up \in BOOLEAN,
         plcLimit \in Nat \ {0}, trial' \in {1, 2},
         DOMAIN executed' = 1..c.n,
         \A i \in 1..c.n : executed'[i] \in 0..(trial' - 1),
         \A i, j \in 1..c.n : i < j => executed'[j] <= executed'[i]
  PROVE  TInv'
<1> DEFINE size == BatchSize(c.kind, plcLimit)
<1>1. size \in Nat \ {0}
  BY TransferAssumption, LeastOfNat DEF BatchSize
<1>2. LeastOf(size, c.n) \in Nat \ {0} /\ LeastOf(size, c.n) <= c.n
  BY <1>1, LeastOfNat
<1> HIDE DEF size
<1>3. /\ stage' = "batch" /\ batch' = [from |-> 1, to |-> LeastOf(size, c.n), size |-> size]
      /\ results' = [i \in 1..c.n |-> Unset]
      /\ next' = 1 /\ sent' = <<>> /\ partial' = <<>> /\ width' = 1
  BY DEF FromTheStart, size
<1>4. TransferShape'
  BY <1>1, <1>2, <1>3 DEF TransferShape, Stages
<1>5. Cut' /\ WidthHolds'
  BY <1>2, <1>3 DEF Cut, WidthHolds
<1>6. PartialOwn' /\ ResultsOwn'
  BY <1>2, <1>3 DEF PartialOwn, ResultsOwn, Unset
<1>7. Turns'
  BY <1>3 DEF Turns, Before, Frontier
<1>8. QED
  BY <1>4, <1>5, <1>6, <1>7 DEF TInv

LEMMA CallKeeps ==
  ASSUME TInv, NEW kind \in {"read", "write"}, NEW n \in 1..MaxItems, Call(kind, n)
  PROVE  TInv'
<1> DEFINE c == [kind |-> kind, n |-> n]
<1>1. c \in [kind : {"read", "write"}, n : Nat \ {0}]
  BY TransferAssumption
<1>2. /\ FromTheStart(c) /\ call' = c /\ trial' = 1 /\ executed' = [i \in 1..c.n |-> 0]
      /\ plcLimit' = plcLimit /\ up' = up
  BY DEF Call
<1>3. up \in BOOLEAN /\ plcLimit \in Nat \ {0}
  BY DEF TInv, TransferShape
<1> HIDE DEF c
<1>4. /\ DOMAIN executed' = 1..c.n /\ trial' \in {1, 2}
      /\ \A i \in 1..c.n : executed'[i] \in 0..(trial' - 1)
      /\ \A i, j \in 1..c.n : i < j => executed'[j] <= executed'[i]
  BY <1>2
<1>5. QED
  BY <1>1, <1>2, <1>3, <1>4, StartKeeps

LEMMA RunAgainKeeps == ASSUME TInv, RunAgain PROVE TInv'
<1>1. call \in [kind : {"read", "write"}, n : Nat \ {0}]
  BY DEF TInv, TransferShape, RunAgain
<1>2. /\ FromTheStart(call) /\ call' = call /\ trial' = trial /\ executed' = executed
      /\ plcLimit' = plcLimit /\ up' = up /\ stage = "again"
  BY DEF RunAgain
<1>3. up \in BOOLEAN /\ plcLimit \in Nat \ {0} /\ trial' \in {1, 2} /\ DOMAIN executed' = 1..call.n
  BY <1>2 DEF TInv, TransferShape
<1>4. \A i \in 1..call.n : executed'[i] \in 0..(trial' - 1)
  BY <1>2 DEF TInv, TransferShape, Turns, Before, Frontier
<1>5. \A i, j \in 1..call.n : i < j => executed'[j] <= executed'[i]
  BY <1>2 DEF TInv, TransferShape, Turns, Before, Frontier
<1>6. QED
  BY <1>1, <1>2, <1>3, <1>4, <1>5, StartKeeps

LEMMA BatchBeginKeeps == ASSUME TInv, BatchBegin PROVE TInv'
<1> USE DEF TInv, BatchBegin
<1>1. TransferShape'
  BY DEF TransferShape, Stages
<1>2. Cut' /\ WidthHolds'
  <2>1. batch.from <= batch.to /\ batch.from \in Nat /\ batch.to \in Nat
    BY DEF TransferShape, Cut
  <2>2. QED
    BY <2>1 DEF Cut, WidthHolds
<1>3. PartialOwn'
  BY DEF TransferShape, PartialOwn, Unmentioned, Unset
<1>4. ResultsOwn'
  BY DEF ResultsOwn
<1>5. Turns'
  <2>1. Frontier' = Frontier
    BY DEF Cut, Frontier
  <2>2. \A i \in 1..call.n : Before(i)' = Before(i)
    BY <2>1 DEF Before
  <2>3. QED
    BY <2>2 DEF Turns
<1>6. QED
  BY <1>1, <1>2, <1>3, <1>4, <1>5

\* The items of the request are executed: the frontier moves behind them, and
\* what the attempt before had executed is as it was.
LEMMA RequestKeeps == ASSUME TInv, Request PROVE TInv'
<1> DEFINE last == LeastOf(next + Width - 1, batch.to)
<1>1. Width = plcLimit /\ up /\ plcLimit \in Nat \ {0} /\ next \in Nat /\ batch.to \in Nat
  BY DEF TInv, TransferShape, WidthHolds, Width, Request
<1>2. last \in Nat /\ last <= batch.to /\ next <= last /\ last - next + 1 <= plcLimit
  BY <1>1 DEF LeastOf, Request
<1> HIDE DEF last
<1>3. /\ stage = "request" /\ next <= batch.to /\ stage' = "answer"
      /\ sent' = [k \in 1..(last - next + 1) |-> next + k - 1]
      /\ executed' = [i \in DOMAIN executed |-> IF i \in next..last THEN executed[i] + 1 ELSE executed[i]]
      /\ UNCHANGED <<call, batch, width, next, partial, results, trial, plcLimit, up, losses>>
  BY DEF Request, last
<1>4. Len(sent') = last - next + 1
  BY <1>1, <1>2, <1>3
<1>5. TransferShape'
  BY <1>1, <1>2, <1>3 DEF TInv, TransferShape, Stages
<1>6. Cut' /\ WidthHolds'
  BY <1>1, <1>2, <1>3, <1>4 DEF TInv, Cut, WidthHolds
<1>7. PartialOwn' /\ ResultsOwn'
  BY <1>3 DEF TInv, PartialOwn, ResultsOwn
<1>8. Turns'
  <2>1. Frontier = next /\ Frontier' = last + 1
    BY <1>1, <1>2, <1>3, <1>4 DEF Frontier
  <2>2. ASSUME NEW i \in 1..call.n
        PROVE  Before(i)' = Before(i)
    BY <1>1, <1>2, <1>3, <2>1 DEF TInv, TransferShape, Before
  <2>3. QED
    BY <1>3, <2>2 DEF TInv, Turns
<1>9. QED
  BY <1>5, <1>6, <1>7, <1>8 DEF TInv

\* What the answer says of the k-th item of the request goes to that item.
LEMMA AnsweredKeeps == ASSUME TInv, Answered PROVE TInv'
<1>1. PICK mentioned \in SUBSET (DOMAIN sent) :
        partial' = Placed([k \in mentioned |-> [item |-> sent[k], said |-> "answer"]])
  BY DEF Answered
<1>2. /\ stage = "answer" /\ stage' = "request" /\ next' = next + Len(sent) /\ sent' = <<>>
      /\ UNCHANGED <<call, batch, width, results, trial, executed, plcLimit, up, losses>>
  BY DEF Answered
<1>3. /\ next \in Nat /\ Len(sent) \in Nat /\ Len(sent) >= 1
      /\ batch.from \in Nat /\ batch.to \in Nat /\ plcLimit \in Nat
  BY <1>2 DEF TInv, TransferShape, Cut
<1>4. TransferShape'
  BY <1>2, <1>3 DEF TInv, TransferShape, Stages
<1>5. Cut' /\ WidthHolds'
  BY <1>2, <1>3 DEF TInv, Cut, WidthHolds
<1>6. PartialOwn'
  <2>1. DOMAIN partial' = batch.from..batch.to
    BY <1>1, <1>2 DEF TInv, PartialOwn, Placed
  <2>2. ASSUME NEW i \in batch.from..batch.to
        PROVE  partial'[i] # Unset /\ partial'[i].item \in {0, i}
    <3>1. CASE i - next + 1 \in mentioned
      <4>1. i - next + 1 \in DOMAIN sent /\ sent[i - next + 1] = i
        BY <3>1, <1>2, <1>3 DEF TInv, Cut
      <4>2. partial'[i] = [item |-> i, said |-> "answer"]
        BY <1>1, <1>2, <3>1, <4>1 DEF TInv, PartialOwn, Placed
      <4>3. QED
        BY <4>2 DEF Unset
    <3>2. CASE i - next + 1 \notin mentioned
      BY <1>1, <1>2, <3>2 DEF TInv, PartialOwn, Placed
    <3>3. QED
      BY <3>1, <3>2
  <2>3. QED
    BY <1>2, <2>1, <2>2 DEF PartialOwn
<1>7. ResultsOwn'
  BY <1>2 DEF TInv, ResultsOwn
<1>8. Turns'
  <2>1. Frontier' = Frontier
    BY <1>2 DEF Frontier
  <2>2. \A i \in 1..call.n : Before(i)' = Before(i)
    BY <1>2, <2>1 DEF Before
  <2>3. QED
    BY <1>2, <2>2 DEF TInv, Turns
<1>9. QED
  BY <1>4, <1>5, <1>6, <1>7, <1>8 DEF TInv

LEMMA BatchDoneKeeps == ASSUME TInv, BatchDone PROVE TInv'
<1>1. /\ stage = "request" /\ next = batch.to + 1
      /\ results' = [i \in DOMAIN results |-> IF i \in DOMAIN partial THEN partial[i] ELSE results[i]]
      /\ partial' = <<>>
      /\ UNCHANGED <<call, width, next, sent, trial, executed, plcLimit, up, losses>>
  <2>1. stage = "request" /\ next > batch.to
    BY DEF BatchDone
  <2>2. next = batch.to + 1
    <3>1. next \in Nat /\ batch.to \in Nat
      BY DEF TInv, TransferShape
    <3>2. next <= batch.to + 1
      BY <2>1 DEF TInv, Cut
    <3>3. QED
      BY <2>1, <3>1, <3>2
  <2>3. results' = [i \in DOMAIN results |-> IF i \in DOMAIN partial THEN partial[i] ELSE results[i]]
    BY DEF BatchDone
  <2>4. partial' = <<>> /\ UNCHANGED <<call, width, next, sent, trial, executed, plcLimit, up, losses>>
    BY DEF BatchDone
  <2>5. QED
    BY <2>1, <2>2, <2>3, <2>4
<1>2. /\ batch.from \in Nat /\ batch.to \in Nat /\ batch.size \in Nat \ {0} /\ call.n \in Nat
      /\ 1 <= batch.from /\ batch.from <= batch.to /\ batch.to <= call.n
  BY <1>1 DEF TInv, TransferShape, Cut
<1> DEFINE to == LeastOf(batch.to + batch.size, call.n)
<1>3. to \in Nat /\ to <= call.n /\ (batch.to # call.n => batch.to + 1 <= to)
  BY <1>2 DEF LeastOf
<1> HIDE DEF to
<1>4. \/ batch.to = call.n /\ stage' = "done" /\ batch' = batch
      \/ /\ batch.to # call.n /\ stage' = "batch"
         /\ batch' = [from |-> batch.to + 1, to |-> to, size |-> batch.size]
  BY DEF BatchDone, to
<1>5. DOMAIN partial = batch.from..batch.to /\ DOMAIN results = 1..call.n
  BY <1>1 DEF TInv, TransferShape, PartialOwn
<1>6. TransferShape'
  BY <1>1, <1>2, <1>3, <1>4 DEF TInv, TransferShape, Stages
<1>7. batch'.from = IF stage' = "done" THEN batch.from ELSE batch.to + 1
  BY <1>4 DEF TInv, TransferShape
<1>8. Cut' /\ WidthHolds'
  BY <1>1, <1>2, <1>3, <1>4 DEF TInv, TransferShape, Cut, WidthHolds
<1>9. PartialOwn'
  BY <1>1, <1>4 DEF PartialOwn
<1>10. ResultsOwn'
  <2>1. ASSUME NEW i \in 1..call.n
        PROVE  /\ results'[i].item \in {0, i}
               /\ i < batch'.from \/ stage' = "done" => results'[i] # Unset
    <3>1. CASE i \in batch.from..batch.to
      BY <1>1, <1>5, <3>1 DEF TInv, PartialOwn
    <3>2. CASE i < batch.from
      BY <1>1, <1>2, <1>5, <3>2 DEF TInv, ResultsOwn
    <3>3. CASE i > batch.to
      <4>1. results'[i] = results[i]
        BY <1>1, <1>2, <1>5, <3>3
      <4>2. ~(i < batch'.from) /\ stage' # "done"
        BY <1>2, <1>4, <1>7, <3>3
      <4>3. QED
        BY <1>1, <4>1, <4>2 DEF TInv, ResultsOwn
    <3>4. QED
      BY <1>2, <3>1, <3>2, <3>3
  <2>2. QED
    BY <1>1, <2>1 DEF ResultsOwn
<1>11. Turns'
  <2>1. Frontier' = Frontier
    BY <1>1, <1>4 DEF Frontier
  <2>2. \A i \in 1..call.n : Before(i)' = Before(i)
    BY <1>1, <2>1 DEF Before
  <2>3. QED
    BY <1>1, <2>2 DEF TInv, Turns
<1>12. QED
  BY <1>6, <1>8, <1>9, <1>10, <1>11 DEF TInv

\* The caller has the results or an error.
LEMMA OverKeeps ==
  ASSUME TInv, Over, partial' = <<>>, UNCHANGED <<batch, width, next, plcLimit>>, up' \in BOOLEAN
  PROVE  TInv'
<1> USE DEF Over, NoCall
<1>1. TransferShape'
  BY DEF TInv, TransferShape, Stages
<1>2. Cut' /\ WidthHolds'
  BY DEF Cut, WidthHolds
<1>3. PartialOwn' /\ ResultsOwn'
  BY DEF PartialOwn, ResultsOwn
<1>4. Turns'
  BY DEF Turns
<1>5. QED
  BY <1>1, <1>2, <1>3, <1>4 DEF TInv

\* After the first attempt an item has been executed or not, and none before
\* one that precedes it: that is what the second attempt begins with.
LEMMA FailsKeeps ==
  ASSUME TInv, Fails, stage \in {"batch", "request", "answer"}, up' \in BOOLEAN
  PROVE  TInv'
<1>1. CASE trial = 1
  <2>1. /\ stage' = "again" /\ trial' = 2 /\ sent' = <<>> /\ partial' = <<>>
        /\ UNCHANGED <<call, results, executed, batch, width, next, plcLimit>>
    BY <1>1 DEF Fails
  <2>2. TransferShape'
    BY <2>1 DEF TInv, TransferShape, Stages
  <2>3. Cut' /\ WidthHolds' /\ PartialOwn' /\ ResultsOwn'
    BY <2>1 DEF TInv, Cut, WidthHolds, PartialOwn, ResultsOwn
  <2>4. Turns'
    <3>1. Frontier' = 1 /\ Frontier \in Int
      BY <2>1 DEF TInv, TransferShape, Cut, Frontier
    <3>2. \A i \in 1..call.n : Before(i)' = executed[i] /\ Before(i) = 0
      BY <1>1, <2>1, <3>1 DEF TInv, TransferShape, Turns, Before
    <3>3. \A i \in 1..call.n : executed[i] = IF i < Frontier THEN 1 ELSE 0
      BY <3>1, <3>2 DEF TInv, TransferShape, Before
    <3>4. \A i \in 1..call.n : Before(i)' \in 0..(trial' - 1)
      BY <2>1, <3>2, <3>3
    <3>5. \A i, j \in 1..call.n : i < j => Before(j)' <= Before(i)'
      BY <3>1, <3>2, <3>3
    <3>6. QED
      BY <2>1, <3>4, <3>5 DEF Turns
  <2>5. QED
    BY <2>2, <2>3, <2>4 DEF TInv
<1>2. CASE trial = 2
  <2>1. Over /\ partial' = <<>> /\ UNCHANGED <<batch, width, next, plcLimit>>
    BY <1>2 DEF Fails
  <2>2. QED
    BY <2>1, OverKeeps
<1>3. QED
  BY <1>1, <1>2 DEF TInv, TransferShape

LEMMA SessionEndsKeeps == ASSUME TInv, SessionEnds PROVE TInv'
<1>1. up' = FALSE
  BY DEF SessionEnds
<1>2. CASE InRequests /\ Fails
  BY <1>1, <1>2, FailsKeeps DEF InRequests
<1>3. CASE /\ ~InRequests
           /\ UNCHANGED <<call, stage, batch, width, next, sent, partial, results, trial, executed, plcLimit>>
  <2>1. TransferShape' /\ Cut' /\ PartialOwn' /\ ResultsOwn'
    BY <1>1, <1>3 DEF TInv, TransferShape, Cut, PartialOwn, ResultsOwn
  <2>2. WidthHolds'
    BY <1>3 DEF WidthHolds, InRequests
  <2>3. Turns'
    BY <1>3 DEF TInv, Turns, Before, Frontier
  <2>4. QED
    BY <2>1, <2>2, <2>3 DEF TInv
<1>4. QED
  BY <1>2, <1>3 DEF SessionEnds

LEMMA ConnectKeeps == ASSUME TInv, Connect PROVE TInv'
<1>1. /\ ~up /\ up' = TRUE /\ plcLimit' \in Nat \ {0}
      /\ UNCHANGED <<call, stage, batch, width, next, sent, partial, results, trial, executed>>
  BY TransferAssumption DEF Connect
<1>2. stage # "answer" /\ ~(stage = "request" /\ next <= batch.to)
  BY <1>1 DEF TInv, WidthHolds
<1>3. TransferShape' /\ PartialOwn' /\ ResultsOwn'
  BY <1>1 DEF TInv, TransferShape, PartialOwn, ResultsOwn
<1>4. Cut' /\ WidthHolds'
  BY <1>1, <1>2 DEF TInv, Cut, WidthHolds
<1>5. Turns'
  BY <1>1 DEF TInv, Turns, Before, Frontier
<1>6. QED
  BY <1>3, <1>4, <1>5 DEF TInv

LEMMA StutterKeeps == ASSUME TInv, UNCHANGED transfer PROVE TInv'
<1> USE DEF transfer, TInv
<1>1. TransferShape' /\ Cut' /\ WidthHolds' /\ PartialOwn' /\ ResultsOwn'
  BY DEF TransferShape, Cut, WidthHolds, PartialOwn, ResultsOwn
<1>2. Turns'
  BY DEF Turns, Before, Frontier
<1>3. QED
  BY <1>1, <1>2

\* The invariant behind EachItemServed, for any number of items, limits, batch
\* sizes and losses: what the attempt under way has executed lies before the
\* frontier, what the answers said lies at its item (readValues, writeValues).
THEOREM TransferInvariant == TransferSpec => []TInv
<1>1. TInv /\ [TransferNext]_transfer => TInv'
  <2> SUFFICES ASSUME TInv, [TransferNext]_transfer PROVE TInv'
    OBVIOUS
  <2>1. CASE \E kind \in {"read", "write"}, n \in 1..MaxItems : Call(kind, n)
    BY <2>1, CallKeeps
  <2>2. CASE BatchBegin
    BY <2>2, BatchBeginKeeps
  <2>3. CASE Request
    BY <2>3, RequestKeeps
  <2>4. CASE Answered
    BY <2>4, AnsweredKeeps
  <2>5. CASE BatchDone
    BY <2>5, BatchDoneKeeps
  <2>6. CASE Return
    <3>1. Over /\ partial' = partial /\ UNCHANGED <<batch, width, next, plcLimit, up>> /\ stage = "done"
      BY <2>6 DEF Return
    <3>2. TransferShape' /\ Cut' /\ WidthHolds'
      BY <3>1 DEF TInv, TransferShape, Stages, Cut, WidthHolds, Over, NoCall
    <3>3. PartialOwn' /\ ResultsOwn'
      BY <3>1 DEF TInv, PartialOwn, ResultsOwn, Over, NoCall
    <3>4. Turns'
      BY <3>1 DEF Turns, Over, NoCall
    <3>5. QED
      BY <3>2, <3>3, <3>4 DEF TInv
  <2>7. CASE BatchFindsNoSession
    BY <2>7, FailsKeeps DEF BatchFindsNoSession, TInv, TransferShape
  <2>8. CASE SessionEnds
    BY <2>8, SessionEndsKeeps
  <2>9. CASE Connect
    BY <2>9, ConnectKeeps
  <2>10. CASE RunAgain
    BY <2>10, RunAgainKeeps
  <2>11. CASE UNCHANGED transfer
    BY <2>11, StutterKeeps
  <2>12. QED
    BY <2>1, <2>2, <2>3, <2>4, <2>5, <2>6, <2>7, <2>8, <2>9, <2>10, <2>11 DEF TransferNext
<1>2. QED
  BY TransferInitially, <1>1, PTL DEF TransferSpec

\* Each item of a read or a write gets its own result and is executed in its
\* turn, at most once per attempt, in requests of as many items as the PLC of
\* the session takes, however the operation is cut and interrupted
\* (readValues, writeValues, withReconnect).
THEOREM EveryItemServed == TransferSpec => []EachItemServed
<1>1. TInv => EachItemServed
  BY TInvImplies
<1>2. QED
  BY <1>1, TransferInvariant, PTL
=============================================================================
