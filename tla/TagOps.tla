------------------------------- MODULE TagOps -------------------------------
(***************************************************************************)
(* Reads and writes by symbol: the input handlers of the read, write and   *)
(* explore nodes, and of the endpoint resolveSymbolsBatch() with its CRC   *)
(* cache, resolveAndRead(), resolveAndWrite() and browseFull(), each       *)
(* request of which runs in withReconnect().                               *)
(*                                                                         *)
(* The PLC keeps every symbol in a cell, and a program download moves the  *)
(* symbols of one root (a data block or a memory area).  An item carries a *)
(* cell and the CRC of a symbol; the PLC serves it if that symbol is there *)
(* and rejects it as stale if the cell is empty or holds another one.  The *)
(* CRC stands for the symbol it was computed from.  A read and a write     *)
(* differ here only in what the PLC does with an item it accepts.          *)
(*                                                                         *)
(* The client's user lock is taken to serialize requests (module UserLock  *)
(* says when it does not): `holder' is the node whose request is with the  *)
(* PLC, `answer' what the PLC has made of it.  How a request is cut into   *)
(* PDUs is in module Transfer, how an explore's answer becomes a list of   *)
(* symbols in module Browse.                                               *)
(***************************************************************************)
EXTENDS Integers, Sequences, FiniteSets, SequencesExt

CONSTANTS
  Nodes,         \* read, write and explore nodes
  Symbols,       \* symbolic paths
  Cells,         \* places of the PLC's memory
  RootOf,        \* the root of a symbol and of a cell
  Protected,     \* symbols to which the PLC denies access
  Requests,      \* the lists of tags a node may be asked for
  MaxDownloads,  \* bound: program downloads
  NoNode, NoCell, Everything

ASSUME TagOpsAssumption ==
  /\ MaxDownloads \in Nat
  /\ NoNode \notin Nodes /\ NoCell \notin Cells
  /\ Protected \subseteq Symbols
  /\ Everything \notin {RootOf[s] : s \in Symbols}
  /\ \A ts \in Requests : \A i \in DOMAIN ts : ts[i].addr = "hex" => ts[i].cell \in Cells

VARIABLES
  \* the PLC
  layout,     \* layout[s]: the cell of symbol s, NoCell if it has none
  downloads,
  \* the endpoint
  cache,      \* _crcCache: the cell an explore exported for a symbol
  holder,     \* the node whose request is with the PLC
  answer,     \* what the PLC has made of that request
  \* the operation of each node
  at,         \* the await of its handler; "idle" when it is not busy
  tags,       \* the symbolic and the CRC-secured tags of its message
  entries,    \* what resolveSymbolsBatch() has for each symbolic tag so far
  todo,       \* the roots it has still to explore
  attempt,    \* 1, or 2 after a stale address
  retried,    \* withReconnect() has used its retry for the current request
  result,     \* what the handler reports for each symbol
  \* history
  stable      \* symbols that exist and have not moved since the message came

plc  == <<layout, downloads>>
conv == <<holder, answer>>
vars == <<plc, cache, conv, at, tags, entries, todo, attempt, retried, result, stable>>

Roots    == {RootOf[s] : s \in Symbols}
Waiting  == {"explore", "transfer", "secured"}
NoTags   == [symbolic |-> <<>>, secured |-> <<>>]
NoAnswer == <<>>
Nothing  == [s \in Symbols |-> "none"]

\* The layouts of a program: a symbol is in a cell of its own of its root.
Layouts ==
  { l \in [Symbols -> Cells \cup {NoCell}] :
      \A s, t \in Symbols : l[s] # NoCell =>
        RootOf[l[s]] = RootOf[s] /\ (l[t] = l[s] => t = s) }

Init ==
  /\ layout \in {l \in Layouts : \A s \in Symbols : l[s] # NoCell}
  /\ downloads = 0
  /\ cache = [s \in Symbols |-> NoCell]
  /\ holder = NoNode /\ answer = NoAnswer
  /\ at = [n \in Nodes |-> "idle"]
  /\ tags = [n \in Nodes |-> NoTags]
  /\ entries = [n \in Nodes |-> <<>>]
  /\ todo = [n \in Nodes |-> <<>>]
  /\ attempt = [n \in Nodes |-> 1]
  /\ retried = [n \in Nodes |-> FALSE]
  /\ result = [n \in Nodes |-> Nothing]
  /\ stable = [n \in Nodes |-> {}]

\* No handler is in the turn in which its operation has ended.
Settled == \A n \in Nodes : at[n] # "report"

-----------------------------------------------------------------------------
(* The PLC *)

\* A download of a changed program moves, removes or adds symbols of one root.
Download ==
  /\ Settled /\ downloads < MaxDownloads
  /\ \E l \in Layouts \ {layout}, r \in Roots :
       /\ \A s \in Symbols : RootOf[s] # r => l[s] = layout[s]
       /\ layout' = l
       /\ stable' = [n \in Nodes |-> {s \in stable[n] : l[s] = layout[s]}]
  /\ downloads' = downloads + 1
  /\ UNCHANGED <<cache, conv, at, tags, entries, todo, attempt, retried, result>>

\* What the PLC makes of an item, if the symbol asked for is s.  The item's crc
\* is the set of the symbol its CRC was computed from, empty without one.
Serve(item, s) ==
  LET there == {t \in Symbols : layout[t] = item.cell}
  IN  IF there = {} \/ ~(item.crc \subseteq there) THEN "stale"
      ELSE IF there \cap Protected # {} THEN "denied"
      ELSE IF there = {s} THEN "ok" ELSE "wrong"

\* What an explore of root r exports.
Exported(r) ==
  [s \in Symbols |-> IF r \in {RootOf[s], Everything} THEN layout[s] ELSE NoCell]

-----------------------------------------------------------------------------
(* The nodes' tags *)

\* Mutant: a hex address is passed on without the CRC it lacks.
Route_Unsecured(t) == IF t.addr = "hex" THEN "secured" ELSE "symbolic"

\* normalizeTag(), normalizeSymbol() and assertCrcSecuredTag(): an address in
\* hex needs a CRC or a symbolic name beside it.  A path made of hex digits
\* alone ("hexpath") passes for a symbol only as a plain string.
Route(t) ==
  CASE t.addr = "path" -> "symbolic"
    [] t.addr = "hexpath" -> IF t.plain THEN "symbolic" ELSE "refused"
    [] t.addr = "hex" /\ t.crc -> "secured"
    [] t.addr = "hex" /\ ~t.crc /\ t.named -> "symbolic"
    [] OTHER -> "refused"

\* The handler throws before it asks for anything when a tag is refused.
Accepted(ts) == \A i \in DOMAIN ts : Route(ts[i]) # "refused"

\* The elements of seq, each at the place where it comes first.
Distinct(seq) ==
  FoldLeft(LAMBDA acc, x : IF x \in ToSet(acc) THEN acc ELSE Append(acc, x), <<>>, seq)

\* The split of a message's tags: symbolic paths are asked for once (a write
\* asks again for one that comes twice and has the same answer), secured tags
\* go to the PLC as they are, with the CRC they came with.
Split(ts) ==
  LET named == SelectSeq(ts, LAMBDA t : Route(t) = "symbolic")
  IN  [symbolic |-> Distinct([i \in DOMAIN named |-> named[i].sym]),
       secured  |-> [i \in {j \in DOMAIN ts : Route(ts[j]) = "secured"} |->
                      [sym |-> ts[i].sym, cell |-> ts[i].cell,
                       crc |-> IF ts[i].crc THEN {ts[i].sym} ELSE {}]]]

-----------------------------------------------------------------------------
(* resolveSymbolsBatch() *)

\* crcCacheGet() for each of the paths in cache c.
Cached(syms, c) == [i \in DOMAIN syms |-> c[syms[i]]]

\* uniqueSymbolRoots() of the paths that found no entry.
RootsToExplore(syms, found) ==
  LET missed == SelectSeq([i \in DOMAIN syms |-> <<syms[i], found[i]>>],
                          LAMBDA p : p[2] = NoCell)
  IN  Distinct([i \in DOMAIN missed |-> RootOf[missed[i][1]]])

\* seedCrcCacheFromFlatSymbols(): what the explore exported replaces entries
\* of the same path and leaves all others.
Seed(c, exported) == [s \in Symbols |-> IF exported[s] # NoCell THEN exported[s] ELSE c[s]]

\* Where a handler goes on once its symbolic tags have been resolved as far as
\* they can be: nothing is sent when none was.
AfterResolving(found, secured) ==
  CASE \E i \in DOMAIN found : found[i] # NoCell -> "transfer"
    [] (\A i \in DOMAIN found : found[i] = NoCell) /\ DOMAIN secured # {} -> "secured"
    [] OTHER -> "report"

\* The errors of the tags that were not resolved.
Missing(syms, found) == {syms[i] : i \in {j \in DOMAIN found : found[j] = NoCell}}

\* Node n looks up its paths in cache c; misses mean an explore for each root.
Lookup(n, tg, c) ==
  LET found == Cached(tg.symbolic, c)
      roots == RootsToExplore(tg.symbolic, found)
  IN  /\ entries' = [entries EXCEPT ![n] = found]
      /\ todo' = [todo EXCEPT ![n] = roots]
      /\ at' = [at EXCEPT ![n] = IF roots # <<>> THEN "explore"
                                 ELSE AfterResolving(found, tg.secured)]

-----------------------------------------------------------------------------
(* The handlers *)

\* The busy flag is set.
Begin(n) ==
  /\ Settled
  /\ UNCHANGED <<attempt, retried, result>>
  /\ stable' = [stable EXCEPT ![n] = {s \in Symbols : layout[s] # NoCell}]

\* A message for a read or a write node that is not busy.
Input(n, ts) ==
  /\ at[n] = "idle" /\ Accepted(ts)
  /\ LET tg == Split(ts) IN
       /\ tags' = [tags EXCEPT ![n] = tg]
       /\ Lookup(n, tg, cache)
  /\ Begin(n)
  /\ UNCHANGED <<plc, cache, conv>>

\* A message for an explore node: browseFull() of everything.
Explore(n) ==
  /\ at[n] = "idle"
  /\ tags' = [tags EXCEPT ![n] = NoTags]
  /\ entries' = [entries EXCEPT ![n] = <<>>]
  /\ todo' = [todo EXCEPT ![n] = <<Everything>>]
  /\ at' = [at EXCEPT ![n] = "explore"]
  /\ Begin(n)
  /\ UNCHANGED <<plc, cache, conv>>

\* The explore of the next root reaches the PLC.
ExploreSent(n) ==
  /\ Settled /\ at[n] = "explore" /\ holder = NoNode
  /\ holder' = n /\ answer' = Exported(Head(todo[n]))
  /\ UNCHANGED <<plc, cache, at, tags, entries, todo, attempt, retried, result, stable>>

\* Its answer seeds the cache.  After the last root the paths that were missed
\* are looked up once more; those looked up before keep their entries.
ExploreDone(n) ==
  LET c     == Seed(cache, answer)
      syms  == tags[n].symbolic
      again == Cached(syms, c)
      found == [i \in DOMAIN syms |-> IF entries[n][i] # NoCell THEN entries[n][i] ELSE again[i]]
      last  == Len(todo[n]) = 1
  IN  /\ Settled /\ at[n] = "explore" /\ holder = n
      /\ cache' = c
      /\ holder' = NoNode /\ answer' = NoAnswer
      /\ todo' = [todo EXCEPT ![n] = Tail(@)]
      /\ retried' = [retried EXCEPT ![n] = FALSE]
      /\ entries' = [entries EXCEPT ![n] = IF last THEN found ELSE @]
      /\ at' = [at EXCEPT ![n] = IF last THEN AfterResolving(found, tags[n].secured) ELSE @]
      /\ result' = [result EXCEPT ![n] =
                     IF last THEN [s \in Symbols |-> IF s \in Missing(syms, found)
                                                     THEN "missing" ELSE "none"]
                     ELSE @]
      /\ UNCHANGED <<plc, tags, attempt, stable>>

\* The items of the request node n makes next: those resolved, with the
\* address and the CRC of their entries, or the secured ones.
Items(n) ==
  IF at[n] = "secured" THEN tags[n].secured
  ELSE [i \in {j \in DOMAIN entries[n] : entries[n][j] # NoCell} |->
          [sym |-> tags[n].symbolic[i], cell |-> entries[n][i], crc |-> {tags[n].symbolic[i]}]]

\* readTags() or writeTags() of these items reaches the PLC, which serves them.
TagsSent(n) ==
  /\ Settled /\ at[n] \in {"transfer", "secured"} /\ holder = NoNode
  /\ holder' = n
  /\ answer' = [i \in DOMAIN Items(n) |-> Serve(Items(n)[i], Items(n)[i].sym)]
  /\ UNCHANGED <<plc, cache, at, tags, entries, todo, attempt, retried, result, stable>>

\* isAddressStaleError() of an answer.
IsStale(ans) == \E i \in DOMAIN ans : ans[i] = "stale"

\* Object.assign() of what the request reported for its items.
Merge(n) ==
  [s \in Symbols |->
     IF \E i \in DOMAIN Items(n) : Items(n)[i].sym = s
       THEN answer[CHOOSE i \in DOMAIN Items(n) : Items(n)[i].sym = s]
       ELSE result[n][s]]

\* The request is answered and nothing calls for a second attempt.
TagsDone(n) ==
  /\ Settled /\ at[n] \in {"transfer", "secured"} /\ holder = n
  /\ at[n] = "transfer" => attempt[n] = 2 \/ ~IsStale(answer)
  /\ result' = [result EXCEPT ![n] = Merge(n)]
  /\ at' = [at EXCEPT ![n] = IF @ = "transfer" /\ DOMAIN tags[n].secured # {} THEN "secured" ELSE "report"]
  /\ holder' = NoNode /\ answer' = NoAnswer
  /\ retried' = [retried EXCEPT ![n] = FALSE]
  /\ UNCHANGED <<plc, cache, tags, entries, todo, attempt, stable>>

\* Mutant: the cache keeps what the PLC has just called stale.
Invalidated_Kept == cache

\* crcCacheInvalidateAll().
Invalidated == [s \in Symbols |-> NoCell]

\* A stale address at the first attempt: the cache is cleared, all tags of the
\* message are resolved again and the request is made once more, whole.
Heal(n) ==
  /\ Settled /\ at[n] = "transfer" /\ holder = n /\ attempt[n] = 1 /\ IsStale(answer)
  /\ cache' = Invalidated
  /\ attempt' = [attempt EXCEPT ![n] = 2]
  /\ Lookup(n, tags[n], Invalidated)
  /\ result' = [result EXCEPT ![n] = Nothing]
  /\ holder' = NoNode /\ answer' = NoAnswer
  /\ retried' = [retried EXCEPT ![n] = FALSE]
  /\ UNCHANGED <<plc, tags, stable>>

-----------------------------------------------------------------------------
(* withReconnect(), the time to live *)

\* A request that waits for the lock or for its answer loses its session.
Lose(n) == /\ Settled /\ at[n] \in Waiting /\ holder \in {n, NoNode}
           /\ holder' = NoNode /\ answer' = NoAnswer

\* The session ends before a request of node n is answered, whether the PLC
\* has executed it or not: it is made again in the next session.
Retry(n) ==
  /\ Lose(n) /\ ~retried[n]
  /\ retried' = [retried EXCEPT ![n] = TRUE]
  /\ UNCHANGED <<plc, cache, at, tags, entries, todo, attempt, result, stable>>

\* It ends again, and the handler gives up with an error for the message.
Fail(n) ==
  /\ Lose(n) /\ retried[n]
  /\ at' = [at EXCEPT ![n] = "report"]
  /\ result' = [result EXCEPT ![n] = Nothing]
  /\ UNCHANGED <<plc, cache, tags, entries, todo, attempt, retried, stable>>

\* send(), done() and the finally block, in the turn in which the operation
\* ended (Settled).
Report(n) ==
  /\ at[n] = "report"
  /\ at' = [at EXCEPT ![n] = "idle"]
  /\ tags' = [tags EXCEPT ![n] = NoTags]
  /\ entries' = [entries EXCEPT ![n] = <<>>]
  /\ todo' = [todo EXCEPT ![n] = <<>>]
  /\ attempt' = [attempt EXCEPT ![n] = 1]
  /\ retried' = [retried EXCEPT ![n] = FALSE]
  /\ result' = [result EXCEPT ![n] = Nothing]
  /\ stable' = [stable EXCEPT ![n] = {}]
  /\ UNCHANGED <<plc, cache, conv>>

\* An entry has reached CRC_CACHE_TTL_MS.  That a resolution takes less than
\* these five minutes is assumed: none is under way.
Expire(s) ==
  /\ Settled /\ cache[s] # NoCell /\ \A n \in Nodes : at[n] # "explore"
  /\ cache' = [cache EXCEPT ![s] = NoCell]
  /\ UNCHANGED <<plc, conv, at, tags, entries, todo, attempt, retried, result, stable>>

-----------------------------------------------------------------------------
Next ==
  \/ Download
  \/ \E n \in Nodes, ts \in Requests : Input(n, ts)
  \/ \E n \in Nodes : \/ Explore(n) \/ ExploreSent(n) \/ ExploreDone(n)
                      \/ TagsSent(n) \/ TagsDone(n) \/ Heal(n)
                      \/ Retry(n) \/ Fail(n) \/ Report(n)
  \/ \E s \in Symbols : Expire(s)

Spec == Init /\ [][Next]_vars

-----------------------------------------------------------------------------
(* Properties *)

\* A value is never read from, or written to, another symbol than the one the
\* tag names, however the program's layout and the cache have changed since
\* the address was resolved: entries, addresses and CRCs stay together, and no
\* item goes out without a CRC (readTags, writeTags, normalizeTag).
OwnSymbol ==
  holder # NoNode /\ at[holder] # "explore" => \A i \in DOMAIN answer : answer[i] # "wrong"

\* The self-heal heals: the second attempt finds no stale address of a symbol
\* that has not moved since the message came, whatever explores, heals and
\* lost sessions of other nodes came in between (resolveAndRead).
HealsAtOnce ==
  \A n \in Nodes :
    at[n] = "transfer" /\ holder = n /\ attempt[n] = 2 =>
      \A i \in DOMAIN answer : answer[i] = "stale" => Items(n)[i].sym \notin stable[n]

\* A symbol that the PLC has had at the same place since the message came is
\* not reported as one the explore did not export: resolveSymbolsBatch() says
\* that the explore's whole result is in the cache before it looks again.
\* What the code does violates it.
ExploredIsFound ==
  \A n \in Nodes, s \in Symbols : result[n][s] = "missing" => s \notin stable[n]
=============================================================================
