# A TLA+ model of node-red-contrib-s7-plus

Node-RED nodes that talk S7CommPlus to a Siemens PLC over one TLS session. This
directory holds TLA+ modules for the parts of the program in which timing,
failures and the order of callbacks matter, the TLC configurations that check
them on small instances, and TLAPS proofs of what can be proved for every
instance. `PROJECT.json` lists the runs, which source lines each definition
stands for, a mutation of the code's logic that breaks each property, and the
hazards the properties are aimed at.

    tlc -workers 2 -config UserLock.cfg UserLock      # a run
    tlapm UserLockProofs.tla                          # a proof

## 1. The system

All JavaScript runs on one event loop. Nothing is preempted, but every `await`
is a place where timers, socket events, other operations and the editor's deploy
run; and a promise's reactions run before the next timer or socket event. The
models therefore take *one turn of the event loop* as their step.

| Component | State | Operations | What is hard | What makes it correct |
|---|---|---|---|---|
| **User lock** (`lib/s7plus/client.js`) | chain of promises `_userLockTail`, `_userLockInflight`, `_userOpInFlight`, `_readTimeout` | `_acquireLock`, `_withUserLock`, `ping` | a waiter may give up and release its slot while the operation before it runs | every release wakes its waiter, overlap only past a timeout, exact cap |
| **Client session** (`client.js`) | `_connected`, `_sequenceNumber`, `_pendingResponses`, session ids | `connect`, `disconnect`, `forceDisconnect`, `_dispatchPdu`, `_onTransportClosed`, response timeouts | `forceDisconnect` and close events hit any stage of `connect` | waiters never lost, an announced session ends with an event, session on its own socket |
| **Transport** (`lib/s7plus/transport/`) | `_socket`, `_tlsSocket`, `_io`, `_ssl`, `_recvRunning`, readers | `connect`, `sslActivate`, `send`, `disconnect` | state of a failed connection survives into the next; leaked sockets | reconnects work, one live socket |
| **Endpoint connection** (`nodes/s7complus-endpoint.js`) | `_state`, `_connectPromise`, `_reconnectTimer`, `_reconnectAttempt`, `_closing` | `ensureConnected`, `scheduleReconnect`, `withReconnect`, watchdog, `close` | timer, operations, watchdog and client events all act on the same few fields | honest status, no orphaned promise, recovery, nothing after close |
| **Subscriptions** (endpoint, `serial-queue.js`, `notification-buffer.js`) | `_subscriptions`, `_subsByObjId`, `_pendingNotifications`, per-owner queue | `subscribe`, `unsubscribe`, re-establish, retry, heal, routing | session lost, with an event or without, and regained at any await; requests refused; reused ids; captured records | route, id and reference map match; established eventually; no orphans but the known ones |
| **Frame assembler** (`frame-assembler.js`) | `_buf`, `_fragments`, `_pduBytes` | `push`, `reset` | chunks cut anywhere, size cap, system events, resync | PDUs out = PDUs in |
| **Subscribe node** (`nodes/s7complus-subscribe.js`) | `busy`, `activeSymbols`, `lastValues`, stored additions and override | input, deploy, close, continuations of endpoint calls | deploys and removals while calls are in flight; state that outlives the node | record, active list and cache agree and belong to the node that lives |
| **CRC cache, reads and writes** (endpoint, `explore-resolve.js`, `tag-routing.js`, read, write and explore nodes) | `_crcCache`, the operation of each node | `resolveSymbolsBatch`, `resolveAndRead`, `resolveAndWrite`, `browseFull`, the nodes' handlers | the program is changed under resolved addresses; other messages seed and clear the cache between two awaits; retries | no value of another symbol, a self-heal that heals |
| **Read/write batching** (`client.js`) | none but the lock | `readValues`, `writeValues` | indices across requests and batches, limits that change with the session, the second run | each item gets its own result, in its turn |
| **Output queue** (`output-msg-queue.js`) | `_queue`, `_drainScheduled` | `enqueue`, `_drain`, `reset` | overflow, resends among changes, a drain that outlives a reset, a batch for one output | order kept, bounded, nothing stalls, losses only where they are known |
| **Ephemeral browse sessions** (endpoint) | `ephemeralBrowseSessions` | create, get, prune, two layers of retry | a request prunes or replaces the session another one runs on; connects fail | no connected client lost sight of, no answer lost by another's doing |
| **Browse algorithms** (`browse/`, `client.js`) | `dbList`, `_rootsFetchedAt`, `typeInfoCache` | fetch of types, flat list, lazy tree, walk along a path | references among types, limits, the browse state replaced, dropped or cleared at an await | complete within scope and limit; tree and list agree |
| Codecs (`s7p.js`, `pvalue*.js`, `pdu-*.js`), symbol CRC | none | encode, decode | widths, signs | decode inverts encode |
| Info node, scripts, PLC program | none of their own | a snapshot per message | | |

Interaction: a node calls the endpoint (`withReconnect`, `subscribe`), which
calls the client under its user lock; the client writes requests to the
transport and finds the waiter of each response by its sequence number; the
client's events `connect`, `disconnect` and `notification` go back to the
endpoint, whose subscriptions call back into the subscribe nodes.

## 2. What is modelled, and how it corresponds to the code

### `UserLock`
A slot is one promise of the chain, numbered in the order of arrival; `st[s]`
says where its call is. `Acquire` is `_withUserLock` up to its first await,
`Timeout` the acquire timer, `Finish` the `finally` blocks. `Release` includes
the wake-up of the next call, since promise reactions run in the same turn.
`readTimeout` and `saved` are `_readTimeout` and ping's local `saved`. A call
refused for overload changes nothing and is no action.

### `Session` and `ClientSession`
`Session` is what the client promises: a connection that is down, set up ("early",
then "late" from `_connected` on), up or closing, the requests that wait, and
`told`, the event the listener got last for the session last let in. A session
that was announced by `connect` ends with `disconnect` (`End`, `Renew`). One that
`connect()` gives up in its last stage ends with no event at all (`Refuse`), one
that is lost in that stage with a `disconnect` that no `connect` came before, and
`disconnect()` emits also when there is no session (`EndAgain`). `ClientSession` is
how it is kept; its `LimitsRefused` and `DropSession` do the same to the client and
differ in `told` alone.

One client and its transport. `pc` is the await at which the `connect()` or
`disconnect()` in progress stands. Sockets are identities: `tSock`, `tTls`,
`ssl`, `recvRunning` are the transport's fields, `loops` the sockets a plain
receive loop reads, `wire[i]` the requests on socket `i` the PLC has still to
answer. `Got...` are a response and all that its waiter's continuation does up
to the next await; `CloseEvent` is `_onTransportClosed` for *any* socket, since
the code does not ask which. The PLC is external and may be late, refuse, be
silent or close; after `calm` it behaves.

### `Endpoint`
The endpoint against an abstract client: `conn` is "early" while `connect()` has not
set `_connected`, "late" from there until it returns, "up" and "down". `first` and
`tcb` say that the initial connect or the timer's callback awaits the promise;
`op[o]` is where a `withReconnect` stands. The client's `disconnect` event and the
failure of outstanding operations are one step; the retries run next (`Settled`
holds back the other actions until then, as the microtask queue does).

### `Subscription`
The subscription of one owner. Owners share only the session, so the effect of
the others is the time at which a loop reaches this one, which is arbitrary.
Record objects have generations because loops capture them. An operation is at
an await (`at`): resolving symbols, creating, or deleting before a
resubscribe, an unsubscribe or a heal; `sent` says whether its request waits for
the user lock or for the response. `Overtakes` lets a notification be handled before the
continuation of `createSubscription()`, which the pending buffer exists for.

A session ends in one of two ways: `Drop` runs the endpoint's 'disconnect' handler,
`SilentDrop` is the refusal in the last stage of `connect()`, after which ids, routes
and buffered notifications are what they were. A request fails before it is sent
(`LockFail`), or the PLC refuses it: a deletion, whose answer nobody looks at
(`PlcDelete`), or a creation of an object that is there all the same
(`CreateRefused`). A notification is decoded with the map of the record its id is
routed to, whichever subscription that record has now. Four history variables say
which exception has occurred: `lost` are the ids of subscriptions the endpoint takes
for gone, `twice` that a record was given a second subscription, `kept` that
something of a silently ended session was kept, `stray` that a discarded record was
used again.

### `PduStream` and `FrameAssembler`
`PduStream` is what the dispatcher may expect: PDUs arrive whole, in order and once;
of one that is above the cap, or that something else on the wire interrupted
(`Damaged`), nothing arrives or the version and an end of its data (`Rest`); a new
connection drops what was on its way. `FrameAssembler` is the byte stream and the
assembler that implements it. Places are counted from the start of the connection:
`stream` is what was sent, the first `recvd` bytes of it have arrived, and of those
the assembler's `buf` has what is behind `pos`; `fragments` and `pduBytes` are its
fields. `Push` takes a chunk of any length, and each turn of `push()`'s loop
(`LoopTurn`) is an action. No byte arrives between the turns of one call, so `Push`
waits for `Waits`, the condition on which the loop ends. The PLC cuts a PDU into
frames at will (`SendFragment`, `SendEnd`); system events and junk come between any
two frames, also those of one PDU; an end marker without a PDU comes between PDUs
only. Assumed is that junk has no SYNC byte, which is what makes resynchronisation
possible, and that no byte is lost inside a frame, which TCP sees to. `frames` and
`pdus` are history variables, of what was sent and where; with them the refinement
mapping is a count: what is in transit (`InTransit`) are the PDUs that end behind
`pos`. The abstract specification is checked as the property `DeliversPdus`.

### `SubscribeNode`
One subscribe node over its instances: a redeploy closes the instance and
creates the next one, which reads what the former stored. A list is a set, as
`pathsEqual` has it. `queue` holds the calls the node has made of the endpoint's
serial queue; the end of a call and the node's continuation are one action,
which leaves out the turns within a call in which the resend timer could still
use the list of before. `Establish`, `Lose` and `Regain` are what `Subscription`
does to the record meanwhile. `stale` are the records that were discarded and still
matter: they keep their callback and their map, a route may be left to them
(`twice` of `Subscription`), and a loop that has captured one may establish it again
(`EstablishStale`). A notification comes from any record a route leads to (`Reached`).

### `OutputQueue`
What a subscribe node sends. Values are versions, which count the changes of a
symbol, and a message maps symbols to versions, so that order and loss can be
told. `Enqueue` is `enqueue()` with its overflow (`Room`), `drains` counts the
immediates that are outstanding: one that was scheduled before a `reset()` still
runs after it. A drain hands the whole batch to `node.send()` as one flat array; the
node has one output, so that the first message leaves, or none when the flush
function throws (`Drain`, `Flushed`). `lost` is history: the symbols whose newest
version an overflow, the rest of a batch or a failed flush has cost.

### `TagOps`
The read, write and explore nodes with the endpoint's CRC cache, against a PLC
whose program is downloaded anew while they work. `at[n]` is the await at which
a node's handler stands; `holder` is the node whose request is with the PLC and
`answer` what the PLC has made of it, at the time of execution, which the
continuation sees later. A request is one step here: its cutting is `Transfer`'s.
An item carries a cell and the symbol its CRC was computed from; `Serve` is the
external PLC. `ExploreDone` is seeding and the second look-up in one turn, `Heal`
clears the cache, resolves anew and repeats; `Retry` and `Fail` are
`withReconnect`. `Report` runs in the same turn as the operation's end
(`Settled`). Two things are assumed: requests are serialized by the user lock,
and a resolution takes less than the five minutes an entry lives.

### `Transfer`
One `readValues()` or `writeValues()`: `batch` is what holds the lock, `sent` a
request, `partial` and `results` the two arrays the code fills by index.
Answers number the items of their request from 1, and `Placed` is the code's
index arithmetic. Reads look at the PLC's limit for each request, writes once a
batch. A session lost anywhere fails the operation, whose second run begins at
the first item in a session with other limits.

### `TypeFetch`, `BrowseTree` and `Browse`
`TypeFetch` is the loop of a scoped browse over the relation ids that types
refer to. `BrowseTree` has the two algorithms as operators: `FlatList`, which
expands everything up to a limit, and `HasChildren`, `FindChild` and `ResolveLeaf`, which
open one level of a tree with pages of array elements. A symbol is its labels,
its access sequence and what its CRC is computed from; they are built separately
in both. `Browse` is the client's operations around them: `op` is the one that
holds the lock, `orphaned` says that the browse state it began with has been
cleared, whereupon it fills an object nobody reads. `fresh` is the age of
`_rootsFetchedAt`. The PLC's program stays as it is while browsing (changes are
`TagOps`'s), and one type's explore brings no more objects than the cache holds.

### `BrowseSessions`
HTTP requests of the editor and the map of ephemeral sessions. A session id
stands for its client from the moment it connects. There are no timers: a
session is looked at only when some request prunes the map. `InnerRetry` is the
catch of `withBrowseClient`, `OuterRetry` that of `handleBrowseRequest`;
`ClientLost` is a disconnect or a response timeout, `SendFails` an error of
`send()` that no client reports. Nobody disconnects a client whose `connect()` has
failed: its socket is closed ("down") or not ("leaked"). A request may come without
an address, which the editor does not post; then there is nothing to retry on
(`InnerCatch`, `UseOther`). A browse is assumed to take less than the
fifteen minutes a session lives after it was looked up.

### How they fit together
Each module abstracts its neighbour. `Endpoint` and `Subscription` use of the client
that an announced session never ends without `disconnect`, that one in the last
stage of connect() may, that requests are let in at that stage already, and that
those which wait are rejected when a session ends: that is the abstract
specification `Session`, whose `conn` has the values of `Endpoint`'s, and
`KeepsPromise` says that `ClientSession` implements it. `ClientSession` uses of the
user lock that operations can overlap (`MaxUser` 2), which is what `UserLock` shows,
and of the frame assembler that PDUs arrive whole and in order, which is
`PduStream`. `SubscribeNode` uses of `Subscription` that calls for one owner run one
after another. `TagOps` uses of `Transfer` that each item is served as if alone
(`EachItemServed`), and of `Browse` that an explore exports every symbol of its root
at its address (`ExportIsExact`); both use that the user lock serializes requests,
which holds as long as no acquire timer fires (`SerializedWithoutTimeouts`).
`Transfer` and `BrowseSessions` use of `ClientSession` that what runs on a session
that ends is rejected.

`MCTagOps`, `MCBrowse` and `MCSubscribeNode` check two modules in one run each.
These share no state: `part` chooses one, and the other stays as it began.

## 3. The runs

| Run | Bounds | Shows |
|---|---|---|
| `user_lock` | 5 slots, cap 3 | all interleavings of acquiring, giving up, finishing, pinging |
| `client_session` | 3 sockets, 6 numbers a session, 2 user requests | safety of connect, dispatch and teardown; `Session` is implemented |
| `client_session_settles` | 2 sockets, 5 numbers, 1 user request | connect() and disconnect() settle |
| `client_session_reconnect` | 3 sockets, 4 numbers, no user requests | **violated**: a connection lost between TLS and `_connected` ends all reconnects |
| `endpoint` | 3 operations, delay cap 2 | status, promise, timer, recovery |
| `subscription` | 2 lists, 2 ids, 2 records, 1 queued operation, 1 loop, 1 notification, 1 subscription lost | ids, routes, reference maps |
| `subscription_established` | 1 list, 5 ids, 1 record, 1 subscription lost | established in the end |
| `frame_assembler` | PDUs of 2, 4 and 6 bytes cut into frames in every way, a size cap of 4, 2 PDUs, system events, stray end markers or junk | the stream of PDUs is implemented; nothing is left over |
| `subscribe_node` | 2 symbols, 3 instances, 1 discarded record, editor lists of no and of one symbol; a queue of 3, 3 versions a symbol, 2 drains outstanding | record, active list and cached values across deploys; the output queue's order and losses |
| `tag_ops` | 2 nodes, 3 symbols of 2 roots in 3 cells, 1 download, 5 messages; 5 items, PLC limits 1 to 3, batches of 3 (read) and 2 (write), 2 sessions lost | no value of another symbol, the second attempt heals; each item served |
| `tag_ops_explored` | the same nodes and symbols | **violated**: a symbol reported as not exported that the PLC has just exported |
| `browse` | 2 readable blocks, 1 unreadable, 2 areas, 6 types and a missing one, limits 2, 7 and none, type cache of 3, pages of 2, 7 paths; 2 requests, 4 sessions, 2 faults | fetched types, lists and walks; ephemeral sessions |

Why the bounds are enough. `UserLock`: a violation needs a runner, a waiter that
gives up, a waiter behind it and a ping; the proofs cover every size.
`ClientSession`: one socket in use, one leaked, one being opened; a session uses
four numbers before a user request, so six leave room for two. `Endpoint`: two
operations race, the third shows that more add nothing; the proofs cover every
number. `Subscription`: a change of list, a reused id and a stale record each need
two of a kind, and one subscription lost is enough to be missed. Behaviours end
where a second exception comes on top of `kept` (`OneException`), for the sake of
time: without this the run passes as well, in 22.9 million states.
`subscription_established` needs an id for each duplicate one session can collect:
with fewer it fails, because the orphans of disagreement 3 below use up what the PLC
allows; the safety properties are proved for every number of lists, ids, records and
messages. `FrameAssembler`: a PDU that is dropped or cut off and the one after it,
or a PDU and what interrupts it; the data has a SYNC byte and an end marker in it,
one PDU is at the cap, and one above it by its last byte or by two more; the proofs
cover every number, length and cap. `SubscribeNode`: the instance that made a call,
the one that lives and one between them; a discarded record that calls back into a
closed instance changes nothing of the node any more, and the run leaves such states
out (`StaleMatters`). `OutputQueue`: a queue of three is the smallest whose halves
differ; with two drains one outlives a reset. `TagOps`: two symbols that swap their
cells make a stale address look like a valid one, the third gives a message a second
root; one download suffices because the proofs cover any number. `Transfer`: five
items make three batches and batches of several requests, and the limit grows and
shrinks between sessions. `Browse`: the paths visit structs, arrays of structs,
arrays of one and two dimensions, pages, packed types, a member without a type and
an area whose type is missing; a cache of three types overflows. `BrowseSessions`:
two requests, each of which can use up two sessions in its retries; two faults are
what one request survives. Sequence numbers do not wrap within the bounds
(`NextSeq`): a round takes 65535 requests within one response timeout. Runs with
`CHECK_DEADLOCK FALSE` end at a bound, or, `Endpoint`, with a closed node.

Symmetry (sockets; lists and ids; nodes; requests) is used in safety runs only.

### Fairness, and why the code justifies it
* `UserLock`: acquire timers fire. Operations need not end.
* `ClientSession.FairSpec`: TCP, handshake and response timers fire, a closed
  socket emits its event; after `calm` a PLC answers what can be answered.
  `ReconnectSpec` adds what the endpoint does, `connect()` again and again.
* `Endpoint.FairSpec`: the timer fires, the watchdog's interval ticks, a ping
  settles (two seconds for lock and response), `connect()` settles
  (`LifecycleSettles`), the promise reactions of a retry run.
* `Subscription.FairSpec`: requests settle, loops go on, the watchdog ticks. The
  code's queue has no bound, so that a loop which reaches its record gets a place in
  it: strong fairness where the model's bound is in the way.
  That a tick finds the user lock free often enough is assumed.
* `FrameAssembler.FairSpec`: bytes sent arrive (`PushSome`), and `push()` goes on
  to the end of its loop. Nothing else need happen.

Liveness is stated from `calm` on: as long as the network may fail at any
moment nothing has to happen.

### Disagreements between code and documentation
Numbers 1 and 5 have a run that ends in the counterexample. Others are stated as
definitions that no run checks; to see the counterexample, name the definition
given in brackets as `INVARIANT` in the configuration of its module.

1. *Reconnect can be poisoned* (`s7-transport.js:290`, `client.js:525`). A
   failure between `secureConnect` and `_connected = true` leaves the transport
   in TLS mode. Later attempts write InitSsl to the dead TLS socket. The
   endpoint retries for ever; `forceDisconnect` would help but is called only
   from states this one does not reach, a stale error of an operation excepted.
2. *A closed node may open a session* (`endpoint.js:452`, `:401`;
   `NoSessionAfterClose` of `Endpoint`).
3. *Re-establishing duplicates subscriptions* (`endpoint.js:805`;
   `OneRoutePerRecord` and, as `PROPERTY`, `OwnNotificationsDecoded` of
   `Subscription`). The loop skips the question whether the record has an id. The
   first subscription's route stays; once the record has another list its values
   are decoded with that list's map, which the queue is said to prevent
   (`endpoint.js:242`).
4. *A deploy restores another list than the one that ran*
   (`s7complus-subscribe.js:135`; `ListSurvivesDeploy` of `SubscribeNode`). An
   override stays stored when a later message has none, and a symbol added
   beside an override is not stored when the editor's list has it.
5. *A resolution loses what it has just explored* (`endpoint.js:592`;
   `ExploredIsFound` of `TagOps`). A heal of another message clears the cache
   between two explores of one resolution, which then looks everything it missed
   up again: what the first explore found is reported as not exported.
6. *A scoped browse passes for the list of roots* (`client.js:1206`;
   `CachedRootsComplete` of `Browse`). It stores its own blocks with a fresh
   timestamp, and `browseRootsCached()` hands them out for five minutes.
7. *Tree and list name arrays of several dimensions differently*
   (`browse/lazy.js:136`; `ResolvedIsListed` of `Browse`). The tree numbers the
   elements through; the list has one index a dimension and pads rows of packed
   Bools. A name taken from the tree is never resolved.
8. *The user lock does not serialize past a timeout* (`client.js:228`;
   `UserOpsSerialized` of `UserLock`). The waiter that gives up releases its own
   slot, and the next one starts beside the operation still running.
   `SerializedWithoutTimeouts` proves how far the comment holds.
9. *A subscribe node's deploy is not busy* (`s7complus-subscribe.js:400`): inputs
   meanwhile are queued, not skipped as the help text says.
10. *An empty `msg.symbols` unsubscribes* (`s7complus-subscribe.js:429`); the help
    text has it fall back to the editor's list. What waits in the output queue is
    sent all the same, contrary to the comment at `output-msg-queue.js:60`.
11. *A redeploy with an empty list leaves the old subscription running*
    (`s7complus-subscribe.js:399`), with a callback into the closed instance.
    `RecordServesLiveNode` excepts this case.
12. *A path of hex digits as an object* (`s7complus-out.js:24`): neither refused nor
    taken for a symbol, the handler fails with a TypeError.
13. *Write errors* (`endpoint.js:1021`): a status per tag is returned, where the
    comment above the function says that it throws; of two tags of one name only
    the last one's status remains (`read-result.js:67`).
14. *Quoted block names* (`endpoint.js:570`) are looked up in the CRC cache with
    their quotes, which its keys do not have.
15. *A replaced browse session* (`endpoint.js:1243`) is named to the editor only
    by an answer with roots: later requests with the old id connect again each
    time, and the sessions wait for a later browse to prune them.
16. ping's comment contradicts the lock's (`client.js:1344`); the frame assembler
    emits the tail of a dropped PDU (`frame-assembler.js:146`; `OnlyWholePdus` of
    `FrameAssembler`); the notification
    buffer drops the oldest first (`notification-buffer.js:54`).

17. *A session can end without an event* (`client.js:547`). When the answer to one of
    the last requests of `connect()` is a refusal, `_connected` is left, and no
    `disconnect` is emitted, although subscriptions may have been established
    meanwhile: the endpoint's handler does not run, and what it says of the records
    (`endpoint.js:305`) does not happen. Where establishing such a record anew fails,
    the watchdog takes its old id for a subscription and leaves it alone.
18. *A refused creation is not deleted* (`endpoint.js:654`). `createSubscription()`
    says that its caller should (`client.js:1405`).
19. *Values of discarded records* (`endpoint.js:911`; `ResendsSubscribed` of
    `SubscribeNode`). A discarded record that a route is left to puts symbols among
    the values that a resend sends, which have been unsubscribed.
20. *A batch is cut down to its first message* (`s7complus-subscribe.js:250`;
    `OverflowOnlyLoses` of `OutputQueue`, as `PROPERTY`). `node.send()` takes a flat
    array for one message an output, and the node has one output.
21. *A failed connect leaks its socket* (`endpoint.js:118`; `NothingLeaks` of
    `BrowseSessions`). Nobody disconnects the client, and only the next `connect()`
    of the same client would.

What the properties except follows from these. `RecordRouted` excepts owners one of
whose discarded records was used again (`stray`), since such a record keeps an id
into the next session, where a heal deletes whatever has it, and the time after a
silent end (17). `EverySubscriptionRouted` excepts deletions that were not sent or
were refused, and 18; `DecodedByOwnMap` excepts 3 and 17, `Established` a record
that keeps its id by 17, `ActiveIsSubscribed` the values of 19, `QueueDelivers` the
losses of 20, `SessionsOwnClients` the sockets of 21. `WalkIsFlat` excepts arrays of
several dimensions and roots from the cache (6 and 7). And `SessionOnItsSocket`
counts the responses of an *established* session only: a response read on a socket
that an earlier `connect()` leaked can satisfy a waiter of a `connect()` in
progress, contrary to the second guarantee in the class comment (`client.js:102`).

## 4. The proofs

Each proof module proves the invariants of its module, `TagOpsProofs` also those of
`Transfer`, for every value of the constants, from the assumptions named there
(`UserLockAssumption` and the like).
Each goes: an inductive invariant, one lemma per group of actions, that the
specification keeps it, then each property.

* **User lock.** `TypeOK` and `InflightExact` say nothing of *where* in the
  chain a slot is, and `WaitersHaveARunner` alone is not inductive: to wake the
  right call one must know that used slots are a prefix of the chain, that the
  in-flight count is the cardinality of the queued slots (a finite set, hence
  `QueuedFinite`), and that only a running slot's label is in `opInFlight`.
  For `ReadTimeoutFollowsPing` it must also be known that at most one ping is
  queued, which is `watchdogBusy`, and that its `saved` value is the configured one.
* **Endpoint.** The status properties rest on one another: that "connecting"
  means a promise or a timer needs to know that a promise is there exactly while
  `conn` is "early" or "late" and that `first` and `tcb` imply it; that a retry
  meets no live session needs `Settled`'s order of reactions. `FailOpsKeeps`,
  `ConnectFailedKeeps` and `SessionLostKeeps` are the lemmas about the operators
  the actions share.

`SerializedWithoutTimeouts` is what remains of the lock's promise: until a first
acquire timeout one operation runs at a time.

* **Reads and writes.** `OwnSymbol` follows from the shape of the layouts and
  from every item carrying the CRC of its own symbol (`SecuredTags`): an item is
  served right or not at all, whatever the cache says. `HealsAtOnce` is not
  inductive. That the second attempt finds no stale address of a symbol that has
  not moved needs `SecondAttemptFresh`: since its heal, whatever node `n` can
  still meet (the cache, the answer of an explore that is under way, by whichever
  node, and its own entries) either lacks the symbol or has its present place,
  as far as the symbols are concerned that stayed since the message came.
  `ServesOwn`, `ExportsRight` and `SeedsRight` are the lemmas about the operators.
* **Batches and requests.** `EveryItemServed` needs to know where the attempt
  under way stands. `Frontier` is the first item it has not made the PLC execute;
  how often the attempt before it executed an item (`Before`) is 0, or 1 for a
  prefix of the items, and no step but the failure of the first attempt changes
  it. That a request fits the PLC needs `WidthHolds`: the session, and so the
  limit, cannot change while a batch has requests to make, since its end fails
  the operation.
* **Client session.** The four properties hang together on the stages of
  connect(): which stage has which waiter, which socket and which sequence number
  (`OneWaiter`, `SessionStages`, `OwnSocket`, `Numbers`). That no request of a session
  is answered by another's response is arithmetic on these numbers: connect()
  numbers its requests 1 to 3 on every socket, so a socket that an earlier
  connect() leaked can answer one of those; a session's begin at 4
  (`SessionWaiters`), and no other socket that is open has been sent one of them
  (`SessionWires`), because a session's socket is destroyed with it. `FreshWires`
  says that nothing can be answered on a socket before it is connected.
  `ClientKeepsPromise` is the refinement: under the mapping of `SessionConn`,
  `told` and `Calls` each step of the client is one step of `Session` or a
  stutter (`StepKeepsPromise`). It needs the invariant, because a step may end a
  connect() but not the requests, or the other way round, only where there are
  none (`NoSession`, `EndKeepsPromise`). What it gives the endpoint is that a session
  that was announced does not end silently, and that the silent end is in the last
  stage of connect() and nowhere else.
* **Subscribe node.** The properties speak of a node with no call outstanding.
  What is inductive is how the outstanding calls lead there: they run in the order
  of the instances that made them (`QueueInOrder`), an instance has at most one call
  for its deploy and one for a message (`OneDeploy`, `OneMessage`: the `busy` flag),
  and a call for a removal is the last one until the next deploy (`RemovalEndsIt`).
  Then either the deploy call of the live instance is still to come or nothing of an
  earlier instance is left that could undo it (`Serves`, `ActiveIs`). The cached
  values are of the live instance's list or of discarded records of its own
  (`StaleSymbols`), which change their routes but neither callback nor list.
* **Output queue.** `QueueDelivers` survives a resend because a resend carries
  nothing but newest values (`CacheIsNewest`, `ResendsKnown`, `NothingNewer`), and an
  overflow because the half that goes is the oldest (`RoomShift`). A flush empties the
  queue, so that what it has not sent is lost or was not newest (`FlushedKeeps`).
* **Subscription.** What is registered, routed, in flight and at the PLC is related
  at every await of an operation. A response under way belongs to the operation that
  runs, and is the only one (`Responses`); an id is out of the routes from before its
  deletion is sent (`Awaits`), so a notification of it is of a subscription the PLC
  still has, or was sent before the deletion and is discarded with it (`Notis`,
  `InDeletion`): that is why a reused id never meets the buffered values of the one
  before. The maps decode because a routed record has the map of the list the PLC
  pushes (`Maps`), for as long as it has one subscription (`twice`) and the routes are
  of the session there is (`kept`). `RecordRouted` and `EverySubscriptionRouted` rest on the session
  taking its subscriptions, routes and channel with it (`SessionHolds`) and on the
  deletion under way being of the record's own id (`Deletion`). `NotStray` says that
  an owner none of whose discarded records was used again works on its registered
  record.
* **Frame assembler.** `AssemblerDeliversPdus` is a refinement: however PDUs are cut
  into frames and frames into chunks, and whatever comes between them, each step of
  the assembler is one step of `PduStream` or a stutter (`Mapped`). Four invariants
  carry it. The stream is its frames: they do not overlap, and no SYNC byte is between
  them (`Layout`), so that the loop, which is never inside a frame (`AtBoundary`),
  reads a frame that was sent (`FrameAt`, `FrameRead`) and skips none (`ResyncStep`).
  The frames of a PDU follow each other, nothing but events between them (`Chained`),
  and each knows whether something has come between them so far. The ends of PDUs are
  end markers, in their order (`EndsMarked`). And what has been collected is of the
  PDU of the data frame right in front of `pos`, from its first byte on if nothing
  went wrong, else from a byte `a` behind its start (`Collected`); with nothing
  collected the cap was exceeded there (`Progress`). It is `a` that decides at the end
  marker whether the PDU is handed on whole (`HandedOn`). `NextData` and `WholePdu` are
  the lemmas about the bytes; `PendingSent` and `PendingPassed` those about the
  mapping. There is no induction over the bytes: `stream`, `frames` and `pdus` only
  grow, and each step needs to know of one frame and its neighbour.
* **Fetch of types** (`BrowseProofs`). `FetchExact` says that what a finished fetch has collected
  is the least set that has the scope's types, what its answers carry along and
  what its members refer to. Least is shown without recursion: the fetched set is
  closed, and a subset of every closed set (`Closed`), the second of which is the
  inductive part. `FetchOnce` is why types that refer to themselves do not keep it
  going.
* **Browse sessions** (`BrowseProofs`). Sessions are shared through a map that
  every request sweeps, so the heart of the invariant is `Private`: the session a
  request made for itself is unknown to all others until its answer, hence not
  named, replaced or expired by them, and swept only when it is lost. A client whose
  connect() fails never becomes known, so that leaving it alone breaks nothing but
  `NothingLeaks`. With
  `Awaited` this gives `SessionsOwnClients`, and with `Counted`, which relates the
  attempt of a request to the connections it has lost, `OthersDoNoHarm`. `Spares`
  says what may be disconnected (`Spared`), `GoesOn`, `NewSession` and `GiveUpKeeps`
  are the three ways a request moves on.

Only model-checked: the liveness properties (`NoCallWaitsForever`,
`LifecycleSettles`, `RecoversWhenCalm`, `Established`, `Drained`), which are out
of the prover's reach; `ExportIsExact` and `WalkIsFlat`, which compare two recursions
over the types (`SubNodes` and `FlatSubNodes` of `BrowseTree`) and would need
induction over them. Every other property of the passing runs is proved.

## 5. Not modelled, and the plan

Left out for good: the bytes of codecs and symbol CRCs, offsets and bit offsets
(nothing is addressed by them), the parsing of messages and paths, the output
format, wording, statuses' colours, logging, the editor's HTML, the info node (a
snapshot of what others keep), scripts and examples. Left out of modules that
exist: integrity ids and session information (`client.js:289-305`, `682-736`),
overlap of lifecycle operations past the lifecycle lock's timeout, retry backoff
and the limits in `establishSubscription`, cap and time to live of the
notification buffer, the capture of the DTL timestamp.

Next, in this order:
1. `SocketReader`: TPKT and COTP receive path and its waiters; the notification
   buffer's cap and age; `Vlq`: the variable-length integers and their widths.
2. An abstract specification of one owner's subscription, as `Session` is one of
   the client, that `Subscription` implements and `SubscribeNode` relies on.
