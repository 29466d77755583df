---------------------------- MODULE SubscribeNode ----------------------------
(***************************************************************************)
(* One s7-plus subscribe node (nodes/s7complus-subscribe.js) through its   *)
(* deploys: an instance is created, takes messages, is closed and replaced *)
(* by the next instance of the same node id.  What an instance has asked   *)
(* of the endpoint goes on when the instance is closed, and its            *)
(* continuation still stores the list for the instances to come.           *)
(*                                                                         *)
(* A symbol list is a set, as pathsEqual sees it.  The endpoint is taken   *)
(* from module Subscription: calls for one owner run one after another and *)
(* end by replacing or deleting its record.  Nothing here reads the record *)
(* while a call runs, so a call and its continuation are one action, at    *)
(* the call's end.  The registry and the node context hold the same state  *)
(* (a context store with promises reads as empty and leaves the registry). *)
(* Hex addresses, output formats and statuses are left out, and so is a    *)
(* deploy that replaces the endpoint too.                                  *)
(***************************************************************************)
EXTENDS Integers, Sequences, FiniteSets

CONSTANTS
  Symbols,
  Configs,   \* the symbol lists the editor may hold
  MaxInst,   \* bound: instances of the node
  MaxStale,  \* bound: discarded records that still matter
  NoSymbol   \* no symbol

ASSUME SubscribeNodeAssumption ==
  /\ Configs \subseteq SUBSET Symbols
  /\ MaxInst \in Nat /\ MaxStale \in Nat
  /\ NoSymbol \notin Symbols

VARIABLES
  \* the current instance
  inst,        \* its number; 0 before the first
  open,        \* it has been created and not closed
  removed,     \* it was closed by a removal of the node
  conf,        \* configuredSymbols
  active,      \* activeSymbols
  busy,        \* busy
  lastValues,  \* the keys of lastValues
  \* what outlives it
  state,       \* runtimeStateByNodeId and context: [adds, over]; {} for none
  queue,       \* the node id's calls of the endpoint's SerialQueue
  rec,         \* the endpoint's record: [syms, est, cb], or NoRecord
  stale,       \* discarded records: [syms, cb, routed]
  online       \* getStatus() = 'online'

node     == <<inst, open, removed, conf, active, busy, lastValues>>
endpoint == <<rec, stale, online>>
vars     == <<node, state, queue, endpoint>>

\* msg.symbols of a message without it; {} is an empty list.
Unset == {NoSymbol}

NoState  == [adds |-> {}, over |-> {}]
NoRecord == [syms |-> {}, est |-> FALSE, cb |-> 0]
Messages == [symbols : (SUBSET Symbols) \cup {Unset}, add : SUBSET Symbols]

\* A call: by an instance with configuration conf, for its deploy, a message
\* or the removal of the node; `over' is inputMeta.overrideSymbols.
Calls ==
  [by : 1..MaxInst, for : {"deploy", "input", "unsubscribe", "removal"},
   conf : Configs, syms : SUBSET Symbols, over : (SUBSET Symbols) \cup {Unset}]

Init ==
  /\ inst = 0 /\ open = FALSE /\ removed = FALSE
  /\ conf = {} /\ active = {} /\ busy = FALSE /\ lastValues = {}
  /\ state = NoState /\ queue = <<>> /\ rec = NoRecord /\ stale = {}
  /\ online = FALSE

-----------------------------------------------------------------------------
(* Lists *)

\* resolveSubscribePaths.
Paths(msg, configured) == (IF msg.symbols = Unset THEN configured ELSE msg.symbols) \cup msg.add

\* restoreSubscribePathsFromState.
Restored(configured, s) ==
  Paths([symbols |-> IF s.over = {} THEN Unset ELSE s.over, add |-> s.adds], configured)

\* persistSubscriptionState: what goes beyond the editor's list, and the
\* override, which stays as it is when the call brings none.
Persisted(c) ==
  [adds |-> c.syms \ c.conf, over |-> IF c.over = Unset THEN state.over ELSE c.over]

-----------------------------------------------------------------------------
(* The node *)

Call(what, by, configured, syms, over) ==
  [by |-> by, for |-> what, conf |-> configured, syms |-> syms, over |-> over]

\* A deploy creates an instance; done() of a removal has been called before.
\* It subscribes the editor's and the stored symbols, without being busy.
Deploy(configured) ==
  /\ ~open /\ inst < MaxInst
  /\ \A i \in DOMAIN queue : queue[i].for # "removal"
  /\ inst' = inst + 1 /\ open' = TRUE /\ removed' = FALSE
  /\ conf' = configured
  /\ active' = {} /\ busy' = FALSE /\ lastValues' = {}
  /\ LET paths == Restored(configured, state)
     IN  queue' = IF paths = {} THEN queue
                  ELSE Append(queue, Call("deploy", inst', configured, paths, Unset))
  /\ UNCHANGED <<state, endpoint>>

\* Mutant: the busy flag is not asked.
Accepts_BusyIgnored == open

\* A message that comes while another one is worked on is skipped.
Accepts == open /\ ~busy

\* A message with an empty msg.symbols unsubscribes.
InputUnsubscribe ==
  /\ Accepts
  /\ busy' = TRUE
  /\ queue' = Append(queue, Call("unsubscribe", inst, conf, {}, Unset))
  /\ UNCHANGED <<inst, open, removed, conf, active, lastValues, state, endpoint>>

\* A message that changes the list subscribes it; one that names no symbol is
\* an error, one with the active list is ignored.
Input(msg) ==
  /\ Accepts
  /\ msg.symbols # {}
  /\ Paths(msg, conf) \notin {{}, active}
  /\ busy' = TRUE
  /\ queue' = Append(queue, Call("input", inst, conf, Paths(msg, conf), msg.symbols))
  /\ UNCHANGED <<inst, open, removed, conf, active, lastValues, state, endpoint>>

\* on 'close': the resend timer stops; a removal clears the stored state and
\* unsubscribes, a redeploy leaves both to the next instance.
Close ==
  /\ open
  /\ open' = FALSE /\ removed' = FALSE
  /\ UNCHANGED <<inst, conf, active, busy, lastValues, state, queue, endpoint>>

\* Mutant: a removal leaves the subscription to the endpoint.
RemoveNode_NotUnsubscribed ==
  /\ open
  /\ open' = FALSE /\ removed' = TRUE
  /\ state' = NoState
  /\ UNCHANGED <<inst, conf, active, busy, lastValues, queue, endpoint>>

RemoveNode ==
  /\ open
  /\ open' = FALSE /\ removed' = TRUE
  /\ state' = NoState
  /\ queue' = Append(queue, Call("removal", inst, conf, {}, Unset))
  /\ UNCHANGED <<inst, conf, active, busy, lastValues, endpoint>>

-----------------------------------------------------------------------------
(* Calls of the endpoint end, and the node's continuations run *)

\* Mutant: the fast path of subscribe() keeps the callback.
Callback_FastPathKeeps(c) == IF rec.est /\ rec.syms = c.syms THEN rec.cb ELSE c.by

\* The callback of the record after a subscribe(), fast path or not.
Callback(c) == c.by

\* applySubscription: values of symbols not subscribed any more go.
Pruned(c) == lastValues \cap c.syms

\* subscribe() returns with the PLC's subscription established or not (also
\* of a list that was, since a deploy may bring other options), and with
\* values it pushed in the meantime.  An establishment that failed online
\* leaves no list active.
Subscribed(est, pushed) ==
  /\ queue # <<>> /\ Head(queue).for \in {"deploy", "input"}
  /\ LET c == Head(queue) IN
     /\ pushed \subseteq (IF est THEN c.syms ELSE {})
     /\ rec' = [syms |-> c.syms, est |-> est, cb |-> Callback(c)]
     /\ state' = Persisted(c)
     /\ IF c.by = inst
          THEN /\ active' = IF ~est /\ online THEN {} ELSE c.syms
               /\ lastValues' = Pruned(c) \cup pushed
               /\ busy' = (busy /\ c.for # "input")
          ELSE UNCHANGED <<active, lastValues, busy>>
  /\ queue' = Tail(queue)
  /\ UNCHANGED <<inst, open, removed, conf, stale, online>>

\* unsubscribe(): the record is discarded, with its callback and its map.  It
\* keeps a route where it had been given a second subscription, and the loops
\* that have captured it may give it another one (module Subscription).
DiscardRecord ==
  /\ rec' = NoRecord
  /\ \/ UNCHANGED stale
     \/ /\ rec # NoRecord /\ Cardinality(stale) < MaxStale
        /\ \E b \in {FALSE, rec.est} :
             stale' = stale \cup {[syms |-> rec.syms, cb |-> rec.cb, routed |-> b]}

\* Mutant: the active list is not forgotten.
AfterUnsubscribe_ActiveKept == lastValues' = {} /\ UNCHANGED active

\* What an unsubscribing message leaves of the instance's lists.
AfterUnsubscribe == lastValues' = {} /\ active' = {}

\* unsubscribe() of a message returns.
Unsubscribed ==
  /\ queue # <<>> /\ Head(queue).for = "unsubscribe"
  /\ DiscardRecord
  /\ state' = NoState
  /\ IF Head(queue).by = inst
       THEN AfterUnsubscribe /\ busy' = FALSE
       ELSE UNCHANGED <<active, lastValues, busy>>
  /\ queue' = Tail(queue)
  /\ UNCHANGED <<inst, open, removed, conf, online>>

\* unsubscribe() of a removal returns, and done() is called.
Removed ==
  /\ queue # <<>> /\ Head(queue).for = "removal"
  /\ DiscardRecord
  /\ queue' = Tail(queue)
  /\ UNCHANGED <<node, state, online>>

-----------------------------------------------------------------------------
(* The endpoint on its own *)

\* The records that notifications reach: ids lead to records, whether the owner
\* is still registered with them or not.
Reached ==
  {[syms |-> r.syms, cb |-> r.cb] : r \in {d \in stale : d.routed}}
    \cup (IF rec.est THEN {[syms |-> rec.syms, cb |-> rec.cb]} ELSE {})

\* A notification: its symbols enter lastValues of the instance whose
\* callback the record has.
Notification(s) ==
  /\ \E r \in Reached :
       /\ s \in r.syms
       /\ lastValues' = IF r.cb = inst THEN lastValues \cup {s} ELSE lastValues
  /\ UNCHANGED <<inst, open, removed, conf, active, busy, state, queue, endpoint>>

\* The session is lost with 'disconnect'; without it the record keeps its
\* subscription, and the endpoint, not yet online, stays offline.
Lose ==
  /\ online \/ rec.est \/ \E r \in stale : r.routed
  /\ online' = FALSE /\ rec' = [rec EXCEPT !.est = FALSE]
  /\ stale' = {[r EXCEPT !.routed = FALSE] : r \in stale}
  /\ UNCHANGED <<node, state, queue>>

Regain == ~online /\ online' = TRUE /\ UNCHANGED <<node, state, queue, rec, stale>>

\* The re-establish loop or the retry establishes the record, in turn with the
\* node's calls, and before the endpoint says that it is online ...
Establish ==
  /\ rec.syms # {} /\ ~rec.est
  /\ rec' = [rec EXCEPT !.est = TRUE]
  /\ UNCHANGED <<node, state, queue, stale, online>>

\* ... or, as the owner is registered again, a record it captured before.
EstablishStale(r) ==
  /\ rec # NoRecord /\ r \in stale /\ ~r.routed
  /\ stale' = (stale \ {r}) \cup {[r EXCEPT !.routed = TRUE]}
  /\ UNCHANGED <<node, state, queue, rec, online>>

Next ==
  \/ \E c \in Configs : Deploy(c)
  \/ \E m \in Messages : Input(m)
  \/ InputUnsubscribe \/ Close \/ RemoveNode
  \/ \E est \in BOOLEAN, pushed \in SUBSET Symbols : Subscribed(est, pushed)
  \/ Unsubscribed \/ Removed
  \/ \E s \in Symbols : Notification(s)
  \/ Lose \/ Regain \/ Establish
  \/ \E r \in stale : EstablishStale(r)

Spec == Init /\ [][Next]_vars

-----------------------------------------------------------------------------
(* Properties *)

\* The variables have their types, and calls are at most two of an instance.
TypeOK ==
  /\ inst \in 0..MaxInst /\ {open, removed, busy, online} \subseteq BOOLEAN
  /\ conf \in Configs \cup {{}}
  /\ active \subseteq Symbols /\ lastValues \subseteq Symbols
  /\ state \in [adds : SUBSET Symbols, over : SUBSET Symbols]
  /\ rec \in [syms : SUBSET Symbols, est : BOOLEAN, cb : 0..MaxInst]
  /\ stale \subseteq [syms : SUBSET Symbols, cb : 0..MaxInst, routed : BOOLEAN]
  /\ \A i \in DOMAIN queue : queue[i] \in Calls
  /\ Cardinality({i \in DOMAIN queue : queue[i].by = inst /\ queue[i].for # "removal"}) <= 2

Quiet == open /\ queue = <<>>

\* Whatever instances before it had asked for, a node deployed with symbols gets
\* the notifications of its node id's record, and no closed instance does
\* (s7complus-endpoint.js:839, 873).  A node deployed without symbols calls
\* nobody, and the record before it goes on (s7complus-subscribe.js:399).
RecordServesLiveNode == Quiet /\ conf # {} /\ rec # NoRecord => rec.cb = inst

\* What an instance is still told about by discarded records.
StaleSymbols == UNION {r.syms : r \in {d \in stale : d.cb = inst}}

\* A message with the active list is ignored; that is right only if the
\* endpoint has this very list, established or to be established on its own
\* (s7complus-subscribe.js:459).  Nor does a resend then replay a symbol that is
\* not subscribed (s7complus-subscribe.js:386), but for one that a discarded
\* record has put among the values again after they were pruned.
ActiveIsSubscribed ==
  Quiet /\ active # {} => active = rec.syms /\ lastValues \subseteq rec.syms \cup StaleSymbols

\* The endpoint keeps no record for a node that was removed, not even one
\* that a call in flight at the removal set up (s7complus-subscribe.js:486).
RemovedLeavesNoRecord == removed /\ queue = <<>> => rec = NoRecord

\* A resend never replays unsubscribed symbols (s7complus-subscribe.js:386).
\* The code does not keep this.
ResendsSubscribed == Quiet /\ active # {} => lastValues \subseteq rec.syms

\* The list that runs is the list that the next deploy restores
\* (nodes/s7complus.html:1346).  The code does not keep this.
ListSurvivesDeploy == Quiet /\ rec # NoRecord => Restored(conf, state) = rec.syms
=============================================================================
