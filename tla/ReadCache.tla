------------------------------ MODULE ReadCache ------------------------------
(***************************************************************************)
(* The time-limited read cache (app/_cache.py) in front of the shipment    *)
(* list (app/logistics.py).  The list leaves out delivered orders; add_event*)
(* looks its shipment up in the list and so goes through the cache.        *)
(*                                                                         *)
(* Handlers of the event loop are atomic.  The agent's chat thread reads   *)
(* beside them: it looks at the clock, computes the list and stores it in  *)
(* three steps.  Mutators marked invalidates_cache clear the cache when    *)
(* they are done; SAP events and submissions are not marked.               *)
(*                                                                         *)
(* version counts the changes to what the list shows, so a cached value is *)
(* the version it was computed from and the open orders it shows.          *)
(***************************************************************************)
EXTENDS Integers, Sequences

CONSTANTS ShipOrders, TTL, MaxTime, MaxVersion

VARIABLES
    open,       \* orders that are not delivered
    log,        \* order -> number of shipment events
    version,    \* changes so far
    replacedAt, \* history: version -> the time the next one replaced it
    cache,      \* the stored entry, or Empty
    clock,
    chat,       \* the chat thread: where it is, its reading of the clock, its value
    answer,     \* history: the latest answer given, or Empty
    written,    \* history: the version when a marked mutator last finished
    overlapped  \* history: a chat computation began before that and stored after

cacheVars == <<open, log, version, replacedAt, cache, clock, chat, answer,
               written, overlapped>>

Empty    == [at |-> 0, version |-> 0, shown |-> {}]
ChatIdle == [step |-> "idle", at |-> 0, version |-> 0, shown |-> {}]

Init ==
    /\ open = ShipOrders
    /\ log = [x \in ShipOrders |-> 0]
    /\ version = 1
    /\ replacedAt = <<>>
    /\ cache = Empty
    /\ clock = 0
    /\ chat = ChatIdle
    /\ answer = [Empty EXCEPT !.version = 1]
    /\ written = 1
    /\ overlapped = FALSE

Tick ==
    /\ clock < MaxTime
    /\ clock' = clock + 1
    /\ UNCHANGED <<open, log, version, replacedAt, cache, chat, answer, written,
                   overlapped>>

\* Fault: an entry is taken while it is present.
AnyEntry == cache # Empty

\* ttl_cache: an entry younger than its time to live is a hit.
Hit == cache # Empty /\ clock - cache.at < TTL

\* list_shipments, computed.
Computed == [at |-> clock, version |-> version, shown |-> open]

Entry == IF Hit THEN cache ELSE Computed

\* GET /api/logistics/shipments
Read ==
    /\ cache' = Entry
    /\ answer' = [Entry EXCEPT !.at = clock]
    /\ UNCHANGED <<open, log, version, replacedAt, clock, chat, written,
                   overlapped>>

\* What the list shows changes.
Changed ==
    /\ version < MaxVersion
    /\ version' = version + 1
    /\ replacedAt' = Append(replacedAt, clock)

\* Fault: the cache is left as the mutator found it.
NotCleared == /\ cache' = cache
              /\ written' = version'
              /\ overlapped' = (chat.step # "idle")

\* invalidates_cache, in its finally.
Cleared == /\ cache' = Empty
           /\ written' = version'
           /\ overlapped' = (chat.step # "idle")

\* A SAP event delivers or reopens an order; nobody clears the cache.
SapEvent(x) ==
    /\ Changed
    /\ open' = IF x \in open THEN open \ {x} ELSE open \cup {x}
    /\ UNCHANGED <<log, cache, clock, chat, answer, written, overlapped>>

\* A marked mutator (a confirmed GRN, an award) changes what the list shows.
MarkedWrite(x) ==
    /\ Changed
    /\ open' = IF x \in open THEN open \ {x} ELSE open \cup {x}
    /\ Cleared
    /\ UNCHANGED <<log, clock, chat, answer>>

\* logistics.add_event: refused when the list, cached or not, does not show
\* the shipment; marked, so the cache is cleared on both ways out.
AddEvent(x) ==
    /\ \/ /\ x \in Entry.shown
          /\ Changed
          /\ log' = [log EXCEPT ![x] = @ + 1]
       \/ /\ x \notin Entry.shown
          /\ UNCHANGED <<version, replacedAt, log>>
    /\ Cleared
    /\ UNCHANGED <<open, clock, chat, answer>>

\* Fault: the thread looks at the clock when it stores.
StampLate == [chat EXCEPT !.at = clock]

\* The entry the chat thread stores: stamped when it began to compute.
Stamped == chat

\* The chat thread calls the wrapper ...
ChatAsks ==
    /\ chat.step = "idle"
    /\ IF Hit
       THEN /\ answer' = [cache EXCEPT !.at = clock]
            /\ UNCHANGED chat
       ELSE /\ chat' = [ChatIdle EXCEPT !.step = "missed", !.at = clock]
            /\ UNCHANGED answer
    /\ UNCHANGED <<open, log, version, replacedAt, cache, clock, written,
                   overlapped>>

\* ... computes ...
ChatComputes ==
    /\ chat.step = "missed"
    /\ chat' = [chat EXCEPT !.step = "computed", !.version = version,
                            !.shown = open]
    /\ UNCHANGED <<open, log, version, replacedAt, cache, clock, answer, written,
                   overlapped>>

\* ... and stores, whatever was cleared in between.
ChatStores ==
    /\ chat.step = "computed"
    /\ cache' = [at |-> Stamped.at, version |-> chat.version, shown |-> chat.shown]
    /\ chat' = ChatIdle
    /\ UNCHANGED <<open, log, version, replacedAt, clock, answer, written,
                   overlapped>>

TypeOK ==
    /\ open \subseteq ShipOrders
    /\ log \in [ShipOrders -> Nat]
    /\ version \in 1..MaxVersion /\ written \in 1..MaxVersion
    /\ replacedAt \in Seq(0..MaxTime)
    /\ clock \in 0..MaxTime
    /\ {cache, answer} \subseteq
          [at : 0..MaxTime, version : 0..MaxVersion, shown : SUBSET ShipOrders]
    /\ chat \in [step : {"idle", "missed", "computed"}, at : 0..MaxTime,
                  version : 0..MaxVersion, shown : SUBSET ShipOrders]
    /\ overlapped \in BOOLEAN

Next ==
    \/ Tick \/ Read
    \/ \E x \in ShipOrders : SapEvent(x) \/ MarkedWrite(x) \/ AddEvent(x)
    \/ ChatAsks \/ ChatComputes \/ ChatStores

Spec == Init /\ [][Next]_cacheVars

-----------------------------------------------------------------------------
(* Properties *)

\* No entry is ever taken for longer than its time to live, whoever computed it
\* and however late it was stored: what an answer shows was true at some moment
\* of the last TTL seconds.
BoundedStaleness ==
    Hit => \/ cache.version = version
           \/ replacedAt[cache.version] > clock - TTL

\* The next read after a marked mutator sees what it wrote, unless the chat
\* thread had begun to compute before the mutator was done: the case the
\* docstring of invalidates_cache leaves out.
ReadsOwnWrites ==
    ~overlapped /\ Hit => cache.version >= written
=============================================================================
