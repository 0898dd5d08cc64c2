----------------------------- MODULE StateFiles -----------------------------
(***************************************************************************)
(* The state files of app/persistence.py: a JSON file for each store.      *)
(* A file is written with write_text, which truncates it first, so a crash *)
(* or an error in between leaves a file that does not parse.  A handler    *)
(* that changes a store flushes the five critical ones before it answers,  *)
(* and answers also when the flush has failed; the snapshot thread writes  *)
(* them all; persistence._lock keeps the two apart.  There                 *)
(* is no file for the shipment events: _snap_logistics looks for a store   *)
(* app/logistics.py does not have, and returns.                            *)
(*                                                                         *)
(* A store's content is the set of facts (positive numbers) written into it.*)
(***************************************************************************)
EXTENDS Integers, Sequences, FiniteSets, SequencesExt

CONSTANTS Changing,     \* the stores handlers write to
          MaxFacts,
          MaxFileFaults   \* crashes and failed writes together

VARIABLES
    mem,        \* store -> facts, in memory
    file,       \* store -> facts, or Torn
    versioned,  \* .version exists
    todo,       \* files the writer in progress has still to write
    writer,     \* "none", "handler" or "snapshot": who holds the lock
    buffer,     \* what is being written to the first of todo, or Closed
    request,    \* the fact the handler in progress has stored, or NoRequest
    seen,       \* memory when the snapshot in progress began
    promised,   \* history: the facts, with their store, that a flush or a
                \* snapshot has written out whole
    cut,        \* history: the files a crash has found half written
    running, fileFaults

fileVars == <<mem, file, versioned, todo, writer, buffer, request, seen,
              promised, cut, running, fileFaults>>

SnapshotOrder == <<"projects", "sourcing", "tbe", "expediting", "audit", "sap",
                   "vendors", "approvals", "risks">>

\* Fault: a flush without the vendors.
FlushLess == <<"approvals", "audit", "sourcing", "risks">>

FlushOrder == <<"approvals", "audit", "vendors", "sourcing", "risks">>

RestoreOrder == SnapshotOrder

Files    == Range(SnapshotOrder)
Stores   == Files \cup {"logistics"}
Critical == {"approvals", "audit", "vendors", "sourcing", "risks"}

\* The files whose error stops restore_all; the others log it and go on.
Strict == {"projects", "sourcing", "tbe", "audit"}

Torn      == {-1}
Closed    == {-2}
NoRequest == [store |-> "none", fact |-> 0]

Position(s) == CHOOSE i \in DOMAIN RestoreOrder : RestoreOrder[i] = s

Init ==
    /\ mem = [s \in Stores |-> {}]
    /\ file = [s \in Files |-> {}]
    /\ versioned = FALSE
    /\ todo = <<>>
    /\ writer = "none"
    /\ buffer = Closed
    /\ request = NoRequest
    /\ seen = mem
    /\ promised = {}
    /\ cut = {}
    /\ running = TRUE
    /\ fileFaults = 0

Facts == (UNION {mem[s] : s \in Stores}) \cup {a.fact : a \in promised}
             \cup (UNION {file[s] \ Torn : s \in Files})

\* A handler stores something; it flushes before it does anything else.
Change(s) ==
    /\ running /\ request = NoRequest
    /\ Cardinality(Facts) < MaxFacts
    /\ LET f == Cardinality(Facts) + 1
       IN  /\ mem' = [mem EXCEPT ![s] = @ \cup {f}]
           /\ request' = [store |-> s, fact |-> f]
    /\ UNCHANGED <<file, versioned, todo, writer, buffer, seen, promised, cut,
                   running, fileFaults>>

\* flush_critical and snapshot_all take the lock.
StartWriting(who, order) ==
    /\ running /\ writer = "none"
    /\ who = "handler" => request # NoRequest
    /\ writer' = who
    /\ todo' = order
    /\ seen' = IF who = "snapshot" THEN mem ELSE seen
    /\ UNCHANGED <<mem, file, versioned, buffer, request, promised, cut, running,
                   fileFaults>>

\* A _snap function has its payload and write_text has truncated the file.
OpenFile ==
    /\ running /\ todo # <<>> /\ buffer = Closed
    /\ buffer' = mem[Head(todo)]
    /\ file' = [file EXCEPT ![Head(todo)] = Torn]
    /\ UNCHANGED <<mem, versioned, todo, writer, request, seen, promised, cut,
                   running, fileFaults>>

WriteFile ==
    /\ running /\ todo # <<>> /\ buffer # Closed
    /\ file' = [file EXCEPT ![Head(todo)] = buffer]
    /\ buffer' = Closed
    /\ todo' = Tail(todo)
    /\ UNCHANGED <<mem, versioned, writer, request, seen, promised, cut, running,
                   fileFaults>>

\* What the writer in progress has written: a handler the critical stores as they
\* are, the snapshot thread every store as it was when it began, or newer.
Covered ==
    IF writer = "handler"
    THEN {a \in [store : Critical, fact : 1..MaxFacts] : a.fact \in mem[a.store]}
    ELSE {a \in [store : Stores, fact : 1..MaxFacts] : a.fact \in seen[a.store]}

\* .version is written and the lock released; a handler answers.
EndWriting ==
    /\ running /\ writer # "none" /\ todo = <<>>
    /\ versioned' = TRUE
    /\ writer' = "none"
    /\ request' = IF writer = "handler" THEN NoRequest ELSE request
    /\ promised' = promised \cup Covered
    /\ seen' = [s \in Stores |-> {}]
    /\ UNCHANGED <<mem, file, todo, buffer, cut, running, fileFaults>>

\* An error at any point of the writing: it is swallowed, a file already truncated
\* stays so, .version is not written, and a handler answers all the same.
WriteFails ==
    /\ running /\ writer # "none"
    /\ fileFaults < MaxFileFaults
    /\ fileFaults' = fileFaults + 1
    /\ todo' = <<>>
    /\ writer' = "none"
    /\ buffer' = Closed
    /\ request' = IF writer = "handler" THEN NoRequest ELSE request
    /\ seen' = [s \in Stores |-> {}]
    /\ UNCHANGED <<mem, file, versioned, promised, cut, running>>

Die ==
    /\ running
    /\ fileFaults < MaxFileFaults
    /\ fileFaults' = fileFaults + 1
    /\ running' = FALSE
    /\ cut' = cut \cup {f \in Files : file[f] = Torn}
    /\ mem' = [s \in Stores |-> {}]
    /\ todo' = <<>>
    /\ writer' = "none"
    /\ buffer' = Closed
    /\ request' = NoRequest
    /\ seen' = [s \in Stores |-> {}]
    /\ UNCHANGED <<file, versioned, promised>>

\* restore_all reaches a store if no file before it stopped it.
Reached(s) ==
    \A i \in 1..(Position(s) - 1) :
       ~(RestoreOrder[i] \in Strict /\ file[RestoreOrder[i]] = Torn)

\* restore_all: startup goes on with whatever it restored.
Boot ==
    /\ ~running
    /\ running' = TRUE
    /\ mem' = [s \in Stores |->
                 IF /\ s \in Files /\ versioned
                    /\ Reached(s) /\ file[s] # Torn
                 THEN file[s] ELSE {}]
    /\ UNCHANGED <<file, versioned, todo, writer, buffer, request, seen, promised,
                   cut, fileFaults>>

TypeOK ==
    /\ mem \in [Stores -> SUBSET (1..MaxFacts)]
    /\ file \in [Files -> (SUBSET (1..MaxFacts)) \cup {Torn}]
    /\ buffer \in (SUBSET (1..MaxFacts)) \cup {Closed}
    /\ versioned \in BOOLEAN /\ running \in BOOLEAN
    /\ todo \in Seq(Files)
    /\ writer \in {"none", "handler", "snapshot"}
    /\ request = NoRequest \/ request \in [store : Stores, fact : 1..MaxFacts]
    /\ seen \in [Stores -> SUBSET (1..MaxFacts)]
    /\ promised \subseteq [store : Stores, fact : 1..MaxFacts]
    /\ cut \subseteq Files
    /\ fileFaults \in 0..MaxFileFaults

Next ==
    \/ \E s \in Changing : Change(s)
    \/ StartWriting("handler", FlushOrder)
    \/ StartWriting("snapshot", SnapshotOrder)
    \/ OpenFile \/ WriteFile \/ EndWriting \/ WriteFails
    \/ Die \/ Boot

Spec == Init /\ [][Next]_fileVars

-----------------------------------------------------------------------------
(* Properties *)

\* A crash may have cost a store its content: it found the store's own file half
\* written, or one that stops the restore before the store's turn.
Exposed(s) ==
    \E f \in cut : f = s \/ (f \in Strict /\ Position(f) < Position(s))

\* What a flush has written out whole of the critical stores - so whatever a
\* client was told of before that flush ended - and what a snapshot has of any
\* store with a file, is there after every restart and stays there, whatever later
\* writes fail; unless a crash found the store's file half written, or one whose
\* error stops the restore before it.  An answer given after a failed flush is not
\* covered before a later flush or snapshot goes through.
PromisedSurvives ==
    running =>
      \A a \in promised : a.store # "logistics" /\ ~Exposed(a.store) =>
         a.fact \in mem[a.store]

\* The README says "Every in-memory store snapshots to JSON every 120 s" and
\* "Survives restarts" (README.md:161): what a complete snapshot has covered is
\* there after a restart, if no crash cut a file short.
SnapshotSurvives ==
    running /\ cut = {} => \A a \in promised : a.fact \in mem[a.store]
=============================================================================
