------------------------------ MODULE AuditTrail ------------------------------
(***************************************************************************)
(* The audit log (app/audit.py) and the receipts a traceability chain lists*)
(* from it.  The log is a ring: the oldest event makes room for the newest.*)
(* A GRN's effects write grn_confirmed, then gr_posted for each line, every*)
(* emit flushing the log to its file before it returns, and returning also *)
(* when the flush has failed; the GRN is stamped at the end, and the       *)
(* startup sweep writes the events of an unstamped GRN again               *)
(* (app/store/grn.py).  confirm_grn runs on the event loop, one GRN at a   *)
(* time; here the events of two GRNs may mix as well, which is more than   *)
(* the program does.  A file that does not parse restores as an empty log. *)
(***************************************************************************)
EXTENDS Integers, Sequences, FiniteSets, Functions

CONSTANTS Grns,         \* GRN -> the orders of its matched lines, in order
          MaxEvents,    \* _MAX_EVENTS
          Limit,        \* query's limit
          MaxEmitted,
          MaxAuditFaults  \* crashes and failed writes together

VARIABLES
    events,      \* _events
    auditFile,   \* audit.json: log, and past: history when it was written
    effects,     \* GRN -> where its effects are
    history,     \* history: every event emitted that no restart has lost
    unfiled,     \* history: GRNs with events a failed write kept from the file
    forgotten,   \* history: stamped GRNs whose events a restart has lost
    auditFaults

auditVars == <<events, auditFile, effects, history, unfiled, forgotten, auditFaults>>

NoGrn == "none"
Orders == UNION {Range(Grns[g]) : g \in DOMAIN Grns}

\* at: "new", "committed" (in SQLite), "emitting" or "stamped"; next: the event
\* to emit, 0 for grn_confirmed; unflushed: its file is not yet written.
NotYet == [at |-> "new", next |-> 0, unflushed |-> FALSE]

NoEvents == [log |-> <<>>, past |-> <<>>]

Init ==
    /\ events = <<>>
    /\ auditFile = NoEvents
    /\ effects = [g \in DOMAIN Grns |-> NotYet]
    /\ history = <<>>
    /\ unfiled = {}
    /\ forgotten = {}
    /\ auditFaults = 0

\* Fault: a deque without its maxlen.
GrowingLog(log, e) == Append(log, e)

\* deque(maxlen).append
Ring(log, e) ==
    IF Len(log) < MaxEvents THEN Append(log, e) ELSE Append(Tail(log), e)

Emitted(e) ==
    /\ Len(history) < MaxEmitted
    /\ events' = Ring(events, e)
    /\ history' = Append(history, e)
    /\ UNCHANGED forgotten

\* confirm_grn commits.
ConfirmGrn(g) ==
    /\ effects[g].at = "new"
    /\ effects' = [effects EXCEPT ![g].at = "committed"]
    /\ UNCHANGED <<events, auditFile, history, unfiled, forgotten, auditFaults>>

\* _apply_confirm_effects, live or resumed: the next event of the GRN.
EmitNext(g) ==
    /\ effects[g].at \in {"committed", "emitting"} /\ ~effects[g].unflushed
    /\ effects[g].next <= Len(Grns[g])
    /\ LET n == effects[g].next
       IN  Emitted(IF n = 0 THEN [action |-> "grn_confirmed", po |-> NoGrn, grn |-> g]
                   ELSE [action |-> "gr_posted", po |-> Grns[g][n], grn |-> g])
    /\ effects' = [effects EXCEPT ![g] = [at |-> "emitting", next |-> @.next + 1,
                                          unflushed |-> TRUE]]
    /\ UNCHANGED <<auditFile, unfiled, auditFaults>>

\* _snap_audit
Written ==
    /\ auditFile' = [log |-> events', past |-> history']
    /\ unfiled' = {}
    /\ UNCHANGED auditFaults

\* A flush that raises before audit.json, or half way through it, when the file
\* has lost the events of all.
WriteFails(grns) ==
    /\ auditFaults < MaxAuditFaults
    /\ auditFaults' = auditFaults + 1
    /\ \/ auditFile' = auditFile /\ unfiled' = unfiled \cup grns
       \/ auditFile' = NoEvents /\ unfiled' = DOMAIN Grns

\* emit's flush_critical, which swallows its errors.
FlushEvent(g) ==
    /\ effects[g].unflushed
    /\ UNCHANGED <<events, history, forgotten>>
    /\ Written \/ WriteFails({g})
    /\ effects' = [effects EXCEPT ![g].unflushed = FALSE]

\* The flush of another handler, or a snapshot.
OtherFlush ==
    /\ UNCHANGED <<events, effects, history, forgotten>>
    /\ Written \/ WriteFails({})

\* _stamp_effects_applied
Stamp(g) ==
    /\ effects[g].at = "emitting" /\ ~effects[g].unflushed
    /\ effects[g].next > Len(Grns[g])
    /\ effects' = [effects EXCEPT ![g].at = "stamped"]
    /\ UNCHANGED <<events, auditFile, history, unfiled, forgotten, auditFaults>>

\* Another mutator emits: a SAP receipt of an order, which names no GRN, or
\* something that no chain looks for.
OtherEmit(action, po) ==
    /\ Emitted([action |-> action, po |-> po, grn |-> NoGrn])
    /\ Written \/ WriteFails({})
    /\ UNCHANGED effects

Stamped == {g \in DOMAIN Grns : effects[g].at = "stamped"}

\* audit.json is read back.
Loaded ==
    /\ events' = auditFile.log
    /\ history' = auditFile.past
    /\ forgotten' = forgotten \cup (Stamped \cap unfiled)
    /\ UNCHANGED auditFile

\* The restart begins with an empty log: the crash has cut the file, or
\* restore_all has stopped before it.
NotLoaded ==
    /\ events' = <<>>
    /\ history' = <<>>
    /\ forgotten' = forgotten \cup Stamped
    /\ auditFile' \in {auditFile, NoEvents}

\* The process dies; the restart restores the log, if it can, and startup_sweep
\* begins the effects of unstamped GRNs again.
Restart ==
    /\ auditFaults < MaxAuditFaults
    /\ auditFaults' = auditFaults + 1
    /\ Loaded \/ NotLoaded
    /\ unfiled' = {}
    /\ effects' = [g \in DOMAIN Grns |->
                     IF effects[g].at \in {"committed", "emitting"}
                     THEN [at |-> "committed", next |-> 0, unflushed |-> FALSE]
                     ELSE effects[g]]

\* schemas.AuditEvent; for grn_confirmed the GRN is the entity, for gr_posted it
\* is in the metadata.
AuditEvent == [action : {"grn_confirmed", "gr_posted", "ir_posted"},
               po : Orders \cup {NoGrn}, grn : DOMAIN Grns \cup {NoGrn}]

TypeOK ==
    /\ {events, auditFile.log, auditFile.past, history} \subseteq Seq(AuditEvent)
    /\ Len(events) <= MaxEvents /\ Len(auditFile.log) <= MaxEvents
    /\ unfiled \subseteq DOMAIN Grns /\ forgotten \subseteq Stamped
    /\ effects \in [DOMAIN Grns -> [at : {"new", "committed", "emitting", "stamped"},
                                     next : Nat, unflushed : BOOLEAN]]
    /\ auditFaults \in 0..MaxAuditFaults

Next ==
    \/ \E g \in DOMAIN Grns : \/ ConfirmGrn(g) \/ EmitNext(g)
                              \/ FlushEvent(g) \/ Stamp(g)
    \/ \E po \in Orders : OtherEmit("gr_posted", po)
    \/ OtherEmit("ir_posted", NoGrn)
    \/ OtherFlush
    \/ Restart

Spec == Init /\ [][Next]_auditVars

-----------------------------------------------------------------------------
(* audit.query, trace_from_bom *)

Posting(e, po) == e.action = "gr_posted" /\ e.po = po

\* Where a log has postings of an order, and those of them that come after k.
Postings(log, po) == {k \in DOMAIN log : Posting(log[k], po)}
After(found, k) == {j \in found : j > k}

\* Fault: the oldest events first.
OldestFirst(po) ==
    LET found == Postings(events, po)
    IN  {k \in found : Cardinality(found \ After(found, k)) <= Limit}

\* Where the newest events that match are, no more of them than the limit.
Query(po) ==
    LET found == Postings(events, po)
    IN  {k \in found : Cardinality(After(found, k)) < Limit}

\* The receipts listed in the site_grn stage.
Listed(po) == {events[k].grn : k \in Query(po)} \ {NoGrn}

-----------------------------------------------------------------------------
(* Property *)

\* k is the last gr_posted of a GRN for an order.
LastPosting(g, po, k) ==
    LET own == {j \in Postings(history, po) : history[j].grn = g}
    IN  k \in own /\ \A j \in own : j <= k

\* A GRN whose effects are done is listed for each of its orders, after any
\* restarts, until as many later events as the ring holds, or as many later
\* postings of the order as a query returns, have come.  Excepted are the GRNs
\* a restart has forgotten: those stamped when its crash came, if the log could not
\* be read back, and otherwise those of them with an event that failed writes
\* alone had seen - a failed flush is no reason not to stamp.
StampedReceiptIsTraced ==
    \A g \in Stamped \ forgotten :
       \A po \in Range(Grns[g]) :
          \/ g \in Listed(po)
          \/ \E k \in DOMAIN history :
                /\ LastPosting(g, po, k)
                /\ \/ Len(history) - k >= MaxEvents
                   \/ Cardinality(After(Postings(history, po), k)) >= Limit
=============================================================================
