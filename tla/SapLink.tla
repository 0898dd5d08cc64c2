------------------------------ MODULE SapLink ------------------------------
(***************************************************************************)
(* Requisitions and orders in SAP (app/integrations/sap_cpi.py, the SAP    *)
(* half of app/sourcing.py, the resync route of app/main.py).              *)
(*                                                                         *)
(* A document is submitted synchronously; SAP's answer may be lost after   *)
(* SAP has created its own document, and a document may be submitted again.*)
(* SAP reports by webhook events, which the network loses, reorders and    *)
(* repeats; an event carries the Control Tower number only if SAP kept it. *)
(* Events carry no identity, so one that arrives again counts again.  Live *)
(* mode: SAP never gives a document number out twice.                      *)
(***************************************************************************)
EXTENDS Integers, Sequences, FiniteSetsExt

CONSTANTS SapPrs, SapPos,     \* the documents there are
          SapQty,             \* ordered quantity of every order
          MaxDocs, MaxEvents, MaxResyncs,
          MaxRepeats          \* quantity that arrives again

None == 0

Entities == SapPrs \cup SapPos

SapStatuses == {"draft", "submitting", "synced", "failed"}

VARIABLES
    ent,       \* our side: [status, sap, doc, gr] per document
    docs,      \* SAP's documents: number -> [ref, posted]
    sent,      \* SAP's events so far: number -> [kind, doc, ref, qty]
    inbox,     \* the events under way
    resynced,  \* history: quantity added by resync, per order
    missed,    \* history: quantity of lost and unmatched events, per order
    repeated   \* history: quantity of events that arrived again, per order

sapVars == <<ent, docs, sent, inbox, resynced, missed, repeated>>

PrKinds == {"pr_released", "pr_rejected"}
PoKinds == {"po_released", "po_blocked", "gr_posted", "po_closed"}

Init ==
    /\ ent = [x \in Entities |->
                [status |-> "draft", sap |-> "draft", doc |-> None, gr |-> 0]]
    /\ docs = << >>
    /\ sent = << >>
    /\ inbox = {}
    /\ resynced = [x \in SapPos |-> 0]
    /\ missed = [x \in SapPos |-> 0]
    /\ repeated = [x \in SapPos |-> 0]

NextDoc == Len(docs) + 1

Failed      == [sap |-> "failed", doc |-> None]
Synced(doc) == [sap |-> "synced", doc |-> doc]

\* The handler raises: submit_pr and submit_po catch the errors of urllib and of
\* parsing, and not a connection closed early, a body cut short or a reply that is
\* no object.
Raised(x) == [sap |-> "submitting", doc |-> ent[x].doc]

\* sap_cpi.submit_pr and submit_po: SAP creates a document and says so, creates
\* one and the answer is lost or cannot be read, or creates none.
SapAnswers(x, reply) ==
    \/ /\ NextDoc <= MaxDocs
       /\ docs' = Append(docs, [ref |-> x, posted |-> 0])
    \/ reply \in {Failed, Raised(x)} /\ docs' = docs

\* submit_pr_to_sap, submit_po_to_sap: any document at any time, also one that
\* is synced.  A failure forgets the number of an earlier submission, whether or
\* not SAP has created a document; an exception leaves the document "submitting",
\* with the number it had.
Submit(x) ==
    /\ \E reply \in {Failed, Synced(NextDoc), Raised(x)} :
          /\ SapAnswers(x, reply)
          /\ ent' = [ent EXCEPT ![x].sap = reply.sap, ![x].doc = reply.doc]
    /\ UNCHANGED <<sent, inbox, resynced, missed, repeated>>

\* SAP raises an event about one of its documents.
SapRaises(d, kind, withRef, qty) ==
    /\ Len(sent) < MaxEvents
    /\ kind \in IF docs[d].ref \in SapPrs THEN PrKinds ELSE PoKinds
    /\ (qty > 0) = (kind = "gr_posted")
    /\ sent' = Append(sent, [kind |-> kind, doc |-> d, qty |-> qty,
                             ref |-> IF withRef THEN docs[d].ref ELSE None])
    /\ docs' = [docs EXCEPT ![d].posted = @ + qty]
    /\ inbox' = inbox \cup {Len(sent) + 1}
    /\ UNCHANGED <<ent, resynced, missed, repeated>>

\* apply_sap_event: by Control Tower number, then by SAP number.
Matching(e) ==
    IF e.ref # None THEN {e.ref}
    ELSE {x \in Entities : ent[x].doc = e.doc}

\* _apply_to_pr
AppliedToPr(pr, e) ==
    IF e.kind = "pr_released"
    THEN [pr EXCEPT !.sap = "synced", !.status = "rfq_issued"]
    ELSE [pr EXCEPT !.sap = "failed"]

\* Fault: the quantity of the latest event replaces what was received.
LatestReceipt(po, e) ==
    CASE e.kind = "po_released" ->
           [po EXCEPT !.sap = "synced", !.status = "released"]
      [] e.kind = "po_blocked"  -> [po EXCEPT !.sap = "failed"]
      [] e.kind = "po_closed"   -> [po EXCEPT !.status = "delivered"]
      [] e.kind = "gr_posted"   ->
           [po EXCEPT !.gr = e.qty,
                      !.status = IF e.qty >= SapQty THEN "delivered" ELSE @]

\* _apply_to_po
AppliedToPo(po, e) ==
    CASE e.kind = "po_released" ->
           [po EXCEPT !.sap = "synced", !.status = "released"]
      [] e.kind = "po_blocked"  -> [po EXCEPT !.sap = "failed"]
      [] e.kind = "po_closed"   -> [po EXCEPT !.status = "delivered"]
      [] e.kind = "gr_posted"   ->
           [po EXCEPT !.gr = @ + e.qty,
                      !.status = IF po.gr + e.qty >= SapQty
                                 THEN "delivered" ELSE @]

\* A tally with the quantity of an event added.
WithQtyOf(n, tally) == LET x == docs[sent[n].doc].ref IN
    IF x \in SapPos THEN [tally EXCEPT ![x] = @ + sent[n].qty] ELSE tally

\* The webhook takes an event; one that matches nothing is answered
\* accepted = false and dropped.
Deliver(n) ==
    /\ n \in inbox
    /\ inbox' = inbox \ {n}
    /\ \/ /\ Matching(sent[n]) = {}
          /\ missed' = WithQtyOf(n, missed)
          /\ UNCHANGED ent
       \/ /\ \E x \in Matching(sent[n]) :
                ent' = [ent EXCEPT ![x] = IF x \in SapPrs
                                          THEN AppliedToPr(@, sent[n])
                                          ELSE AppliedToPo(@, sent[n])]
          /\ UNCHANGED missed
    /\ UNCHANGED <<docs, sent, resynced, repeated>>

\* The network loses an event.
Lose(n) ==
    /\ n \in inbox
    /\ inbox' = inbox \ {n}
    /\ missed' = WithQtyOf(n, missed)
    /\ UNCHANGED <<ent, docs, sent, resynced, repeated>>

TotalOf(f, S) == MapThenSumSet(LAMBDA x : f[x], S)

\* An event that has arrived or was lost is sent again.
Repeat(n) ==
    /\ n \in DOMAIN sent \ inbox
    /\ TotalOf(repeated, SapPos) < MaxRepeats
    /\ inbox' = inbox \cup {n}
    /\ repeated' = WithQtyOf(n, repeated)
    /\ UNCHANGED <<ent, docs, sent, resynced, missed>>

\* POST /api/integrations/sap/resync: the quantity SAP gives for the document is
\* added to what the order has, so an order may show more than SAP has posted.
Resync ==
    /\ TotalOf(resynced, SapPos) < MaxResyncs
    /\ \E x \in SapPos : ent[x].doc # None /\ docs[ent[x].doc].posted > 0
    /\ LET pulled == [x \in SapPos |-> IF ent[x].doc = None THEN 0
                                       ELSE docs[ent[x].doc].posted]
       IN  /\ ent' = [x \in Entities |->
                        IF x \in SapPos THEN [ent[x] EXCEPT !.gr = @ + pulled[x]]
                        ELSE ent[x]]
           /\ resynced' = [x \in SapPos |-> resynced[x] + pulled[x]]
    /\ UNCHANGED <<docs, sent, inbox, missed, repeated>>

SapEvent == [kind : PrKinds \cup PoKinds, doc : 1..MaxDocs, qty : 0..1,
             ref : Entities \cup {None}]

TypeOK ==
    /\ ent \in [Entities -> [status : {"draft", "rfq_issued", "released", "delivered"},
                             sap : SapStatuses, doc : 0..MaxDocs, gr : Nat]]
    /\ docs \in Seq([ref : Entities, posted : Nat])
    /\ sent \in Seq(SapEvent)
    /\ inbox \subseteq DOMAIN sent
    /\ resynced \in [SapPos -> Nat]
    /\ missed \in [SapPos -> Nat]
    /\ repeated \in [SapPos -> Nat]

Next ==
    \/ \E x \in Entities : Submit(x)
    \/ \E d \in DOMAIN docs, kind \in PrKinds \cup PoKinds,
          withRef \in BOOLEAN, qty \in 0..1 : SapRaises(d, kind, withRef, qty)
    \/ \E n \in inbox : Deliver(n) \/ Lose(n)
    \/ \E n \in DOMAIN sent : Repeat(n)
    \/ Resync

Spec == Init /\ [][Next]_sapVars

-----------------------------------------------------------------------------
(* Properties *)

Posted(x) ==
    MapThenSumSet(LAMBDA d : docs[d].posted, {d \in DOMAIN docs : docs[d].ref = x})

UnderWay(x) ==
    MapThenSumSet(LAMBDA n : sent[n].qty,
                  {n \in inbox : docs[sent[n].doc].ref = x})

\* Receipts SAP reports by webhook are never counted on another order, and each
\* arrival of one is counted once: what an order shows, less what resync added, is
\* what SAP posted for its documents and what arrived again, less what is under
\* way or was missed - also when the order was submitted more than once, an answer
\* was lost or the submission raised.
QuantityConserved ==
    \A x \in SapPos :
       ent[x].gr - resynced[x] + UnderWay(x) + missed[x] = Posted(x) + repeated[x]
=============================================================================
