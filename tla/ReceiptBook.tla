----------------------------- MODULE ReceiptBook -----------------------------
(***************************************************************************)
(* What the goods-receipt store promises, without its phases, threads and  *)
(* files: a receipt is captured, then either posted or voided, once.       *)
(* Posting fixes its lines and enters the received quantities into stock   *)
(* in one step; afterwards neither changes.  A purchase order is credited  *)
(* durably only from a posted line that names it, and no durable credit is *)
(* taken back by itself: all of them go, when the file they are in does.   *)
(***************************************************************************)
EXTENDS Integers

CONSTANTS GrnIds, LineNos, POs, UnknownPOs, None

VARIABLES
    page,    \* GrnIds -> none | open | posted | void
    entry,   \* GrnIds -> LineNos -> the posted line, or None
    stock,   \* GrnIds -> LineNos -> quantity entered into stock
    credit   \* POs -> <<grn, line>> -> times credited durably

bookVars == <<page, entry, stock, credit>>

PostedLine == [po : POs \cup UnknownPOs \cup {None}, qty : Nat, over : BOOLEAN]

Init ==
    /\ page = [g \in GrnIds |-> "none"]
    /\ entry = [g \in GrnIds |-> [l \in LineNos |-> None]]
    /\ stock = [g \in GrnIds |-> [l \in LineNos |-> 0]]
    /\ credit = [p \in POs |-> [r \in GrnIds \X LineNos |-> 0]]

Capture(g) ==
    /\ page[g] = "none"
    /\ page' = [page EXCEPT ![g] = "open"]
    /\ UNCHANGED <<entry, stock, credit>>

Post(g) ==
    /\ page[g] = "open"
    /\ page' = [page EXCEPT ![g] = "posted"]
    /\ entry'[g] \in [LineNos -> PostedLine \cup {None}]
    /\ entry' = [entry EXCEPT ![g] = entry'[g]]
    /\ stock' = [stock EXCEPT ![g] =
                   [l \in LineNos |-> IF entry'[g][l] = None THEN 0 ELSE entry'[g][l].qty]]
    /\ UNCHANGED credit

Void(g) ==
    /\ page[g] = "open"
    /\ page' = [page EXCEPT ![g] = "void"]
    /\ UNCHANGED <<entry, stock, credit>>

\* The line of the posted receipt names the PO and brings it something.
Names(r, p) ==
    /\ page[r[1]] = "posted"
    /\ entry[r[1]][r[2]] # None
    /\ entry[r[1]][r[2]].po = p
    /\ entry[r[1]][r[2]].qty > 0

Credit ==
    /\ \A p \in POs, r \in GrnIds \X LineNos :
          \/ credit'[p][r] = credit[p][r]
          \/ credit'[p][r] > credit[p][r] /\ Names(r, p)
    /\ UNCHANGED <<page, entry, stock>>

LoseCredits ==
    /\ credit' = [p \in POs |-> [r \in GrnIds \X LineNos |-> 0]]
    /\ UNCHANGED <<page, entry, stock>>

Next ==
    \/ \E g \in GrnIds : Capture(g) \/ Post(g) \/ Void(g)
    \/ Credit \/ LoseCredits

Spec == Init /\ [][Next]_bookVars
=============================================================================
