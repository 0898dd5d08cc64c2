-------------------------------- MODULE Devices --------------------------------
(***************************************************************************)
(* Enrolment of capture devices and the requests they make                 *)
(* (app/store/devices.py, the field routes of app/store/routes.py).  A     *)
(* request checks its token first, in a worker thread; what it stores or   *)
(* confirms comes later, after enrolments and revocations of other         *)
(* requests.  Tokens are numbered in the order they are issued.            *)
(***************************************************************************)
EXTENDS Integers, FiniteSets

CONSTANTS
    Codes,      \* invites the office may create
    DeviceIds,  \* ids a device may enrol under
    Posts,      \* stores of the tenants
    Receipts,   \* GRN ids a device may sync
    Calls,      \* requests that may be under way together
    None

Roles == {"storekeeper", "other"}

VARIABLES
    invites,  \* code -> [st, post, role]: none, open, expired or used
    devices,  \* device -> [token, post, role, revoked], or None
    issued,   \* history: token -> [dev, post], the enrolment that issued it
    calls,    \* call -> [token, dev, post] once its token was accepted, or None
    receipts  \* receipt -> [token, dev, post, st], or None

deviceVars == <<invites, devices, issued, calls, receipts>>

NoInvite == [st |-> "none", post |-> None, role |-> "storekeeper"]

Init ==
    /\ invites = [c \in Codes |-> NoInvite]
    /\ devices = [d \in DeviceIds |-> None]
    /\ issued = <<>>
    /\ calls = [k \in Calls |-> None]
    /\ receipts = [g \in Receipts |-> None]

Tokens == DOMAIN issued

\* create_enrolment: a fresh code, stamped with the store it is for.
CreateEnrolment(c, post, role) ==
    /\ invites[c].st = "none"
    /\ invites' = [invites EXCEPT ![c] = [st |-> "open", post |-> post, role |-> role]]
    /\ UNCHANGED <<devices, issued, calls, receipts>>

\* Fifteen minutes pass.
Expire(c) ==
    /\ invites[c].st = "open"
    /\ invites' = [invites EXCEPT ![c].st = "expired"]
    /\ UNCHANGED <<devices, issued, calls, receipts>>

\* enrol_device: a new device, or one that is known, revoked or not.  It runs on the
\* event loop without an await, so no other enrolment comes between its look at the
\* invite and its writes.
EnrolDevice(c, d) ==
    /\ invites[c].st = "open"
    /\ LET token == Cardinality(Tokens) + 1
       IN  /\ devices' = [devices EXCEPT ![d] =
                 [token |-> token, post |-> invites[c].post,
                  role |-> invites[c].role, revoked |-> FALSE]]
           /\ issued' = [t \in Tokens \cup {token} |->
                 IF t = token THEN [dev |-> d, post |-> invites[c].post] ELSE issued[t]]
    /\ invites' = [invites EXCEPT ![c].st = "used"]
    /\ UNCHANGED <<calls, receipts>>

RevokeDevice(d) ==
    /\ devices[d] # None
    /\ devices' = [devices EXCEPT ![d].revoked = TRUE]
    /\ UNCHANGED <<invites, issued, calls, receipts>>

Holder(t) == {d \in DeviceIds : devices[d] # None /\ devices[d].token = t}

\* current_device and storekeeper_device: the token is looked up and the
\* posting read from the row, for the rest of the request.
CheckToken(k, t) ==
    /\ calls[k] = None
    /\ \E d \in Holder(t) :
          /\ ~devices[d].revoked /\ devices[d].role = "storekeeper"
          /\ calls' = [calls EXCEPT ![k] = [token |-> t, dev |-> d, post |-> devices[d].post]]
    /\ UNCHANGED <<invites, devices, issued, receipts>>

\* Fault: the posting is read again when the receipt is stored.
PostedNow(call) == devices[call.dev].post

PostOf(call) == call.post

\* create_from_sync: a receipt that is known is answered as a duplicate.
Sync(k, g) ==
    /\ calls[k] # None
    /\ receipts' =
         IF receipts[g] # None THEN receipts
         ELSE [receipts EXCEPT ![g] = [token |-> calls[k].token, dev |-> calls[k].dev,
                                       post |-> PostOf(calls[k]), st |-> "captured"]]
    /\ calls' = [calls EXCEPT ![k] = None]
    /\ UNCHANGED <<invites, devices, issued>>

\* confirm_grn from the field: only receipts of the store the device serves.
SameStore(call, g) == receipts[g].post = call.post

Confirm(k, g) ==
    /\ calls[k] # None
    /\ receipts[g] # None /\ receipts[g].st = "captured" /\ SameStore(calls[k], g)
    /\ receipts' = [receipts EXCEPT ![g].st = "confirmed"]
    /\ calls' = [calls EXCEPT ![k] = None]
    /\ UNCHANGED <<invites, devices, issued>>

\* Refused requests and reads end without a trace.
Done(k) ==
    /\ calls[k] # None
    /\ calls' = [calls EXCEPT ![k] = None]
    /\ UNCHANGED <<invites, devices, issued, receipts>>

\* schemas.EnrolmentInviteOut, CaptureDeviceOut, DeviceContext, GrnSummary, in short.
Invite  == [st : {"none", "open", "expired", "used"}, post : Posts \cup {None},
            role : Roles]
Device  == [token : Tokens, post : Posts, role : Roles, revoked : BOOLEAN]
Context == [token : Tokens, dev : DeviceIds, post : Posts]
Grn     == [token : Tokens, dev : DeviceIds, post : Posts,
            st : {"captured", "confirmed"}]

TypeOK ==
    /\ invites \in [Codes -> Invite]
    /\ devices \in [DeviceIds -> Device \cup {None}]
    /\ issued \in [Tokens -> [dev : DeviceIds, post : Posts]]
    /\ calls \in [Calls -> Context \cup {None}]
    /\ receipts \in [Receipts -> Grn \cup {None}]

Next ==
    \/ \E c \in Codes, p \in Posts, r \in Roles : CreateEnrolment(c, p, r)
    \/ \E c \in Codes : Expire(c)
    \/ \E c \in Codes, d \in DeviceIds : EnrolDevice(c, d)
    \/ \E d \in DeviceIds : RevokeDevice(d)
    \/ \E k \in Calls, t \in Tokens : CheckToken(k, t)
    \/ \E k \in Calls, g \in Receipts : Sync(k, g) \/ Confirm(k, g)
    \/ \E k \in Calls : Done(k)

Spec == Init /\ [][Next]_deviceVars

-----------------------------------------------------------------------------
(* Properties *)

\* A receipt belongs to the device and the store its token was issued for,
\* even when the device is enrolled for another store, by an invite of the
\* office's or of another device's, while the upload is under way.
ReceiptsStayWhereTaken ==
    \A g \in Receipts : receipts[g] # None =>
       /\ receipts[g].dev = issued[receipts[g].token].dev
       /\ receipts[g].post = issued[receipts[g].token].post
=============================================================================
