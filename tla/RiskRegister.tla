---------------------------- MODULE RiskRegister ----------------------------
(***************************************************************************)
(* The risk register of one project (app/risk_register.py).  Every read of *)
(* the register or of the process map reseeds it: the live signals are     *)
(* collected without a lock, then the rows are upserted and the vanished   *)
(* ones closed under the lock.  The event loop and the agent's chat thread *)
(* both do so.  People add rows and set status, owner and mitigation; an   *)
(* answer is given after the critical files are flushed, also when the     *)
(* flush has failed.  Every handler of the desk and the snapshot thread    *)
(* write risks.json too.  A file that does not parse restores as none.     *)
(***************************************************************************)
EXTENDS Integers, FiniteSets, Functions

CONSTANTS Signals,          \* signal keys
          Commercial,       \* those of the commercial collector
          MaxRows, MaxEdits, MaxShifts,
          MaxRiskFaults     \* crashes and failed writes together

None   == 0
Manual == "manual"          \* stands for a row without signal_key
Seeders == {"loop", "chat"}

VARIABLES
    rows,      \* _risks: id -> [key, live, edit]; edit numbers what people set
    nextRow,   \* _counter
    signals,   \* what the collectors find now
    shifts,    \* changes of signals so far
    seeding,   \* per seeder: where it is and what it has collected
    unsaved,   \* the people's change whose answer waits for the flush
    told,      \* history: id -> the last edit a client was told of
    kept,      \* history: told when risks.json was last written out whole
    edits,
    riskFile,  \* risks.json: [rows, next]
    lastSeed,  \* history: shifts when the last seed applied was collected, or
               \* Partly when a collector had failed or none was applied
    riskFaults

riskVars == <<rows, nextRow, signals, shifts, seeding, unsaved, told, kept, edits,
              riskFile, lastSeed, riskFaults>>

NoSeed     == [step |-> "idle", found |-> {}, ok |-> TRUE, at |-> 0]
NothingTold == [id |-> None, edit |-> 0]
Partly      == -1
NoRisks     == [rows |-> <<>>, next |-> 1]

Init ==
    /\ rows = <<>>
    /\ nextRow = 1
    /\ signals \in SUBSET Signals
    /\ shifts = 0
    /\ seeding = [s \in Seeders |-> NoSeed]
    /\ unsaved = NothingTold
    /\ told = <<>>
    /\ kept = <<>>
    /\ edits = 0
    /\ riskFile = NoRisks
    /\ lastSeed = Partly
    /\ riskFaults = 0

\* BOM lines, orders, budgets and approvals change under the register.
Shift(S) ==
    /\ shifts < MaxShifts
    /\ signals' = S /\ S # signals
    /\ shifts' = shifts + 1
    /\ UNCHANGED <<rows, nextRow, seeding, unsaved, told, kept, edits, riskFile,
                   lastSeed, riskFaults>>

\* seed_project reads every collector; the commercial one may raise, half way
\* through its lines.
Collect(s) ==
    /\ seeding[s].step = "idle"
    /\ s = "loop" => unsaved = NothingTold
    /\ \/ seeding' = [seeding EXCEPT ![s] =
             [step |-> "collected", found |-> signals, ok |-> TRUE, at |-> shifts]]
       \/ \E part \in SUBSET (signals \cap Commercial) :
             seeding' = [seeding EXCEPT ![s] =
               [step |-> "collected", found |-> (signals \ Commercial) \cup part,
                ok |-> FALSE, at |-> shifts]]
    /\ UNCHANGED <<rows, nextRow, signals, shifts, unsaved, told, kept, edits,
                   riskFile, lastSeed, riskFaults>>

RowOf(key) == {r \in DOMAIN rows : rows[r].key = key}

\* Fault: the register is searched for rows that are still live.
LiveRowOf(key) == {r \in DOMAIN rows : rows[r].key = key /\ rows[r].live}

Known(key) == RowOf(key)

\* Fault: a row seen again starts afresh.
SeenAfresh(row) == [row EXCEPT !.live = TRUE, !.edit = 0]

\* _upsert_live of a row that exists: what people set is left alone.
SeenAgain(row) == [row EXCEPT !.live = TRUE]

\* Fault: rows of signals that are gone stay as they are.
NeverVanished(row, seed) == FALSE

\* A live row whose signal is gone closes, unless its collector failed.
Vanished(row, seed) ==
    /\ row.key # Manual /\ row.live /\ row.key \notin seed.found
    /\ ~(~seed.ok /\ row.key \in Commercial)

\* Ids for the new rows, in the order of the collectors (any order will do).
Numbered(keys) ==
    CHOOSE f \in Bijection(nextRow .. nextRow + Cardinality(keys) - 1, keys) : TRUE

\* seed_project under the lock.
Apply(s) ==
    /\ seeding[s].step = "collected"
    /\ LET seed  == seeding[s]
           fresh == {k \in seed.found : Known(k) = {}}
           new   == Numbered(fresh)
       IN  /\ nextRow + Cardinality(fresh) <= MaxRows + 1
           /\ rows' = [r \in DOMAIN rows \cup DOMAIN new |->
                 IF r \in DOMAIN new
                 THEN [key |-> new[r], live |-> TRUE, edit |-> 0]
                 ELSE IF rows[r].key \in seed.found THEN SeenAgain(rows[r])
                 ELSE IF Vanished(rows[r], seed) THEN [rows[r] EXCEPT !.live = FALSE]
                 ELSE rows[r]]
           /\ nextRow' = nextRow + Cardinality(fresh)
           /\ lastSeed' = IF seed.ok THEN seed.at ELSE Partly
    /\ seeding' = [seeding EXCEPT ![s] = [NoSeed EXCEPT !.step = "applied"]]
    /\ UNCHANGED <<signals, shifts, unsaved, told, kept, edits, riskFile, riskFaults>>

\* _flush writes the register as it is now: the rows and the counter together.
Written ==
    /\ riskFile' = [rows |-> rows, next |-> nextRow]
    /\ kept' = told'
    /\ UNCHANGED riskFaults

\* A flush that raises before risks.json or half way through it.
WriteFails ==
    /\ riskFaults < MaxRiskFaults
    /\ riskFaults' = riskFaults + 1
    /\ \/ UNCHANGED <<riskFile, kept>>
       \/ riskFile' = NoRisks /\ kept' = <<>>

\* flush_critical swallows the error: its callers go on.
Flushed == Written \/ WriteFails

SeedFlush(s) ==
    /\ seeding[s].step = "applied"
    /\ seeding' = [seeding EXCEPT ![s] = NoSeed]
    /\ UNCHANGED <<rows, nextRow, signals, shifts, unsaved, told, edits, lastSeed>>
    /\ Flushed

\* The flush of a handler of another component, or a snapshot.
OtherFlush ==
    /\ UNCHANGED <<rows, nextRow, signals, shifts, seeding, unsaved, told, edits,
                   lastSeed>>
    /\ Flushed

\* Handlers of people's changes run on the event loop, which must be free.
LoopFree == seeding["loop"].step = "idle" /\ unsaved = NothingTold

CreateManual ==
    /\ LoopFree /\ nextRow <= MaxRows /\ edits < MaxEdits
    /\ rows' = [r \in DOMAIN rows \cup {nextRow} |->
                  IF r = nextRow THEN [key |-> Manual, live |-> FALSE, edit |-> edits + 1]
                  ELSE rows[r]]
    /\ nextRow' = nextRow + 1
    /\ edits' = edits + 1
    /\ unsaved' = [id |-> nextRow, edit |-> edits + 1]
    /\ UNCHANGED <<signals, shifts, seeding, told, kept, riskFile, lastSeed,
                   riskFaults>>

PatchRisk(r) ==
    /\ LoopFree /\ r \in DOMAIN rows /\ edits < MaxEdits
    /\ rows' = [rows EXCEPT ![r].edit = edits + 1]
    /\ edits' = edits + 1
    /\ unsaved' = [id |-> r, edit |-> edits + 1]
    /\ UNCHANGED <<nextRow, signals, shifts, seeding, told, kept, riskFile,
                   lastSeed, riskFaults>>

\* The flush, and the answer.
PeopleFlush ==
    /\ unsaved # NothingTold
    /\ told' = [r \in DOMAIN told \cup {unsaved.id} |->
                  IF r = unsaved.id THEN unsaved.edit ELSE told[r]]
    /\ Flushed
    /\ unsaved' = NothingTold
    /\ UNCHANGED <<rows, nextRow, signals, shifts, seeding, edits, lastSeed>>

\* Fault: load leaves the counter at its start.
RestartCounter == 1

\* load
SavedCounter == riskFile.next

\* risks.json is read back, and with it the last that clients were told of when
\* it was written.
Loaded ==
    /\ rows' = riskFile.rows
    /\ nextRow' = SavedCounter
    /\ told' = kept
    /\ UNCHANGED <<riskFile, kept>>

\* The restart begins with an empty register: the crash has cut the file, or
\* restore_all has stopped before it.
NotLoaded ==
    /\ rows' = <<>>
    /\ nextRow' = 1
    /\ told' = <<>>
    /\ kept' = <<>>
    /\ riskFile' \in {riskFile, NoRisks}

\* The process dies and starts again.
Crash ==
    /\ riskFaults < MaxRiskFaults
    /\ riskFaults' = riskFaults + 1
    /\ Loaded \/ NotLoaded
    /\ seeding' = [s \in Seeders |-> NoSeed]
    /\ unsaved' = NothingTold
    /\ lastSeed' = Partly
    /\ UNCHANGED <<signals, shifts, edits>>

\* schemas.ManagedRisk; edit stands for status, owner, mitigation and dates.
ManagedRisk == [key : Signals \cup {Manual}, live : BOOLEAN, edit : 0..MaxEdits]

Register(table) ==
    /\ DOMAIN table \subseteq 1..MaxRows
    /\ Range(table) \subseteq ManagedRisk

TypeOK ==
    /\ Register(rows) /\ Register(riskFile.rows)
    /\ {nextRow, riskFile.next} \subseteq 1..(MaxRows + 1)
    /\ signals \subseteq Signals
    /\ shifts \in 0..MaxShifts /\ edits \in 0..MaxEdits
    /\ riskFaults \in 0..MaxRiskFaults
    /\ seeding \in [Seeders -> [step : {"idle", "collected", "applied"},
                                 found : SUBSET Signals, ok : BOOLEAN,
                                 at : 0..MaxShifts]]
    /\ unsaved \in [id : 0..MaxRows, edit : 0..MaxEdits]
    /\ DOMAIN told \subseteq 1..MaxRows /\ Range(told) \subseteq 1..MaxEdits
    /\ DOMAIN kept \subseteq 1..MaxRows /\ Range(kept) \subseteq 1..MaxEdits
    /\ lastSeed \in (0..MaxShifts) \cup {Partly}

Next ==
    \/ \E S \in SUBSET Signals : Shift(S)
    \/ \E s \in Seeders : Collect(s) \/ Apply(s) \/ SeedFlush(s)
    \/ CreateManual
    \/ \E r \in 1..MaxRows : PatchRisk(r)
    \/ PeopleFlush \/ OtherFlush \/ Crash

Spec == Init /\ [][Next]_riskVars

-----------------------------------------------------------------------------
(* Properties *)

\* Two seeders that found the same new signal, and a signal that comes back,
\* never make a second row of it: what people wrote on a risk is not left
\* behind on another row.
OneRowPerSignal ==
    \A r, q \in DOMAIN rows : rows[r].key = rows[q].key /\ r # q => rows[r].key = Manual

\* What a client was told it had set on a risk is on that risk, or something set
\* later: until a crash whatever flushes fail, and after one as far as a flush had
\* gone through since the answer.  Only a write of risks.json that an error or the
\* crash stops half way, or a restore that stops before it, loses more.
AnsweredEditsSurvive ==
    \A r \in DOMAIN told : r \in DOMAIN rows /\ rows[r].edit >= told[r]

\* When the last seed applied had collected all of today's signals, the rows
\* marked live are exactly the signals.
LiveMatchesSignals ==
    lastSeed = shifts =>
       {rows[r].key : r \in {q \in DOMAIN rows : rows[q].live}} = signals
=============================================================================
