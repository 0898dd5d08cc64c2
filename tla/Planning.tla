------------------------------ MODULE Planning ------------------------------
(***************************************************************************)
(* Projects, bills of material and the procurement plan (app/planning.py)  *)
(* and the two-step ingest of workbooks (app/ingest.py).  A preview stages *)
(* the valid rows; a commit, minutes later and perhaps after other tenants'*)
(* commits, replays them: projects first, then BOM lines.                  *)
(*                                                                         *)
(* Dates are small numbers, Undated for none.                              *)
(***************************************************************************)
EXTENDS Integers, Sequences, SequencesExt

CONSTANTS PlanTenants, ProjectIds, OtherSpellings,
          Workbooks,        \* [projects |-> spellings, lines |-> rows]
          PlanProjects,     \* the projects there are to begin with
          MaxStaged, MaxUploads

NoProject  == "none"
NoTenant   == "nobody"
Undated    == 0
Unassigned == "UNASSIGNED"
Today      == 1

LONG_LEAD_THRESHOLD_DAYS == 3    \* scaled from 90

VARIABLES
    projects,  \* _projects: id -> [tenant, milestones: code -> date]
    bom,       \* _bom_items: project -> item id -> line
    staging,   \* _STAGING: staging id -> [tenant, book, old], or NotStaged
    uploads

planVars == <<projects, bom, staging, uploads>>

NotStaged == [tenant |-> NoTenant, book |-> [projects |-> <<>>, lines |-> <<>>],
              old |-> FALSE]

Init ==
    /\ projects = PlanProjects
    /\ bom = [p \in ProjectIds |-> <<>>]
    /\ staging = [s \in 1..MaxStaged |-> NotStaged]
    /\ uploads = 0

\* get_project: another tenant's project looks like none.
MayUse(t, p) == p \in DOMAIN projects /\ projects[p].tenant = t

\* A line of the BOM from a row of a file.  A row without a status is planned
\* once it has a spec.
Line(t, row) ==
    [tenant |-> t, milestone |-> row.milestone, need |-> row.need,
     lead |-> row.lead, spec |-> row.spec, supplier |-> row.supplier,
     status |-> IF row.status # "" THEN row.status
                ELSE IF row.spec THEN "planned" ELSE "spec_missing"]

\* The item id of a row: its own, or one made from a running number.
ItemId(row, series, n) == IF row.id # "" THEN <<row.id, 0>> ELSE <<series, n>>

\* The rows of DOMAIN ids written in their order: a later one replaces an
\* earlier one with its id.
Upserted(items, t, rows, ids) ==
    [i \in DOMAIN items \cup Range(ids) |->
        LET writers == {n \in DOMAIN ids : ids[n] = i}
        IN  IF writers = {} THEN items[i] ELSE Line(t, rows[Max(writers)])]

-----------------------------------------------------------------------------
(* app/planning.py *)

\* upload_bom_csv: rows need a number for a quantity, of any sign; a line
\* without an id is named for its row in the file.
UploadBomCsv(t, p, rows) ==
    /\ uploads < MaxUploads
    /\ MayUse(t, p)
    /\ LET taken == {n \in DOMAIN rows : rows[n].quantity # "none"}
           ids   == [n \in taken |-> ItemId(rows[n], "U", n)]
       IN  bom' = [bom EXCEPT ![p] = Upserted(@, projects[p].tenant, rows, ids)]
    /\ uploads' = uploads + 1
    /\ UNCHANGED <<projects, staging>>

\* patch_bom_item (a line's supplier)
PatchBomItem(t, p, i) ==
    /\ MayUse(t, p)
    /\ i \in DOMAIN bom[p]
    /\ bom[p][i].tenant = t
    /\ bom' = [bom EXCEPT ![p][i].supplier = TRUE]
    /\ UNCHANGED <<projects, staging, uploads>>

-----------------------------------------------------------------------------
(* app/ingest.py *)

\* A staged entry passes its time to live.
GrowOld(s) ==
    /\ staging[s] # NotStaged
    /\ staging' = [staging EXCEPT ![s].old = TRUE]
    /\ UNCHANGED <<projects, bom, uploads>>

\* _gc_staging, which only a preview runs.
Collected == [s \in 1..MaxStaged |-> IF staging[s].old THEN NotStaged ELSE staging[s]]

\* _validate_rows: quantities must be positive.
Valid(book) ==
    [book EXCEPT !.lines = Restrict(@, {n \in DOMAIN @ : @[n].quantity = "positive"})]

Preview(t, book) ==
    /\ uploads < MaxUploads
    /\ \E s \in 1..MaxStaged :
          /\ Collected[s] = NotStaged
          /\ staging' = [Collected EXCEPT ![s] =
                           [tenant |-> t, book |-> Valid(book), old |-> FALSE]]
    /\ uploads' = uploads + 1
    /\ UNCHANGED <<projects, bom>>

\* A project sheet's ids are put in capitals and dashes; a BOM row's are not.
CanonicalId(spelling) ==
    IF spelling \in DOMAIN OtherSpellings THEN OtherSpellings[spelling] ELSE spelling

\* The project an ingest writes: one milestone, on its start date.
IngestedProject(t) == [tenant |-> t, milestones |-> [c \in {"M1"} |-> Today]]

\* Fault: the search for the owner is limited to the committer's tenant.
NotMine(t, p) == FALSE

OwnedByOther(t, p) == p \in DOMAIN projects /\ projects[p].tenant # t

\* commit, pass 1: existing projects of the tenant are replaced.
CommittedProjects(t, book) ==
    LET named == {CanonicalId(book.projects[n]) : n \in DOMAIN book.projects}
        mine  == {p \in named : ~OwnedByOther(t, p)}
    IN  [p \in DOMAIN projects \cup mine |->
            IF p \in mine THEN IngestedProject(t) ELSE projects[p]]

\* commit, pass 2: a row names its project or takes the default; rows of
\* projects the tenant does not have are skipped, the others numbered.
CommittedLines(t, book, default, now) ==
    LET rows  == book.lines
        Of(n) == IF rows[n].project # "" THEN rows[n].project ELSE default
        good  == {n \in DOMAIN rows : Of(n) \in DOMAIN now /\ now[Of(n)].tenant = t}
        ids(p) == [n \in {k \in good : Of(k) = p} |->
                     ItemId(rows[n], "ING", Cardinality({k \in good : k <= n}))]
    IN  [p \in ProjectIds |-> Upserted(bom[p], t, rows, ids(p))]

\* commit takes a staging of its own tenant, expired or not, and drops it.  The
\* preview has made every value it replays one that the records accept, so it does
\* not stop half way; the vendors' sheets, the last it replays, are left out.
Commit(t, s, default) ==
    /\ staging[s] # NotStaged
    /\ staging[s].tenant = t
    /\ LET book == staging[s].book
           now  == CommittedProjects(t, book)
       IN  /\ projects' = now
           /\ bom' = CommittedLines(t, book, default, now)
    /\ staging' = [staging EXCEPT ![s] = NotStaged]
    /\ UNCHANGED uploads

-----------------------------------------------------------------------------
(* build_procurement_plan *)

\* Fault: the latest of the milestones before the need.
MilestoneBefore(milestones, need) ==
    LET before == {c \in DOMAIN milestones : milestones[c] <= need}
    IN  IF need = Undated \/ milestones = <<>> THEN Unassigned
        ELSE CHOOSE c \in IF before # {} THEN before ELSE DOMAIN milestones : TRUE

\* The milestones in order of date, those of one date in any order.
ByDate(milestones) ==
    CHOOSE codes \in SetToSeqs(DOMAIN milestones) :
        \A i, j \in DOMAIN codes : i < j => milestones[codes[i]] <= milestones[codes[j]]

\* _nearest_milestone: in order of date, the first that is not before the need;
\* the last of all when every one is.
NearestMilestone(milestones, need) ==
    IF need = Undated \/ milestones = <<>> THEN Unassigned
    ELSE LET byDate == ByDate(milestones)
             inTime == {n \in DOMAIN byDate : milestones[byDate[n]] >= need}
         IN  byDate[IF inTime # {} THEN Min(inTime) ELSE Len(byDate)]

\* The milestone a line is planned for: the one it names, if there is one.
PlannedFor(p, line) ==
    LET milestones == projects[p].milestones
    IN  IF line.milestone \in DOMAIN milestones THEN line.milestone
        ELSE NearestMilestone(milestones, line.need)

\* The packages: milestone -> the item ids in it.
Packages(p) ==
    LET codes == {PlannedFor(p, bom[p][i]) : i \in DOMAIN bom[p]}
    IN  [c \in codes |-> {i \in DOMAIN bom[p] : PlannedFor(p, bom[p][i]) = c}]

IsLongLead(line) == line.lead >= LONG_LEAD_THRESHOLD_DAYS

\* The flagged long-lead lines, with their severity.
LongLeadItems(p) ==
    [i \in {j \in DOMAIN bom[p] : IsLongLead(bom[p][j])} |->
        IF bom[p][i].need # Undated /\ bom[p][i].need - Today < bom[p][i].lead
        THEN "critical" ELSE "high"]

\* The lines without a spec, with their severity.
MissingSpecItems(p) ==
    [i \in {j \in DOMAIN bom[p] : ~bom[p][j].spec} |->
        IF IsLongLead(bom[p][i]) THEN "high" ELSE "medium"]

Rows == UNION {Range(b.lines) : b \in Workbooks}

\* The statuses of a line (schemas.BomStatus).
BomStatus == {"spec_missing", "planned", "requisitioned", "ordered", "delivered"}

\* A row of a file, "" where a cell is empty.
Row == [id : STRING, project : STRING, milestone : STRING, need : Nat, lead : Nat,
        spec : BOOLEAN, supplier : BOOLEAN, status : BomStatus \cup {""},
        quantity : {"positive", "zero", "negative", "none"}]

\* schemas.BOMItem
BOMItem == [tenant : PlanTenants, milestone : {r.milestone : r \in Rows},
            need : Nat, lead : Nat, spec : BOOLEAN, supplier : BOOLEAN,
            status : BomStatus]

\* The dates of finitely many milestones.
IsCalendar(milestones) ==
    IsFiniteSet(DOMAIN milestones) /\ milestones \in [DOMAIN milestones -> Nat]

TypeOK ==
    /\ DOMAIN projects \subseteq ProjectIds
    /\ \A p \in DOMAIN projects :
          projects[p].tenant \in PlanTenants /\ IsCalendar(projects[p].milestones)
    /\ DOMAIN bom = ProjectIds
    /\ \A p \in ProjectIds : Range(bom[p]) \subseteq BOMItem
    /\ \A s \in DOMAIN staging :
          staging[s] # NotStaged => staging[s].tenant \in PlanTenants
    /\ uploads \in 0..MaxUploads

Next ==
    \/ \E t \in PlanTenants, p \in ProjectIds :
          \/ \E rows \in {b.lines : b \in Workbooks} : UploadBomCsv(t, p, rows)
          \/ \E i \in DOMAIN bom[p] : PatchBomItem(t, p, i)
    \/ \E s \in 1..MaxStaged : GrowOld(s)
    \/ \E t \in PlanTenants, book \in Workbooks : Preview(t, book)
    \/ \E t \in PlanTenants, s \in 1..MaxStaged,
          default \in ProjectIds \cup {""} : Commit(t, s, default)

Spec == Init /\ [][Next]_planVars
-----------------------------------------------------------------------------
(* Properties *)

\* Whatever the order of two tenants' previews and commits, and whichever files
\* name the other's project: a project stays with its tenant, and its BOM holds
\* only lines of that tenant.
LinesFollowProject ==
    /\ \A p \in DOMAIN PlanProjects : projects[p].tenant = PlanProjects[p].tenant
    /\ \A p \in ProjectIds : \A i \in DOMAIN bom[p] : MayUse(bom[p][i].tenant, p)

\* How many lines of F there are in all packages.
CountIn(packages, F) ==
    LET size == [c \in DOMAIN packages |-> Cardinality(packages[c] \cap F)]
    IN  MapThenSumSet(LAMBDA c : size[c], DOMAIN size)

\* However the milestones were replaced under its lines, the plan of a project
\* has every line in one package; one that names no milestone of the project is
\* planned for the earliest that is not before its need, for the last when all
\* are, and for none when nothing can be said; and the packages' counts add up.
PlanPlacesEveryLine ==
    \A p \in DOMAIN projects :
       LET packages == Packages(p)
           dates    == projects[p].milestones
           Count(F) == CountIn(packages, F)
       IN  /\ \A i \in DOMAIN bom[p] :
                 LET line == bom[p][i]
                     c    == CHOOSE d \in DOMAIN packages : i \in packages[d]
                 IN  IF line.milestone \in DOMAIN dates THEN c = line.milestone
                     ELSE IF line.need = Undated \/ dates = <<>> THEN c = Unassigned
                     ELSE /\ dates[c] >= line.need \/ \A d \in DOMAIN dates :
                                                          dates[d] <= dates[c]
                          /\ \A d \in DOMAIN dates : dates[d] >= line.need =>
                                line.need <= dates[c] /\ dates[c] <= dates[d]
           /\ Count(DOMAIN bom[p]) = Cardinality(DOMAIN bom[p])
           /\ Count(DOMAIN LongLeadItems(p)) = Cardinality(DOMAIN LongLeadItems(p))
           /\ Count(DOMAIN MissingSpecItems(p)) =
                Cardinality({i \in DOMAIN bom[p] : ~bom[p][i].spec})
=============================================================================
