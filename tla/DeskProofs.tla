----------------------------- MODULE DeskProofs -----------------------------
(***************************************************************************)
(* The components of the desk, proved for every value of the constants.   *)
(* Each is proved where it runs: a step of the desk is a step of the       *)
(* component or leaves its variables alone, so Spec implies the            *)
(* component's own specification, and what follows from that one holds of  *)
(* the desk.  Each component then has an inductive invariant, shown to     *)
(* hold initially and to be preserved by every step of it.                 *)
(***************************************************************************)
EXTENDS Desk, FiniteSetTheorems, SequenceTheorems, Sums, TLAPS

\* A step of the desk is a step of the register, or leaves it alone.
LEMMA RiskRuns == Spec => Risk!Spec
<1>1. Init => Risk!Init
  BY DEF Init
<1>2. [Next]_deskVars => [Risk!Next]_(Risk!riskVars)
  BY DEF Next, Rest, deskVars, riskVars, Risk!riskVars
<1> QED
  BY <1>1, <1>2, PTL DEF Spec, Risk!Spec

\* The same of the read cache.
LEMMA CacheRuns == Spec => Cache!Spec
<1>1. Init => Cache!Init
  BY DEF Init
<1>2. [Next]_deskVars => [Cache!Next]_(Cache!cacheVars)
  BY DEF Next, Rest, deskVars, cacheVars, Cache!cacheVars
<1> QED
  BY <1>1, <1>2, PTL DEF Spec, Cache!Spec

\* The same of the state files.
LEMMA FilesRun == Spec => Files!Spec
<1>1. Init => Files!Init
  BY DEF Init
<1>2. [Next]_deskVars => [Files!Next]_(Files!fileVars)
  BY DEF Next, Rest, deskVars, fileVars, Files!fileVars
<1> QED
  BY <1>1, <1>2, PTL DEF Spec, Files!Spec

\* The same of the SAP link.
LEMMA SapRuns == Spec => Sap!Spec
<1>1. Init => Sap!Init
  BY DEF Init
<1>2. [Next]_deskVars => [Sap!Next]_(Sap!sapVars)
  BY DEF Next, Rest, deskVars, sapVars, Sap!sapVars
<1> QED
  BY <1>1, <1>2, PTL DEF Spec, Sap!Spec

\* The same of the plans.
LEMMA PlanRuns == Spec => Plan!Spec
<1>1. Init => Plan!Init
  BY DEF Init
<1>2. [Next]_deskVars => [Plan!Next]_(Plan!planVars)
  BY DEF Next, Rest, deskVars, planVars, Plan!planVars
<1> QED
  BY <1>1, <1>2, PTL DEF Spec, Plan!Spec

-----------------------------------------------------------------------------
(* The read cache *)

\* A value that was true when it was stamped, and is no longer only since then.
Dated(e) ==
    /\ e.version \in 1..version /\ e.at <= clock
    /\ e.version < version => e.at <= replacedAt[e.version]

\* A value of the cache, and a chat that reads through it.
Entries == [at : 0..MaxTime, version : 0..MaxVersion, shown : SUBSET ShipOrders]

ChatStates == [step : {"idle", "missed", "computed"}, at : 0..MaxTime,
               version : 0..MaxVersion, shown : SUBSET ShipOrders]

\* What is stored, and what a chat has computed and not stored yet, is dated; and
\* unless two computations have overlapped it is no older than the last write
\* that invalidated the cache.
CacheInv ==
    /\ Cache!TypeOK
    /\ Len(replacedAt) = version - 1
    /\ cache # Cache!Empty => Dated(cache)
    /\ chat.step = "missed" => chat.at <= clock
    /\ chat.step = "computed" => Dated(chat)
    /\ written <= version
    /\ ~overlapped => /\ cache # Cache!Empty => cache.version >= written
                      /\ chat.step = "computed" => chat.version >= written

\* An empty cache over the list as loaded.
LEMMA InitCache == Cache!Init => CacheInv
<1> SUFFICES ASSUME Cache!Init PROVE CacheInv
  OBVIOUS
<1>1. 0 \in 0..MaxTime /\ 1 \in 1..MaxVersion /\ {0, 1} \subseteq 0..MaxVersion
  BY CacheConstants
<1>2. Cache!TypeOK
  <2>1. /\ open = ShipOrders /\ version = 1 /\ written = 1 /\ replacedAt = <<>>
        /\ clock = 0 /\ overlapped = FALSE
        /\ log = [x \in ShipOrders |-> 0]
        /\ cache = [at |-> 0, version |-> 0, shown |-> {}]
        /\ answer = [at |-> 0, version |-> 1, shown |-> {}]
        /\ chat = [step |-> "idle", at |-> 0, version |-> 0, shown |-> {}]
    BY DEF Cache!Init, Cache!Empty, Cache!ChatIdle
  <2>2. replacedAt \in Seq(0..MaxTime) /\ log \in [ShipOrders -> Nat]
    BY <2>1
  <2>3. cache \in Entries /\ answer \in Entries
    BY <1>1, <2>1 DEF Entries
  <2>4. chat \in ChatStates
    BY <1>1, <2>1 DEF ChatStates
  <2> QED
    BY <1>1, <2>1, <2>2, <2>3, <2>4 DEF Cache!TypeOK, Entries, ChatStates
<1> QED
  BY <1>2 DEF Cache!Init, CacheInv, Cache!Empty, Cache!ChatIdle

\* What was dated stays so when the list changes: it is replaced now, and was
\* stamped before.
LEMMA ChangeKeepsDates ==
    ASSUME CacheInv, Cache!Changed, clock' = clock
    PROVE  /\ version' \in 1..MaxVersion
           /\ replacedAt' \in Seq(0..MaxTime)
           /\ Len(replacedAt') = version' - 1
           /\ cache' = cache => (cache # Cache!Empty => Dated(cache)')
           /\ chat' = chat => (chat.step = "computed" => Dated(chat)')
<1>1. /\ version \in 1..MaxVersion /\ version < MaxVersion /\ version' = version + 1
      /\ replacedAt \in Seq(0..MaxTime) /\ clock \in 0..MaxTime
      /\ replacedAt' = Append(replacedAt, clock)
      /\ Len(replacedAt) = version - 1
  BY DEF CacheInv, Cache!TypeOK, Cache!Changed
<1>2. /\ replacedAt' \in Seq(0..MaxTime)
      /\ Len(replacedAt') = version
      /\ \A i \in 1..(version - 1) : replacedAt'[i] = replacedAt[i]
      /\ replacedAt'[version] = clock
  BY <1>1
<1>3. version \in Int /\ clock \in Int /\ MaxVersion \in Nat
  BY <1>1, CacheConstants
<1>4. ASSUME cache' = cache, cache # Cache!Empty PROVE Dated(cache)'
  <2>1. Dated(cache) /\ cache.version \in Int /\ cache.at \in Int
    BY <1>4 DEF CacheInv, Cache!TypeOK
  <2> QED
    BY <1>1, <1>2, <1>3, <1>4, <2>1 DEF Dated
<1>5. ASSUME chat' = chat, chat.step = "computed" PROVE Dated(chat)'
  <2>1. Dated(chat) /\ chat.version \in Int /\ chat.at \in Int
    BY <1>5 DEF CacheInv, Cache!TypeOK
  <2> QED
    BY <1>1, <1>2, <1>3, <1>5, <2>1 DEF Dated
<1> QED
  BY <1>1, <1>2, <1>3, <1>4, <1>5

\* A handler that clears the cache leaves everything typed.
LEMMA ClearedTyped ==
    ASSUME CacheInv, cache' = Cache!Empty, written' = version', overlapped' \in BOOLEAN,
           version' \in 1..MaxVersion, replacedAt' \in Seq(0..MaxTime),
           open' \in SUBSET ShipOrders, log' \in [ShipOrders -> Nat],
           UNCHANGED <<clock, chat, answer>>
    PROVE  Cache!TypeOK'
<1>1. {Cache!Empty, answer} \subseteq Entries
  BY CacheConstants DEF CacheInv, Cache!TypeOK, Cache!Empty, Entries
<1>2. chat \in ChatStates /\ clock \in 0..MaxTime
  BY DEF CacheInv, Cache!TypeOK, ChatStates
<1>3. {cache', answer'} \subseteq Entries /\ chat' \in ChatStates /\ clock' \in 0..MaxTime
  BY <1>1, <1>2
<1> QED
  BY <1>3 DEF Cache!TypeOK, Entries, ChatStates

\* What the list shows now is dated.
LEMMA NowIsDated ==
    ASSUME CacheInv
    PROVE  /\ Dated(Cache!Computed) /\ Cache!Computed # Cache!Empty
           /\ Cache!Computed \in Entries
  BY SMTT(60), CacheConstants DEF Entries, CacheInv, Cache!TypeOK, Cache!Computed, Cache!Empty, Dated

\* Every step of the cache keeps it.
LEMMA StepCache == CacheInv /\ [Cache!Next]_(Cache!cacheVars) => CacheInv'
<1> SUFFICES ASSUME CacheInv, [Cache!Next]_(Cache!cacheVars) PROVE CacheInv'
  OBVIOUS
<1> USE CacheConstants
<1>1. CASE UNCHANGED Cache!cacheVars
  BY <1>1 DEF CacheInv, Cache!TypeOK, Dated, Cache!cacheVars
<1>2. CASE Cache!Tick
  <2>1. Cache!TypeOK'
    BY SMTT(60), <1>2 DEF CacheInv, Cache!TypeOK, Cache!Tick
  <2>2. /\ clock \in Int /\ cache.at \in Int /\ chat.at \in Int
    BY DEF CacheInv, Cache!TypeOK
  <2> QED
    BY <1>2, <2>1, <2>2 DEF CacheInv, Cache!Tick, Dated
<1>3. CASE Cache!Read
  <2>1. /\ cache' = Cache!Entry /\ answer' = [Cache!Entry EXCEPT !.at = clock]
        /\ UNCHANGED <<open, log, version, replacedAt, clock, chat, written, overlapped>>
    BY <1>3 DEF Cache!Read
  <2>2. (Cache!Entry = cache /\ cache # Cache!Empty) \/ Cache!Entry = Cache!Computed
    BY DEF Cache!Entry, Cache!Hit
  <2>3. Dated(Cache!Entry) /\ Cache!Entry \in Entries
    BY <2>2, NowIsDated DEF Entries, CacheInv, Cache!TypeOK
  <2>4. Cache!TypeOK'
    BY <2>1, <2>3 DEF Entries, CacheInv, Cache!TypeOK
  <2>5. Dated(cache)' /\ (chat.step = "computed" => Dated(chat)')
    BY <2>1, <2>3 DEF CacheInv, Dated
  <2>6. ~overlapped => cache'.version >= written
    <3>1. CASE Cache!Entry = cache /\ cache # Cache!Empty
      BY <2>1, <3>1 DEF CacheInv
    <3>2. CASE Cache!Entry = Cache!Computed
      BY <2>1, <3>2 DEF CacheInv, Cache!TypeOK, Cache!Computed
    <3> QED
      BY <2>2, <3>1, <3>2
  <2> QED
    BY <2>1, <2>4, <2>5, <2>6 DEF CacheInv
<1>4. ASSUME NEW x \in ShipOrders, Cache!SapEvent(x) PROVE CacheInv'
  <2>1. /\ Cache!Changed /\ version' = version + 1
        /\ open' \in SUBSET ShipOrders
        /\ UNCHANGED <<log, cache, clock, chat, answer, written, overlapped>>
    BY <1>4 DEF Cache!SapEvent, Cache!Changed, CacheInv, Cache!TypeOK
  <2>2. Cache!TypeOK'
    BY <2>1, ChangeKeepsDates DEF CacheInv, Cache!TypeOK
  <2>3. written' <= version'
    BY SMTT(60), <2>1 DEF CacheInv, Cache!TypeOK
  <2> QED
    BY <2>1, <2>2, <2>3, ChangeKeepsDates DEF CacheInv
<1>5. ASSUME NEW x \in ShipOrders, Cache!MarkedWrite(x) PROVE CacheInv'
  <2>1. /\ Cache!Changed /\ Cache!Cleared
        /\ open' \in SUBSET ShipOrders
        /\ UNCHANGED <<log, clock, chat, answer>>
    BY <1>5 DEF Cache!MarkedWrite, CacheInv, Cache!TypeOK
  <2>2. /\ cache' = Cache!Empty /\ written' = version'
        /\ overlapped' \in BOOLEAN
        /\ ~overlapped' => chat.step # "computed"
    BY <2>1 DEF Cache!Cleared
  <2>3. Cache!TypeOK'
    <3>1. /\ version' \in 1..MaxVersion /\ replacedAt' \in Seq(0..MaxTime)
          /\ log' \in [ShipOrders -> Nat]
      BY <2>1, ChangeKeepsDates DEF CacheInv, Cache!TypeOK
    <3> QED
      BY <2>1, <2>2, <3>1, ClearedTyped
  <2>4. /\ written' <= version' /\ Len(replacedAt') = version' - 1
        /\ (chat.step = "computed" => Dated(chat)')
    BY <2>1, <2>2, ChangeKeepsDates
  <2>5. chat'.step = "missed" => chat'.at <= clock'
    BY <2>1 DEF CacheInv
  <2> QED
    BY <2>1, <2>2, <2>3, <2>4, <2>5 DEF CacheInv, Cache!Empty
<1>6. ASSUME NEW x \in ShipOrders, Cache!AddEvent(x) PROVE CacheInv'
  <2>1. /\ Cache!Cleared
        /\ UNCHANGED <<open, clock, chat, answer>>
        /\ log' \in [ShipOrders -> Nat]
        /\ Cache!Changed \/ UNCHANGED <<version, replacedAt>>
    <3>1. log \in [ShipOrders -> Nat] /\ log[x] \in Nat
      BY DEF CacheInv, Cache!TypeOK
    <3>2. [log EXCEPT ![x] = log[x] + 1] \in [ShipOrders -> Nat]
      BY <3>1
    <3>3. log' \in [ShipOrders -> Nat]
      BY <1>6, <3>1, <3>2 DEF Cache!AddEvent
    <3> QED
      BY <1>6, <3>3 DEF Cache!AddEvent
  <2>2. /\ cache' = Cache!Empty /\ written' = version'
        /\ overlapped' \in BOOLEAN
        /\ ~overlapped' => chat.step # "computed"
    BY <2>1 DEF Cache!Cleared
  <2>3. CASE Cache!Changed
    <3>1. Cache!TypeOK'
      <4>1. /\ version' \in 1..MaxVersion /\ replacedAt' \in Seq(0..MaxTime)
            /\ open' \in SUBSET ShipOrders
        BY <2>1, <2>3, ChangeKeepsDates DEF CacheInv, Cache!TypeOK
      <4> QED
        BY <2>1, <2>2, <4>1, ClearedTyped
    <3>2. /\ written' <= version' /\ Len(replacedAt') = version' - 1
          /\ (chat.step = "computed" => Dated(chat)')
      BY <2>1, <2>2, <2>3, ChangeKeepsDates
    <3> QED
      BY <2>1, <2>2, <3>1, <3>2 DEF CacheInv, Cache!Empty
  <2>4. CASE UNCHANGED <<version, replacedAt>>
    <3>1. Cache!TypeOK'
      <4>1. /\ version' \in 1..MaxVersion /\ replacedAt' \in Seq(0..MaxTime)
            /\ open' \in SUBSET ShipOrders
        BY <2>1, <2>4 DEF CacheInv, Cache!TypeOK
      <4> QED
        BY <2>1, <2>2, <4>1, ClearedTyped
    <3>2. written' <= version' /\ (chat.step = "computed" => Dated(chat)')
      BY <2>1, <2>2, <2>4 DEF CacheInv, Cache!TypeOK, Dated
    <3> QED
      BY <2>1, <2>2, <2>4, <3>1, <3>2 DEF CacheInv
  <2> QED
    BY <2>1, <2>3, <2>4
<1>7. CASE Cache!ChatAsks
  <2> DEFINE asked == [Cache!ChatIdle EXCEPT !.step = "missed", !.at = clock]
  <2>1. /\ UNCHANGED <<open, log, version, replacedAt, cache, clock, written, overlapped>>
        /\ chat' = chat \/ chat' = asked
        /\ answer' = answer \/ answer' = [cache EXCEPT !.at = clock]
    BY <1>7 DEF Cache!ChatAsks, Cache!Hit
  <2>2. asked.step = "missed" /\ asked.at = clock
    BY DEF Cache!ChatIdle
  <2>3. chat' \in ChatStates
    <3>1. chat \in ChatStates /\ Cache!ChatIdle \in ChatStates /\ clock \in 0..MaxTime
      BY CacheConstants DEF CacheInv, Cache!TypeOK, ChatStates, Cache!ChatIdle
    <3>2. asked \in ChatStates
      BY <3>1 DEF ChatStates
    <3> QED
      BY <2>1, <3>1, <3>2
  <2> HIDE DEF asked
  <2>4. answer' \in Entries
    BY <2>1 DEF CacheInv, Cache!TypeOK, Entries
  <2>5. Cache!TypeOK'
    BY <2>1, <2>3, <2>4 DEF CacheInv, Cache!TypeOK, Entries, ChatStates
  <2>6. /\ Dated(cache)' <=> Dated(cache)
        /\ chat' = chat => (Dated(chat)' <=> Dated(chat))
    BY <2>1 DEF Dated
  <2>7. clock <= clock
    BY DEF CacheInv, Cache!TypeOK
  <2>8. CASE chat' = chat
    BY <2>1, <2>5, <2>6, <2>8 DEF CacheInv
  <2>9. CASE chat' = asked
    BY <2>1, <2>2, <2>5, <2>6, <2>7, <2>9 DEF CacheInv
  <2> QED
    BY <2>1, <2>8, <2>9
<1>8. CASE Cache!ChatComputes
  <2>1. /\ UNCHANGED <<open, log, version, replacedAt, cache, clock, answer, written,
                   overlapped>>
        /\ chat.step = "missed"
        /\ chat' = [chat EXCEPT !.step = "computed", !.version = version, !.shown = open]
    BY <1>8 DEF Cache!ChatComputes
  <2>2. Cache!TypeOK'
    <3>1. /\ version \in 0..MaxVersion /\ open \in SUBSET ShipOrders
          /\ chat \in ChatStates
      BY SMTT(60) DEF CacheInv, Cache!TypeOK, ChatStates
    <3>2. chat' \in ChatStates
      BY <2>1, <3>1 DEF ChatStates
    <3> QED
      BY <2>1, <3>2 DEF CacheInv, Cache!TypeOK, ChatStates
  <2>3. Dated(chat)' /\ (Dated(cache)' <=> Dated(cache)) /\ chat'.version = version
    BY SMTT(60), <2>1 DEF Dated, CacheInv, Cache!TypeOK
  <2> QED
    BY <2>1, <2>2, <2>3 DEF CacheInv, Cache!TypeOK
<1>9. CASE Cache!ChatStores
  <2>1. /\ UNCHANGED <<open, log, version, replacedAt, clock, answer, written, overlapped>>
        /\ chat.step = "computed"
        /\ cache' = [at |-> chat.at, version |-> chat.version, shown |-> chat.shown]
        /\ chat' = Cache!ChatIdle
    BY <1>9 DEF Cache!ChatStores, Cache!Stamped
  <2>2. Cache!TypeOK'
    BY SMTT(60), <2>1 DEF CacheInv, Cache!TypeOK, Cache!ChatIdle
  <2>3. Dated(cache)' /\ chat'.step = "idle"
    BY <2>1 DEF Dated, CacheInv, Cache!ChatIdle
  <2> QED
    BY <2>1, <2>2, <2>3 DEF CacheInv
<1> QED
  BY <1>1, <1>2, <1>3, <1>4, <1>5, <1>6, <1>7, <1>8, <1>9 DEF Cache!Next

\* A hit is of the list as it is, or as it was less than TTL ago, whatever was
\* computed, invalidated and stored in between (_cache.cached, logistics._load).
THEOREM NothingStaleIsShown == Spec => []BoundedStaleness
<1>1. CacheInv => BoundedStaleness
  <2> SUFFICES ASSUME CacheInv, Cache!Hit
               PROVE  \/ cache.version = version
                      \/ replacedAt[cache.version] > clock - TTL
    BY DEF BoundedStaleness, Cache!BoundedStaleness
  <2>1. /\ cache # Cache!Empty /\ clock - cache.at < TTL
        /\ Dated(cache)
    BY DEF Cache!Hit, CacheInv
  <2>2. /\ cache.version \in 1..version /\ cache.at \in Int /\ clock \in Int /\ TTL \in Int
        /\ version \in Int /\ Len(replacedAt) = version - 1
        /\ replacedAt \in Seq(0..MaxTime)
    BY <2>1, CacheConstants DEF CacheInv, Cache!TypeOK, Dated
  <2>3. CASE cache.version < version
    <3>1. cache.version \in 1..Len(replacedAt)
      BY <2>2, <2>3
    <3>2. replacedAt[cache.version] \in 0..MaxTime
      BY <2>2, <3>1, ElementOfSeq
    <3> QED
      BY <2>1, <2>2, <2>3, <3>2 DEF Dated
  <2> QED
    BY <2>2, <2>3
<1> QED
  BY <1>1, CacheRuns, InitCache, StepCache, PTL DEF Cache!Spec

\* A hit after a handler's write shows it, unless a computation that began before
\* the write was stored after it (_cache.invalidate).
THEOREM WritersSeeTheirWrites == Spec => []ReadsOwnWrites
<1>1. CacheInv => ReadsOwnWrites
  BY DEF CacheInv, ReadsOwnWrites, Cache!ReadsOwnWrites, Cache!Hit
<1> QED
  BY <1>1, CacheRuns, InitCache, StepCache, PTL DEF Cache!Spec

-----------------------------------------------------------------------------
(* The risk register *)

\* A register, in memory or in risks.json: ids below the counter, one row of a
\* signal, nothing a person set that is not counted in edits.
Filed(table, next) ==
    /\ next \in 1..(MaxRows + 1)
    /\ \A r \in DOMAIN table :
          /\ r \in 1..(next - 1)
          /\ table[r] \in Risk!ManagedRisk
          /\ table[r].edit <= edits
          /\ table[r].key = Risk!Manual => ~table[r].live
    /\ \A r, q \in DOMAIN table :
          table[r].key = table[q].key /\ r # q => table[r].key = Risk!Manual

\* It has what the answers told clients of.
Keeps(table, answers) ==
    \A r \in DOMAIN answers : r \in DOMAIN table /\ table[r].edit >= answers[r]

\* The live rows are those of the keys.
LiveAre(table, keys) ==
    \A k : k \in keys <=> \E r \in DOMAIN table : table[r].live /\ table[r].key = k

\* Memory and file are both sound registers, memory with all that clients were told
\* of and the file with what they had been told of when it was last written; a seed
\* that has collected since the last change has today's signals.
RiskInv ==
    /\ Risk!TypeOK
    /\ Filed(rows, nextRow) /\ Keeps(rows, told)
    /\ Filed(riskFile.rows, riskFile.next) /\ Keeps(riskFile.rows, kept)
    /\ unsaved # Risk!NothingTold =>
          /\ unsaved.id \in DOMAIN rows
          /\ unsaved.edit >= 1 /\ rows[unsaved.id].edit >= unsaved.edit
    /\ \A s \in Risk!Seeders :
          /\ seeding[s].at <= shifts
          /\ seeding[s].step = "collected" /\ seeding[s].ok /\ seeding[s].at = shifts =>
                seeding[s].found = signals
    /\ lastSeed <= shifts
    /\ lastSeed = shifts => LiveAre(rows, signals)

\* The register counts as the library does.
LEMMA SameCardinality == ASSUME NEW S PROVE Risk!Cardinality(S) = Cardinality(S)
  BY DEF Risk!Cardinality, Cardinality

\* The new rows are numbered on from the counter, one for each key.
LEMMA NumberedIsOneToOne ==
    ASSUME nextRow \in Nat, NEW keys \in SUBSET Signals
    PROVE  /\ Cardinality(keys) \in Nat
           /\ DOMAIN Risk!Numbered(keys) = nextRow .. (nextRow + Cardinality(keys) - 1)
           /\ \A r \in DOMAIN Risk!Numbered(keys) : Risk!Numbered(keys)[r] \in keys
           /\ \A r, q \in DOMAIN Risk!Numbered(keys) :
                 Risk!Numbered(keys)[r] = Risk!Numbered(keys)[q] => r = q
           /\ \A k \in keys : \E r \in DOMAIN Risk!Numbered(keys) : Risk!Numbered(keys)[r] = k
<1> DEFINE n   == Cardinality(keys)
           ids == nextRow .. (nextRow + n - 1)
<1>1. IsFiniteSet(keys) /\ n \in Nat
  BY RiskConstants, FS_Subset, FS_CardinalityType
<1> HIDE DEF n
<1>2. IsFiniteSet(ids) /\ Cardinality(ids) = n
  BY <1>1, FS_Interval
<1>3. ExistsBijection(ids, keys)
  BY <1>1, <1>2, FS_SameCardinalityBij DEF n
<1>4. PICK f : f \in Risk!Bijection(ids, keys)
  BY <1>3 DEF ExistsBijection, Bijection, Injection, Surjection, IsInjective,
              Risk!Bijection, Risk!Injection, Risk!Surjection, Risk!IsInjective
<1>5. Risk!Numbered(keys) \in Risk!Bijection(ids, keys)
  <2>1. Risk!Numbered(keys) = CHOOSE g \in Risk!Bijection(ids, keys) : TRUE
    BY SameCardinality DEF Risk!Numbered, n
  <2> QED
    BY <1>4, <2>1
<1> HIDE DEF ids
<1>6. Risk!Numbered(keys) \in [ids -> keys]
  BY <1>5 DEF Risk!Bijection, Risk!Injection
<1>7. \A r, q \in ids : Risk!Numbered(keys)[r] = Risk!Numbered(keys)[q] => r = q
  BY <1>5 DEF Risk!Bijection, Risk!Injection, Risk!IsInjective
<1>8. \A k \in keys : \E r \in ids : Risk!Numbered(keys)[r] = k
  BY <1>5 DEF Risk!Bijection, Risk!Surjection
<1>9. ids = nextRow .. (nextRow + Cardinality(keys) - 1)
  BY DEF ids, n
<1> QED
  BY <1>1, <1>6, <1>7, <1>8, <1>9 DEF n

\* An empty register.
LEMMA InitRisk == Risk!Init => RiskInv
<1> SUFFICES ASSUME Risk!Init PROVE RiskInv
  OBVIOUS
<1>1. DOMAIN rows = {} /\ DOMAIN told = {} /\ DOMAIN riskFile.rows = {} /\ DOMAIN kept = {}
  BY DEF Risk!Init, Risk!NoRisks
<1>2. Risk!TypeOK
  BY <1>1, RiskConstants
     DEF Risk!Init, Risk!TypeOK, Risk!Register, Risk!Range, Risk!NoSeed, Risk!NothingTold,
         Risk!None, Risk!Seeders, Risk!NoRisks, Risk!Partly
<1> QED
  BY <1>1, <1>2, RiskConstants
     DEF Risk!Init, RiskInv, Filed, Keeps, LiveAre, Risk!NoSeed, Risk!Seeders, Risk!NoRisks,
         Risk!Partly

\* What seed_project makes of a row that is there: what people set stays, only
\* live may change.
StaysLive(row, seed) ==
    (row.key \in seed.found) \/ (row.live /\ ~Risk!Vanished(row, seed))

AfterSeed(row, seed) == [row EXCEPT !.live = StaysLive(row, seed)]

\* The whole of Apply: old rows, and one new row for each signal without one.
Seeded(seed, new, fresh) ==
    /\ DOMAIN rows' = DOMAIN rows \cup DOMAIN new
    /\ \A r \in DOMAIN new : /\ r \notin DOMAIN rows /\ new[r] \in fresh
                             /\ rows'[r] = [key |-> new[r], live |-> TRUE, edit |-> 0]
    /\ \A r \in DOMAIN rows : rows'[r] = AfterSeed(rows[r], seed)
    /\ \A r, q \in DOMAIN new : new[r] = new[q] => r = q
    /\ \A k \in fresh : \E r \in DOMAIN new : new[r] = k
    /\ DOMAIN new = nextRow..(nextRow' - 1)
    /\ nextRow' \in nextRow..(MaxRows + 1)
    /\ fresh = {k \in seed.found : \A r \in DOMAIN rows : rows[r].key # k}

\* Apply is that.
LEMMA ApplySeeds ==
    ASSUME RiskInv, NEW s \in Risk!Seeders, Risk!Apply(s)
    PROVE  \E new, fresh : Seeded(seeding[s], new, fresh)
<1> DEFINE seed  == seeding[s]
           fresh == {k \in seed.found : Risk!Known(k) = {}}
           new   == Risk!Numbered(fresh)
<1>1. /\ fresh \in SUBSET Signals /\ nextRow \in 1..(MaxRows + 1) /\ nextRow \in Nat
      /\ \A r \in DOMAIN rows : r \in 1..(nextRow - 1) /\ rows[r] \in Risk!ManagedRisk
      /\ MaxRows \in Nat
  BY RiskConstants DEF RiskInv, Risk!TypeOK, Filed
<1>2. /\ nextRow + Cardinality(fresh) <= MaxRows + 1
      /\ nextRow' = nextRow + Cardinality(fresh)
      /\ rows' = [r \in DOMAIN rows \cup DOMAIN new |->
             IF r \in DOMAIN new
             THEN [key |-> new[r], live |-> TRUE, edit |-> 0]
             ELSE IF rows[r].key \in seed.found THEN Risk!SeenAgain(rows[r])
             ELSE IF Risk!Vanished(rows[r], seed) THEN [rows[r] EXCEPT !.live = FALSE]
             ELSE rows[r]]
  BY SameCardinality DEF Risk!Apply
<1>3. /\ Cardinality(fresh) \in Nat
      /\ DOMAIN new = nextRow .. (nextRow + Cardinality(fresh) - 1)
      /\ \A r \in DOMAIN new : new[r] \in fresh
      /\ \A r, q \in DOMAIN new : new[r] = new[q] => r = q
      /\ \A k \in fresh : \E r \in DOMAIN new : new[r] = k
  BY <1>1, NumberedIsOneToOne
<1>4. fresh = {k \in seed.found : \A r \in DOMAIN rows : rows[r].key # k}
  BY DEF Risk!Known, Risk!RowOf
<1> HIDE DEF new, fresh
<1>5. \A r \in DOMAIN new : r \notin DOMAIN rows
  BY <1>1, <1>3
<1>6. ASSUME NEW r \in DOMAIN rows PROVE rows'[r] = AfterSeed(rows[r], seed)
  <2>1. r \notin DOMAIN new /\ rows[r] \in Risk!ManagedRisk
    BY <1>1, <1>5
  <2>2. rows'[r] = IF rows[r].key \in seed.found THEN Risk!SeenAgain(rows[r])
                   ELSE IF Risk!Vanished(rows[r], seed) THEN [rows[r] EXCEPT !.live = FALSE]
                   ELSE rows[r]
    BY <1>2, <2>1
  <2>3. \A row \in Risk!ManagedRisk : row.live \in BOOLEAN /\ [row EXCEPT !.live = row.live] = row
    BY DEF Risk!ManagedRisk
  <2>4. CASE rows[r].key \in seed.found
    BY <2>2, <2>4 DEF AfterSeed, StaysLive, Risk!SeenAgain
  <2>5. CASE rows[r].key \notin seed.found /\ Risk!Vanished(rows[r], seed)
    BY <2>2, <2>5 DEF AfterSeed, StaysLive
  <2>6. CASE rows[r].key \notin seed.found /\ ~Risk!Vanished(rows[r], seed)
    <3>1. StaysLive(rows[r], seed) = rows[r].live
      BY <2>1, <2>3, <2>6 DEF StaysLive
    <3> QED
      BY <2>1, <2>2, <2>3, <2>6, <3>1 DEF AfterSeed
  <2> QED
    BY <2>4, <2>5, <2>6
<1>7. /\ DOMAIN rows' = DOMAIN rows \cup DOMAIN new
      /\ \A r \in DOMAIN new : rows'[r] = [key |-> new[r], live |-> TRUE, edit |-> 0]
  BY <1>2
<1>8. DOMAIN new = nextRow..(nextRow' - 1) /\ nextRow' \in nextRow..(MaxRows + 1)
  BY <1>1, <1>2, <1>3
<1> QED
  BY ZenonT(60), <1>3, <1>4, <1>5, <1>6, <1>7, <1>8 DEF Seeded

\* A row after a seed is a row, of the same signal and with the same edits.
LEMMA RowAfterSeed ==
    ASSUME NEW row \in Risk!ManagedRisk, NEW seed
    PROVE  /\ AfterSeed(row, seed) \in Risk!ManagedRisk
           /\ AfterSeed(row, seed).key = row.key
           /\ AfterSeed(row, seed).edit = row.edit
           /\ AfterSeed(row, seed).live = StaysLive(row, seed)
<1> DEFINE live == StaysLive(row, seed)
<1>1. live \in BOOLEAN
  BY DEF StaysLive
<1>2. AfterSeed(row, seed) = [row EXCEPT !.live = live]
  BY DEF AfterSeed
<1> HIDE DEF live
<1>3. /\ [row EXCEPT !.live = live] \in Risk!ManagedRisk
      /\ [row EXCEPT !.live = live].key = row.key
      /\ [row EXCEPT !.live = live].edit = row.edit
      /\ [row EXCEPT !.live = live].live = live
  BY <1>1 DEF Risk!ManagedRisk
<1> QED
  BY <1>2, <1>3 DEF live

\* A seed that has collected is of the register's signals, and of today's if
\* nothing has changed since.
LEMMA ApplyFiles ==
    ASSUME RiskInv, NEW s \in Risk!Seeders, NEW new, NEW fresh,
           Seeded(seeding[s], new, fresh), UNCHANGED <<told, edits, signals, shifts>>
    PROVE  /\ Filed(rows, nextRow)'
           /\ Keeps(rows, told)'
           /\ DOMAIN rows \subseteq DOMAIN rows'
           /\ \A r \in DOMAIN rows : rows'[r].edit = rows[r].edit
<1> DEFINE seed == seeding[s]
<1>1. /\ nextRow \in 1..(MaxRows + 1) /\ MaxRows \in Nat /\ edits \in Nat
      /\ MaxEdits \in Nat
      /\ \A r \in DOMAIN rows : /\ r \in 1..(nextRow - 1)
                                /\ rows[r] \in Risk!ManagedRisk
                                /\ rows[r].edit <= edits
                                /\ rows[r].key = Risk!Manual => ~rows[r].live
      /\ seed.found \in SUBSET Signals /\ Risk!Manual \notin Signals
  BY RiskConstants DEF RiskInv, Filed, Risk!TypeOK
<1>2. /\ DOMAIN rows' = DOMAIN rows \cup DOMAIN new
      /\ \A r \in DOMAIN new : /\ r \notin DOMAIN rows /\ new[r] \in fresh
                               /\ rows'[r] = [key |-> new[r], live |-> TRUE, edit |-> 0]
      /\ \A r \in DOMAIN rows : rows'[r] = AfterSeed(rows[r], seed)
      /\ \A r, q \in DOMAIN new : new[r] = new[q] => r = q
      /\ DOMAIN new = nextRow..(nextRow' - 1)
      /\ nextRow' \in nextRow..(MaxRows + 1)
      /\ fresh = {k \in seed.found : \A r \in DOMAIN rows : rows[r].key # k}
  BY DEF Seeded
<1>3. \A r \in DOMAIN new : /\ rows'[r].key = new[r] /\ rows'[r].live /\ rows'[r].edit = 0
                            /\ new[r] \in Signals /\ new[r] # Risk!Manual
                            /\ \A q \in DOMAIN rows : rows[q].key # new[r]
                            /\ rows'[r] \in Risk!ManagedRisk
  <2> TAKE r \in DOMAIN new
  <2>1. rows'[r] = [key |-> new[r], live |-> TRUE, edit |-> 0] /\ new[r] \in fresh
    BY <1>2
  <2>2. new[r] \in Signals /\ new[r] # Risk!Manual /\ \A q \in DOMAIN rows : rows[q].key # new[r]
    BY <1>1, <1>2, <2>1
  <2> QED
    BY <1>1, <2>1, <2>2 DEF Risk!ManagedRisk
<1>4. \A r \in DOMAIN rows : /\ rows'[r].key = rows[r].key /\ rows'[r].edit = rows[r].edit
                             /\ rows'[r] \in Risk!ManagedRisk
                             /\ rows'[r].key = Risk!Manual => ~rows'[r].live
  <2> TAKE r \in DOMAIN rows
  <2>1. rows[r] \in Risk!ManagedRisk /\ rows'[r] = AfterSeed(rows[r], seed)
    BY <1>1, <1>2
  <2>2. /\ rows'[r] \in Risk!ManagedRisk /\ rows'[r].key = rows[r].key
        /\ rows'[r].edit = rows[r].edit
        /\ rows'[r].live = StaysLive(rows[r], seed)
    BY <2>1, RowAfterSeed
  <2>3. StaysLive(rows[r], seed) => rows[r].key # Risk!Manual
    BY <1>1 DEF StaysLive
  <2> QED
    BY <2>2, <2>3
<1>5. \A r, q \in DOMAIN rows' :
         rows'[r].key = rows'[q].key /\ r # q => rows'[r].key = Risk!Manual
  <2> SUFFICES ASSUME NEW r \in DOMAIN rows', NEW q \in DOMAIN rows',
                      rows'[r].key = rows'[q].key, r # q
               PROVE  rows'[r].key = Risk!Manual
    OBVIOUS
  <2>1. CASE r \in DOMAIN new
    BY <1>2, <1>3, <1>4, <2>1
  <2>2. CASE q \in DOMAIN new /\ r \notin DOMAIN new
    BY <1>2, <1>3, <1>4, <2>2
  <2>3. CASE r \in DOMAIN rows /\ q \in DOMAIN rows
    BY <1>4, <2>3 DEF RiskInv, Filed
  <2> QED
    BY <1>2, <2>1, <2>2, <2>3
<1>6. \A r \in DOMAIN rows' : r \in 1..(nextRow' - 1) /\ rows'[r].edit <= edits
  <2> TAKE r \in DOMAIN rows'
  <2>1. CASE r \in DOMAIN rows
    BY <1>1, <1>2, <1>4, <2>1
  <2>2. CASE r \in DOMAIN new
    BY <1>1, <1>2, <1>3, <2>2
  <2> QED
    BY <1>2, <2>1, <2>2
<1>7. Filed(rows, nextRow)'
  <2>1. nextRow' \in 1..(MaxRows + 1) /\ edits' = edits
    BY <1>1, <1>2
  <2>2. \A r \in DOMAIN rows' : /\ rows'[r] \in Risk!ManagedRisk
                                /\ rows'[r].key = Risk!Manual => ~rows'[r].live
    BY <1>2, <1>3, <1>4
  <2>3. Risk!ManagedRisk' = Risk!ManagedRisk /\ Risk!Manual' = Risk!Manual
    BY DEF Risk!ManagedRisk, Risk!Manual
  <2> QED
    BY <1>5, <1>6, <2>1, <2>2, <2>3 DEF Filed
<1>8. Keeps(rows, told)'
  BY <1>2, <1>4 DEF RiskInv, Keeps
<1> QED
  BY <1>2, <1>4, <1>7, <1>8

\* When it had collected all of today's signals, the live rows are now those.
LEMMA ApplyMatches ==
    ASSUME RiskInv, NEW s \in Risk!Seeders, NEW new, NEW fresh,
           Seeded(seeding[s], new, fresh), seeding[s].ok, seeding[s].found = signals
    PROVE  LiveAre(rows', signals)
<1> DEFINE seed == seeding[s]
<1>1. /\ \A r \in DOMAIN rows : /\ rows[r] \in Risk!ManagedRisk
                                /\ rows[r].key = Risk!Manual => ~rows[r].live
      /\ Risk!Manual \notin signals
  BY RiskConstants DEF RiskInv, Filed, Risk!TypeOK
<1>2. /\ DOMAIN rows' = DOMAIN rows \cup DOMAIN new
      /\ \A r \in DOMAIN new : /\ new[r] \in fresh
                               /\ rows'[r] = [key |-> new[r], live |-> TRUE, edit |-> 0]
      /\ \A r \in DOMAIN rows : rows'[r] = AfterSeed(rows[r], seed)
      /\ \A k \in fresh : \E r \in DOMAIN new : new[r] = k
      /\ fresh = {k \in seed.found : \A r \in DOMAIN rows : rows[r].key # k}
  BY DEF Seeded
<1>3. \A r \in DOMAIN rows : rows'[r].key = rows[r].key /\ (rows'[r].live <=> rows[r].key \in signals)
  <2> TAKE r \in DOMAIN rows
  <2>1. /\ rows'[r].key = rows[r].key
        /\ rows'[r].live = StaysLive(rows[r], seed)
    BY <1>1, <1>2, RowAfterSeed
  <2>2. StaysLive(rows[r], seed) <=> rows[r].key \in signals
    BY <1>1 DEF StaysLive, Risk!Vanished
  <2> QED
    BY <2>1, <2>2
<1>4. \A r \in DOMAIN new : rows'[r].key = new[r] /\ rows'[r].live /\ new[r] \in signals
  BY <1>2
<1>5. ASSUME NEW k \in signals PROVE \E r \in DOMAIN rows' : rows'[r].live /\ rows'[r].key = k
  <2>1. CASE k \in fresh
    BY <1>2, <1>4, <2>1
  <2>2. CASE k \notin fresh
    <3>1. PICK r \in DOMAIN rows : rows[r].key = k
      BY <1>2, <2>2
    <3> QED
      BY <1>2, <1>3, <3>1
  <2> QED
    BY <2>1, <2>2
<1>6. ASSUME NEW k, NEW r \in DOMAIN rows', rows'[r].live /\ rows'[r].key = k PROVE k \in signals
  BY <1>2, <1>3, <1>4, <1>6
<1> QED
  BY <1>5, <1>6 DEF LiveAre

\* Apply does the above, and no more.
LEMMA ApplyKeeps ==
    ASSUME RiskInv, NEW s \in Risk!Seeders, Risk!Apply(s)
    PROVE  RiskInv'
<1>1. PICK new, fresh : Seeded(seeding[s], new, fresh)
  BY ApplySeeds
<1>2. /\ seeding[s].step = "collected"
      /\ seeding' = [seeding EXCEPT ![s] = [Risk!NoSeed EXCEPT !.step = "applied"]]
      /\ lastSeed' = IF seeding[s].ok THEN seeding[s].at ELSE Risk!Partly
      /\ UNCHANGED <<signals, shifts, unsaved, told, kept, edits, riskFile, riskFaults>>
  BY ZenonT(60) DEF Risk!Apply
<1>3. /\ Filed(rows, nextRow)' /\ Keeps(rows, told)'
      /\ DOMAIN rows \subseteq DOMAIN rows'
      /\ \A r \in DOMAIN rows : rows'[r].edit = rows[r].edit
  BY <1>1, <1>2, ApplyFiles
<1>4. seeding[s] \in [step : {"idle", "collected", "applied"}, found : SUBSET Signals,
                      ok : BOOLEAN, at : 0..MaxShifts]
  BY DEF RiskInv, Risk!TypeOK
<1>5. /\ seeding' \in [Risk!Seeders -> [step : {"idle", "collected", "applied"},
                                        found : SUBSET Signals, ok : BOOLEAN,
                                        at : 0..MaxShifts]]
      /\ seeding'[s].step = "applied" /\ seeding'[s].at = 0
      /\ \A t \in Risk!Seeders : t # s => seeding'[t] = seeding[t]
  <2> DEFINE done == [Risk!NoSeed EXCEPT !.step = "applied"]
             T == [step : {"idle", "collected", "applied"}, found : SUBSET Signals,
                   ok : BOOLEAN, at : 0..MaxShifts]
  <2>1. done \in T /\ done.step = "applied" /\ done.at = 0
    <3>1. Risk!NoSeed \in T /\ Risk!NoSeed.at = 0
      BY RiskConstants DEF Risk!NoSeed
    <3> QED
      BY <3>1
  <2>2. seeding \in [Risk!Seeders -> T] /\ seeding' = [seeding EXCEPT ![s] = done]
    BY <1>2 DEF RiskInv, Risk!TypeOK
  <2> HIDE DEF done, T
  <2>3. /\ seeding' \in [Risk!Seeders -> T] /\ seeding'[s] = done
        /\ \A t \in Risk!Seeders : t # s => seeding'[t] = seeding[t]
    BY <2>1, <2>2
  <2> QED
    BY <2>1, <2>3 DEF T
<1>6. Risk!TypeOK'
  <2>1. Risk!Register(rows)' /\ nextRow' \in 1..(MaxRows + 1)
    BY <1>3, RiskConstants DEF Filed, Risk!Register, Risk!Range, Risk!ManagedRisk
  <2>2. lastSeed' \in (0..MaxShifts) \cup {Risk!Partly}
    BY <1>2, <1>4 DEF Risk!Partly
  <2> QED
    BY <1>2, <1>5, <2>1, <2>2 DEF RiskInv, Risk!TypeOK, Risk!Register, Risk!ManagedRisk
<1>7. Filed(riskFile.rows, riskFile.next)' /\ Keeps(riskFile.rows, kept)'
  BY <1>2 DEF RiskInv, Filed, Keeps, Risk!ManagedRisk, Risk!Manual
<1>8. unsaved' # Risk!NothingTold =>
         /\ unsaved'.id \in DOMAIN rows'
         /\ unsaved'.edit >= 1 /\ rows'[unsaved'.id].edit >= unsaved'.edit
  BY <1>2, <1>3 DEF RiskInv
<1>9. \A t \in Risk!Seeders :
         /\ seeding'[t].at <= shifts'
         /\ seeding'[t].step = "collected" /\ seeding'[t].ok /\ seeding'[t].at = shifts' =>
               seeding'[t].found = signals'
  BY <1>2, <1>5, RiskConstants DEF RiskInv, Risk!TypeOK
<1>10. /\ lastSeed' <= shifts'
       /\ lastSeed' = shifts' => LiveAre(rows', signals)
  <2>1. /\ lastSeed' = IF seeding[s].ok THEN seeding[s].at ELSE -1
        /\ shifts \in 0..MaxShifts /\ seeding[s].ok \in BOOLEAN
    BY <1>2, <1>4 DEF RiskInv, Risk!TypeOK, Risk!Partly
  <2>2. seeding[s].at <= shifts
    BY DEF RiskInv
  <2>3. ASSUME seeding[s].ok, seeding[s].at = shifts PROVE LiveAre(rows', signals)
    <3>1. seeding[s].found = signals
      BY <1>2, <2>3 DEF RiskInv
    <3> QED
      BY <1>1, <2>3, <3>1, ApplyMatches
  <2> QED
    BY <1>2, <2>1, <2>2, <2>3, RiskConstants
<1>11. LiveAre(rows', signals) => LiveAre(rows, signals)'
  BY <1>2 DEF LiveAre
<1>12. Risk!Seeders' = Risk!Seeders /\ Risk!NothingTold' = Risk!NothingTold
  BY DEF Risk!Seeders, Risk!NothingTold, Risk!None
<1> QED
  BY <1>3, <1>6, <1>7, <1>8, <1>9, <1>10, <1>11, <1>12 DEF RiskInv

\* A seeder that collects reads what the collectors find now.
LEMMA CollectKeeps ==
    ASSUME RiskInv, NEW s \in Risk!Seeders, Risk!Collect(s)
    PROVE  RiskInv'
<1> DEFINE State == [step : {"idle", "collected", "applied"}, found : SUBSET Signals,
                     ok : BOOLEAN, at : 0..MaxShifts]
<1>1. UNCHANGED <<rows, nextRow, signals, shifts, unsaved, told, kept, edits, riskFile,
                  lastSeed, riskFaults>>
  BY DEF Risk!Collect
<1>2. PICK found, ok :
         /\ found \in SUBSET Signals /\ ok \in BOOLEAN
         /\ ok => found = signals
         /\ seeding' = [seeding EXCEPT ![s] =
              [step |-> "collected", found |-> found, ok |-> ok, at |-> shifts]]
  <2>1. signals \in SUBSET Signals
    BY DEF RiskInv, Risk!TypeOK
  <2>2. CASE seeding' = [seeding EXCEPT ![s] =
               [step |-> "collected", found |-> signals, ok |-> TRUE, at |-> shifts]]
    BY <2>1, <2>2
  <2>3. ASSUME NEW part \in SUBSET (signals \cap Commercial),
               seeding' = [seeding EXCEPT ![s] =
                 [step |-> "collected", found |-> (signals \ Commercial) \cup part,
                  ok |-> FALSE, at |-> shifts]]
        PROVE  \E found, ok :
                  /\ found \in SUBSET Signals /\ ok \in BOOLEAN
                  /\ ok => found = signals
                  /\ seeding' = [seeding EXCEPT ![s] =
                       [step |-> "collected", found |-> found, ok |-> ok, at |-> shifts]]
    <3>1. (signals \ Commercial) \cup part \in SUBSET Signals
      BY <2>1, <2>3
    <3> QED
      BY <2>3, <3>1
  <2> QED
    BY <2>2, <2>3 DEF Risk!Collect
<1>3. shifts \in 0..MaxShifts /\ shifts <= shifts /\ seeding \in [Risk!Seeders -> State]
  BY RiskConstants DEF RiskInv, Risk!TypeOK
<1>4. /\ seeding' \in [Risk!Seeders -> State]
      /\ seeding'[s].at = shifts /\ seeding'[s].ok = ok /\ seeding'[s].found = found
      /\ \A t \in Risk!Seeders : t # s => seeding'[t] = seeding[t]
  <2>1. [step |-> "collected", found |-> found, ok |-> ok, at |-> shifts] \in State
    BY <1>2, <1>3
  <2> QED
    BY <1>2, <1>3, <2>1
<1>5. Risk!TypeOK'
  BY <1>1, <1>4 DEF RiskInv, Risk!TypeOK, Risk!Register, Risk!ManagedRisk
<1>6. \A t \in Risk!Seeders :
         /\ seeding'[t].at <= shifts'
         /\ seeding'[t].step = "collected" /\ seeding'[t].ok /\ seeding'[t].at = shifts' =>
               seeding'[t].found = signals'
  BY <1>1, <1>2, <1>3, <1>4 DEF RiskInv
<1>7. /\ Filed(rows, nextRow)' /\ Keeps(rows, told)'
      /\ Filed(riskFile.rows, riskFile.next)' /\ Keeps(riskFile.rows, kept)'
      /\ (LiveAre(rows, signals)' <=> LiveAre(rows, signals))
  BY <1>1 DEF RiskInv, Filed, Keeps, LiveAre, Risk!ManagedRisk, Risk!Manual
<1>8. Risk!Seeders' = Risk!Seeders /\ Risk!NothingTold' = Risk!NothingTold
  BY DEF Risk!Seeders, Risk!NothingTold, Risk!None
<1> QED
  BY <1>1, <1>5, <1>6, <1>7, <1>8 DEF RiskInv

\* A flush, whether it goes through or not, leaves a sound file with what the
\* answers it keeps told.
LEMMA FlushFiles ==
    ASSUME RiskInv, Risk!Flushed, UNCHANGED <<rows, nextRow, edits>>,
           Keeps(rows, told'),
           DOMAIN told' \subseteq 1..MaxRows, Risk!Range(told') \subseteq 1..MaxEdits
    PROVE  /\ Filed(riskFile.rows, riskFile.next)' /\ Keeps(riskFile.rows, kept)'
           /\ Risk!Register(riskFile.rows)' /\ riskFile'.next \in 1..(MaxRows + 1)
           /\ DOMAIN kept' \subseteq 1..MaxRows /\ Risk!Range(kept') \subseteq 1..MaxEdits
           /\ riskFaults' \in 0..MaxRiskFaults
<1>1. /\ MaxRows \in Nat /\ MaxRiskFaults \in Nat /\ riskFaults \in 0..MaxRiskFaults
      /\ nextRow \in 1..(MaxRows + 1) /\ riskFile.next \in 1..(MaxRows + 1)
      /\ Risk!Register(rows) /\ Risk!Register(riskFile.rows)
      /\ DOMAIN kept \subseteq 1..MaxRows /\ Risk!Range(kept) \subseteq 1..MaxEdits
      /\ Filed(rows, nextRow) /\ Filed(riskFile.rows, riskFile.next)
      /\ Keeps(riskFile.rows, kept)
  BY RiskConstants DEF RiskInv, Risk!TypeOK
<1>2. CASE Risk!Written
  <2>1. riskFile'.rows = rows /\ riskFile'.next = nextRow /\ kept' = told' /\ riskFaults' = riskFaults
    BY <1>2 DEF Risk!Written
  <2>2. Keeps(rows, kept')
    BY <2>1 DEF Keeps
  <2> QED
    BY <1>1, <2>1, <2>2 DEF Filed, Keeps, Risk!Register, Risk!Range, Risk!ManagedRisk, Risk!Manual
<1>3. CASE Risk!WriteFails
  <2>1. riskFaults' \in 0..MaxRiskFaults
    BY <1>1, <1>3 DEF Risk!WriteFails
  <2>2. CASE UNCHANGED <<riskFile, kept>>
    BY <1>1, <2>1, <2>2 DEF Filed, Keeps, Risk!Register, Risk!Range, Risk!ManagedRisk, Risk!Manual
  <2>3. CASE riskFile' = Risk!NoRisks /\ kept' = <<>>
    <3>1. DOMAIN riskFile'.rows = {} /\ riskFile'.next = 1 /\ DOMAIN kept' = {}
      BY <2>3 DEF Risk!NoRisks
    <3>2. Risk!Range(kept') = {} /\ Risk!Range(riskFile'.rows) = {}
      BY <3>1 DEF Risk!Range
    <3> QED
      BY <1>1, <2>1, <3>1, <3>2 DEF Filed, Keeps, Risk!Register, Risk!Range
  <2> QED
    BY <1>3, <2>2, <2>3 DEF Risk!WriteFails
<1> QED
  BY <1>2, <1>3 DEF Risk!Flushed

\* Whoever flushes without an answer to give leaves memory alone.
LEMMA OtherFlushKeeps ==
    ASSUME RiskInv, Risk!Flushed,
           UNCHANGED <<rows, nextRow, signals, shifts, unsaved, told, edits, lastSeed>>,
           seeding' = seeding \/ \E s \in Risk!Seeders :
                                    seeding' = [seeding EXCEPT ![s] = Risk!NoSeed]
    PROVE  RiskInv'
<1>1. /\ Filed(riskFile.rows, riskFile.next)' /\ Keeps(riskFile.rows, kept)'
      /\ Risk!Register(riskFile.rows)' /\ riskFile'.next \in 1..(MaxRows + 1)
      /\ DOMAIN kept' \subseteq 1..MaxRows /\ Risk!Range(kept') \subseteq 1..MaxEdits
      /\ riskFaults' \in 0..MaxRiskFaults
  <2>1. Keeps(rows, told')
    BY DEF RiskInv, Keeps
  <2>2. DOMAIN told' \subseteq 1..MaxRows /\ Risk!Range(told') \subseteq 1..MaxEdits
    BY DEF RiskInv, Risk!TypeOK, Risk!Range
  <2> QED
    BY <2>1, <2>2, FlushFiles
<1>2. Risk!NoSeed \in [step : {"idle", "collected", "applied"}, found : SUBSET Signals,
                       ok : BOOLEAN, at : 0..MaxShifts]
  BY RiskConstants DEF Risk!NoSeed
<1>3. /\ seeding' \in [Risk!Seeders -> [step : {"idle", "collected", "applied"},
                                        found : SUBSET Signals, ok : BOOLEAN,
                                        at : 0..MaxShifts]]
      /\ \A t \in Risk!Seeders : seeding'[t] \in {seeding[t], Risk!NoSeed}
  BY <1>2 DEF RiskInv, Risk!TypeOK
<1>4. Risk!TypeOK'
  <2>1. Risk!Register(rows)'
    BY DEF RiskInv, Risk!TypeOK, Risk!Register, Risk!Range, Risk!ManagedRisk
  <2> QED
    BY <1>1, <1>3, <2>1 DEF RiskInv, Risk!TypeOK, Risk!Range, Risk!Partly, Risk!Seeders
<1>5. \A t \in Risk!Seeders :
         /\ seeding'[t].at <= shifts'
         /\ seeding'[t].step = "collected" /\ seeding'[t].ok /\ seeding'[t].at = shifts' =>
               seeding'[t].found = signals'
  <2>1. 0 <= shifts
    BY RiskConstants DEF RiskInv, Risk!TypeOK
  <2> QED
    BY <1>3, <2>1 DEF RiskInv, Risk!NoSeed
<1>6. /\ Filed(rows, nextRow)' /\ Keeps(rows, told)'
      /\ (LiveAre(rows, signals)' <=> LiveAre(rows, signals))
  BY DEF RiskInv, Filed, Keeps, LiveAre, Risk!ManagedRisk, Risk!Manual
<1>7. Risk!Seeders' = Risk!Seeders /\ Risk!NothingTold' = Risk!NothingTold
  BY DEF Risk!Seeders, Risk!NothingTold, Risk!None
<1> QED
  BY <1>1, <1>4, <1>5, <1>6, <1>7 DEF RiskInv

\* When the signals change, what was collected before is of an earlier day.
LEMMA ShiftKeeps ==
    ASSUME RiskInv, NEW S \in SUBSET Signals, Risk!Shift(S)
    PROVE  RiskInv'
<1>1. /\ shifts < MaxShifts /\ signals' = S /\ shifts' = shifts + 1
      /\ UNCHANGED <<rows, nextRow, seeding, unsaved, told, kept, edits, riskFile, lastSeed,
                  riskFaults>>
  BY DEF Risk!Shift
<1>2. shifts \in Nat /\ shifts' \in 0..MaxShifts /\ lastSeed \in Int
      /\ \A s \in Risk!Seeders : seeding[s].at \in Nat
  BY <1>1, RiskConstants DEF RiskInv, Risk!TypeOK, Risk!Partly
<1>3. Risk!TypeOK'
  BY <1>1, <1>2 DEF RiskInv, Risk!TypeOK, Risk!Register, Risk!ManagedRisk
<1>4. \A s \in Risk!Seeders : seeding'[s].at <= shifts' /\ seeding'[s].at # shifts'
  BY <1>1, <1>2 DEF RiskInv
<1>5. lastSeed' <= shifts' /\ lastSeed' # shifts'
  BY SMTT(60), <1>1, <1>2 DEF RiskInv
<1>6. /\ Filed(rows, nextRow)' /\ Keeps(rows, told)'
      /\ Filed(riskFile.rows, riskFile.next)' /\ Keeps(riskFile.rows, kept)'
  BY <1>1 DEF RiskInv, Filed, Keeps, Risk!ManagedRisk, Risk!Manual
<1>7. Risk!Seeders' = Risk!Seeders /\ Risk!NothingTold' = Risk!NothingTold
  BY DEF Risk!Seeders, Risk!NothingTold, Risk!None
<1> QED
  BY <1>1, <1>3, <1>4, <1>5, <1>6, <1>7 DEF RiskInv

\* A person's new row has the next number and is not live.
LEMMA CreateKeeps ==
    ASSUME RiskInv, Risk!CreateManual
    PROVE  RiskInv'
<1> DEFINE row == [key |-> Risk!Manual, live |-> FALSE, edit |-> edits + 1]
<1>1. /\ nextRow <= MaxRows /\ edits < MaxEdits
      /\ rows' = [r \in DOMAIN rows \cup {nextRow} |-> IF r = nextRow THEN row ELSE rows[r]]
      /\ nextRow' = nextRow + 1 /\ edits' = edits + 1
      /\ unsaved' = [id |-> nextRow, edit |-> edits + 1]
      /\ UNCHANGED <<signals, shifts, seeding, told, kept, riskFile, lastSeed, riskFaults>>
  BY DEF Risk!CreateManual
<1>2. /\ edits \in Nat /\ MaxEdits \in Nat /\ edits' \in 1..MaxEdits
      /\ nextRow \in 1..MaxRows /\ nextRow' \in 1..(MaxRows + 1)
  BY <1>1, RiskConstants DEF RiskInv, Risk!TypeOK
<1>3. /\ row \in Risk!ManagedRisk /\ row.key = Risk!Manual /\ row.live = FALSE
      /\ row.edit = edits + 1
  BY <1>2, <1>1 DEF Risk!ManagedRisk
<1> HIDE DEF row
<1>4. /\ DOMAIN rows' = DOMAIN rows \cup {nextRow}
      /\ rows'[nextRow] = row
      /\ \A r \in DOMAIN rows : r # nextRow /\ rows'[r] = rows[r]
  <2>1. \A r \in DOMAIN rows : r \in 1..(nextRow - 1)
    BY DEF RiskInv, Filed
  <2> QED
    BY <1>1, <1>2, <2>1
<1>5. /\ \A r \in DOMAIN rows : /\ r \in 1..(nextRow - 1) /\ rows[r] \in Risk!ManagedRisk
                                /\ rows[r].edit <= edits /\ rows[r].edit \in Int
                                /\ rows[r].key = Risk!Manual => ~rows[r].live
      /\ \A r, q \in DOMAIN rows :
            rows[r].key = rows[q].key /\ r # q => rows[r].key = Risk!Manual
  BY DEF RiskInv, Filed, Risk!ManagedRisk
<1>6. Filed(rows, nextRow)'
  <2>1. \A r \in DOMAIN rows' : /\ r \in 1..(nextRow' - 1)
                                /\ rows'[r].edit <= edits'
    BY <1>1, <1>2, <1>3, <1>4, <1>5
  <2>2. \A r \in DOMAIN rows' : /\ rows'[r] \in Risk!ManagedRisk
                                /\ rows'[r].key = Risk!Manual => ~rows'[r].live
    BY <1>3, <1>4, <1>5
  <2>3. \A r, q \in DOMAIN rows' :
            rows'[r].key = rows'[q].key /\ r # q => rows'[r].key = Risk!Manual
    BY <1>3, <1>4, <1>5
  <2>4. Risk!ManagedRisk' = Risk!ManagedRisk /\ Risk!Manual' = Risk!Manual
    BY DEF Risk!ManagedRisk, Risk!Manual
  <2> QED
    BY <1>2, <2>1, <2>2, <2>3, <2>4 DEF Filed
<1>7. Filed(riskFile.rows, riskFile.next)'
  <2>1. \A r \in DOMAIN riskFile.rows :
           riskFile.rows[r].edit <= edits /\ riskFile.rows[r].edit \in Int
    BY DEF RiskInv, Filed, Risk!ManagedRisk
  <2>2. \A r \in DOMAIN riskFile.rows : riskFile.rows[r].edit <= edits'
    BY <1>1, <1>2, <2>1
  <2> QED
    BY <1>1, <2>2 DEF RiskInv, Filed, Risk!ManagedRisk, Risk!Manual
<1>8. Keeps(rows, told)' /\ Keeps(riskFile.rows, kept)'
  BY <1>1, <1>4 DEF RiskInv, Keeps
<1>9. /\ unsaved'.id \in DOMAIN rows'
      /\ unsaved'.edit >= 1 /\ rows'[unsaved'.id].edit >= unsaved'.edit
  BY <1>1, <1>2, <1>3, <1>4
<1>10. LiveAre(rows, signals) => LiveAre(rows, signals)'
  <2>1. \A r \in DOMAIN rows' : rows'[r].live => r \in DOMAIN rows
    BY <1>3, <1>4
  <2> QED
    BY <1>1, <1>4, <2>1 DEF LiveAre
<1>11. Risk!TypeOK'
  <2>1. Risk!Register(rows)'
    BY <1>6, RiskConstants DEF Filed, Risk!Register, Risk!Range, Risk!ManagedRisk
  <2>2. unsaved' \in [id : 0..MaxRows, edit : 0..MaxEdits]
    BY <1>1, <1>2
  <2> QED
    BY <1>1, <1>2, <2>1, <2>2 DEF RiskInv, Risk!TypeOK, Risk!Register, Risk!ManagedRisk
<1>12. Risk!Seeders' = Risk!Seeders
  BY DEF Risk!Seeders
<1> QED
  BY <1>1, <1>6, <1>7, <1>8, <1>9, <1>10, <1>11, <1>12 DEF RiskInv

\* A person's edit is later than all before it.
LEMMA PatchKeeps ==
    ASSUME RiskInv, NEW id \in 1..MaxRows, Risk!PatchRisk(id)
    PROVE  RiskInv'
<1>1. /\ id \in DOMAIN rows /\ edits < MaxEdits
      /\ rows' = [rows EXCEPT ![id].edit = edits + 1]
      /\ edits' = edits + 1
      /\ unsaved' = [id |-> id, edit |-> edits + 1]
      /\ UNCHANGED <<nextRow, signals, shifts, seeding, told, kept, riskFile, lastSeed,
                  riskFaults>>
  BY DEF Risk!PatchRisk
<1>2. /\ edits \in Nat /\ MaxEdits \in Nat /\ edits' \in 1..MaxEdits /\ MaxRows \in Nat
      /\ nextRow \in 1..(MaxRows + 1)
  BY <1>1, RiskConstants DEF RiskInv, Risk!TypeOK
<1>3. /\ \A r \in DOMAIN rows : /\ r \in 1..(nextRow - 1) /\ rows[r] \in Risk!ManagedRisk
                                /\ rows[r].edit <= edits /\ rows[r].edit \in Int
                                /\ rows[r].key = Risk!Manual => ~rows[r].live
      /\ \A r, q \in DOMAIN rows :
            rows[r].key = rows[q].key /\ r # q => rows[r].key = Risk!Manual
  BY DEF RiskInv, Filed, Risk!ManagedRisk
<1>4. /\ DOMAIN rows' = DOMAIN rows
      /\ rows'[id] = [rows[id] EXCEPT !.edit = edits + 1]
      /\ \A r \in DOMAIN rows : r # id => rows'[r] = rows[r]
  BY <1>1
<1>5. /\ rows'[id] \in Risk!ManagedRisk /\ rows'[id].edit = edits + 1
      /\ rows'[id].key = rows[id].key /\ rows'[id].live = rows[id].live
  <2>1. ASSUME NEW row \in Risk!ManagedRisk, NEW e \in 0..MaxEdits
        PROVE  /\ [row EXCEPT !.edit = e] \in Risk!ManagedRisk
               /\ [row EXCEPT !.edit = e].edit = e
               /\ [row EXCEPT !.edit = e].key = row.key
               /\ [row EXCEPT !.edit = e].live = row.live
    BY DEF Risk!ManagedRisk
  <2>2. edits + 1 \in 0..MaxEdits /\ rows[id] \in Risk!ManagedRisk
    BY <1>1, <1>2, <1>3
  <2> QED
    BY <1>4, <2>1, <2>2
<1>6. \A r \in DOMAIN rows : /\ rows'[r].key = rows[r].key /\ rows'[r].live = rows[r].live
                             /\ rows'[r] \in Risk!ManagedRisk
                             /\ rows'[r].edit >= rows[r].edit /\ rows'[r].edit <= edits'
  BY <1>1, <1>2, <1>3, <1>4, <1>5
<1>7. Filed(rows, nextRow)'
  <2>1. Risk!ManagedRisk' = Risk!ManagedRisk /\ Risk!Manual' = Risk!Manual
    BY DEF Risk!ManagedRisk, Risk!Manual
  <2>2. \A r, q \in DOMAIN rows' :
            rows'[r].key = rows'[q].key /\ r # q => rows'[r].key = Risk!Manual
    BY <1>3, <1>4, <1>6
  <2>3. \A r \in DOMAIN rows' : rows'[r].key = Risk!Manual => ~rows'[r].live
    BY <1>3, <1>4, <1>6
  <2> QED
    BY <1>1, <1>2, <1>3, <1>4, <1>6, <2>1, <2>2, <2>3 DEF Filed
<1>8. Filed(riskFile.rows, riskFile.next)'
  <2>1. \A r \in DOMAIN riskFile.rows :
           riskFile.rows[r].edit <= edits /\ riskFile.rows[r].edit \in Int
    BY DEF RiskInv, Filed, Risk!ManagedRisk
  <2>2. \A r \in DOMAIN riskFile.rows : riskFile.rows[r].edit <= edits'
    BY <1>1, <1>2, <2>1
  <2> QED
    BY <1>1, <2>2 DEF RiskInv, Filed, Risk!ManagedRisk, Risk!Manual
<1>9. Keeps(rows, told)' /\ Keeps(riskFile.rows, kept)'
  <2>1. Keeps(riskFile.rows, kept)'
    BY <1>1 DEF RiskInv, Keeps
  <2>2. \A r \in DOMAIN told : r \in DOMAIN rows /\ told[r] \in Int /\ rows[r].edit >= told[r]
    BY DEF RiskInv, Keeps, Risk!TypeOK, Risk!Range
  <2>3. \A r \in DOMAIN rows : rows'[r].edit \in Int
    BY <1>6 DEF Risk!ManagedRisk
  <2>4. \A r \in DOMAIN told : r \in DOMAIN rows' /\ rows'[r].edit >= told[r]
    BY <1>3, <1>4, <1>6, <2>2, <2>3
  <2> QED
    BY <1>1, <2>1, <2>4 DEF Keeps
<1>10. /\ unsaved'.id \in DOMAIN rows'
       /\ unsaved'.edit >= 1 /\ rows'[unsaved'.id].edit >= unsaved'.edit
  BY <1>1, <1>2, <1>4, <1>5
<1>11. LiveAre(rows, signals) => LiveAre(rows, signals)'
  BY <1>1, <1>4, <1>6 DEF LiveAre
<1>12. Risk!TypeOK'
  <2>1. Risk!Register(rows)'
    BY <1>7, RiskConstants DEF Filed, Risk!Register, Risk!Range, Risk!ManagedRisk
  <2>2. unsaved' \in [id : 0..MaxRows, edit : 0..MaxEdits]
    BY <1>1, <1>2
  <2> QED
    BY <1>1, <1>2, <2>1, <2>2 DEF RiskInv, Risk!TypeOK, Risk!Register, Risk!ManagedRisk
<1>13. Risk!Seeders' = Risk!Seeders
  BY DEF Risk!Seeders
<1> QED
  BY <1>1, <1>7, <1>8, <1>9, <1>10, <1>11, <1>12, <1>13 DEF RiskInv

\* The answer: what the client is told is on its row, and in the file if that was
\* written.
LEMMA PeopleFlushKeeps ==
    ASSUME RiskInv, Risk!PeopleFlush
    PROVE  RiskInv'
<1>1. /\ unsaved # Risk!NothingTold
      /\ Risk!Flushed
      /\ told' = [r \in DOMAIN told \cup {unsaved.id} |->
                    IF r = unsaved.id THEN unsaved.edit ELSE told[r]]
      /\ unsaved' = Risk!NothingTold
      /\ UNCHANGED <<rows, nextRow, signals, shifts, seeding, edits, lastSeed>>
  BY DEF Risk!PeopleFlush
<1>2. /\ unsaved.id \in DOMAIN rows /\ unsaved.edit \in 1..MaxEdits
      /\ rows[unsaved.id].edit >= unsaved.edit
  BY <1>1, RiskConstants DEF RiskInv, Risk!TypeOK
<1>3. Keeps(rows, told')
  BY <1>1, <1>2 DEF RiskInv, Keeps
<1>4. DOMAIN told' \subseteq 1..MaxRows /\ Risk!Range(told') \subseteq 1..MaxEdits
  BY ZenonT(60), <1>1, <1>2 DEF RiskInv, Risk!TypeOK, Risk!Register, Risk!Range
<1>5. /\ Filed(riskFile.rows, riskFile.next)' /\ Keeps(riskFile.rows, kept)'
      /\ Risk!Register(riskFile.rows)' /\ riskFile'.next \in 1..(MaxRows + 1)
      /\ DOMAIN kept' \subseteq 1..MaxRows /\ Risk!Range(kept') \subseteq 1..MaxEdits
      /\ riskFaults' \in 0..MaxRiskFaults
  BY <1>1, <1>3, <1>4, FlushFiles
<1>6. /\ Filed(rows, nextRow)' /\ Keeps(rows, told)'
      /\ (LiveAre(rows, signals)' <=> LiveAre(rows, signals))
  BY <1>1, <1>3 DEF RiskInv, Filed, Keeps, LiveAre, Risk!ManagedRisk, Risk!Manual
<1>7. Risk!TypeOK'
  <2>1. unsaved' \in [id : 0..MaxRows, edit : 0..MaxEdits]
    BY <1>1, RiskConstants DEF Risk!NothingTold, Risk!None
  <2>2. Risk!Register(rows)'
    BY <1>1 DEF RiskInv, Risk!TypeOK, Risk!Register, Risk!Range, Risk!ManagedRisk
  <2>3. seeding' = seeding /\ lastSeed' = lastSeed /\ nextRow' = nextRow
    BY <1>1
  <2> QED
    BY <1>1, <1>4, <1>5, <2>1, <2>2, <2>3
       DEF RiskInv, Risk!TypeOK, Risk!Range, Risk!Partly, Risk!Seeders
<1>8. Risk!Seeders' = Risk!Seeders /\ Risk!NothingTold' = Risk!NothingTold
  BY DEF Risk!Seeders, Risk!NothingTold, Risk!None
<1> QED
  BY <1>1, <1>5, <1>6, <1>7, <1>8 DEF RiskInv

\* After a restart memory is the file, or empty.
LEMMA RestartKeeps ==
    ASSUME RiskInv, Risk!Crash
    PROVE  RiskInv'
<1>1. /\ riskFaults < MaxRiskFaults /\ riskFaults' = riskFaults + 1
      /\ seeding' = [s \in Risk!Seeders |-> Risk!NoSeed]
      /\ unsaved' = Risk!NothingTold
      /\ lastSeed' = -1
      /\ UNCHANGED <<signals, shifts, edits>>
  BY DEF Risk!Crash, Risk!Partly
<1>2. shifts \in Nat /\ MaxShifts \in Nat /\ MaxEdits \in Nat /\ MaxRows \in Nat
      /\ riskFaults' \in 0..MaxRiskFaults
  BY <1>1, RiskConstants DEF RiskInv, Risk!TypeOK
<1>3. /\ Filed(rows, nextRow)' /\ Keeps(rows, told)'
      /\ Filed(riskFile.rows, riskFile.next)' /\ Keeps(riskFile.rows, kept)'
      /\ Risk!Register(rows)' /\ Risk!Register(riskFile.rows)'
      /\ {nextRow, riskFile.next}' \subseteq 1..(MaxRows + 1)
      /\ DOMAIN told' \subseteq 1..MaxRows /\ Risk!Range(told') \subseteq 1..MaxEdits
      /\ DOMAIN kept' \subseteq 1..MaxRows /\ Risk!Range(kept') \subseteq 1..MaxEdits
  <2>1. /\ riskFile.next \in 1..(MaxRows + 1) /\ Risk!Register(riskFile.rows)
        /\ DOMAIN kept \subseteq 1..MaxRows /\ Risk!Range(kept) \subseteq 1..MaxEdits
        /\ Filed(riskFile.rows, riskFile.next) /\ Keeps(riskFile.rows, kept)
    BY DEF RiskInv, Risk!TypeOK
  <2>2. CASE Risk!Loaded
    <3>1. /\ rows' = riskFile.rows /\ nextRow' = riskFile.next /\ told' = kept
          /\ riskFile' = riskFile /\ kept' = kept
      BY <2>2 DEF Risk!Loaded, Risk!SavedCounter
    <3> QED
      BY <1>1, <2>1, <3>1
         DEF Filed, Keeps, Risk!Register, Risk!Range, Risk!ManagedRisk, Risk!Manual
  <2>3. CASE Risk!NotLoaded
    <3>1. /\ DOMAIN rows' = {} /\ nextRow' = 1 /\ DOMAIN told' = {} /\ DOMAIN kept' = {}
          /\ riskFile' = riskFile \/ (riskFile'.next = 1 /\ DOMAIN riskFile'.rows = {})
      BY <2>3 DEF Risk!NotLoaded, Risk!NoRisks
    <3>2. /\ Risk!Range(rows') = {} /\ Risk!Range(told') = {} /\ Risk!Range(kept') = {}
          /\ DOMAIN riskFile'.rows = {} => Risk!Range(riskFile'.rows) = {}
      BY <3>1 DEF Risk!Range
    <3>3. Filed(rows, nextRow)' /\ Keeps(rows, told)' /\ Keeps(riskFile.rows, kept)'
      BY <1>2, <3>1 DEF Filed, Keeps
    <3>4. /\ Filed(riskFile.rows, riskFile.next)' /\ Risk!Register(riskFile.rows)'
          /\ riskFile'.next \in 1..(MaxRows + 1)
      <4>1. CASE riskFile' = riskFile
        BY <1>1, <2>1, <4>1
           DEF Filed, Risk!Register, Risk!Range, Risk!ManagedRisk, Risk!Manual
      <4>2. CASE riskFile'.next = 1 /\ DOMAIN riskFile'.rows = {}
        BY <1>2, <3>2, <4>2 DEF Filed, Risk!Register
      <4> QED
        BY <3>1, <4>1, <4>2
    <3> QED
      BY <1>2, <3>1, <3>2, <3>3, <3>4 DEF Risk!Register
  <2> QED
    BY <2>2, <2>3 DEF Risk!Crash
<1>4. /\ \A s \in Risk!Seeders : seeding'[s].at = 0 /\ seeding'[s].step = "idle"
      /\ lastSeed' = -1
  BY <1>1 DEF Risk!NoSeed
<1>5. Risk!TypeOK'
  <2>1. /\ seeding' \in [Risk!Seeders -> [step : {"idle", "collected", "applied"},
                                          found : SUBSET Signals, ok : BOOLEAN,
                                          at : 0..MaxShifts]]
        /\ lastSeed' \in (0..MaxShifts) \cup {Risk!Partly}
        /\ unsaved' \in [id : 0..MaxRows, edit : 0..MaxEdits]
    BY <1>1, <1>2 DEF Risk!NoSeed, Risk!NothingTold, Risk!None, Risk!Partly
  <2> QED
    BY <1>1, <1>2, <1>3, <2>1 DEF RiskInv, Risk!TypeOK, Risk!Range, Risk!Partly, Risk!Seeders
<1>6. Risk!Seeders' = Risk!Seeders /\ Risk!NothingTold' = Risk!NothingTold
  BY DEF Risk!Seeders, Risk!NothingTold, Risk!None
<1> QED
  BY <1>1, <1>2, <1>3, <1>4, <1>5, <1>6 DEF RiskInv

\* Every step of the register keeps its invariant.
LEMMA StepRisk == RiskInv /\ [Risk!Next]_(Risk!riskVars) => RiskInv'
<1> SUFFICES ASSUME RiskInv, [Risk!Next]_(Risk!riskVars) PROVE RiskInv'
  OBVIOUS
<1>1. CASE UNCHANGED Risk!riskVars
  BY <1>1 DEF RiskInv, Filed, Keeps, LiveAre, Risk!TypeOK, Risk!Register, Risk!ManagedRisk,
              Risk!Manual, Risk!Seeders, Risk!NothingTold, Risk!None, Risk!Partly, Risk!riskVars
<1>2. CASE Risk!OtherFlush \/ \E s \in Risk!Seeders : Risk!SeedFlush(s)
  BY <1>2, OtherFlushKeeps DEF Risk!OtherFlush, Risk!SeedFlush
<1> QED
  BY <1>1, <1>2, ShiftKeeps, CollectKeeps, ApplyKeeps, CreateKeeps, PatchKeeps,
     PeopleFlushKeeps, RestartKeeps DEF Risk!Next

\* Two seeders never make two rows of one signal (risk_register._upsert_live).
THEOREM OneRowHolds == Spec => []OneRowPerSignal
<1>1. RiskInv => OneRowPerSignal
  BY DEF RiskInv, Filed, OneRowPerSignal, Risk!OneRowPerSignal
<1> QED
  BY <1>1, RiskRuns, InitRisk, StepRisk, PTL DEF Risk!Spec

\* An answered edit stays (patch_risk, create_risk and their flush): while the
\* process runs whatever flushes fail, and after a crash as far as a flush had gone
\* through since.
THEOREM EditsSurvive == Spec => []AnsweredEditsSurvive
<1>1. RiskInv => AnsweredEditsSurvive
  BY DEF RiskInv, Keeps, AnsweredEditsSurvive, Risk!AnsweredEditsSurvive
<1> QED
  BY <1>1, RiskRuns, InitRisk, StepRisk, PTL DEF Risk!Spec

\* The live rows are today's signals (seed_project).
THEOREM LiveRowsAreSignals == Spec => []LiveMatchesSignals
<1>1. RiskInv => LiveMatchesSignals
  <2> SUFFICES ASSUME RiskInv, lastSeed = shifts
               PROVE  {rows[r].key : r \in {q \in DOMAIN rows : rows[q].live}} = signals
    BY DEF LiveMatchesSignals, Risk!LiveMatchesSignals
  <2>1. LiveAre(rows, signals)
    BY DEF RiskInv
  <2> QED
    BY <2>1 DEF LiveAre
<1> QED
  BY <1>1, RiskRuns, InitRisk, StepRisk, PTL DEF Risk!Spec

-----------------------------------------------------------------------------
(* The SAP link *)

\* A number we hold is of a document SAP created for the same entity.
Numbered ==
    /\ DOMAIN docs \subseteq 1..MaxDocs
    /\ \A x \in Sap!Entities :
          ent[x].doc # Sap!None => /\ ent[x].doc \in DOMAIN docs
                                   /\ docs[ent[x].doc].ref = x

\* An event is about a document there is, names no other entity than the
\* document's, is of a kind such a document raises, and only a receipt has a
\* quantity.
Reported ==
    \A n \in DOMAIN sent :
        LET e == sent[n] IN
        /\ e.doc \in DOMAIN docs
        /\ e.ref \in {Sap!None, docs[e.doc].ref}
        /\ e.qty > 0 <=> e.kind = "gr_posted"
        /\ e.kind \in IF docs[e.doc].ref \in SapPrs THEN Sap!PrKinds ELSE Sap!PoKinds

\* The quantities SAP posted, by document, and reported, by event.
PostedQty == [d \in DOMAIN docs |-> docs[d].posted]
SentQty   == [n \in DOMAIN sent |-> sent[n].qty]

DocsOf(x) == {d \in DOMAIN docs : docs[d].ref = x}
Coming(x) == {n \in inbox : docs[sent[n].doc].ref = x}

Balanced ==
    \A x \in SapPos :
        ent[x].gr - resynced[x] + Total(SentQty, Coming(x)) + missed[x]
            = Total(PostedQty, DocsOf(x)) + repeated[x]

SapInv == Sap!TypeOK /\ Numbered /\ Reported /\ Balanced

\* SAP's documents and events, as sequences.
SapDocument == [ref : Sap!Entities, posted : Nat]

LEMMA SapSequences ==
    ASSUME Sap!TypeOK
    PROVE  /\ docs \in Seq(SapDocument) /\ Len(docs) \in Nat /\ DOMAIN docs = 1..Len(docs)
           /\ sent \in Seq(Sap!SapEvent) /\ Len(sent) \in Nat /\ DOMAIN sent = 1..Len(sent)
           /\ \A d \in DOMAIN docs : docs[d] \in SapDocument
           /\ \A n \in DOMAIN sent : sent[n] \in Sap!SapEvent
<1>1. docs \in Seq(SapDocument) /\ sent \in Seq(Sap!SapEvent)
  BY DEF Sap!TypeOK, SapDocument
<1>2. /\ Len(docs) \in Nat /\ DOMAIN docs = 1..Len(docs)
      /\ Len(sent) \in Nat /\ DOMAIN sent = 1..Len(sent)
  BY <1>1
<1>3. \A d \in 1..Len(docs) : docs[d] \in SapDocument
  BY <1>1, ElementOfSeq
<1>4. \A n \in 1..Len(sent) : sent[n] \in Sap!SapEvent
  BY ZenonT(60), <1>1, ElementOfSeq
<1> QED
  BY <1>1, <1>2, <1>3, <1>4

\* A sequence with an element more.
LEMMA Appended ==
    ASSUME NEW S, NEW s \in Seq(S), NEW e \in S
    PROVE  /\ Append(s, e) \in Seq(S) /\ Append(s, e) # s
           /\ Len(s) + 1 \notin DOMAIN s /\ Append(s, e)[Len(s) + 1] = e
           /\ DOMAIN Append(s, e) = DOMAIN s \cup {Len(s) + 1}
           /\ \A i \in DOMAIN s : Append(s, e)[i] = s[i]
<1> DEFINE t == Append(s, e)
<1>1. /\ t \in Seq(S) /\ Len(t) = Len(s) + 1 /\ t[Len(s) + 1] = e
      /\ \A i \in 1..Len(s) : t[i] = s[i]
  BY AppendProperties
<1>2. Len(s) \in Nat /\ DOMAIN s = 1..Len(s)
  OBVIOUS
<1> HIDE DEF t
<1>3. DOMAIN t = 1..Len(t)
  BY <1>1
<1>4. t # s
  BY <1>1, <1>2
<1>5. DOMAIN t = DOMAIN s \cup {Len(s) + 1}
  BY <1>1, <1>2, <1>3
<1>6. Len(s) + 1 \notin DOMAIN s
  BY <1>2
<1> QED
  BY ZenonT(60), <1>1, <1>2, <1>4, <1>5, <1>6 DEF t

LEMMA InitSap == Sap!Init => SapInv
<1> SUFFICES ASSUME Sap!Init PROVE SapInv
  OBVIOUS
<1> USE DEF Sap!Init
<1>1. Sap!TypeOK
  BY EmptySeq, SapConstants DEF Sap!TypeOK, Sap!None, Sap!SapStatuses, Sap!SapEvent
<1>2. Numbered /\ Reported
  BY DEF Numbered, Reported, Sap!None
<1>3. Balanced
  <2>1. \A x \in SapPos : DocsOf(x) = {} /\ Coming(x) = {}
    BY DEF DocsOf, Coming
  <2>2. Total(SentQty, {}) = 0 /\ Total(PostedQty, {}) = 0
    BY TotalEmpty
  <2>3. \A x \in SapPos : ent[x].gr = 0 /\ resynced[x] = 0 /\ missed[x] = 0
                             /\ repeated[x] = 0
    BY DEF Sap!Entities
  <2>4. ASSUME NEW x \in SapPos
        PROVE  ent[x].gr - resynced[x] + Total(SentQty, Coming(x)) + missed[x]
                  = Total(PostedQty, DocsOf(x)) + repeated[x]
    <3>1. Total(SentQty, Coming(x)) = 0 /\ Total(PostedQty, DocsOf(x)) = 0
      BY <2>1, <2>2
    <3> QED
      BY <2>3, <3>1
  <2> QED
    BY <2>4 DEF Balanced
<1> QED
  BY <1>1, <1>2, <1>3 DEF SapInv

\* The two sets summed over are finite, the quantities natural numbers.
LEMMA SapFinite ==
    ASSUME SapInv, NEW x \in SapPos
    PROVE  /\ IsFiniteSet(DocsOf(x)) /\ \A d \in DocsOf(x) : PostedQty[d] \in Nat
           /\ IsFiniteSet(Coming(x)) /\ \A n \in Coming(x) : SentQty[n] \in Nat
           /\ Total(PostedQty, DocsOf(x)) \in Nat /\ Total(SentQty, Coming(x)) \in Nat
<1>1. DOMAIN docs = 1..Len(docs) /\ DOMAIN sent = 1..Len(sent)
      /\ Len(docs) \in Nat /\ Len(sent) \in Nat
  BY SapSequences DEF SapInv
<1>2. IsFiniteSet(1..Len(docs)) /\ IsFiniteSet(1..Len(sent))
  BY <1>1, FS_Interval
<1>3. IsFiniteSet(DocsOf(x)) /\ IsFiniteSet(Coming(x))
  <2>1. DocsOf(x) \subseteq 1..Len(docs) /\ Coming(x) \subseteq 1..Len(sent)
    BY <1>1 DEF DocsOf, Coming, SapInv, Sap!TypeOK
  <2> QED
    BY <1>2, <2>1, FS_Subset
<1>4. \A d \in DOMAIN docs : PostedQty[d] \in Nat
  BY SapSequences DEF PostedQty, SapDocument, SapInv
<1>5. \A n \in DOMAIN sent : SentQty[n] \in Nat
  BY SapSequences DEF SentQty, Sap!SapEvent, SapInv
<1>6. DocsOf(x) \subseteq DOMAIN docs /\ Coming(x) \subseteq DOMAIN sent
  BY DEF DocsOf, Coming, SapInv, Sap!TypeOK
<1> QED
  BY <1>3, <1>4, <1>5, <1>6, TotalType

\* A document more has nothing posted yet.
LEMMA SubmitKeeps ==
    ASSUME SapInv, NEW y \in Sap!Entities, Sap!Submit(y)
    PROVE  SapInv'
<1>1. PICK reply \in {Sap!Failed, Sap!Synced(Sap!NextDoc), Sap!Raised(y)} :
        /\ Sap!SapAnswers(y, reply)
        /\ ent' = [ent EXCEPT ![y].sap = reply.sap, ![y].doc = reply.doc]
  BY DEF Sap!Submit
<1>2. UNCHANGED <<sent, inbox, resynced, missed, repeated>>
  BY DEF Sap!Submit
<1> DEFINE n == Len(docs) + 1
           new == [ref |-> y, posted |-> 0]
<1>3. docs \in Seq(SapDocument) /\ Len(docs) \in Nat /\ DOMAIN docs = 1..Len(docs)
  BY SapSequences DEF SapInv
<1>20. new \in SapDocument
  BY DEF SapDocument
<1>4. \/ /\ n <= MaxDocs /\ docs' = Append(docs, new)
      \/ reply \in {Sap!Failed, Sap!Raised(y)} /\ docs' = docs
  BY <1>1 DEF Sap!SapAnswers, Sap!NextDoc
<1>5. reply.sap \in Sap!SapStatuses
      /\ (\/ reply.doc \in {0, ent[y].doc}
          \/ reply.doc = n /\ n <= MaxDocs /\ docs' = Append(docs, new))
  BY <1>1, <1>4 DEF Sap!Failed, Sap!Synced, Sap!Raised, Sap!NextDoc, Sap!SapStatuses, Sap!None
<1>21. /\ Append(docs, new) \in Seq(SapDocument) /\ Append(docs, new) # docs
       /\ n \notin DOMAIN docs /\ Append(docs, new)[n] = new
       /\ DOMAIN Append(docs, new) = DOMAIN docs \cup {n}
       /\ \A d \in DOMAIN docs : Append(docs, new)[d] = docs[d]
  <2>1. PICK e \in SapDocument : e = new
    BY ZenonT(60), <1>20
  <2> HIDE DEF new, n
  <2>2. Append(docs, e) \in Seq(SapDocument) /\ Append(docs, e) # docs
    BY <1>3, Appended
  <2>3. n \notin DOMAIN docs /\ Append(docs, e)[n] = e
    BY <1>3, Appended DEF n
  <2>4. DOMAIN Append(docs, e) = DOMAIN docs \cup {n}
    BY <1>3, Appended DEF n
  <2>5. \A d \in DOMAIN docs : Append(docs, e)[d] = docs[d]
    BY SMTT(60), <1>3, Appended
  <2> QED
    BY <2>1, <2>2, <2>3, <2>4, <2>5
<1>6. /\ docs' \in Seq(SapDocument)
      /\ \A d \in DOMAIN docs : d \in DOMAIN docs' /\ docs'[d] = docs[d]
      /\ \A d \in DOMAIN docs' : d \in DOMAIN docs \/ (d = n /\ docs'[d] = new)
      /\ docs' # docs => docs'[n] = new /\ n \in DOMAIN docs'
  <2> HIDE DEF new, n
  <2> QED
    BY <1>3, <1>4, <1>21
<1>7. Sap!TypeOK'
  <2>1. /\ ent \in [Sap!Entities -> [status : {"draft", "rfq_issued", "released", "delivered"},
                        sap : Sap!SapStatuses, doc : 0..MaxDocs, gr : Nat]]
        /\ sent \in Seq(Sap!SapEvent)
        /\ inbox \subseteq DOMAIN sent
        /\ resynced \in [SapPos -> Nat]
        /\ missed \in [SapPos -> Nat]
        /\ repeated \in [SapPos -> Nat]
    BY DEF SapInv, Sap!TypeOK
  <2>2. reply.doc \in 0..MaxDocs
    <3>1. ent[y].doc \in 0..MaxDocs
      BY <2>1
    <3> QED
      BY <1>3, <1>5, <3>1, SapConstants
  <2>3. ent' \in [Sap!Entities -> [status : {"draft", "rfq_issued", "released", "delivered"},
                        sap : Sap!SapStatuses, doc : 0..MaxDocs, gr : Nat]]
    BY ZenonT(60), <1>1, <1>5, <2>1, <2>2
  <2> QED
    BY <1>2, <1>6, <2>1, <2>3 DEF Sap!TypeOK, SapDocument
<1>8. Numbered'
  <2>0. DOMAIN docs' \subseteq 1..MaxDocs
    <3>1. n <= MaxDocs => n \in 1..MaxDocs
      BY <1>3, SapConstants
    <3> HIDE DEF n, new
    <3> QED
      BY <1>4, <1>21, <3>1 DEF SapInv, Numbered
  <2> SUFFICES ASSUME NEW x \in Sap!Entities, ent'[x].doc # 0
               PROVE  ent'[x].doc \in DOMAIN docs' /\ docs'[ent'[x].doc].ref = x
    BY <2>0 DEF Numbered, Sap!None
  <2>1. ent \in [Sap!Entities -> [status : {"draft", "rfq_issued", "released", "delivered"},
                        sap : Sap!SapStatuses, doc : 0..MaxDocs, gr : Nat]]
    BY DEF SapInv, Sap!TypeOK
  <2>2. CASE x = y
    <3>1. ent'[x].doc = reply.doc
      BY <1>1, <2>1, <2>2
    <3>2. CASE reply.doc = ent[y].doc
      BY <1>6, <2>2, <3>1, <3>2 DEF SapInv, Numbered, Sap!None
    <3>3. CASE reply.doc = n /\ docs' = Append(docs, new)
      <4>1. docs' # docs
        BY <1>21, <3>3
      <4> QED
        BY <1>6, <2>2, <3>1, <3>3, <4>1
    <3> QED
      BY <1>5, <3>1, <3>2, <3>3
  <2>3. CASE x # y
    <3>1. ent'[x] = ent[x]
      BY <1>1, <2>1, <2>3
    <3> QED
      BY <1>6, <3>1 DEF SapInv, Numbered, Sap!None
  <2> QED
    BY <2>2, <2>3
<1>9. Reported'
  <2> HIDE DEF new, n
  <2> QED
    BY <1>2, <1>6 DEF SapInv, Reported
<1>10. Balanced'
  <2> SUFFICES ASSUME NEW x \in SapPos
               PROVE  (ent[x].gr - resynced[x] + Total(SentQty, Coming(x)) + missed[x]
                          = Total(PostedQty, DocsOf(x)) + repeated[x])'
    BY DEF Balanced
  <2>1. ent'[x].gr = ent[x].gr
    BY <1>1 DEF SapInv, Sap!TypeOK, Sap!Entities
  <2>2. Total(SentQty', Coming(x)') = Total(SentQty, Coming(x))
    <3>1. SentQty' = SentQty
      BY <1>2 DEF SentQty
    <3>2. Coming(x)' = Coming(x)
      <4> HIDE DEF new, n
      <4> QED
        BY <1>2, <1>6 DEF Coming, SapInv, Reported, Sap!TypeOK
    <3> QED
      BY <3>1, <3>2
  <2>3. Total(PostedQty', DocsOf(x)') = Total(PostedQty, DocsOf(x))
    <3>1. DocsOf(x) \subseteq DocsOf(x)' /\ DocsOf(x)' \subseteq DocsOf(x) \cup {n}
      <4> HIDE DEF n
      <4> QED
        BY <1>6 DEF DocsOf
    <3>2. \A d \in DocsOf(x) : PostedQty'[d] = PostedQty[d]
      BY <1>6 DEF DocsOf, PostedQty
    <3>3. n \in DocsOf(x)' => n \notin DocsOf(x) /\ PostedQty'[n] = 0
      <4> HIDE DEF n
      <4> QED
        BY <1>6, <1>21 DEF DocsOf, PostedQty
    <3>4. IsFiniteSet(DocsOf(x)) /\ (\A d \in DocsOf(x) : PostedQty[d] \in Nat)
          /\ Total(PostedQty, DocsOf(x)) \in Nat
      BY SapFinite
    <3> HIDE DEF n
    <3>5. CASE n \in DocsOf(x)'
      <4>1. DocsOf(x)' = DocsOf(x) \cup {n}
        BY <3>1, <3>5
      <4>2. Total(PostedQty', DocsOf(x) \cup {n}) = Total(PostedQty, DocsOf(x)) + PostedQty'[n]
        BY <3>2, <3>3, <3>4, <3>5, TotalMore
      <4> QED
        BY <3>3, <3>4, <3>5, <4>1, <4>2
    <3>6. CASE n \notin DocsOf(x)'
      <4>1. DocsOf(x)' = DocsOf(x)
        BY <3>1, <3>6
      <4> QED
        BY <3>2, <4>1, TotalSame
    <3> QED
      BY <3>5, <3>6
  <2> QED
    BY <1>2, <2>1, <2>2, <2>3 DEF SapInv, Balanced
<1> QED
  BY <1>7, <1>8, <1>9, <1>10 DEF SapInv

\* SAP raises an event: what it posts is under way.
LEMMA RaiseKeeps ==
    ASSUME SapInv, NEW d \in DOMAIN docs, NEW kind \in Sap!PrKinds \cup Sap!PoKinds,
           NEW withRef \in BOOLEAN, NEW qty \in 0..1, Sap!SapRaises(d, kind, withRef, qty)
    PROVE  SapInv'
<1> DEFINE n == Len(sent) + 1
           e == [kind |-> kind, doc |-> d, qty |-> qty,
                 ref |-> IF withRef THEN docs[d].ref ELSE Sap!None]
           doc == [docs[d] EXCEPT !.posted = @ + qty]
<1>1. /\ kind \in IF docs[d].ref \in SapPrs THEN Sap!PrKinds ELSE Sap!PoKinds
      /\ (qty > 0) = (kind = "gr_posted")
      /\ sent' = Append(sent, e)
      /\ docs' = [docs EXCEPT ![d] = doc]
      /\ inbox' = inbox \cup {n}
      /\ UNCHANGED <<ent, resynced, missed, repeated>>
  BY DEF Sap!SapRaises
<1>2. /\ docs \in Seq(SapDocument) /\ Len(docs) \in Nat /\ DOMAIN docs = 1..Len(docs)
      /\ sent \in Seq(Sap!SapEvent) /\ Len(sent) \in Nat /\ DOMAIN sent = 1..Len(sent)
      /\ \A k \in DOMAIN docs : docs[k] \in SapDocument
  BY SapSequences DEF SapInv
<1>3. docs[d] \in SapDocument /\ docs[d].ref \in Sap!Entities /\ docs[d].posted \in Nat
  BY <1>2 DEF SapDocument
<1>4. doc \in SapDocument /\ doc.ref = docs[d].ref /\ doc.posted = docs[d].posted + qty
  BY <1>3 DEF SapDocument
<1>5. e \in Sap!SapEvent
  BY <1>3 DEF SapInv, Numbered, Sap!SapEvent
<1>6. e.doc = d /\ e.kind = kind /\ e.qty = qty /\ e.ref \in {Sap!None, docs[d].ref}
  OBVIOUS
<1> HIDE DEF e, doc
<1>7. /\ sent' \in Seq(Sap!SapEvent)
      /\ n \notin DOMAIN sent /\ sent'[n] = e
      /\ DOMAIN sent' = DOMAIN sent \cup {n}
      /\ \A k \in DOMAIN sent : sent'[k] = sent[k]
  <2> HIDE DEF n
  <2>1. Append(sent, e) \in Seq(Sap!SapEvent)
    BY <1>2, <1>5, Appended
  <2>2. n \notin DOMAIN sent /\ Append(sent, e)[n] = e
    BY <1>2, <1>5, Appended DEF n
  <2>3. DOMAIN Append(sent, e) = DOMAIN sent \cup {n}
    BY <1>2, <1>5, Appended DEF n
  <2>4. \A k \in DOMAIN sent : Append(sent, e)[k] = sent[k]
    BY <1>2, <1>5, Appended
  <2> QED
    BY <1>1, <2>1, <2>2, <2>3, <2>4
<1>8. /\ docs' \in Seq(SapDocument) /\ DOMAIN docs' = DOMAIN docs
      /\ docs'[d] = doc /\ \A k \in DOMAIN docs \ {d} : docs'[k] = docs[k]
  <2>1. DOMAIN docs' = DOMAIN docs /\ docs'[d] = doc
        /\ \A k \in DOMAIN docs \ {d} : docs'[k] = docs[k]
    BY <1>1, <1>2
  <2>2. docs' \in Seq(SapDocument)
    BY <1>1, <1>2, <1>4, ExceptSeq
  <2> QED
    BY <2>1, <2>2
<1>9. \A k \in DOMAIN docs : docs'[k].ref = docs[k].ref
  BY <1>4, <1>8
<1> HIDE DEF n
<1>10. Sap!TypeOK'
  <2>1. docs' \in Seq([ref : Sap!Entities, posted : Nat])
    BY <1>8 DEF SapDocument
  <2>2. inbox' \subseteq DOMAIN sent'
    BY <1>1, <1>7 DEF SapInv, Sap!TypeOK
  <2> QED
    BY <1>1, <1>7, <2>1, <2>2 DEF SapInv, Sap!TypeOK
<1>11. Numbered'
  BY <1>1, <1>8, <1>9 DEF SapInv, Numbered
<1>12. Reported'
  <2> SUFFICES ASSUME NEW k \in DOMAIN sent'
               PROVE  LET m == sent'[k] IN
                      /\ m.doc \in DOMAIN docs'
                      /\ m.ref \in {Sap!None, docs'[m.doc].ref}
                      /\ m.qty > 0 <=> m.kind = "gr_posted"
                      /\ m.kind \in IF docs'[m.doc].ref \in SapPrs
                                    THEN Sap!PrKinds ELSE Sap!PoKinds
    BY DEF Reported
  <2>1. CASE k = n
    BY <1>1, <1>6, <1>7, <1>8, <1>9, <2>1
  <2>2. CASE k \in DOMAIN sent
    <3>1. sent'[k] = sent[k] /\ sent[k].doc \in DOMAIN docs
      BY <1>7, <2>2 DEF SapInv, Reported
    <3> QED
      BY <1>8, <1>9, <2>2, <3>1 DEF SapInv, Reported
  <2> QED
    BY <1>7, <2>1, <2>2
<1>13. Balanced'
  <2> SUFFICES ASSUME NEW x \in SapPos
               PROVE  (ent[x].gr - resynced[x] + Total(SentQty, Coming(x)) + missed[x]
                          = Total(PostedQty, DocsOf(x)) + repeated[x])'
    BY DEF Balanced
  <2>1. /\ IsFiniteSet(DocsOf(x)) /\ \A k \in DocsOf(x) : PostedQty[k] \in Nat
        /\ IsFiniteSet(Coming(x)) /\ \A k \in Coming(x) : SentQty[k] \in Nat
        /\ Total(PostedQty, DocsOf(x)) \in Nat /\ Total(SentQty, Coming(x)) \in Nat
    BY SapFinite
  <2>2. DocsOf(x)' = DocsOf(x)
    BY <1>8, <1>9 DEF DocsOf
  <2>3. \A k \in DOMAIN sent : sent[k].doc \in DOMAIN docs
    BY DEF SapInv, Reported
  <2>4. Coming(x)' = IF docs[d].ref = x THEN Coming(x) \cup {n} ELSE Coming(x)
    <3>1. \A k \in inbox : docs'[sent'[k].doc].ref = docs[sent[k].doc].ref
      BY <1>7, <1>9, <2>3 DEF SapInv, Sap!TypeOK
    <3>2. docs'[sent'[n].doc].ref = docs[d].ref
      BY <1>6, <1>7, <1>9
    <3> QED
      BY <1>1, <3>1, <3>2 DEF Coming
  <2>5. /\ SentQty'[n] = qty
        /\ \A k \in Coming(x) : SentQty'[k] = SentQty[k]
        /\ n \notin Coming(x)
    BY <1>6, <1>7 DEF SentQty, Coming, SapInv, Sap!TypeOK
  <2>6. /\ \A k \in DocsOf(x) \ {d} : PostedQty'[k] = PostedQty[k]
        /\ PostedQty'[d] = PostedQty[d] + qty
    BY <1>4, <1>8 DEF PostedQty, DocsOf
  <2>7. UNCHANGED <<ent, resynced, missed, repeated>>
    BY <1>1
  <2>8. ent[x].gr \in Nat /\ resynced[x] \in Nat /\ missed[x] \in Nat
        /\ repeated[x] \in Nat
    BY DEF SapInv, Sap!TypeOK, Sap!Entities
  <2>11. qty \in Nat
    OBVIOUS
  <2>9. CASE docs[d].ref = x
    <3>1. Total(SentQty', Coming(x) \cup {n}) = Total(SentQty, Coming(x)) + SentQty'[n]
      BY <2>1, <2>5, <2>11, TotalMore
    <3>2. d \in DocsOf(x)
      BY <2>9 DEF DocsOf
    <3>3. Total(PostedQty', DocsOf(x)) = Total(PostedQty, DocsOf(x)) + qty
      BY <2>1, <2>6, <2>11, <3>2, TotalRaised
    <3>4. ent[x].gr - resynced[x] + Total(SentQty, Coming(x)) + missed[x]
            = Total(PostedQty, DocsOf(x)) + repeated[x]
      BY DEF SapInv, Balanced
    <3>5. Coming(x)' = Coming(x) \cup {n}
      BY <2>4, <2>9
    <3>6. Total(SentQty', Coming(x)') = Total(SentQty, Coming(x)) + qty
      BY <2>5, <3>1, <3>5
    <3>7. Total(PostedQty', DocsOf(x)') = Total(PostedQty, DocsOf(x)) + qty
      BY <2>2, <3>3
    <3>8. Total(PostedQty, DocsOf(x)) \in Nat /\ Total(SentQty, Coming(x)) \in Nat
      BY <2>1
    <3> QED
      BY <2>7, <2>8, <2>11, <3>4, <3>6, <3>7, <3>8
  <2>10. CASE docs[d].ref # x
    <3>1. Total(SentQty', Coming(x)) = Total(SentQty, Coming(x))
      BY <2>5, TotalSame
    <3>2. d \notin DocsOf(x)
      BY <2>10 DEF DocsOf
    <3>3. Total(PostedQty', DocsOf(x)) = Total(PostedQty, DocsOf(x))
      BY <2>6, <3>2, TotalSame
    <3>4. Coming(x)' = Coming(x)
      BY <2>4, <2>10
    <3> QED
      BY <2>2, <2>7, <3>1, <3>3, <3>4 DEF SapInv, Balanced
  <2> QED
    BY <2>9, <2>10
<1> QED
  BY <1>10, <1>11, <1>12, <1>13 DEF SapInv

\* An event that is no longer under way takes its quantity with it.
LEMMA EventTaken ==
    ASSUME SapInv, NEW n \in inbox, inbox' = inbox \ {n}, UNCHANGED <<docs, sent>>,
           NEW x \in SapPos
    PROVE  /\ sent[n].qty \in Nat
           /\ docs[sent[n].doc].ref = x =>
                 Total(SentQty, Coming(x)) = sent[n].qty + Total(SentQty', Coming(x)')
           /\ docs[sent[n].doc].ref # x =>
                 Total(SentQty, Coming(x)) = Total(SentQty', Coming(x)')
           /\ Total(PostedQty', DocsOf(x)') = Total(PostedQty, DocsOf(x))
           /\ Total(SentQty', Coming(x)') \in Nat
<1>1. SentQty' = SentQty /\ PostedQty' = PostedQty /\ DocsOf(x)' = DocsOf(x)
  BY DEF SentQty, PostedQty, DocsOf
<1>2. Coming(x)' = Coming(x) \ {n}
  BY DEF Coming
<1>3. n \in DOMAIN sent
  BY DEF SapInv, Sap!TypeOK
<1>4. SentQty[n] = sent[n].qty
  BY <1>3 DEF SentQty
<1>5. sent[n].qty \in Nat
  BY <1>3, SapSequences DEF SapInv, Sap!SapEvent
<1>6. IsFiniteSet(Coming(x)) /\ \A k \in Coming(x) : SentQty[k] \in Nat
  BY SapFinite
<1>7. CASE docs[sent[n].doc].ref = x
  <2>1. n \in Coming(x)
    BY <1>7 DEF Coming
  <2>2. Total(SentQty, Coming(x)) = SentQty[n] + Total(SentQty, Coming(x) \ {n})
    BY <1>6, <2>1, TotalRemove
  <2>3. Total(SentQty, Coming(x) \ {n}) \in Nat
    <3>1. IsFiniteSet(Coming(x) \ {n}) /\ \A k \in Coming(x) \ {n} : SentQty[k] \in Nat
      BY <1>6, FS_RemoveElement
    <3> QED
      BY <3>1, TotalType
  <2> QED
    BY <1>1, <1>2, <1>4, <1>5, <1>7, <2>2, <2>3
<1>8. CASE docs[sent[n].doc].ref # x
  <2>1. Coming(x)' = Coming(x)
    BY <1>2, <1>8 DEF Coming
  <2>2. Total(SentQty, Coming(x)) \in Nat
    BY SapFinite
  <2> QED
    BY <1>1, <1>5, <1>8, <2>1, <2>2
<1> QED
  BY <1>7, <1>8

\* An event that is lost, or that nobody takes, is missed.
LEMMA MissedKeeps ==
    ASSUME SapInv, NEW n \in inbox, inbox' = inbox \ {n}, missed' = Sap!WithQtyOf(n, missed),
           UNCHANGED <<ent, docs, sent, resynced, repeated>>
    PROVE  SapInv'
<1>1. n \in DOMAIN sent /\ sent[n].qty \in Nat
  <2>1. n \in DOMAIN sent
    BY DEF SapInv, Sap!TypeOK
  <2>2. sent[n] \in Sap!SapEvent
    BY <2>1, SapSequences DEF SapInv
  <2> QED
    BY <2>1, <2>2 DEF Sap!SapEvent
<1>2. missed \in [SapPos -> Nat]
  BY DEF SapInv, Sap!TypeOK
<1>3. /\ missed' \in [SapPos -> Nat]
      /\ \A x \in SapPos : missed'[x] = IF docs[sent[n].doc].ref = x
                                        THEN missed[x] + sent[n].qty ELSE missed[x]
  BY <1>1, <1>2 DEF Sap!WithQtyOf
<1>4. Sap!TypeOK'
  BY <1>3 DEF SapInv, Sap!TypeOK
<1>5. Numbered' /\ Reported'
  BY DEF SapInv, Numbered, Reported
<1>6. ASSUME NEW x \in SapPos
      PROVE  (ent[x].gr - resynced[x] + Total(SentQty, Coming(x)) + missed[x]
                 = Total(PostedQty, DocsOf(x)) + repeated[x])'
  <2>1. ent[x].gr - resynced[x] + Total(SentQty, Coming(x)) + missed[x]
           = Total(PostedQty, DocsOf(x)) + repeated[x]
    BY DEF SapInv, Balanced
  <2>2. ent[x].gr \in Nat /\ resynced[x] \in Nat /\ missed[x] \in Nat
        /\ repeated[x] \in Nat
    BY DEF SapInv, Sap!TypeOK, Sap!Entities
  <2>3. /\ docs[sent[n].doc].ref = x =>
              Total(SentQty, Coming(x)) = sent[n].qty + Total(SentQty', Coming(x)')
        /\ docs[sent[n].doc].ref # x =>
              Total(SentQty, Coming(x)) = Total(SentQty', Coming(x)')
        /\ Total(PostedQty', DocsOf(x)') = Total(PostedQty, DocsOf(x))
        /\ Total(SentQty', Coming(x)') \in Nat
    BY EventTaken
  <2> QED
    BY <1>1, <1>3, <2>1, <2>2, <2>3
<1> QED
  BY <1>4, <1>5, <1>6 DEF SapInv, Balanced

\* What a document makes of an event about it: a receipt adds its quantity.
LEMMA TakesQuantity ==
    ASSUME SapInv, NEW n \in DOMAIN sent, NEW x \in Sap!Entities,
           docs[sent[n].doc].ref = x
    PROVE  LET new == IF x \in SapPrs THEN Sap!AppliedToPr(ent[x], sent[n])
                                      ELSE Sap!AppliedToPo(ent[x], sent[n])
           IN  /\ new \in [status : {"draft", "rfq_issued", "released", "delivered"},
                           sap : Sap!SapStatuses, doc : 0..MaxDocs, gr : Nat]
               /\ new.doc = ent[x].doc
               /\ new.gr = ent[x].gr + sent[n].qty
<1> DEFINE T == [status : {"draft", "rfq_issued", "released", "delivered"},
                 sap : Sap!SapStatuses, doc : 0..MaxDocs, gr : Nat]
           r == ent[x]
           e == sent[n]
<1>1. r \in T
  BY DEF SapInv, Sap!TypeOK
<1>2. e.qty \in Nat
  BY SMTT(60), SapSequences DEF SapInv, Sap!SapEvent
<1>3. /\ e.qty > 0 <=> e.kind = "gr_posted"
      /\ e.kind \in IF x \in SapPrs THEN Sap!PrKinds ELSE Sap!PoKinds
  BY DEF SapInv, Reported
<1> HIDE DEF r, e
<1>4. CASE x \in SapPrs
  <2>1. e.kind # "gr_posted"
    BY <1>3, <1>4 DEF Sap!PrKinds
  <2>2. e.qty = 0
    BY <1>2, <1>3, <2>1
  <2>3. /\ Sap!AppliedToPr(r, e) \in T
        /\ Sap!AppliedToPr(r, e).doc = r.doc /\ Sap!AppliedToPr(r, e).gr = r.gr
    BY <1>1 DEF Sap!AppliedToPr, Sap!SapStatuses
  <2>4. r.gr \in Nat
    BY <1>1
  <2> QED
    BY <1>4, <2>2, <2>3, <2>4 DEF r, e
<1>5. CASE x \notin SapPrs
  <2>1. e.kind \in {"po_released", "po_blocked", "gr_posted", "po_closed"}
    BY <1>3, <1>5 DEF Sap!PoKinds
  <2>2. r.gr \in Nat
    BY <1>1
  <2>3. CASE e.kind = "gr_posted"
    <3> DEFINE st == IF r.gr + e.qty >= SapQty THEN "delivered" ELSE r.status
    <3>1. Sap!AppliedToPo(r, e) = [r EXCEPT !.gr = @ + e.qty, !.status = st]
      BY <2>3 DEF Sap!AppliedToPo
    <3>2. st \in {"draft", "rfq_issued", "released", "delivered"}
      BY <1>1
    <3> HIDE DEF st
    <3>3. r.gr + e.qty \in Nat
      BY <1>2, <2>2
    <3>4. /\ Sap!AppliedToPo(r, e) \in T
          /\ Sap!AppliedToPo(r, e).doc = r.doc
          /\ Sap!AppliedToPo(r, e).gr = r.gr + e.qty
      BY <1>1, <3>1, <3>2, <3>3
    <3> QED
      BY <1>5, <3>4 DEF r, e
  <2>4. CASE e.kind # "gr_posted"
    <3>1. e.qty = 0
      BY <1>2, <1>3, <2>4
    <3>2. /\ Sap!AppliedToPo(r, e) \in T
          /\ Sap!AppliedToPo(r, e).doc = r.doc /\ Sap!AppliedToPo(r, e).gr = r.gr
      BY <1>1, <2>1, <2>4 DEF Sap!AppliedToPo, Sap!SapStatuses
    <3> QED
      BY <1>5, <2>2, <3>1, <3>2 DEF r, e
  <2> QED
    BY <2>3, <2>4
<1> QED
  BY <1>4, <1>5

\* The webhook takes an event: its quantity goes to the order SAP posted it for,
\* whether the event names it or only its document.
LEMMA DeliverKeeps ==
    ASSUME SapInv, NEW n \in inbox, Sap!Deliver(n)
    PROVE  SapInv'
<1>1. inbox' = inbox \ {n} /\ UNCHANGED <<docs, sent, resynced, repeated>>
  BY DEF Sap!Deliver
<1>2. CASE missed' = Sap!WithQtyOf(n, missed) /\ UNCHANGED ent
  BY <1>1, <1>2, MissedKeeps
<1>3. ASSUME NEW x \in Sap!Matching(sent[n]),
             ent' = [ent EXCEPT ![x] = IF x \in SapPrs THEN Sap!AppliedToPr(@, sent[n])
                                                       ELSE Sap!AppliedToPo(@, sent[n])],
             UNCHANGED missed
      PROVE  SapInv'
  <2> DEFINE T == [status : {"draft", "rfq_issued", "released", "delivered"},
                   sap : Sap!SapStatuses, doc : 0..MaxDocs, gr : Nat]
             new == IF x \in SapPrs THEN Sap!AppliedToPr(ent[x], sent[n])
                                    ELSE Sap!AppliedToPo(ent[x], sent[n])
  <2>1. n \in DOMAIN sent /\ sent[n].doc \in DOMAIN docs /\ sent[n].doc # 0
        /\ sent[n].qty \in Nat
    <3>1. n \in DOMAIN sent /\ sent[n].doc \in DOMAIN docs
      BY DEF SapInv, Sap!TypeOK, Reported
    <3>2. sent[n] \in Sap!SapEvent /\ sent[n].doc \in 1..MaxDocs
      BY <3>1, SapSequences DEF SapInv, Numbered
    <3> QED
      BY <3>1, <3>2 DEF Sap!SapEvent
  <2>2. docs[sent[n].doc].ref \in Sap!Entities
    BY <2>1, SapSequences DEF SapInv, SapDocument
  <2>3. docs[sent[n].doc].ref = x
    <3>1. CASE sent[n].ref # Sap!None
      BY <1>3, <2>1, <3>1 DEF Sap!Matching, SapInv, Reported
    <3>2. CASE sent[n].ref = Sap!None
      <4>1. x \in Sap!Entities /\ ent[x].doc = sent[n].doc
        BY <1>3, <3>2 DEF Sap!Matching
      <4> QED
        BY <2>1, <4>1 DEF SapInv, Numbered, Sap!None
    <3> QED
      BY <3>1, <3>2
  <2>4. ent \in [Sap!Entities -> T]
    BY DEF SapInv, Sap!TypeOK
  <2>5. new \in T /\ new.doc = ent[x].doc /\ new.gr = ent[x].gr + sent[n].qty
    BY <2>1, <2>2, <2>3, TakesQuantity
  <2>6. ent' = [ent EXCEPT ![x] = new]
    BY <1>3
  <2> HIDE DEF new
  <2>7. /\ ent' \in [Sap!Entities -> T]
        /\ \A y \in Sap!Entities : ent'[y].doc = ent[y].doc
        /\ \A y \in Sap!Entities : ent'[y].gr = IF y = x THEN ent[y].gr + sent[n].qty
                                                         ELSE ent[y].gr
    BY SMTT(60), <2>2, <2>3, <2>4, <2>5, <2>6
  <2>8. Sap!TypeOK'
    BY <1>1, <1>3, <2>7 DEF SapInv, Sap!TypeOK
  <2>9. Numbered' /\ Reported'
    BY <1>1, <2>7 DEF SapInv, Numbered, Reported
  <2>10. ASSUME NEW y \in SapPos
         PROVE  (ent[y].gr - resynced[y] + Total(SentQty, Coming(y)) + missed[y]
                    = Total(PostedQty, DocsOf(y)) + repeated[y])'
    <3>1. ent[y].gr - resynced[y] + Total(SentQty, Coming(y)) + missed[y]
             = Total(PostedQty, DocsOf(y)) + repeated[y]
      BY DEF SapInv, Balanced
    <3>2. ent[y].gr \in Nat /\ resynced[y] \in Nat /\ missed[y] \in Nat
          /\ repeated[y] \in Nat
      BY DEF SapInv, Sap!TypeOK, Sap!Entities
    <3>3. /\ docs[sent[n].doc].ref = y =>
                Total(SentQty, Coming(y)) = sent[n].qty + Total(SentQty', Coming(y)')
          /\ docs[sent[n].doc].ref # y =>
                Total(SentQty, Coming(y)) = Total(SentQty', Coming(y)')
          /\ Total(PostedQty', DocsOf(y)') = Total(PostedQty, DocsOf(y))
          /\ Total(SentQty', Coming(y)') \in Nat
      BY <1>1, EventTaken
    <3>4. ent'[y].gr = IF y = x THEN ent[y].gr + sent[n].qty ELSE ent[y].gr
      BY <2>7 DEF Sap!Entities
    <3>5. resynced'[y] = resynced[y] /\ missed'[y] = missed[y]
          /\ repeated'[y] = repeated[y]
      BY <1>1, <1>3
    <3> QED
      BY <2>1, <2>3, <3>1, <3>2, <3>3, <3>4, <3>5
  <2> QED
    BY <2>8, <2>9, <2>10 DEF SapInv, Balanced
<1> QED
  BY <1>2, <1>3 DEF Sap!Deliver

\* An event that comes again adds its quantity to what is under way, and to what
\* came again.
LEMMA RepeatKeeps ==
    ASSUME SapInv, NEW n \in DOMAIN sent, Sap!Repeat(n)
    PROVE  SapInv'
<1>1. /\ n \notin inbox /\ inbox' = inbox \cup {n}
      /\ repeated' = Sap!WithQtyOf(n, repeated)
      /\ UNCHANGED <<ent, docs, sent, resynced, missed>>
  BY DEF Sap!Repeat
<1>2. sent[n].qty \in Nat
  <2>1. sent[n] \in Sap!SapEvent
    BY SapSequences DEF SapInv
  <2> QED
    BY <2>1 DEF Sap!SapEvent
<1>3. /\ repeated' \in [SapPos -> Nat]
      /\ \A x \in SapPos : repeated'[x] = IF docs[sent[n].doc].ref = x
                                          THEN repeated[x] + sent[n].qty ELSE repeated[x]
  <2>1. repeated \in [SapPos -> Nat]
    BY DEF SapInv, Sap!TypeOK
  <2> QED
    BY <1>1, <1>2, <2>1 DEF Sap!WithQtyOf
<1>4. Sap!TypeOK'
  BY <1>1, <1>3 DEF SapInv, Sap!TypeOK
<1>5. Numbered' /\ Reported'
  BY <1>1 DEF SapInv, Numbered, Reported
<1>6. ASSUME NEW x \in SapPos
      PROVE  (ent[x].gr - resynced[x] + Total(SentQty, Coming(x)) + missed[x]
                 = Total(PostedQty, DocsOf(x)) + repeated[x])'
  <2>1. ent[x].gr - resynced[x] + Total(SentQty, Coming(x)) + missed[x]
           = Total(PostedQty, DocsOf(x)) + repeated[x]
    BY DEF SapInv, Balanced
  <2>2. ent[x].gr \in Nat /\ resynced[x] \in Nat /\ missed[x] \in Nat
        /\ repeated[x] \in Nat
    BY DEF SapInv, Sap!TypeOK, Sap!Entities
  <2>3. SentQty' = SentQty /\ PostedQty' = PostedQty /\ DocsOf(x)' = DocsOf(x)
    BY <1>1 DEF SentQty, PostedQty, DocsOf
  <2>4. /\ IsFiniteSet(Coming(x)) /\ \A k \in Coming(x) : SentQty[k] \in Nat
        /\ Total(PostedQty, DocsOf(x)) \in Nat /\ Total(SentQty, Coming(x)) \in Nat
    BY SapFinite
  <2>5. SentQty[n] = sent[n].qty /\ n \notin Coming(x)
    BY <1>1 DEF SentQty, Coming
  <2>6. CASE docs[sent[n].doc].ref = x
    <3>1. Coming(x)' = Coming(x) \cup {n}
      BY <1>1, <2>6 DEF Coming
    <3>2. Total(SentQty, Coming(x) \cup {n}) = Total(SentQty, Coming(x)) + SentQty[n]
      BY <1>2, <2>4, <2>5, TotalMore
    <3> QED
      BY <1>1, <1>2, <1>3, <2>1, <2>2, <2>3, <2>4, <2>5, <2>6, <3>1, <3>2
  <2>7. CASE docs[sent[n].doc].ref # x
    <3>1. Coming(x)' = Coming(x)
      BY <1>1, <2>7 DEF Coming
    <3> QED
      BY <1>1, <1>3, <2>1, <2>3, <2>7, <3>1
  <2> QED
    BY <2>6, <2>7
<1> QED
  BY <1>4, <1>5, <1>6 DEF SapInv, Balanced

\* A resync is counted as one.
LEMMA ResyncKeeps == ASSUME SapInv, Sap!Resync PROVE SapInv'
<1> DEFINE pulled == [x \in SapPos |-> IF ent[x].doc = Sap!None THEN 0
                                       ELSE docs[ent[x].doc].posted]
           T == [status : {"draft", "rfq_issued", "released", "delivered"},
                 sap : Sap!SapStatuses, doc : 0..MaxDocs, gr : Nat]
<1>1. /\ ent' = [x \in Sap!Entities |->
                    IF x \in SapPos THEN [ent[x] EXCEPT !.gr = @ + pulled[x]] ELSE ent[x]]
      /\ resynced' = [x \in SapPos |-> resynced[x] + pulled[x]]
      /\ UNCHANGED <<docs, sent, inbox, missed, repeated>>
  BY DEF Sap!Resync
<1>2. ent \in [Sap!Entities -> T] /\ resynced \in [SapPos -> Nat]
  BY DEF SapInv, Sap!TypeOK
<1>3. \A x \in SapPos : pulled[x] \in Nat
  <2>1. \A x \in SapPos : ent[x].doc # Sap!None => ent[x].doc \in DOMAIN docs
    BY DEF SapInv, Numbered, Sap!Entities
  <2> QED
    BY <2>1, SapSequences DEF SapInv, SapDocument
<1> HIDE DEF pulled
<1>4. /\ ent' \in [Sap!Entities -> T] /\ resynced' \in [SapPos -> Nat]
      /\ \A x \in Sap!Entities : ent'[x].doc = ent[x].doc
      /\ \A x \in SapPos : ent'[x].gr = ent[x].gr + pulled[x]
  <2>1. ASSUME NEW x \in Sap!Entities
        PROVE  /\ ent'[x] \in T /\ ent'[x].doc = ent[x].doc
               /\ x \in SapPos => ent'[x].gr = ent[x].gr + pulled[x]
    <3>1. CASE x \in SapPos
      <4>1. ent'[x] = [ent[x] EXCEPT !.gr = @ + pulled[x]]
        BY <1>1, <3>1
      <4>2. ent[x].gr + pulled[x] \in Nat /\ ent[x] \in T
        BY <1>2, <1>3, <3>1
      <4> QED
        BY <4>1, <4>2
    <3>2. CASE x \notin SapPos
      BY <1>1, <1>2, <3>2
    <3> QED
      BY <3>1, <3>2
  <2>2. ent' \in [Sap!Entities -> T]
    BY <1>1, <2>1
  <2> QED
    BY <1>1, <1>2, <1>3, <2>1, <2>2 DEF Sap!Entities
<1>5. Sap!TypeOK'
  BY <1>1, <1>4 DEF SapInv, Sap!TypeOK
<1>6. Numbered' /\ Reported'
  BY <1>1, <1>4 DEF SapInv, Numbered, Reported
<1>7. ASSUME NEW x \in SapPos
      PROVE  (ent[x].gr - resynced[x] + Total(SentQty, Coming(x)) + missed[x]
                 = Total(PostedQty, DocsOf(x)) + repeated[x])'
  <2>1. SentQty' = SentQty /\ PostedQty' = PostedQty
        /\ DocsOf(x)' = DocsOf(x) /\ Coming(x)' = Coming(x)
    BY <1>1 DEF SentQty, PostedQty, DocsOf, Coming
  <2>2. ent[x].gr - resynced[x] + Total(SentQty, Coming(x)) + missed[x]
           = Total(PostedQty, DocsOf(x)) + repeated[x]
    BY DEF SapInv, Balanced
  <2>3. ent[x].gr \in Nat /\ resynced[x] \in Nat /\ pulled[x] \in Nat
    BY <1>2, <1>3 DEF Sap!Entities
  <2>4. ent'[x].gr - resynced'[x] = ent[x].gr - resynced[x]
    BY <1>1, <1>4, <2>3
  <2> QED
    BY <1>1, <2>1, <2>2, <2>4
<1> QED
  BY <1>5, <1>6, <1>7 DEF SapInv, Balanced

LEMMA StepSap == SapInv /\ [Sap!Next]_(Sap!sapVars) => SapInv'
<1> SUFFICES ASSUME SapInv, [Sap!Next]_(Sap!sapVars) PROVE SapInv'
  OBVIOUS
<1>1. CASE UNCHANGED Sap!sapVars
  BY ZenonT(60), <1>1 DEF Sap!sapVars, SapInv, Sap!TypeOK, Numbered, Reported, Balanced, SentQty,
     PostedQty, DocsOf, Coming
<1>2. ASSUME NEW y \in Sap!Entities, Sap!Submit(y) PROVE SapInv'
  BY <1>2, SubmitKeeps
<1>3. ASSUME NEW d \in DOMAIN docs, NEW kind \in Sap!PrKinds \cup Sap!PoKinds,
             NEW withRef \in BOOLEAN, NEW qty \in 0..1, Sap!SapRaises(d, kind, withRef, qty)
      PROVE  SapInv'
  BY <1>3, RaiseKeeps
<1>4. ASSUME NEW n \in inbox, Sap!Deliver(n) PROVE SapInv'
  BY <1>4, DeliverKeeps
<1>5. ASSUME NEW n \in inbox, Sap!Lose(n) PROVE SapInv'
  BY <1>5, MissedKeeps DEF Sap!Lose
<1>6. ASSUME NEW n \in DOMAIN sent, Sap!Repeat(n) PROVE SapInv'
  BY <1>6, RepeatKeeps
<1>7. CASE Sap!Resync
  BY <1>7, ResyncKeeps
<1> QED
  BY <1>1, <1>2, <1>3, <1>4, <1>5, <1>6, <1>7 DEF Sap!Next

\* The sums as SapLink writes them.
LEMMA PostedSum == ASSUME NEW x PROVE Sap!Posted(x) = Total(PostedQty, DocsOf(x))
<1> DEFINE S == {d \in DOMAIN docs : docs[d].ref = x}
           Table(g) ==
        g = [s \in SUBSET S |->
               IF s = {} THEN 0
               ELSE docs[CHOOSE y \in s : TRUE].posted + g[s \ {CHOOSE y \in s : TRUE}]]
<1>1. Sap!Posted(x) = (CHOOSE g : Table(g))[S]
  BY DEF Sap!Posted, Sap!MapThenSumSet, Sap!MapThenFoldSet
<1>2. ASSUME NEW s \in SUBSET S, s # {}
      PROVE  docs[CHOOSE y \in s : TRUE].posted = PostedQty[CHOOSE y \in s : TRUE]
  <2>1. (CHOOSE y \in s : TRUE) \in s
    BY <1>2
  <2> QED
    BY <2>1 DEF PostedQty
<1>3. \A g : Table(g) <=> SumTable(PostedQty, g, S)
  BY <1>2 DEF SumTable, SumAt
<1>4. (CHOOSE g : Table(g)) = (CHOOSE g : SumTable(PostedQty, g, S))
  <2> HIDE DEF Table
  <2> QED
    BY <1>3
<1>5. DocsOf(x) = S
  BY DEF DocsOf
<1> HIDE DEF S, Table
<1> QED
  BY <1>1, <1>4, <1>5, TotalDef

LEMMA UnderWaySum ==
    ASSUME inbox \subseteq DOMAIN sent, NEW x
    PROVE  Sap!UnderWay(x) = Total(SentQty, Coming(x))
<1> DEFINE S == {n \in inbox : docs[sent[n].doc].ref = x}
           Table(g) ==
        g = [s \in SUBSET S |->
               IF s = {} THEN 0
               ELSE sent[CHOOSE y \in s : TRUE].qty + g[s \ {CHOOSE y \in s : TRUE}]]
<1>1. Sap!UnderWay(x) = (CHOOSE g : Table(g))[S]
  BY DEF Sap!UnderWay, Sap!MapThenSumSet, Sap!MapThenFoldSet
<1>2. ASSUME NEW s \in SUBSET S, s # {}
      PROVE  sent[CHOOSE y \in s : TRUE].qty = SentQty[CHOOSE y \in s : TRUE]
  <2>1. (CHOOSE y \in s : TRUE) \in s
    BY <1>2
  <2> QED
    BY <2>1 DEF SentQty
<1>3. \A g : Table(g) <=> SumTable(SentQty, g, S)
  BY <1>2 DEF SumTable, SumAt
<1>4. (CHOOSE g : Table(g)) = (CHOOSE g : SumTable(SentQty, g, S))
  <2> HIDE DEF Table
  <2> QED
    BY <1>3
<1>5. Coming(x) = S
  BY DEF Coming
<1> HIDE DEF S, Table
<1> QED
  BY <1>1, <1>4, <1>5, TotalDef

\* What an order shows, less what resync added, is what SAP posted for its
\* documents and what arrived again, less what is under way or was missed: however
\* often it is submitted, whatever became of SAP's answers, and in whatever order
\* and however often events of whatever number of documents arrive (submit_po,
\* apply_sap_event, resync).
THEOREM NothingCountedElsewhere == Spec => []QuantityConserved
<1>1. SapInv => QuantityConserved
  <2> SUFFICES ASSUME SapInv, NEW x \in SapPos
               PROVE  ent[x].gr - resynced[x] + Sap!UnderWay(x) + missed[x]
                          = Sap!Posted(x) + repeated[x]
    BY DEF QuantityConserved, Sap!QuantityConserved
  <2>1. Sap!UnderWay(x) = Total(SentQty, Coming(x))
    BY UnderWaySum DEF SapInv, Sap!TypeOK
  <2>2. Sap!Posted(x) = Total(PostedQty, DocsOf(x))
    BY PostedSum
  <2> QED
    BY <2>1, <2>2 DEF SapInv, Balanced
<1> QED
  BY <1>1, SapRuns, InitSap, StepSap, PTL DEF Sap!Spec

-----------------------------------------------------------------------------
(* The state files *)

\* The facts the writer at work will have promised of f when it is done.
Owed(f) ==
    {x \in Nat : \/ writer = "snapshot" /\ x \in seen[f]
                 \/ writer = "handler" /\ f \in Files!Critical /\ x \in mem[f]}

\* x is in f's file if that parses, and in what is being written to it.
OnFile(f, x) ==
    /\ buffer # Files!Closed /\ f = Head(todo) => x \in buffer
    /\ file[f] # Files!Torn => x \in file[f]

\* Nobody writes but the holder of the lock, who works through its files.
Locked ==
    /\ writer = "none" => todo = <<>>
    /\ todo = <<>> => buffer = Files!Closed
    /\ ~running => writer = "none" /\ request = Files!NoRequest
    /\ writer = "handler" => request # Files!NoRequest
    /\ running /\ request # Files!NoRequest => request.fact \in mem[request.store]

\* What the writer at work owes is in memory, in the files it is done with and
\* in what it is writing.
Progress ==
    \A f \in Files!Files :
       /\ running => Owed(f) \subseteq mem[f]
       /\ f \notin Files!Range(todo) => Owed(f) \subseteq file[f]
       /\ buffer # Files!Closed /\ f = Head(todo) => Owed(f) \subseteq buffer

\* A crash has found every file that does not parse while the process is down.
TornIsKnown ==
    ~running => \A f \in Files!Files : file[f] = Files!Torn => f \in cut

\* What was promised of a store that no crash exposed is on its file, and in
\* memory while the process runs.
Kept ==
    \A a \in promised :
       a.store # "logistics" /\ ~Files!Exposed(a.store) =>
          /\ versioned /\ OnFile(a.store, a.fact)
          /\ running => a.fact \in mem[a.store]

\* The invariant of the state files.
FileInv == Files!TypeOK /\ Locked /\ Progress /\ TornIsKnown /\ Kept

\* The orders in which files are written and read back.
LEMMA Orders ==
    /\ Files!Files = {"projects", "sourcing", "tbe", "expediting", "audit", "sap",
                      "vendors", "approvals", "risks"}
    /\ Files!Range(Files!FlushOrder) = Files!Critical
    /\ Files!Range(Files!SnapshotOrder) = Files!Files
    /\ Files!FlushOrder \in Seq(Files!Files) /\ Files!SnapshotOrder \in Seq(Files!Files)
    /\ Files!FlushOrder # <<>> /\ Files!SnapshotOrder # <<>>
    /\ Files!Critical \subseteq Files!Files
    /\ Files!Stores = Files!Files \cup {"logistics"} /\ "logistics" \notin Files!Files
<1>1. Files!Files = {"projects", "sourcing", "tbe", "expediting", "audit", "sap",
                      "vendors", "approvals", "risks"}
  BY DEF Files!Files, Files!SnapshotOrder, Files!Range
<1>2. Files!Range(Files!FlushOrder) = Files!Critical
  BY DEF Files!FlushOrder, Files!Range, Files!Critical
<1>3. Files!Range(Files!SnapshotOrder) = Files!Files
  BY DEF Files!Files
<1>4. Files!FlushOrder \in Seq(Files!Files)
  BY <1>1 DEF Files!FlushOrder
<1>5. Files!SnapshotOrder \in Seq(Files!Files)
  BY <1>1 DEF Files!SnapshotOrder
<1>6. Files!FlushOrder # <<>> /\ Files!SnapshotOrder # <<>>
  BY DEF Files!FlushOrder, Files!SnapshotOrder
<1> QED
  BY <1>1, <1>2, <1>3, <1>4, <1>5, <1>6 DEF Files!Critical, Files!Stores

\* restore_all's turns are numbered without a repetition.
LEMMA Turns ==
    ASSUME NEW s \in Files!Files
    PROVE  /\ Files!Position(s) \in 1..9
           /\ \A i \in 1..9 : /\ Files!RestoreOrder[i] \in Files!Files
                              /\ Files!Position(Files!RestoreOrder[i]) = i
<1> DEFINE R == Files!RestoreOrder
<1>1. /\ DOMAIN R = 1..9
      /\ \A i \in 1..9 : R[i] \in Files!Files
      /\ \A i, j \in 1..9 : R[i] = R[j] => i = j
      /\ \E i \in 1..9 : R[i] = s
  <2>1. /\ DOMAIN R = 1..9
        /\ R[1] = "projects" /\ R[2] = "sourcing" /\ R[3] = "tbe" /\ R[4] = "expediting"
        /\ R[5] = "audit" /\ R[6] = "sap" /\ R[7] = "vendors" /\ R[8] = "approvals"
        /\ R[9] = "risks"
    BY DEF Files!RestoreOrder, Files!SnapshotOrder
  <2> HIDE DEF R
  <2>2. \A i \in 1..9 : i = 1 \/ i = 2 \/ i = 3 \/ i = 4 \/ i = 5 \/ i = 6 \/ i = 7 \/ i = 8 \/ i = 9
    OBVIOUS
  <2>3. \A i, j \in 1..9 : R[i] = R[j] => i = j
    BY <2>1, <2>2
  <2>4. \A i \in 1..9 : R[i] \in Files!Files
    BY <2>1, <2>2, Orders
  <2>5. \E i \in 1..9 : R[i] = s
    BY <2>1, Orders
  <2> QED
    BY <2>1, <2>3, <2>4, <2>5
<1> HIDE DEF R
<1>2. \A f : Files!Position(f) = CHOOSE i \in DOMAIN R : R[i] = f
  BY DEF Files!Position, R
<1>3. \A i \in 1..9 : Files!Position(R[i]) = i
  BY <1>1, <1>2
<1>4. Files!Position(s) \in 1..9
  BY <1>1, <1>2
<1> QED
  BY <1>1, <1>3, <1>4 DEF R

\* The first of a list of files, and what is left of it.
LEMMA FirstFile ==
    ASSUME NEW S, NEW seq \in Seq(S), seq # <<>>
    PROVE  /\ Head(seq) \in S /\ Tail(seq) \in Seq(S)
           /\ \A f : f \in Files!Range(seq) => f = Head(seq) \/ f \in Files!Range(Tail(seq))
<1>1. Head(seq) \in S /\ Tail(seq) \in Seq(S)
  BY HeadTailProperties
<1>2. ASSUME NEW f, f \in Files!Range(seq), f # Head(seq) PROVE f \in Files!Range(Tail(seq))
  <2>1. PICK i \in 1..Len(seq) : seq[i] = f
    BY <1>2 DEF Files!Range
  <2>2. i # 1 /\ Len(seq) \in Nat
    BY <1>2, <2>1
  <2>3. i - 1 \in 1..Len(Tail(seq)) /\ Tail(seq)[i - 1] = f
    BY <2>1, <2>2, HeadTailProperties
  <2>4. DOMAIN Tail(seq) = 1..Len(Tail(seq))
    BY <1>1
  <2> QED
    BY <2>3, <2>4 DEF Files!Range
<1> QED
  BY <1>1, <1>2

\* Facts are numbered, and there are finitely many.
LEMMA FactsAreNumbers ==
    ASSUME Files!TypeOK
    PROVE  Files!Facts \subseteq 1..MaxFacts /\ Files!Cardinality(Files!Facts) \in Nat
<1>1. Files!Facts \subseteq 1..MaxFacts
  <2>1. UNION {mem[s] : s \in Files!Stores} \subseteq 1..MaxFacts
    BY DEF Files!TypeOK
  <2>2. {a.fact : a \in promised} \subseteq 1..MaxFacts
    BY DEF Files!TypeOK
  <2>3. ASSUME NEW s \in Files!Files PROVE file[s] \ Files!Torn \subseteq 1..MaxFacts
    <3>1. file[s] \in SUBSET (1..MaxFacts) \/ file[s] = Files!Torn
      BY DEF Files!TypeOK
    <3> QED
      BY <3>1
  <2>4. UNION {file[s] \ Files!Torn : s \in Files!Files} \subseteq 1..MaxFacts
    BY <2>3
  <2> DEFINE A == UNION {mem[s] : s \in Files!Stores}
             B == {a.fact : a \in promised}
             C == UNION {file[s] \ Files!Torn : s \in Files!Files}
  <2>5. Files!Facts = A \cup B \cup C
    BY DEF Files!Facts
  <2> HIDE DEF A, B, C
  <2>6. A \subseteq 1..MaxFacts /\ B \subseteq 1..MaxFacts /\ C \subseteq 1..MaxFacts
    BY <2>1, <2>2, <2>4 DEF A, B, C
  <2> QED
    BY <2>5, <2>6
<1>2. IsFiniteSet(Files!Facts)
  <2>1. MaxFacts \in Int
    BY FileConstants
  <2>2. IsFiniteSet(1..MaxFacts)
    BY <2>1, FS_Interval
  <2> QED
    BY <1>1, <2>2, FS_Subset
<1>3. Files!Cardinality(Files!Facts) = Cardinality(Files!Facts)
  BY DEF Files!Cardinality, Cardinality
<1> QED
  BY <1>1, <1>2, <1>3, FS_CardinalityType

\* Nothing is promised of the files as they are found.
LEMMA InitFiles == Files!Init => FileInv
<1> SUFFICES ASSUME Files!Init PROVE FileInv
  OBVIOUS
<1>1. /\ mem = [s \in Files!Stores |-> {}] /\ file = [s \in Files!Files |-> {}]
      /\ versioned = FALSE /\ todo = <<>> /\ writer = "none" /\ buffer = Files!Closed
      /\ request = Files!NoRequest /\ seen = mem /\ promised = {} /\ cut = {}
      /\ running = TRUE /\ fileFaults = 0
  BY DEF Files!Init
<1>2. Files!TypeOK
  <2>1. /\ mem \in [Files!Stores -> SUBSET (1..MaxFacts)] /\ seen = mem
        /\ file \in [Files!Files -> (SUBSET (1..MaxFacts)) \cup {Files!Torn}]
        /\ todo \in Seq(Files!Files)
        /\ writer \in {"none", "handler", "snapshot"}
    BY <1>1
  <2>2. fileFaults \in 0..MaxFileFaults
    BY <1>1, FileConstants
  <2>3. promised \subseteq [store : Files!Stores, fact : 1..MaxFacts] /\ cut \subseteq Files!Files
    BY <1>1
  <2> QED
    BY <1>1, <2>1, <2>2, <2>3 DEF Files!TypeOK
<1>3. Locked /\ Kept
  BY <1>1 DEF Locked, Kept
<1>4. \A f : Owed(f) = {}
  BY <1>1 DEF Owed
<1>5. Progress
  BY <1>4 DEF Progress
<1>6. TornIsKnown
  BY <1>1 DEF TornIsKnown, Files!Torn
<1> QED
  BY <1>2, <1>3, <1>5, <1>6 DEF FileInv

\* A handler's change is in memory only, and nothing is taken out of memory.
LEMMA ChangeKeeps ==
    ASSUME FileInv, NEW s \in ChangingStores, Files!Change(s)
    PROVE  FileInv'
<1> DEFINE f == Files!Cardinality(Files!Facts) + 1
<1>1. /\ running /\ request = Files!NoRequest
      /\ Files!Cardinality(Files!Facts) < MaxFacts
      /\ mem' = [mem EXCEPT ![s] = mem[s] \cup {f}]
      /\ request' = [store |-> s, fact |-> f]
      /\ UNCHANGED <<file, versioned, todo, writer, buffer, seen, promised, cut, running,
                     fileFaults>>
  BY DEF Files!Change
<1>2. f \in 1..MaxFacts /\ s \in Files!Stores
  BY <1>1, FactsAreNumbers, FileConstants DEF FileInv
<1> HIDE DEF f
<1>3. /\ mem' \in [Files!Stores -> SUBSET (1..MaxFacts)]
      /\ f \in mem'[s]
      /\ \A t \in Files!Stores : mem[t] \subseteq mem'[t]
  BY <1>1, <1>2 DEF FileInv, Files!TypeOK
<1>4. request' \in [store : Files!Stores, fact : 1..MaxFacts] /\ request'.store = s
      /\ request'.fact = f
  BY <1>1, <1>2
<1>5. Files!TypeOK'
  BY <1>1, <1>3, <1>4 DEF FileInv, Files!TypeOK, Files!Files, Files!Stores, Files!Torn,
     Files!Closed, Files!NoRequest
<1>6. writer # "handler"
  BY <1>1 DEF FileInv, Locked
<1>7. Locked'
  BY <1>1, <1>3, <1>4, <1>6 DEF FileInv, Locked, Files!Closed
<1>8. \A t : Owed(t)' = Owed(t)
  BY <1>1, <1>6 DEF Owed
<1>9. Progress'
  BY <1>1, <1>3, <1>8, Orders DEF FileInv, Progress, Files!Closed, Files!Range
<1>10. TornIsKnown'
  BY <1>1 DEF FileInv, TornIsKnown, Files!Closed
<1>11. \A a \in promised : a.store \in Files!Stores /\ (Files!Exposed(a.store)' <=> Files!Exposed(a.store))
  BY <1>1 DEF FileInv, Files!TypeOK, Files!Exposed
<1>12. \A a \in promised : OnFile(a.store, a.fact)' <=> OnFile(a.store, a.fact)
  BY <1>1 DEF OnFile
<1>13. Kept'
  BY <1>1, <1>3, <1>11, <1>12 DEF FileInv, Kept
<1> QED
  BY <1>5, <1>7, <1>9, <1>10, <1>13 DEF FileInv

\* The lock is taken by one who has nothing on file yet.
LEMMA StartKeeps ==
    ASSUME FileInv, NEW who, NEW order, Files!StartWriting(who, order),
           \/ who = "handler" /\ order = Files!FlushOrder
           \/ who = "snapshot" /\ order = Files!SnapshotOrder
    PROVE  FileInv'
<1>1. /\ running /\ writer = "none" /\ writer' = who /\ todo' = order
      /\ who = "handler" => request # Files!NoRequest
      /\ seen' = (IF who = "snapshot" THEN mem ELSE seen)
      /\ UNCHANGED <<mem, file, versioned, buffer, request, promised, cut, running, fileFaults>>
  BY DEF Files!StartWriting
<1>2. todo = <<>> /\ buffer = Files!Closed
  BY <1>1 DEF FileInv, Locked
<1>3. order # <<>> /\ order \in Seq(Files!Files)
  BY Orders
<1>4. Files!TypeOK'
  BY <1>1, <1>3 DEF FileInv, Files!TypeOK, Files!Files, Files!Stores, Files!Torn,
     Files!Closed, Files!NoRequest
<1>5. Locked'
  BY <1>1, <1>2, <1>3 DEF FileInv, Locked, Files!Closed, Files!NoRequest
<1>6. ASSUME NEW f \in Files!Files
      PROVE  Owed(f)' \subseteq mem[f] /\ (f \notin Files!Range(order) => Owed(f)' = {})
  <2>1. CASE who = "snapshot" /\ order = Files!SnapshotOrder
    <3>1. Owed(f)' \subseteq mem[f]
      BY <1>1, <2>1 DEF Owed
    <3> QED
      BY <2>1, <3>1, Orders
  <2>2. CASE who = "handler" /\ order = Files!FlushOrder
    <3>1. \A x \in Owed(f)' : f \in Files!Critical /\ x \in mem[f]
      BY <1>1, <2>2 DEF Owed, Files!Critical
    <3> QED
      BY <2>2, <3>1, Orders
  <2> QED
    BY <2>1, <2>2
<1>7. Progress'
  BY <1>1, <1>2, <1>6 DEF Progress, Files!Files, Files!Range, Files!Closed
<1>8. TornIsKnown'
  BY <1>1, <1>2 DEF FileInv, TornIsKnown, Files!Closed
<1>9. \A a \in promised : /\ Files!Exposed(a.store)' <=> Files!Exposed(a.store)
                          /\ OnFile(a.store, a.fact)' <=> OnFile(a.store, a.fact)
  BY <1>1, <1>2 DEF Files!Exposed, OnFile, Files!Closed
<1>10. Kept'
  BY <1>1, <1>9 DEF FileInv, Kept
<1> QED
  BY <1>4, <1>5, <1>7, <1>8, <1>10 DEF FileInv

\* write_text truncates: what is being written is in memory.
LEMMA OpenKeeps ==
    ASSUME FileInv, Files!OpenFile
    PROVE  FileInv'
<1> DEFINE h == Head(todo)
<1>1. /\ running /\ todo # <<>> /\ buffer = Files!Closed
      /\ buffer' = mem[h]
      /\ file' = [file EXCEPT ![h] = Files!Torn]
      /\ UNCHANGED <<mem, versioned, todo, writer, request, seen, promised, cut, running,
                     fileFaults>>
  BY DEF Files!OpenFile
<1>2. todo \in Seq(Files!Files)
  BY DEF FileInv, Files!TypeOK
<1>3. h \in Files!Files /\ h \in Files!Range(todo) /\ h \in Files!Stores
  <2>1. h = todo[1] /\ 1 \in DOMAIN todo
    BY <1>1, <1>2, HeadTailProperties
  <2> QED
    BY <1>1, <1>2, <2>1, FirstFile, Orders DEF Files!Range
<1> HIDE DEF h
<1>4. buffer' \in SUBSET (1..MaxFacts) /\ buffer' # Files!Closed
  <2>1. mem[h] \in SUBSET (1..MaxFacts)
    BY <1>3 DEF FileInv, Files!TypeOK
  <2> QED
    BY <1>1, <2>1 DEF Files!Closed
<1>5. /\ file' \in [Files!Files -> (SUBSET (1..MaxFacts)) \cup {Files!Torn}]
      /\ \A f \in Files!Files : f # h => file'[f] = file[f]
  BY <1>1, <1>3 DEF FileInv, Files!TypeOK
<1>6. Files!TypeOK'
  BY <1>1, <1>4, <1>5 DEF FileInv, Files!TypeOK, Files!Files, Files!Stores, Files!Torn,
     Files!Closed, Files!NoRequest
<1>7. Locked'
  BY <1>1 DEF FileInv, Locked, Files!Closed, Files!NoRequest
<1>8. \A f : Owed(f)' = Owed(f)
  BY <1>1 DEF Owed
<1>9. Head(todo)' = h
  BY <1>1 DEF h
<1>10. Progress'
  <2> SUFFICES ASSUME NEW f \in Files!Files
               PROVE  /\ Owed(f) \subseteq mem[f]
                      /\ f \notin Files!Range(todo) => Owed(f) \subseteq file'[f]
                      /\ f = h => Owed(f) \subseteq buffer'
    BY <1>1, <1>8, <1>9 DEF Progress, Files!Files, Files!Range
  <2> QED
    BY <1>1, <1>3, <1>5 DEF FileInv, Progress
<1>11. TornIsKnown'
  BY <1>1 DEF TornIsKnown
<1>12. Kept'
  <2> SUFFICES ASSUME NEW a \in promised, a.store # "logistics", ~Files!Exposed(a.store)
               PROVE  versioned /\ OnFile(a.store, a.fact)' /\ a.fact \in mem[a.store]
    BY <1>1 DEF Kept, Files!Exposed
  <2>1. a.store \in Files!Files
    BY Orders DEF FileInv, Files!TypeOK
  <2>2. versioned /\ OnFile(a.store, a.fact) /\ a.fact \in mem[a.store]
    BY <1>1 DEF FileInv, Kept
  <2>3. a.store = h => file'[a.store] = Files!Torn
    BY <1>1, <2>1 DEF FileInv, Files!TypeOK
  <2> QED
    BY <1>1, <1>5, <1>9, <2>1, <2>2, <2>3 DEF OnFile
<1> QED
  BY <1>6, <1>7, <1>10, <1>11, <1>12 DEF FileInv

\* The payload is on file: one file less to write.
LEMMA WriteKeeps ==
    ASSUME FileInv, Files!WriteFile
    PROVE  FileInv'
<1> DEFINE h == Head(todo)
<1>1. /\ running /\ todo # <<>> /\ buffer # Files!Closed
      /\ file' = [file EXCEPT ![h] = buffer]
      /\ buffer' = Files!Closed /\ todo' = Tail(todo)
      /\ UNCHANGED <<mem, versioned, writer, request, seen, promised, cut, running, fileFaults>>
  BY DEF Files!WriteFile
<1>2. /\ todo \in Seq(Files!Files) /\ h \in Files!Files /\ Tail(todo) \in Seq(Files!Files)
      /\ \A f : f \in Files!Range(todo) => f = h \/ f \in Files!Range(Tail(todo))
  BY <1>1, FirstFile DEF FileInv, Files!TypeOK
<1> HIDE DEF h
<1>3. buffer \in SUBSET (1..MaxFacts) /\ buffer # Files!Torn
  <2>1. buffer \in SUBSET (1..MaxFacts)
    BY <1>1 DEF FileInv, Files!TypeOK
  <2> QED
    BY <2>1 DEF Files!Torn
<1>4. /\ file' \in [Files!Files -> (SUBSET (1..MaxFacts)) \cup {Files!Torn}]
      /\ file'[h] = buffer
      /\ \A f \in Files!Files : f # h => file'[f] = file[f]
  BY <1>1, <1>2, <1>3 DEF FileInv, Files!TypeOK
<1>5. Files!TypeOK'
  BY <1>1, <1>2, <1>4 DEF FileInv, Files!TypeOK, Files!Files, Files!Stores, Files!Torn,
     Files!Closed, Files!NoRequest
<1>6. Locked'
  BY <1>1 DEF FileInv, Locked, Files!Closed, Files!NoRequest
<1>7. \A f : Owed(f)' = Owed(f)
  BY <1>1 DEF Owed
<1>8. Progress'
  <2> SUFFICES ASSUME NEW f \in Files!Files
               PROVE  /\ Owed(f) \subseteq mem[f]
                      /\ f \notin Files!Range(Tail(todo)) => Owed(f) \subseteq file'[f]
    BY <1>1, <1>7 DEF Progress, Files!Files, Files!Range, Files!Closed
  <2>1. f = h => Owed(f) \subseteq buffer
    BY <1>1 DEF FileInv, Progress, h
  <2> QED
    BY <1>1, <1>2, <1>4, <2>1 DEF FileInv, Progress
<1>9. TornIsKnown'
  BY <1>1 DEF TornIsKnown
<1>10. Kept'
  <2> SUFFICES ASSUME NEW a \in promised, a.store # "logistics", ~Files!Exposed(a.store)
               PROVE  versioned /\ OnFile(a.store, a.fact)' /\ a.fact \in mem[a.store]
    BY <1>1 DEF Kept, Files!Exposed
  <2>1. a.store \in Files!Files
    BY Orders DEF FileInv, Files!TypeOK
  <2>2. versioned /\ OnFile(a.store, a.fact) /\ a.fact \in mem[a.store]
    BY <1>1 DEF FileInv, Kept
  <2>3. file'[a.store] # Files!Torn => a.fact \in file'[a.store]
    BY <1>1, <1>4, <2>1, <2>2 DEF OnFile, h
  <2> QED
    BY <1>1, <2>2, <2>3 DEF OnFile, Files!Closed
<1> QED
  BY <1>5, <1>6, <1>8, <1>9, <1>10 DEF FileInv

\* The writer is done: what it owed is what is promised now.
LEMMA EndKeeps ==
    ASSUME FileInv, Files!EndWriting
    PROVE  FileInv'
<1>1. /\ running /\ writer # "none" /\ todo = <<>>
      /\ versioned' = TRUE /\ writer' = "none"
      /\ request' = (IF writer = "handler" THEN Files!NoRequest ELSE request)
      /\ promised' = promised \cup Files!Covered
      /\ seen' = [s \in Files!Stores |-> {}]
      /\ UNCHANGED <<mem, file, todo, buffer, cut, running, fileFaults>>
  BY DEF Files!EndWriting
<1>2. buffer = Files!Closed /\ Files!Range(todo) = {} /\ writer \in {"handler", "snapshot"}
  BY <1>1 DEF FileInv, Locked, Files!TypeOK, Files!Range
<1>3. ASSUME NEW a \in Files!Covered
      PROVE  /\ a \in [store : Files!Stores, fact : 1..MaxFacts]
             /\ a.store # "logistics" => a.fact \in file[a.store] /\ a.fact \in mem[a.store]
  <2>1. a \in [store : Files!Stores, fact : 1..MaxFacts]
    BY Orders DEF Files!Covered
  <2>2. ASSUME a.store # "logistics" PROVE a.store \in Files!Files /\ a.fact \in Owed(a.store)
    BY <1>2, <2>1, <2>2, Orders DEF Files!Covered, Owed
  <2> QED
    BY <1>1, <1>2, <2>1, <2>2 DEF FileInv, Progress
<1>4. promised' \subseteq [store : Files!Stores, fact : 1..MaxFacts]
  BY <1>1, <1>3 DEF FileInv, Files!TypeOK
<1>5. Files!TypeOK'
  <2>1. seen' \in [Files!Stores -> SUBSET (1..MaxFacts)]
    BY <1>1
  <2> QED
    BY <1>1, <1>4, <2>1 DEF FileInv, Files!TypeOK, Files!Files, Files!Stores, Files!Torn,
       Files!Closed, Files!NoRequest
<1>6. Locked'
  BY <1>1, <1>2 DEF FileInv, Locked, Files!Closed, Files!NoRequest
<1>7. \A f : Owed(f)' = {}
  BY <1>1 DEF Owed
<1>8. Progress' /\ TornIsKnown'
  BY <1>1, <1>2, <1>7 DEF FileInv, Progress, TornIsKnown, Files!Closed
<1>9. Kept'
  <2> SUFFICES ASSUME NEW a \in promised', a.store # "logistics", ~Files!Exposed(a.store)
               PROVE  /\ file[a.store] # Files!Torn => a.fact \in file[a.store]
                      /\ a.fact \in mem[a.store]
    BY <1>1, <1>2 DEF Kept, Files!Exposed, OnFile, Files!Closed
  <2>1. CASE a \in promised
    BY <1>1, <1>2, <2>1 DEF FileInv, Kept, OnFile
  <2>2. CASE a \in Files!Covered
    BY <1>3, <2>2
  <2> QED
    BY <1>1, <2>1, <2>2
<1> QED
  BY <1>5, <1>6, <1>8, <1>9 DEF FileInv

\* A write that fails promises nothing and closes what it was writing to.
LEMMA WriteFailsKeeps ==
    ASSUME FileInv, Files!WriteFails
    PROVE  FileInv'
<1>1. /\ running /\ fileFaults < MaxFileFaults /\ fileFaults' = fileFaults + 1
      /\ todo' = <<>> /\ writer' = "none" /\ buffer' = Files!Closed
      /\ request' = (IF writer = "handler" THEN Files!NoRequest ELSE request)
      /\ seen' = [s \in Files!Stores |-> {}]
      /\ UNCHANGED <<mem, file, versioned, promised, cut, running>>
  BY DEF Files!WriteFails
<1>2. Files!TypeOK'
  <2>1. fileFaults' \in 0..MaxFileFaults
    BY <1>1, FileConstants DEF FileInv, Files!TypeOK
  <2>2. seen' \in [Files!Stores -> SUBSET (1..MaxFacts)] /\ todo' \in Seq(Files!Files)
    BY <1>1
  <2> QED
    BY <1>1, <2>1, <2>2 DEF FileInv, Files!TypeOK, Files!Files, Files!Stores, Files!Torn,
       Files!Closed, Files!NoRequest
<1>3. Locked'
  BY <1>1 DEF FileInv, Locked, Files!Closed, Files!NoRequest
<1>4. \A f : Owed(f)' = {}
  BY <1>1 DEF Owed
<1>5. Progress' /\ TornIsKnown'
  BY <1>1, <1>4 DEF Progress, TornIsKnown, Files!Closed
<1>6. Kept'
  BY <1>1 DEF FileInv, Kept, OnFile, Files!Exposed, Files!Closed
<1> QED
  BY <1>2, <1>3, <1>5, <1>6 DEF FileInv

\* A crash exposes the store whose file it cut, and those behind it.
LEMMA DieKeeps ==
    ASSUME FileInv, Files!Die
    PROVE  FileInv'
<1>1. /\ running /\ fileFaults < MaxFileFaults /\ fileFaults' = fileFaults + 1
      /\ running' = FALSE
      /\ cut' = cut \cup {f \in Files!Files : file[f] = Files!Torn}
      /\ mem' = [s \in Files!Stores |-> {}] /\ seen' = [s \in Files!Stores |-> {}]
      /\ todo' = <<>> /\ writer' = "none" /\ buffer' = Files!Closed
      /\ request' = Files!NoRequest
      /\ UNCHANGED <<file, versioned, promised>>
  BY DEF Files!Die
<1>2. cut \subseteq cut' /\ cut' \subseteq Files!Files
  BY <1>1 DEF FileInv, Files!TypeOK
<1>3. Files!TypeOK'
  <2>1. fileFaults' \in 0..MaxFileFaults
    BY <1>1, FileConstants DEF FileInv, Files!TypeOK
  <2>2. mem' \in [Files!Stores -> SUBSET (1..MaxFacts)] /\ seen' \in [Files!Stores -> SUBSET (1..MaxFacts)]
        /\ todo' \in Seq(Files!Files)
    BY <1>1
  <2> QED
    BY <1>1, <1>2, <2>1, <2>2 DEF FileInv, Files!TypeOK, Files!Files, Files!Stores, Files!Torn,
       Files!Closed, Files!NoRequest
<1>4. Locked'
  BY <1>1 DEF Locked, Files!Closed, Files!NoRequest
<1>5. \A f : Owed(f)' = {}
  BY <1>1 DEF Owed
<1>6. Progress'
  BY <1>1, <1>5 DEF Progress, Files!Closed
<1>7. TornIsKnown'
  BY <1>1 DEF TornIsKnown, Files!Files
<1>8. Kept'
  <2> SUFFICES ASSUME NEW a \in promised, a.store # "logistics", ~(Files!Exposed(a.store)')
               PROVE  versioned /\ (file[a.store] # Files!Torn => a.fact \in file[a.store])
    BY <1>1 DEF Kept, OnFile, Files!Closed
  <2>1. ~Files!Exposed(a.store)
    BY <1>2 DEF Files!Exposed
  <2>2. versioned /\ OnFile(a.store, a.fact)
    BY <2>1 DEF FileInv, Kept
  <2> QED
    BY <2>2 DEF OnFile
<1> QED
  BY <1>3, <1>4, <1>6, <1>7, <1>8 DEF FileInv

\* restore_all reaches a store that no crash has exposed.
LEMMA RestoreReaches ==
    ASSUME TornIsKnown, ~running, NEW s \in Files!Files, ~Files!Exposed(s)
    PROVE  Files!Reached(s)
<1> SUFFICES ASSUME NEW i \in 1..(Files!Position(s) - 1),
                    Files!RestoreOrder[i] \in Files!Strict,
                    file[Files!RestoreOrder[i]] = Files!Torn
             PROVE  FALSE
  BY DEF Files!Reached
<1>1. Files!Position(s) \in 1..9
  BY Turns
<1>2. i \in 1..9 /\ i < Files!Position(s)
  BY <1>1
<1>3. Files!RestoreOrder[i] \in Files!Files /\ Files!Position(Files!RestoreOrder[i]) = i
  BY <1>2, Turns
<1>4. Files!RestoreOrder[i] \in cut
  BY <1>3 DEF TornIsKnown
<1> QED
  BY <1>2, <1>3, <1>4 DEF Files!Exposed

\* Startup reads back every store it reaches.
LEMMA BootKeeps ==
    ASSUME FileInv, Files!Boot
    PROVE  FileInv'
<1>1. /\ ~running /\ running' = TRUE
      /\ mem' = [s \in Files!Stores |->
                   IF /\ s \in Files!Files /\ versioned
                      /\ Files!Reached(s) /\ file[s] # Files!Torn
                   THEN file[s] ELSE {}]
      /\ UNCHANGED <<file, versioned, todo, writer, buffer, request, seen, promised, cut,
                     fileFaults>>
  BY DEF Files!Boot
<1>2. /\ writer = "none" /\ request = Files!NoRequest /\ todo = <<>>
      /\ buffer = Files!Closed
  BY <1>1 DEF FileInv, Locked
<1>3. mem' \in [Files!Stores -> SUBSET (1..MaxFacts)]
  <2>1. \A s \in Files!Files : file[s] # Files!Torn => file[s] \in SUBSET (1..MaxFacts)
    BY DEF FileInv, Files!TypeOK
  <2> QED
    BY <1>1, <2>1
<1>4. Files!TypeOK'
  BY <1>1, <1>3 DEF FileInv, Files!TypeOK, Files!Files, Files!Stores, Files!Torn,
     Files!Closed, Files!NoRequest
<1>5. Locked'
  BY <1>1, <1>2 DEF Locked, Files!Closed, Files!NoRequest
<1>6. \A f : Owed(f)' = {}
  BY <1>1, <1>2 DEF Owed
<1>7. Progress' /\ TornIsKnown'
  BY <1>1, <1>2, <1>6 DEF FileInv, Progress, TornIsKnown, Files!Closed, Files!Torn, Files!Files
<1>8. Kept'
  <2> SUFFICES ASSUME NEW a \in promised, a.store # "logistics", ~Files!Exposed(a.store)
               PROVE  /\ versioned /\ OnFile(a.store, a.fact)'
                      /\ a.fact \in mem'[a.store]
    BY <1>1 DEF Kept, Files!Exposed
  <2>1. a.store \in Files!Files /\ a.store \in Files!Stores /\ a.fact \in 1..MaxFacts
    BY Orders DEF FileInv, Files!TypeOK
  <2>2. file[a.store] # Files!Torn
    BY <1>1, <2>1 DEF FileInv, TornIsKnown, Files!Exposed
  <2>3. versioned /\ a.fact \in file[a.store]
    BY <2>2 DEF FileInv, Kept, OnFile
  <2>4. Files!Reached(a.store)
    BY <1>1, <2>1, RestoreReaches DEF FileInv
  <2> QED
    BY <1>1, <1>2, <2>1, <2>2, <2>3, <2>4 DEF OnFile, Files!Closed
<1> QED
  BY <1>4, <1>5, <1>7, <1>8 DEF FileInv

\* Every step of the state files keeps it.
LEMMA StepFiles == FileInv /\ [Files!Next]_(Files!fileVars) => FileInv'
<1> SUFFICES ASSUME FileInv, [Files!Next]_(Files!fileVars) PROVE FileInv'
  OBVIOUS
<1>1. CASE UNCHANGED Files!fileVars
  BY ZenonT(60), <1>1 DEF FileInv, Locked, Progress, TornIsKnown, Kept, Owed, OnFile, Files!Exposed,
     Files!TypeOK, Files!Files, Files!Stores, Files!Torn, Files!Closed, Files!NoRequest,
     Files!Range, Files!fileVars
<1>2. CASE \E s \in ChangingStores : Files!Change(s)
  BY <1>2, ChangeKeeps
<1>3. CASE Files!StartWriting("handler", Files!FlushOrder)
  BY <1>3, StartKeeps
<1>4. CASE Files!StartWriting("snapshot", Files!SnapshotOrder)
  BY <1>4, StartKeeps
<1> QED
  BY <1>1, <1>2, <1>3, <1>4, OpenKeeps, WriteKeeps, EndKeeps, WriteFailsKeeps, DieKeeps, BootKeeps
     DEF Files!Next

\* What a flush or a snapshot has written out whole is there after every crash that
\* found no file half written it depends on, whatever writes fail in between
\* (persistence.flush_critical, snapshot_all, restore_all).
THEOREM PromisesKept == Spec => []PromisedSurvives
<1>1. FileInv => PromisedSurvives
  BY DEF FileInv, Kept, PromisedSurvives, Files!PromisedSurvives
<1> QED
  BY <1>1, FilesRun, InitFiles, StepFiles, PTL DEF Files!Spec

-----------------------------------------------------------------------------
(* Plans and workbooks *)

\* Lines of p are of the tenant who has the project, p being among all.
LinesOf(items, p, all) ==
    \A i \in DOMAIN items : /\ p \in DOMAIN all /\ all[p].tenant = items[i].tenant
                            /\ "tenant" \in DOMAIN items[i]

\* Projects stay with their tenants, and each has only lines of its tenant.
PlanInv ==
    /\ \A p \in DOMAIN PlanProjects :
          /\ p \in DOMAIN projects
          /\ projects[p].tenant = PlanProjects[p].tenant
    /\ DOMAIN bom = ProjectIds
    /\ \A p \in ProjectIds : LinesOf(bom[p], p, projects)

\* A line after an upsert is an old one, or has the tenant of the upsert.
LEMMA UpsertedLine ==
    ASSUME NEW items, NEW t, NEW new, NEW ids,
           NEW i \in DOMAIN Plan!Upserted(items, t, new, ids)
    PROVE  \/ i \in DOMAIN items /\ Plan!Upserted(items, t, new, ids)[i] = items[i]
           \/ /\ DOMAIN ids # {}
              /\ Plan!Upserted(items, t, new, ids)[i].tenant = t
              /\ "tenant" \in DOMAIN Plan!Upserted(items, t, new, ids)[i]
<1> DEFINE writers == {n \in DOMAIN ids : ids[n] = i}
<1>1. i \in DOMAIN items \cup Plan!Range(ids)
  BY DEF Plan!Upserted
<1>2. CASE writers = {}
  <2>1. i \notin Plan!Range(ids)
    BY <1>2 DEF Plan!Range
  <2>2. Plan!Upserted(items, t, new, ids)[i] = items[i]
    BY <1>1, <1>2 DEF Plan!Upserted
  <2> QED
    BY <1>1, <2>1, <2>2
<1>3. CASE writers # {}
  <2>1. Plan!Upserted(items, t, new, ids)[i] = Plan!Line(t, new[Plan!Max(writers)])
    BY <1>1, <1>3 DEF Plan!Upserted
  <2>2. \A row : Plan!Line(t, row).tenant = t /\ "tenant" \in DOMAIN Plan!Line(t, row)
    BY DEF Plan!Line
  <2>3. DOMAIN ids # {}
    BY <1>3
  <2> QED
    BY <2>1, <2>2, <2>3
<1> QED
  BY <1>2, <1>3

\* A project's tenant may do what it could before a commit.
LEMMA CommitKeepsOwners ==
    ASSUME NEW t, NEW book, projects' = Plan!CommittedProjects(t, book)
    PROVE  \A p \in DOMAIN projects : p \in DOMAIN projects' /\ projects'[p].tenant = projects[p].tenant
<1> DEFINE named == {Plan!CanonicalId(book.projects[n]) : n \in DOMAIN book.projects}
           mine  == {p \in named : ~Plan!OwnedByOther(t, p)}
<1>1. projects' = [p \in DOMAIN projects \cup mine |->
                     IF p \in mine THEN Plan!IngestedProject(t) ELSE projects[p]]
  BY DEF Plan!CommittedProjects
<1>2. Plan!IngestedProject(t).tenant = t
  BY DEF Plan!IngestedProject
<1>3. \A p \in mine : p \in DOMAIN projects => projects[p].tenant = t
  BY DEF Plan!OwnedByOther
<1> HIDE DEF mine
<1> QED
  BY <1>1, <1>2, <1>3

\* No project has lines.
LEMMA InitPlan == Plan!Init => PlanInv
  BY PlanConstants DEF Plan!Init, PlanInv, LinesOf

\* Every step of the plans keeps their invariant.
LEMMA StepPlan == PlanInv /\ [Plan!Next]_(Plan!planVars) => PlanInv'
<1> SUFFICES ASSUME PlanInv, [Plan!Next]_(Plan!planVars) PROVE PlanInv'
  OBVIOUS
<1>1. ASSUME NEW t \in PlanTenants, NEW p \in ProjectIds, NEW new,
             Plan!UploadBomCsv(t, p, new)
      PROVE  PlanInv'
  <2> DEFINE taken == {n \in DOMAIN new : new[n].quantity # "none"}
             ids == [n \in taken |-> Plan!ItemId(new[n], "U", n)]
             after == Plan!Upserted(bom[p], projects[p].tenant, new, ids)
  <2>1. /\ bom' = [bom EXCEPT ![p] = after]
        /\ Plan!MayUse(t, p) /\ projects' = projects
    BY <1>1 DEF Plan!UploadBomCsv
  <2>2. \A i \in DOMAIN after : \/ i \in DOMAIN bom[p] /\ after[i] = bom[p][i]
                                \/ /\ after[i].tenant = projects[p].tenant
                                   /\ "tenant" \in DOMAIN after[i]
    BY UpsertedLine
  <2> HIDE DEF after
  <2>3. LinesOf(after, p, projects)
    BY <2>1, <2>2 DEF PlanInv, LinesOf, Plan!MayUse, after
  <2>4. bom'[p] = after /\ \A q \in ProjectIds \ {p} : bom'[q] = bom[q]
    BY <2>1 DEF PlanInv
  <2> QED
    BY <2>1, <2>3, <2>4 DEF PlanInv, LinesOf, Plan!MayUse
<1>2. ASSUME NEW t \in PlanTenants, NEW p \in ProjectIds, NEW i \in DOMAIN bom[p],
             Plan!PatchBomItem(t, p, i)
      PROVE  PlanInv'
  <2>1. bom' = [bom EXCEPT ![p][i].supplier = TRUE] /\ projects' = projects
    BY <1>2 DEF Plan!PatchBomItem
  <2>2. \A q \in ProjectIds : /\ DOMAIN bom'[q] = DOMAIN bom[q]
                              /\ q # p => bom'[q] = bom[q]
    BY <2>1 DEF PlanInv
  <2>3. \A j \in DOMAIN bom[p] : /\ bom'[p][j].tenant = bom[p][j].tenant
                                 /\ "tenant" \in DOMAIN bom'[p][j]
    BY <2>1 DEF PlanInv, LinesOf
  <2> QED
    BY <2>1, <2>2, <2>3 DEF PlanInv, LinesOf, Plan!MayUse
<1>3. ASSUME NEW t \in PlanTenants, NEW s \in 1..MaxStaged, NEW default,
             Plan!Commit(t, s, default)
      PROVE  PlanInv'
  <2> DEFINE book == staging[s].book
             now == Plan!CommittedProjects(t, book)
             Of(n) == IF book.lines[n].project # "" THEN book.lines[n].project ELSE default
             good == {n \in DOMAIN book.lines : Of(n) \in DOMAIN now /\ now[Of(n)].tenant = t}
             ids(p) == [n \in {k \in good : Of(k) = p} |->
                     Plan!ItemId(book.lines[n], "ING", Plan!Cardinality({k \in good : k <= n}))]
             After(p) == Plan!Upserted(bom[p], t, book.lines, ids(p))
  <2>1. projects' = now /\ bom' = [p \in ProjectIds |-> After(p)]
    BY ZenonT(60), <1>3 DEF Plan!Commit, Plan!CommittedLines
  <2>2. ASSUME NEW p \in ProjectIds, NEW i \in DOMAIN After(p)
        PROVE  \/ i \in DOMAIN bom[p] /\ After(p)[i] = bom[p][i]
               \/ /\ p \in DOMAIN now /\ now[p].tenant = t
                  /\ After(p)[i].tenant = t
                  /\ "tenant" \in DOMAIN After(p)[i]
    <3>1. DOMAIN ids(p) # {} => p \in DOMAIN now /\ now[p].tenant = t
      BY ZenonT(60)
    <3> HIDE DEF ids
    <3>2. i \in DOMAIN Plan!Upserted(bom[p], t, book.lines, ids(p))
      BY ZenonT(60)
    <3> QED
      BY SMTT(60), <3>1, <3>2, UpsertedLine
  <2>3. \A p \in DOMAIN projects : p \in DOMAIN projects' /\ projects'[p].tenant = projects[p].tenant
    BY ZenonT(60), <2>1, CommitKeepsOwners
  <2> HIDE DEF After, now
  <2>4. \A p \in ProjectIds : LinesOf(bom'[p], p, projects')
    <3> SUFFICES ASSUME NEW p \in ProjectIds, NEW i \in DOMAIN bom'[p]
                 PROVE  /\ p \in DOMAIN projects' /\ projects'[p].tenant = bom'[p][i].tenant
                        /\ "tenant" \in DOMAIN bom'[p][i]
      BY DEF LinesOf
    <3>1. bom'[p] = After(p)
      BY <2>1
    <3>2. CASE i \in DOMAIN bom[p] /\ After(p)[i] = bom[p][i]
      BY <2>3, <3>1, <3>2 DEF PlanInv, LinesOf, Plan!MayUse
    <3>3. CASE p \in DOMAIN now /\ now[p].tenant = t /\ After(p)[i].tenant = t
               /\ "tenant" \in DOMAIN After(p)[i]
      BY <2>1, <3>1, <3>3 DEF Plan!MayUse
    <3> QED
      BY <2>2, <3>1, <3>2, <3>3
  <2> QED
    BY ZenonT(60), <2>1, <2>3, <2>4 DEF PlanInv
<1>4. ASSUME UNCHANGED <<projects, bom>> PROVE PlanInv'
  BY <1>4 DEF PlanInv, LinesOf, Plan!MayUse
<1> QED
  BY <1>1, <1>2, <1>3, <1>4 DEF Plan!Next, Plan!GrowOld, Plan!Preview, Plan!planVars

\* Whatever the order of two tenants' previews and commits, a project stays with
\* its tenant and has only lines of that tenant (ingest.commit, upload_bom_csv).
THEOREM ProjectsStay == Spec => []LinesFollowProject
<1>1. PlanInv => LinesFollowProject
  BY DEF PlanInv, LinesOf, LinesFollowProject, Plan!LinesFollowProject, Plan!MayUse
<1> QED
  BY <1>1, PlanRuns, InitPlan, StepPlan, PTL DEF Plan!Spec

\* The finite sets of the plans are the finite sets.
LEMMA PlanFinite == ASSUME NEW S PROVE Plan!IsFiniteSet(S) <=> IsFiniteSet(S)
  BY DEF Plan!IsFiniteSet, IsFiniteSet

LEMMA PlanCardinality == ASSUME NEW S PROVE Plan!Cardinality(S) = Cardinality(S)
  BY DEF Plan!Cardinality, Cardinality

\* A calendar gives finitely many milestones a date.
LEMMA CalendarIs ==
    ASSUME NEW dates
    PROVE  Plan!IsCalendar(dates) <=>
              IsFiniteSet(DOMAIN dates) /\ dates \in [DOMAIN dates -> Nat]
  BY Zenon, PlanFinite DEF Plan!IsCalendar

\* A list by date names every milestone once, in order.
LEMMA ByDateIs ==
    ASSUME NEW dates, Plan!IsCalendar(dates)
    PROVE  \E n \in Nat : \E codes \in [1..n -> DOMAIN dates] :
              /\ Plan!ByDate(dates) = codes
              /\ \A i, j \in 1..n : i < j => dates[codes[i]] <= dates[codes[j]]
              /\ \A c \in DOMAIN dates : \E i \in 1..n : codes[i] = c
<1> DEFINE S == DOMAIN dates
           Sorted(f) == \A i, j \in DOMAIN f : i < j => dates[f[i]] <= dates[f[j]]
<1>1. IsFiniteSet(S) /\ \A x \in S : dates[x] \in Nat
  <2>1. IsFiniteSet(DOMAIN dates) /\ dates \in [DOMAIN dates -> Nat]
    BY CalendarIs
  <2> QED
    BY <2>1
<1>2. PICK n \in Nat : n = Cardinality(S)
  BY <1>1, FS_CardinalityType
<1>3. PICK f \in [1..n -> S] :
        /\ \A i, j \in 1..n : i # j => f[i] # f[j]
        /\ \A i, j \in 1..n : i < j => dates[f[i]] <= dates[f[j]]
  <2> HIDE DEF S
  <2> QED
    BY <1>1, <1>2, SortedListExists
<1>4. Plan!SetToSeqs(S) = {g \in [1..n -> S] : \A i, j \in 1..n : i # j => g[i] # g[j]}
  BY Zenon, <1>2, PlanCardinality DEF Plan!SetToSeqs
<1>5. f \in Plan!SetToSeqs(S) /\ Sorted(f)
  BY <1>3, <1>4
<1>6. PICK codes : codes = CHOOSE g \in Plan!SetToSeqs(S) : Sorted(g)
  OBVIOUS
<1>7. codes \in Plan!SetToSeqs(S) /\ Sorted(codes)
  <2> HIDE DEF Sorted, S
  <2> QED
    BY Zenon, <1>5, <1>6
<1>8. Plan!ByDate(dates) = codes
  BY Zenon, <1>6 DEF Plan!ByDate
<1>9. codes \in [1..n -> S] /\ \A i, j \in 1..n : i # j => codes[i] # codes[j]
  BY <1>4, <1>7
<1>10. \A c \in S : \E i \in 1..n : codes[i] = c
  <2> HIDE DEF S
  <2> QED
    BY <1>1, <1>2, <1>9, EnumerationCovers
<1>11. \A i, j \in 1..n : i < j => dates[codes[i]] <= dates[codes[j]]
  BY <1>7, <1>9
<1> QED
  BY Zenon, <1>8, <1>9, <1>10, <1>11

\* A milestone c is right for a need: the earliest in time, or the last.
RightFor(c, dates, need) ==
    /\ c \in DOMAIN dates
    /\ dates[c] >= need \/ \A d \in DOMAIN dates : dates[d] <= dates[c]
    /\ \A d \in DOMAIN dates : dates[d] >= need =>
          need <= dates[c] /\ dates[c] <= dates[d]

\* The nearest milestone is right.
LEMMA NearestIsRight ==
    ASSUME NEW dates, Plan!IsCalendar(dates), NEW need \in Nat,
           need # Plan!Undated, dates # <<>>
    PROVE  RightFor(Plan!NearestMilestone(dates, need), dates, need)
<1>1. PICK n \in Nat : \E codes \in [1..n -> DOMAIN dates] :
              /\ Plan!ByDate(dates) = codes
              /\ \A i, j \in 1..n : i < j => dates[codes[i]] <= dates[codes[j]]
              /\ \A c \in DOMAIN dates : \E i \in 1..n : codes[i] = c
  BY ByDateIs
<1>2. PICK codes \in [1..n -> DOMAIN dates] :
              /\ Plan!ByDate(dates) = codes
              /\ \A i, j \in 1..n : i < j => dates[codes[i]] <= dates[codes[j]]
              /\ \A c \in DOMAIN dates : \E i \in 1..n : codes[i] = c
  BY Zenon, <1>1
<1>3. dates \in [DOMAIN dates -> Nat] /\ \A d \in DOMAIN dates : dates[d] \in Nat
  <2>1. dates \in [DOMAIN dates -> Nat]
    BY CalendarIs
  <2> QED
    BY <2>1
<1>4. n # 0
  <2>1. DOMAIN dates # {}
    BY <1>3
  <2> QED
    BY <1>2, <2>1
<1> DEFINE inTime == {k \in 1..n : dates[codes[k]] >= need}
           last   == IF inTime # {} THEN Plan!Min(inTime) ELSE n
<1>5. Plan!NearestMilestone(dates, need) = codes[last]
  <2>1. DOMAIN codes = 1..n /\ Len(codes) = n
    BY <1>2
  <2> DEFINE list == Plan!ByDate(dates)
             early == {k \in DOMAIN list : dates[list[k]] >= need}
  <2>2. early = inTime
    BY <1>2, <2>1
  <2>3. Plan!NearestMilestone(dates, need) =
          list[IF early # {} THEN Plan!Min(early) ELSE Len(list)]
    <3>1. ~(need = Plan!Undated \/ dates = <<>>)
      OBVIOUS
    <3> QED
      BY <3>1 DEF Plan!NearestMilestone
  <2> HIDE DEF early, inTime
  <2> QED
    BY Zenon, <1>2, <2>1, <2>2, <2>3
<1>6. CASE inTime = {}
  <2>1. \A d \in DOMAIN dates : ~(dates[d] >= need)
    BY <1>2, <1>6
  <2>2. \A d \in DOMAIN dates : dates[d] <= dates[codes[n]]
    <3> SUFFICES ASSUME NEW d \in DOMAIN dates PROVE dates[d] <= dates[codes[n]]
      OBVIOUS
    <3>1. PICK i \in 1..n : codes[i] = d
      BY <1>2
    <3>2. i = n \/ i < n
      BY <1>1
    <3>3. n \in 1..n /\ codes[n] \in DOMAIN dates
      BY <1>2, <1>4
    <3> QED
      BY <1>2, <1>3, <3>1, <3>2, <3>3
  <2>3. last = n /\ codes[n] \in DOMAIN dates
    BY <1>2, <1>4, <1>6
  <2> QED
    BY <1>5, <2>1, <2>2, <2>3 DEF RightFor
<1>7. CASE inTime # {}
  <2>1. inTime \in SUBSET Nat
    OBVIOUS
  <2>2. PICK m \in inTime : \A k \in inTime : m <= k
    <3> HIDE DEF inTime
    <3> QED
      BY <1>7, <2>1, LeastNat
  <2>3. Plan!Min(inTime) \in inTime /\ \A k \in inTime : Plan!Min(inTime) <= k
    <3> HIDE DEF inTime
    <3> QED
      BY <2>2 DEF Plan!Min
  <2>4. PICK least \in inTime : least = last /\ \A k \in inTime : least <= k
    BY Zenon, <1>7, <2>3
  <2> HIDE DEF last
  <2>5. least \in 1..n /\ codes[least] \in DOMAIN dates /\ dates[codes[least]] >= need
    BY <1>2, <2>4
  <2>6. ASSUME NEW d \in DOMAIN dates, dates[d] >= need
        PROVE  dates[codes[least]] <= dates[d]
    <3>1. PICK i \in 1..n : codes[i] = d
      BY <1>2
    <3>2. i \in inTime
      BY <2>6, <3>1
    <3>3. least <= i
      BY <2>4, <3>2
    <3>4. i = least \/ least < i
      BY <2>5, <3>3
    <3> QED
      BY <1>2, <1>3, <2>5, <3>1, <3>4
  <2>7. dates[codes[least]] \in Nat
    BY <1>3, <2>5
  <2> QED
    BY <1>5, <2>4, <2>5, <2>6, <2>7 DEF RightFor
<1> QED
  BY <1>6, <1>7

\* Lines of a bill, finitely many.
Typed(items) ==
    /\ IsFiniteSet(DOMAIN items)
    /\ \A i \in DOMAIN items : items[i] \in Plan!BOMItem

\* What may be staged: rows of files, numbered as there, and known projects.
Stageable(book) ==
    /\ IsFiniteSet(DOMAIN book.lines) /\ DOMAIN book.lines \subseteq Nat
    /\ \A n \in DOMAIN book.lines : book.lines[n] \in Plan!Rows
    /\ \A n \in DOMAIN book.projects : Plan!CanonicalId(book.projects[n]) \in ProjectIds

\* A project that there can be.
ProjectTyped(p, all) ==
    p \in ProjectIds /\ all[p].tenant \in PlanTenants /\ Plan!IsCalendar(all[p].milestones)

\* A slot of the staging area holds nothing, or a tenant's workbook.
SlotTyped(slot) ==
    slot # Plan!NotStaged =>
        /\ {"tenant", "book"} \subseteq DOMAIN slot
        /\ slot.tenant \in PlanTenants /\ Stageable(slot.book)

\* The types of the plans, with what they need to be kept.
PlanTyped ==
    /\ \A p \in DOMAIN projects : ProjectTyped(p, projects)
    /\ DOMAIN bom = ProjectIds /\ \A p \in ProjectIds : Typed(bom[p])
    /\ DOMAIN staging = 1..MaxStaged /\ \A s \in 1..MaxStaged : SlotTyped(staging[s])
    /\ uploads \in 0..MaxUploads

\* The rows of the files are rows.
LEMMA RowsTyped == Plan!Rows \subseteq Plan!Row
<1> SUFFICES ASSUME NEW b \in Workbooks, NEW r \in Plan!Range(b.lines) PROVE r \in Plan!Row
  BY DEF Plan!Rows
<1>1. b.lines \in Seq(Plan!Row)
  BY PlanConstants
<1>2. PICK n \in DOMAIN b.lines : r = b.lines[n]
  BY DEF Plan!Range
<1> QED
  BY <1>1, <1>2

\* A line made from a row.
LEMMA LineTyped ==
    ASSUME NEW t \in PlanTenants, NEW row \in Plan!Rows
    PROVE  Plan!Line(t, row) \in Plan!BOMItem
<1>1. row \in Plan!Row
  BY RowsTyped
<1>2. PICK codes : codes = {r.milestone : r \in Plan!Rows}
  OBVIOUS
<1>3. Plan!BOMItem = [tenant : PlanTenants, milestone : codes, need : Nat, lead : Nat,
                      spec : BOOLEAN, supplier : BOOLEAN, status : Plan!BomStatus]
  BY Zenon, <1>2 DEF Plan!BOMItem
<1>4. /\ row.need \in Nat /\ row.lead \in Nat /\ row.spec \in BOOLEAN
      /\ row.supplier \in BOOLEAN
      /\ row.status \in Plan!BomStatus \/ row.status = ""
  BY Zenon, <1>1 DEF Plan!Row
<1>5. PICK status \in Plan!BomStatus :
        status = IF row.status # "" THEN row.status
                 ELSE IF row.spec THEN "planned" ELSE "spec_missing"
  BY Zenon, <1>4 DEF Plan!BomStatus
<1>6. PICK need \in Nat : need = row.need
  BY Zenon, <1>4
<1>7. PICK lead \in Nat : lead = row.lead
  BY Zenon, <1>4
<1>8. PICK spec \in BOOLEAN : spec = row.spec
  BY Zenon, <1>4
<1>9. PICK supplier \in BOOLEAN : supplier = row.supplier
  BY Zenon, <1>4
<1>10. PICK code \in codes : code = row.milestone
  BY Zenon, <1>2
<1>11. Plan!Line(t, row) = [tenant |-> t, milestone |-> code, need |-> need,
                            lead |-> lead, spec |-> spec,
                            supplier |-> supplier, status |-> status]
  BY Zenon, <1>5, <1>6, <1>7, <1>8, <1>9, <1>10 DEF Plan!Line
<1>12. [tenant |-> t, milestone |-> code, need |-> need, lead |-> lead, spec |-> spec,
        supplier |-> supplier, status |-> status] \in
          [tenant : PlanTenants, milestone : codes, need : Nat, lead : Nat,
           spec : BOOLEAN, supplier : BOOLEAN, status : Plan!BomStatus]
  OBVIOUS
<1> QED
  BY Zenon, <1>3, <1>11, <1>12

\* A finite set of naturals that is not empty has a greatest element.
LEMMA GreatestNat ==
    ASSUME NEW T \in SUBSET Nat, IsFiniteSet(T), T # {} PROVE Plan!Max(T) \in T
<1> DEFINE Above(m) == {n \in T : n > m}
           Bad == {Above(m) : m \in T}
<1>1. Bad \in SUBSET (SUBSET T) /\ Bad # {}
  OBVIOUS
<1>2. PICK A \in Bad : \A B \in SUBSET A : B # A => B \notin Bad
  <2> HIDE DEF Bad
  <2> QED
    BY <1>1, LeastSet
<1>3. PICK m \in T : A = Above(m)
  BY <1>2
<1>4. \A n \in T : m >= n
  <2> SUFFICES ASSUME NEW n \in T, n > m PROVE FALSE
    BY <1>3
  <2>1. Above(n) \in SUBSET A /\ Above(n) # A
    <3>1. Above(n) \in SUBSET A
      <4>1. \A k \in T : k > n => k > m
        <5> HIDE DEF Bad, Above
        <5> QED
          OBVIOUS
      <4>2. Above(n) \subseteq Above(m)
        BY Zenon, <4>1
      <4> QED
        BY Zenon, <1>3, <4>2
    <3>2. n \in Above(m)
      OBVIOUS
    <3>4. n \notin Above(n)
      <4>1. ~(n > n)
        OBVIOUS
      <4> QED
        BY Zenon, <4>1
    <3>3. n \in A
      BY <1>3, <3>2
    <3> HIDE DEF Above
    <3> QED
      BY <3>1, <3>3, <3>4
  <2>2. Above(n) \in Bad
    OBVIOUS
  <2> HIDE DEF Bad, Above
  <2> QED
    BY <1>2, <2>1, <2>2
<1> QED
  BY <1>3, <1>4 DEF Plan!Max

\* Rows written into a bill leave a bill.
LEMMA UpsertedTyped ==
    ASSUME NEW items, Typed(items), NEW t \in PlanTenants, NEW new, NEW ids,
           IsFiniteSet(DOMAIN ids), DOMAIN ids \subseteq Nat,
           \A n \in DOMAIN ids : new[n] \in Plan!Rows
    PROVE  Typed(Plan!Upserted(items, t, new, ids))
<1> DEFINE writers(i) == {n \in DOMAIN ids : ids[n] = i}
<1>1. PICK after : after = Plan!Upserted(items, t, new, ids)
  OBVIOUS
<1>2. /\ DOMAIN after = DOMAIN items \cup Plan!Range(ids)
      /\ \A i \in DOMAIN items \cup Plan!Range(ids) :
            after[i] = IF writers(i) = {} THEN items[i]
                       ELSE Plan!Line(t, new[Plan!Max(writers(i))])
  BY <1>1 DEF Plan!Upserted
<1>3. IsFiniteSet(DOMAIN after)
  <2>1. IsFiniteSet(Plan!Range(ids))
    <3>1. Plan!Range(ids) = {ids[n] : n \in DOMAIN ids}
      BY DEF Plan!Range
    <3>2. IsFiniteSet({ids[n] : n \in DOMAIN ids})
      BY ImageFinite
    <3> QED
      BY <3>1, <3>2
  <2>2. IsFiniteSet(DOMAIN items)
    BY DEF Typed
  <2>3. IsFiniteSet(DOMAIN items \cup Plan!Range(ids))
    BY <2>1, <2>2, FS_Union
  <2> QED
    BY Zenon, <1>2, <2>3
<1>4. ASSUME NEW i \in DOMAIN after PROVE after[i] \in Plan!BOMItem
  <2>1. CASE writers(i) = {}
    <3>1. i \notin Plan!Range(ids)
      BY <2>1 DEF Plan!Range
    <3> QED
      BY <1>2, <1>4, <2>1, <3>1 DEF Typed
  <2>2. CASE writers(i) # {}
    <3>1. writers(i) \in SUBSET Nat /\ writers(i) \in SUBSET DOMAIN ids
      OBVIOUS
    <3> HIDE DEF writers
    <3>2. Plan!Max(writers(i)) \in writers(i)
      BY <2>2, <3>1, FS_Subset, GreatestNat
    <3>3. PICK n \in DOMAIN ids : n = Plan!Max(writers(i))
      BY <3>1, <3>2
    <3>4. after[i] = Plan!Line(t, new[n])
      BY Zenon, <1>2, <1>4, <2>2, <3>3
    <3> QED
      BY <3>4, LineTyped
  <2> QED
    BY <2>1, <2>2
<1> QED
  BY <1>1, <1>3, <1>4 DEF Typed

\* The good rows of a workbook can be staged.
LEMMA ValidStageable == ASSUME NEW b \in Workbooks PROVE Stageable(Plan!Valid(b))
<1>1. /\ b \in [projects : Seq(STRING), lines : Seq(Plan!Row)]
      /\ \A n \in DOMAIN b.projects : Plan!CanonicalId(b.projects[n]) \in ProjectIds
  BY PlanConstants
<1> DEFINE good == {n \in DOMAIN b.lines : b.lines[n].quantity = "positive"}
<1>2. PICK lines : lines = [n \in good |-> b.lines[n]]
  OBVIOUS
<1>3. Plan!Valid(b) = [b EXCEPT !.lines = lines]
  BY <1>2 DEF Plan!Valid, Plan!Restrict
<1>4. Plan!Valid(b).lines = lines /\ Plan!Valid(b).projects = b.projects
  BY <1>1, <1>3
<1>5. PICK k \in Nat : DOMAIN b.lines = 1..k
  BY <1>1
<1>6. IsFiniteSet(DOMAIN lines) /\ DOMAIN lines \subseteq Nat
  <2>1. IsFiniteSet(1..k) /\ good \in SUBSET (1..k)
    BY <1>5, FS_Interval
  <2> QED
    BY <1>2, <2>1, FS_Subset
<1>7. \A n \in DOMAIN lines : lines[n] \in Plan!Rows
  BY <1>2 DEF Plan!Rows, Plan!Range
<1> QED
  BY <1>1, <1>4, <1>6, <1>7 DEF Stageable

\* What a commit leaves of the projects is typed.
LEMMA CommitTypesProjects ==
    ASSUME \A p \in DOMAIN projects : ProjectTyped(p, projects),
           NEW t \in PlanTenants, NEW book, Stageable(book)
    PROVE  \A p \in DOMAIN Plan!CommittedProjects(t, book) :
              ProjectTyped(p, Plan!CommittedProjects(t, book))
<1> DEFINE named == {Plan!CanonicalId(book.projects[n]) : n \in DOMAIN book.projects}
           mine  == {p \in named : ~Plan!OwnedByOther(t, p)}
<1>1. PICK now : now = Plan!CommittedProjects(t, book)
  OBVIOUS
<1>2. now = [p \in DOMAIN projects \cup mine |->
                     IF p \in mine THEN Plan!IngestedProject(t) ELSE projects[p]]
  BY <1>1 DEF Plan!CommittedProjects
<1>3. mine \subseteq ProjectIds
  BY DEF Stageable
<1>4. /\ Plan!IngestedProject(t).tenant = t
      /\ Plan!IsCalendar(Plan!IngestedProject(t).milestones)
  <2>1. IsFiniteSet({"M1"})
    BY FS_Singleton
  <2>2. Plan!IngestedProject(t) =
          [tenant |-> t, milestones |-> [c \in {"M1"} |-> Plan!Today]]
    BY DEF Plan!IngestedProject
  <2> QED
    BY <2>1, <2>2, CalendarIs DEF Plan!Today
<1> HIDE DEF mine
<1>5. \A p \in DOMAIN now : ProjectTyped(p, now)
  <2> SUFFICES ASSUME NEW p \in DOMAIN now PROVE ProjectTyped(p, now)
    OBVIOUS
  <2>1. CASE p \in mine
    <3>1. now[p] = Plan!IngestedProject(t)
      BY Zenon, <1>2, <2>1
    <3> QED
      BY <1>3, <1>4, <2>1, <3>1 DEF ProjectTyped
  <2>2. CASE p \notin mine
    <3>1. p \in DOMAIN projects /\ now[p] = projects[p]
      BY <1>2, <2>2
    <3> QED
      BY <3>1 DEF ProjectTyped
  <2> QED
    BY <2>1, <2>2
<1> QED
  BY <1>1, <1>5

\* There are typed projects, without lines, and nothing is staged.
LEMMA InitPlanTyped == Plan!Init => PlanTyped
<1> SUFFICES ASSUME Plan!Init PROVE PlanTyped
  OBVIOUS
<1>1. \A p \in DOMAIN projects : ProjectTyped(p, projects)
  BY PlanConstants DEF Plan!Init, ProjectTyped
<1>2. DOMAIN bom = ProjectIds /\ \A p \in ProjectIds : Typed(bom[p])
  <2>1. IsFiniteSet(DOMAIN <<>>) /\ DOMAIN <<>> = {}
    BY FS_EmptySet
  <2> QED
    BY <2>1 DEF Plan!Init, Typed
<1>3. DOMAIN staging = 1..MaxStaged /\ \A s \in 1..MaxStaged : SlotTyped(staging[s])
  BY DEF Plan!Init, SlotTyped
<1>4. uploads \in 0..MaxUploads
  BY PlanConstants DEF Plan!Init
<1> QED
  BY <1>1, <1>2, <1>3, <1>4 DEF PlanTyped

\* An upload of a file keeps the types.
LEMMA UploadTyped ==
    ASSUME PlanTyped, NEW t \in PlanTenants, NEW p \in ProjectIds,
           NEW b \in Workbooks, Plan!UploadBomCsv(t, p, b.lines)
    PROVE  PlanTyped'
<1>1. PICK new : new = b.lines
  OBVIOUS
<1> DEFINE taken == {n \in DOMAIN new : new[n].quantity # "none"}
           ids   == [n \in taken |-> Plan!ItemId(new[n], "U", n)]
<1>2. PICK after : after = Plan!Upserted(bom[p], projects[p].tenant, new, ids)
  OBVIOUS
<1>3. /\ bom' = [bom EXCEPT ![p] = after]
      /\ Plan!MayUse(t, p) /\ projects' = projects /\ staging' = staging
      /\ uploads < MaxUploads /\ uploads' = uploads + 1
  BY Zenon, <1>1, <1>2 DEF Plan!UploadBomCsv
<1>4. PICK k \in Nat : DOMAIN new = 1..k
  BY <1>1, PlanConstants
<1>5. \A n \in DOMAIN new : new[n] \in Plan!Rows
  BY <1>1 DEF Plan!Rows, Plan!Range
<1>6. IsFiniteSet(taken) /\ taken \subseteq Nat
  <2>1. IsFiniteSet(1..k) /\ taken \in SUBSET (1..k)
    BY <1>4, FS_Interval
  <2> QED
    BY <2>1, FS_Subset
<1>7. DOMAIN ids = taken /\ taken \subseteq DOMAIN new
  OBVIOUS
<1>8. projects[p].tenant \in PlanTenants /\ Typed(bom[p])
  BY <1>3 DEF PlanTyped, ProjectTyped, Plan!MayUse
<1>9. Typed(after)
  <2> HIDE DEF taken, ids
  <2> QED
    BY <1>2, <1>5, <1>6, <1>7, <1>8, UpsertedTyped
<1>10. DOMAIN bom' = ProjectIds /\ \A q \in ProjectIds : Typed(bom'[q])
  BY <1>3, <1>9 DEF PlanTyped
<1>11. uploads' \in 0..MaxUploads
  BY <1>3, PlanConstants DEF PlanTyped
<1> QED
  BY <1>3, <1>10, <1>11 DEF PlanTyped

\* A patch of a line keeps the types.
LEMMA PatchTyped ==
    ASSUME PlanTyped, NEW t \in PlanTenants, NEW p \in ProjectIds,
           NEW i \in DOMAIN bom[p], Plan!PatchBomItem(t, p, i)
    PROVE  PlanTyped'
<1>1. /\ bom' = [bom EXCEPT ![p][i].supplier = TRUE]
      /\ projects' = projects /\ staging' = staging /\ uploads' = uploads
  BY DEF Plan!PatchBomItem
<1>2. PICK items : items = bom[p]
  OBVIOUS
<1>3. PICK line : line = [items[i] EXCEPT !.supplier = TRUE]
  OBVIOUS
<1>4. PICK after : after = [items EXCEPT ![i] = line]
  OBVIOUS
<1>5. bom' = [bom EXCEPT ![p] = after]
  BY <1>1, <1>2, <1>3, <1>4
<1>6. Typed(items) /\ DOMAIN bom = ProjectIds
  BY <1>2 DEF PlanTyped
<1>7. line \in Plan!BOMItem
  BY <1>2, <1>3, <1>6 DEF Typed, Plan!BOMItem
<1>8. Typed(after)
  BY <1>4, <1>6, <1>7 DEF Typed
<1>9. DOMAIN bom' = ProjectIds /\ \A q \in ProjectIds : Typed(bom'[q])
  BY <1>5, <1>6, <1>8 DEF PlanTyped
<1> QED
  BY <1>1, <1>9 DEF PlanTyped

\* A preview keeps the types.
LEMMA PreviewTyped ==
    ASSUME PlanTyped, NEW t \in PlanTenants, NEW b \in Workbooks, Plan!Preview(t, b)
    PROVE  PlanTyped'
<1>1. PICK slot : slot = [tenant |-> t, book |-> Plan!Valid(b), old |-> FALSE]
  OBVIOUS
<1>2. PICK swept : swept = Plan!Collected
  OBVIOUS
<1>3. PICK s \in 1..MaxStaged : staging' = [swept EXCEPT ![s] = slot]
  BY Zenon, <1>1, <1>2 DEF Plan!Preview
<1>4. /\ projects' = projects /\ bom' = bom
      /\ uploads < MaxUploads /\ uploads' = uploads + 1
  BY DEF Plan!Preview
<1>5. DOMAIN swept = 1..MaxStaged /\ \A k \in 1..MaxStaged : SlotTyped(swept[k])
  <2>1. swept = [k \in 1..MaxStaged |-> IF staging[k].old THEN Plan!NotStaged ELSE staging[k]]
    BY <1>2 DEF Plan!Collected
  <2>2. SlotTyped(Plan!NotStaged)
    BY DEF SlotTyped
  <2>3. \A k \in 1..MaxStaged : SlotTyped(staging[k])
    BY DEF PlanTyped
  <2> QED
    BY Zenon, <2>1, <2>2, <2>3
<1>6. SlotTyped(slot)
  <2>1. Stageable(slot.book) /\ slot.tenant = t /\ {"tenant", "book"} \subseteq DOMAIN slot
    BY <1>1, ValidStageable
  <2> QED
    BY <2>1 DEF SlotTyped
<1>7. DOMAIN staging' = 1..MaxStaged /\ \A k \in 1..MaxStaged : SlotTyped(staging'[k])
  BY <1>3, <1>5, <1>6
<1>8. uploads' \in 0..MaxUploads
  BY <1>4, PlanConstants DEF PlanTyped
<1> QED
  BY <1>4, <1>7, <1>8 DEF PlanTyped

\* Time keeps the types.
LEMMA GrowOldTyped ==
    ASSUME PlanTyped, NEW s \in 1..MaxStaged, Plan!GrowOld(s)
    PROVE  PlanTyped'
<1>1. /\ staging[s] # Plan!NotStaged
      /\ staging' = [staging EXCEPT ![s].old = TRUE]
      /\ projects' = projects /\ bom' = bom /\ uploads' = uploads
  BY DEF Plan!GrowOld
<1>2. PICK slot : slot = [staging[s] EXCEPT !.old = TRUE]
  OBVIOUS
<1>3. staging' = [staging EXCEPT ![s] = slot]
  BY <1>1, <1>2
<1>4. SlotTyped(slot)
  <2>1. /\ {"tenant", "book"} \subseteq DOMAIN staging[s]
        /\ staging[s].tenant \in PlanTenants /\ Stageable(staging[s].book)
    BY <1>1 DEF PlanTyped, SlotTyped
  <2>2. /\ slot.tenant = staging[s].tenant /\ slot.book = staging[s].book
        /\ {"tenant", "book"} \subseteq DOMAIN slot
    BY <1>2, <2>1
  <2> QED
    BY <2>1, <2>2 DEF SlotTyped
<1>5. DOMAIN staging' = 1..MaxStaged /\ \A k \in 1..MaxStaged : SlotTyped(staging'[k])
  BY <1>3, <1>4 DEF PlanTyped
<1> QED
  BY <1>1, <1>5 DEF PlanTyped

\* A commit keeps the types.
LEMMA CommitTyped ==
    ASSUME PlanTyped, NEW t \in PlanTenants, NEW s \in 1..MaxStaged, NEW default,
           Plan!Commit(t, s, default)
    PROVE  PlanTyped'
<1>1. PICK book : book = staging[s].book
  OBVIOUS
<1>2. PICK now : now = Plan!CommittedProjects(t, book)
  OBVIOUS
<1>3. /\ staging[s] # Plan!NotStaged /\ projects' = now
      /\ bom' = Plan!CommittedLines(t, book, default, now)
      /\ staging' = [staging EXCEPT ![s] = Plan!NotStaged] /\ uploads' = uploads
  BY Zenon, <1>1, <1>2 DEF Plan!Commit
<1>4. Stageable(book)
  BY <1>1, <1>3 DEF PlanTyped, SlotTyped
<1>5. \A p \in DOMAIN projects' : ProjectTyped(p, projects')
  <2>1. \A p \in DOMAIN projects : ProjectTyped(p, projects)
    BY DEF PlanTyped
  <2>2. \A p \in DOMAIN now : ProjectTyped(p, now)
    BY <1>2, <1>4, <2>1, CommitTypesProjects
  <2> QED
    BY Zenon, <1>3, <2>2
<1> DEFINE Of(n) == IF book.lines[n].project # "" THEN book.lines[n].project ELSE default
           good == {n \in DOMAIN book.lines : Of(n) \in DOMAIN now /\ now[Of(n)].tenant = t}
           ids(p) == [n \in {k \in good : Of(k) = p} |->
                   Plan!ItemId(book.lines[n], "ING", Plan!Cardinality({k \in good : k <= n}))]
<1>6. bom' = [p \in ProjectIds |-> Plan!Upserted(bom[p], t, book.lines, ids(p))]
  BY Zenon, <1>3 DEF Plan!CommittedLines
<1>7. ASSUME NEW p \in ProjectIds PROVE Typed(bom'[p])
  <2>1. PICK mine : mine = ids(p)
    BY Zenon
  <2>2. DOMAIN mine \in SUBSET DOMAIN book.lines
    BY Zenon, <2>1
  <2>3. bom'[p] = Plan!Upserted(bom[p], t, book.lines, mine)
    BY Zenon, <1>6, <2>1
  <2>4. /\ IsFiniteSet(DOMAIN mine) /\ DOMAIN mine \subseteq Nat
        /\ \A n \in DOMAIN mine : book.lines[n] \in Plan!Rows
    BY <1>4, <2>2, FS_Subset DEF Stageable
  <2>5. Typed(bom[p])
    BY DEF PlanTyped
  <2> QED
    BY <2>3, <2>4, <2>5, UpsertedTyped
<1>8. DOMAIN bom' = ProjectIds
  BY Zenon, <1>6
<1>9. DOMAIN staging' = 1..MaxStaged /\ \A k \in 1..MaxStaged : SlotTyped(staging'[k])
  BY <1>3 DEF PlanTyped, SlotTyped
<1> QED
  BY Zenon, <1>3, <1>5, <1>7, <1>8, <1>9 DEF PlanTyped

\* Every step of the plans keeps their types.
LEMMA StepPlanTyped == PlanTyped /\ [Plan!Next]_(Plan!planVars) => PlanTyped'
<1> SUFFICES ASSUME PlanTyped, [Plan!Next]_(Plan!planVars) PROVE PlanTyped'
  OBVIOUS
<1>1. CASE UNCHANGED Plan!planVars
  BY <1>1 DEF PlanTyped, Plan!planVars
<1>2. ASSUME NEW t \in PlanTenants, NEW p \in ProjectIds,
             NEW new \in {b.lines : b \in Workbooks}, Plan!UploadBomCsv(t, p, new)
      PROVE  PlanTyped'
  BY Zenon, <1>2, UploadTyped
<1>3. ASSUME NEW t \in PlanTenants, NEW p \in ProjectIds, NEW i \in DOMAIN bom[p],
             Plan!PatchBomItem(t, p, i)
      PROVE  PlanTyped'
  BY Zenon, <1>3, PatchTyped
<1> QED
  BY Zenon, <1>1, <1>2, <1>3, PreviewTyped, GrowOldTyped, CommitTyped DEF Plan!Next

\* The milestone of a line is the one it names, a right one, or none.
Placed(c, line, dates) ==
    IF line.milestone \in DOMAIN dates THEN c = line.milestone
    ELSE IF line.need = Plan!Undated \/ dates = <<>> THEN c = Plan!Unassigned
    ELSE RightFor(c, dates, line.need)

\* It is what a line is planned for.
LEMMA PlannedIsPlaced ==
    ASSUME PlanTyped, NEW p \in DOMAIN projects, NEW line \in Plan!BOMItem
    PROVE  Placed(Plan!PlannedFor(p, line), line, projects[p].milestones)
<1>1. PICK dates : dates = projects[p].milestones
  OBVIOUS
<1>2. Plan!IsCalendar(dates)
  BY <1>1 DEF PlanTyped, ProjectTyped
<1>3. line.need \in Nat
  BY DEF Plan!BOMItem
<1>4. Plan!PlannedFor(p, line) =
        IF line.milestone \in DOMAIN dates THEN line.milestone
        ELSE Plan!NearestMilestone(dates, line.need)
  BY Zenon, <1>1 DEF Plan!PlannedFor
<1>5. line.need = Plan!Undated \/ dates = <<>> =>
        Plan!NearestMilestone(dates, line.need) = Plan!Unassigned
  BY Zenon DEF Plan!NearestMilestone
<1>6. ~(line.need = Plan!Undated \/ dates = <<>>) =>
        RightFor(Plan!NearestMilestone(dates, line.need), dates, line.need)
  BY <1>2, <1>3, NearestIsRight
<1> QED
  BY Zenon, <1>1, <1>4, <1>5, <1>6 DEF Placed

\* The packages of the lines of p: each line is in the one of its milestone.
PartedBy(packages, p, items) ==
    /\ IsFiniteSet(DOMAIN items) /\ \A i \in DOMAIN items : items[i] \in Plan!BOMItem
    /\ DOMAIN packages = {Plan!PlannedFor(p, items[i]) : i \in DOMAIN items}
    /\ \A c \in DOMAIN packages :
          packages[c] = {i \in DOMAIN items : Plan!PlannedFor(p, items[i]) = c}

LEMMA PackagesPart ==
    ASSUME PlanTyped, NEW p \in DOMAIN projects
    PROVE  PartedBy(Plan!Packages(p), p, bom[p])
<1>1. p \in ProjectIds
  BY DEF PlanTyped, ProjectTyped
<1>2. IsFiniteSet(DOMAIN bom[p]) /\ \A i \in DOMAIN bom[p] : bom[p][i] \in Plan!BOMItem
  BY <1>1 DEF PlanTyped, Typed
<1> DEFINE codes == {Plan!PlannedFor(p, bom[p][i]) : i \in DOMAIN bom[p]}
<1>3. Plan!Packages(p) =
        [c \in codes |-> {i \in DOMAIN bom[p] : Plan!PlannedFor(p, bom[p][i]) = c}]
  BY DEF Plan!Packages
<1>4. DOMAIN Plan!Packages(p) = codes
  BY <1>3
<1>5. \A c \in codes : Plan!Packages(p)[c] =
                         {i \in DOMAIN bom[p] : Plan!PlannedFor(p, bom[p][i]) = c}
  BY <1>3
<1> QED
  BY Zenon, <1>2, <1>4, <1>5 DEF PartedBy

\* The lines of F are as many as they are in all packages.
LEMMA PackagesCount ==
    ASSUME NEW packages, NEW p, NEW items, PartedBy(packages, p, items),
           NEW F \in SUBSET DOMAIN items
    PROVE  Plan!CountIn(packages, F) = Plan!Cardinality(F)
<1> DEFINE size == [c \in DOMAIN packages |-> Plan!Cardinality(packages[c] \cap F)]
<1>0. Plan!CountIn(packages, F) = Total(size, DOMAIN size)
  BY DEF Plan!CountIn, Plan!MapThenSumSet, Plan!MapThenFoldSet,
         Total, MapThenSumSet, MapThenFoldSet
<1>1. PICK f : f = [i \in DOMAIN items |-> Plan!PlannedFor(p, items[i])]
  OBVIOUS
<1>2. PICK C : C = DOMAIN packages
  OBVIOUS
<1>3. IsFiniteSet(DOMAIN items) /\ C = {f[i] : i \in DOMAIN items}
  BY <1>1, <1>2 DEF PartedBy
<1>4. IsFiniteSet(F) /\ IsFiniteSet(C)
  <2>1. IsFiniteSet({f[i] : i \in DOMAIN items})
    BY <1>3, ImageFinite
  <2> QED
    BY <1>3, <2>1, FS_Subset
<1>5. \A x \in F : f[x] \in C
  BY <1>3
<1>6. DOMAIN size = C /\ \A c \in C : size[c] = Cardinality(packages[c] \cap F)
  BY <1>2, PlanCardinality
<1> HIDE DEF size
<1>7. ASSUME NEW c \in C PROVE packages[c] \cap F = {x \in F : f[x] = c}
  <2>1. packages[c] = {i \in DOMAIN items : Plan!PlannedFor(p, items[i]) = c}
    BY <1>2 DEF PartedBy
  <2> QED
    BY <1>1, <2>1
<1>8. \A c \in C : size[c] = Cardinality({x \in F : f[x] = c})
  BY Zenon, <1>6, <1>7
<1>9. PartSizes(size, C, f, F)
  BY Zenon, <1>4, <1>5, <1>8 DEF PartSizes
<1>10. Total(size, C) = Cardinality(F)
  BY Zenon, <1>9, TotalOfParts
<1> QED
  BY Zenon, <1>0, <1>6, <1>10, PlanCardinality

\* The one package of a line is of the right milestone.
LEMMA PackagePlaces ==
    ASSUME PlanTyped, NEW p \in DOMAIN projects, NEW i \in DOMAIN bom[p],
           NEW packages, PartedBy(packages, p, bom[p])
    PROVE  Placed(CHOOSE d \in DOMAIN packages : i \in packages[d], bom[p][i],
                  projects[p].milestones)
<1>1. PICK c : c = Plan!PlannedFor(p, bom[p][i])
  OBVIOUS
<1>2. c \in DOMAIN packages
  BY <1>1 DEF PartedBy
<1>3. i \in packages[c]
  BY <1>1, <1>2 DEF PartedBy
<1>4. ASSUME NEW d \in DOMAIN packages, i \in packages[d] PROVE d = c
  BY <1>1, <1>4 DEF PartedBy
<1>5. (CHOOSE d \in DOMAIN packages : i \in packages[d]) = c
  BY <1>2, <1>3, <1>4
<1>6. bom[p][i] \in Plan!BOMItem
  BY DEF PartedBy
<1> QED
  BY Zenon, <1>1, <1>5, <1>6, PlannedIsPlaced

\* However often the milestones were replaced under its lines, the plan of a
\* project has every line in one package, for the right milestone, and the sizes
\* of the packages add up (_nearest_milestone, build_procurement_plan).
THEOREM EveryLineIsPlaced == Spec => []PlanPlacesEveryLine
<1>1. ASSUME PlanTyped, NEW p \in DOMAIN projects
      PROVE  /\ \A i \in DOMAIN bom[p] :
                   Placed(CHOOSE d \in DOMAIN Plan!Packages(p) : i \in Plan!Packages(p)[d],
                          bom[p][i], projects[p].milestones)
             /\ \A F \in SUBSET DOMAIN bom[p] :
                   Plan!CountIn(Plan!Packages(p), F) = Plan!Cardinality(F)
  BY Zenon, <1>1, PackagesPart, PackagePlaces, PackagesCount
<1>2. ASSUME NEW p
      PROVE  /\ DOMAIN bom[p] \in SUBSET DOMAIN bom[p]
             /\ DOMAIN Plan!LongLeadItems(p) \in SUBSET DOMAIN bom[p]
             /\ DOMAIN Plan!MissingSpecItems(p) = {i \in DOMAIN bom[p] : ~bom[p][i].spec}
             /\ {i \in DOMAIN bom[p] : ~bom[p][i].spec} \in SUBSET DOMAIN bom[p]
  BY DEF Plan!LongLeadItems, Plan!MissingSpecItems
<1>3. PlanTyped => PlanPlacesEveryLine
  <2> SUFFICES ASSUME PlanTyped PROVE Plan!PlanPlacesEveryLine
    BY Zenon DEF PlanPlacesEveryLine
  <2>1. ASSUME NEW p \in DOMAIN projects, NEW i \in DOMAIN bom[p]
        PROVE  LET line  == bom[p][i]
                   dates == projects[p].milestones
                   c     == CHOOSE d \in DOMAIN Plan!Packages(p) : i \in Plan!Packages(p)[d]
               IN  IF line.milestone \in DOMAIN dates THEN c = line.milestone
                   ELSE IF line.need = Plan!Undated \/ dates = <<>> THEN c = Plan!Unassigned
                   ELSE /\ dates[c] >= line.need \/ \A d \in DOMAIN dates :
                                                        dates[d] <= dates[c]
                        /\ \A d \in DOMAIN dates : dates[d] >= line.need =>
                              line.need <= dates[c] /\ dates[c] <= dates[d]
    BY Zenon, <1>1 DEF Placed, RightFor
  <2>2. ASSUME NEW p \in DOMAIN projects
        PROVE  /\ Plan!CountIn(Plan!Packages(p), DOMAIN bom[p]) = Plan!Cardinality(DOMAIN bom[p])
               /\ Plan!CountIn(Plan!Packages(p), DOMAIN Plan!LongLeadItems(p)) =
                     Plan!Cardinality(DOMAIN Plan!LongLeadItems(p))
               /\ Plan!CountIn(Plan!Packages(p), DOMAIN Plan!MissingSpecItems(p)) =
                     Plan!Cardinality({i \in DOMAIN bom[p] : ~bom[p][i].spec})
    BY Zenon, <1>1, <1>2
  <2> QED
    BY Zenon, <2>1, <2>2 DEF Plan!PlanPlacesEveryLine
<1> QED
  BY <1>3, PlanRuns, InitPlanTyped, StepPlanTyped, PTL DEF Plan!Spec

-----------------------------------------------------------------------------
(* The devices *)

\* Each copy of a token, in a device's row, in a call and in a receipt, agrees
\* with the enrolment that issued it, and an enrolment issues a token of which
\* there is no copy.

\* A row or call x that carries device d's token.
Agrees(x, d) == issued[x.token] = [dev |-> d, post |-> x.post]

\* Tokens are numbered without a gap.
TokensNumbered == \E n \in Nat : Device!Tokens = 1..n

Whose ==
    /\ Device!TypeOK
    /\ TokensNumbered
    /\ \A c \in Codes : invites[c].st # "none" => invites[c].post \in Posts
    /\ \A d \in DeviceIds : devices[d] # Nothing => Agrees(devices[d], d)
    /\ \A k \in Calls : calls[k] # Nothing => Agrees(calls[k], calls[k].dev)
    /\ \A g \in Receipts : receipts[g] # Nothing => Agrees(receipts[g], receipts[g].dev)

\* enrol_device draws a token nobody has had.
LEMMA TokenIsNew ==
    ASSUME TokensNumbered
    PROVE  /\ Device!Cardinality(Device!Tokens) + 1 \notin Device!Tokens
           /\ \E n \in Nat : Device!Tokens \cup {Device!Cardinality(Device!Tokens) + 1} = 1..n
<1>1. PICK n \in Nat : Device!Tokens = 1..n
  BY DEF TokensNumbered
<1>2. Device!Cardinality(Device!Tokens) = n
  <2>1. Device!Cardinality(Device!Tokens) = Cardinality(Device!Tokens)
    BY DEF Device!Cardinality, Cardinality
  <2> QED
    BY <1>1, <2>1, FS_Interval
<1>3. Device!Tokens \cup {n + 1} = 1..(n + 1) /\ n + 1 \notin Device!Tokens
  BY <1>1
<1> QED
  BY <1>2, <1>3

\* An empty desk has no token.
LEMMA InitWhose == Device!Init => Whose
<1> SUFFICES ASSUME Device!Init PROVE Whose
  OBVIOUS
<1>1. Device!Tokens = {} /\ Device!Tokens = 1..0
  BY DEF Device!Init, Device!Tokens
<1>2. Device!TypeOK
  BY <1>1 DEF Device!Init, Device!TypeOK, Device!NoInvite, Device!Invite, Device!Roles
<1> QED
  BY <1>1, <1>2 DEF Device!Init, Device!NoInvite, Whose, TokensNumbered

\* Whoever enrols, with whichever invite, leaves the tokens of the others alone.
LEMMA EnrolKeeps ==
    ASSUME Whose, NEW c \in Codes, NEW d \in DeviceIds, Device!EnrolDevice(c, d)
    PROVE  Whose'
<1> DEFINE token == Device!Cardinality(Device!Tokens) + 1
           row   == [token |-> token, post |-> invites[c].post,
                     role |-> invites[c].role, revoked |-> FALSE]
<1>1. /\ token \notin Device!Tokens
      /\ \E n \in Nat : Device!Tokens \cup {token} = 1..n
  BY TokenIsNew DEF Whose
<1> HIDE DEF token
<1>2. /\ issued' = [t \in Device!Tokens \cup {token} |->
             IF t = token THEN [dev |-> d, post |-> invites[c].post] ELSE issued[t]]
      /\ devices' = [devices EXCEPT ![d] = row]
      /\ invites' = [invites EXCEPT ![c].st = "used"]
      /\ UNCHANGED <<calls, receipts>>
  BY DEF Device!EnrolDevice, token
<1>3. /\ Device!Tokens' = Device!Tokens \cup {token}
      /\ TokensNumbered'
      /\ issued'[token] = [dev |-> d, post |-> invites[c].post]
      /\ \A t \in Device!Tokens : issued'[t] = issued[t]
  BY <1>1, <1>2 DEF Device!Tokens, TokensNumbered
<1>4. row \in Device!Device' /\ invites[c].post \in Posts
  BY <1>3 DEF Device!EnrolDevice, Whose, Device!TypeOK, Device!Invite, Device!Device, Device!Tokens
<1>5. Device!Device \subseteq Device!Device' /\ Device!Context \subseteq Device!Context' /\ Device!Grn \subseteq Device!Grn'
  BY <1>3 DEF Device!Device, Device!Context, Device!Grn
<1>6. Device!TypeOK'
  <2>1. invites' \in [Codes -> Device!Invite]
    BY <1>2 DEF Whose, Device!TypeOK, Device!Invite
  <2>2. devices' \in [DeviceIds -> (Device!Device \cup {Nothing})']
    BY <1>2, <1>4, <1>5 DEF Whose, Device!TypeOK
  <2>3. issued' \in [Device!Tokens' -> [dev : DeviceIds, post : Posts]]
    BY <1>2, <1>3, <1>4 DEF Whose, Device!TypeOK
  <2>4. calls' \in [Calls -> (Device!Context \cup {Nothing})']
    BY <1>2, <1>5 DEF Whose, Device!TypeOK
  <2>5. receipts' \in [Receipts -> (Device!Grn \cup {Nothing})']
    BY <1>2, <1>5 DEF Whose, Device!TypeOK
  <2> QED
    BY <2>1, <2>2, <2>3, <2>4, <2>5 DEF Device!TypeOK
<1>7. \A b \in Codes : invites'[b].st # "none" => invites'[b].post \in Posts
  BY <1>2, <1>4 DEF Whose, Device!TypeOK, Device!Invite
<1>8. \A e \in DeviceIds : devices'[e] # Nothing => Agrees(devices[e], e)'
  <2> SUFFICES ASSUME NEW e \in DeviceIds, devices'[e] # Nothing
               PROVE  issued'[devices'[e].token] = [dev |-> e, post |-> devices'[e].post]
    BY DEF Agrees
  <2>1. CASE e = d
    BY <1>2, <1>3, <2>1 DEF Whose, Device!TypeOK
  <2>2. CASE e # d
    <3>1. devices'[e] = devices[e] /\ devices[e] \in Device!Device
      BY <1>2, <2>2 DEF Whose, Device!TypeOK
    <3>2. devices[e].token \in Device!Tokens
      BY <3>1 DEF Device!Device
    <3> QED
      BY <1>3, <3>1, <3>2 DEF Whose, Agrees
  <2> QED
    BY <2>1, <2>2
<1>9. \A k \in Calls : calls'[k] # Nothing => Agrees(calls[k], calls[k].dev)'
  BY <1>2, <1>3 DEF Whose, Device!TypeOK, Device!Context, Agrees
<1>10. \A g \in Receipts : receipts'[g] # Nothing => Agrees(receipts[g], receipts[g].dev)'
  BY <1>2, <1>3 DEF Whose, Device!TypeOK, Device!Grn, Agrees
<1> QED
  BY <1>3, <1>6, <1>7, <1>8, <1>9, <1>10 DEF Whose

\* Invites, revocations and requests issue no token.
LEMMA IssuedKeeps ==
    ASSUME Whose, UNCHANGED issued
    PROVE  /\ Device!Tokens' = Device!Tokens /\ TokensNumbered'
           /\ Device!Device' = Device!Device /\ Device!Context' = Device!Context /\ Device!Grn' = Device!Grn
  BY DEF Whose, Device!Tokens, TokensNumbered, Device!Device, Device!Context, Device!Grn

\* A token that is accepted is its holder's, and the posting the holder's row
\* has then is the one it was issued for.
LEMMA CheckKeeps ==
    ASSUME Whose, NEW k \in Calls, NEW t \in Device!Tokens, Device!CheckToken(k, t)
    PROVE  Whose'
<1>1. PICK d \in DeviceIds :
         /\ devices[d] # Nothing /\ devices[d].token = t
         /\ calls' = [calls EXCEPT ![k] = [token |-> t, dev |-> d, post |-> devices[d].post]]
  BY DEF Device!CheckToken, Device!Holder
<1>2. UNCHANGED <<invites, devices, issued, receipts>>
  BY DEF Device!CheckToken
<1>3. devices[d] \in Device!Device /\ issued[t] = [dev |-> d, post |-> devices[d].post]
  BY ZenonT(60), <1>1 DEF Whose, Device!TypeOK, Agrees
<1>4. [token |-> t, dev |-> d, post |-> devices[d].post] \in Device!Context
  BY <1>3 DEF Device!Device, Device!Context
<1>5. calls' \in [Calls -> Device!Context \cup {Nothing}]
  BY <1>1, <1>4 DEF Whose, Device!TypeOK
<1>6. \A j \in Calls : calls'[j] # Nothing => issued[calls'[j].token] =
                                 [dev |-> calls'[j].dev, post |-> calls'[j].post]
  BY <1>1, <1>3 DEF Whose, Device!TypeOK, Agrees
<1> QED
  BY <1>2, <1>5, <1>6, IssuedKeeps DEF Whose, Device!TypeOK, Agrees

\* A receipt is stored with what its request was authenticated for.
LEMMA SyncKeeps ==
    ASSUME Whose, NEW k \in Calls, NEW g \in Receipts, Device!Sync(k, g)
    PROVE  Whose'
<1> DEFINE grn == [token |-> calls[k].token, dev |-> calls[k].dev,
                   post |-> calls[k].post, st |-> "captured"]
<1>1. /\ calls[k] \in Device!Context /\ calls[k] # Nothing
      /\ calls' = [calls EXCEPT ![k] = Nothing]
      /\ UNCHANGED <<invites, devices, issued>>
  BY DEF Device!Sync, Whose, Device!TypeOK
<1>2. receipts' = receipts \/ receipts' = [receipts EXCEPT ![g] = grn]
  BY DEF Device!Sync, Device!PostOf
<1>3. grn \in Device!Grn /\ Agrees(grn, grn.dev)
  BY <1>1 DEF Whose, Device!Context, Device!Grn, Agrees
<1>4. receipts' \in [Receipts -> Device!Grn \cup {Nothing}]
  BY <1>2, <1>3 DEF Whose, Device!TypeOK
<1>5. \A h \in Receipts : receipts'[h] # Nothing => issued[receipts'[h].token] =
                               [dev |-> receipts'[h].dev, post |-> receipts'[h].post]
  <2>1. receipts' = receipts \/ \A h \in Receipts :
           receipts'[h] = IF h = g THEN grn ELSE receipts[h]
    BY <1>2 DEF Whose, Device!TypeOK
  <2> QED
    BY <2>1, <1>3 DEF Whose, Agrees
<1>6. /\ calls' \in [Calls -> Device!Context \cup {Nothing}]
      /\ \A j \in Calls : calls'[j] # Nothing => calls'[j] = calls[j]
  BY <1>1 DEF Whose, Device!TypeOK
<1> QED
  BY <1>1, <1>4, <1>5, <1>6, IssuedKeeps DEF Whose, Device!TypeOK, Agrees

\* A confirmed receipt is whose it was.
LEMMA ConfirmKeeps ==
    ASSUME Whose, NEW k \in Calls, NEW g \in Receipts, Device!Confirm(k, g)
    PROVE  Whose'
<1>1. /\ receipts[g] \in Device!Grn /\ receipts[g] # Nothing
      /\ receipts' = [receipts EXCEPT ![g].st = "confirmed"]
      /\ calls' = [calls EXCEPT ![k] = Nothing]
      /\ UNCHANGED <<invites, devices, issued>>
  BY DEF Device!Confirm, Whose, Device!TypeOK
<1>2. \A h \in Receipts \ {g} : receipts'[h] = receipts[h]
  BY <1>1 DEF Whose, Device!TypeOK
<1>3. /\ receipts'[g] \in Device!Grn
      /\ receipts'[g].token = receipts[g].token
      /\ receipts'[g].dev = receipts[g].dev /\ receipts'[g].post = receipts[g].post
  BY <1>1 DEF Whose, Device!TypeOK, Device!Grn
<1>4. receipts' \in [Receipts -> Device!Grn \cup {Nothing}]
  BY <1>1, <1>2, <1>3 DEF Whose, Device!TypeOK
<1>5. \A h \in Receipts : receipts'[h] # Nothing => issued[receipts'[h].token] =
                               [dev |-> receipts'[h].dev, post |-> receipts'[h].post]
  BY <1>1, <1>2, <1>3 DEF Whose, Agrees
<1>6. /\ calls' \in [Calls -> Device!Context \cup {Nothing}]
      /\ \A j \in Calls : calls'[j] # Nothing => calls'[j] = calls[j]
  BY <1>1 DEF Whose, Device!TypeOK
<1> QED
  BY <1>1, <1>4, <1>5, <1>6, IssuedKeeps DEF Whose, Device!TypeOK, Agrees

\* Whose is inductive.
LEMMA StepWhose == Whose /\ [Device!Next]_(Device!deviceVars) => Whose'
<1> SUFFICES ASSUME Whose, [Device!Next]_(Device!deviceVars) PROVE Whose'
  OBVIOUS
<1>1. ASSUME NEW c \in Codes, NEW p \in Posts, NEW r \in Device!Roles, Device!CreateEnrolment(c, p, r)
      PROVE  Whose'
  <2>1. /\ invites' = [invites EXCEPT ![c] = [st |-> "open", post |-> p, role |-> r]]
        /\ UNCHANGED <<devices, issued, calls, receipts>>
    BY <1>1 DEF Device!CreateEnrolment
  <2>2. /\ invites' \in [Codes -> Device!Invite]
        /\ \A b \in Codes : invites'[b].st # "none" => invites'[b].post \in Posts
    BY <2>1 DEF Whose, Device!TypeOK, Device!Invite
  <2> QED
    BY <2>1, <2>2, IssuedKeeps DEF Whose, Device!TypeOK, Agrees
<1>2. ASSUME NEW c \in Codes, Device!Expire(c) PROVE Whose'
  <2>1. /\ invites[c].st = "open" /\ invites' = [invites EXCEPT ![c].st = "expired"]
        /\ UNCHANGED <<devices, issued, calls, receipts>>
    BY <1>2 DEF Device!Expire
  <2>2. /\ invites' \in [Codes -> Device!Invite]
        /\ \A b \in Codes : invites'[b].st # "none" => invites'[b].post \in Posts
    BY <2>1 DEF Whose, Device!TypeOK, Device!Invite
  <2> QED
    BY <2>1, <2>2, IssuedKeeps DEF Whose, Device!TypeOK, Agrees
<1>3. ASSUME NEW d \in DeviceIds, Device!RevokeDevice(d) PROVE Whose'
  <2>1. /\ devices[d] \in Device!Device /\ devices' = [devices EXCEPT ![d].revoked = TRUE]
        /\ UNCHANGED <<invites, issued, calls, receipts>>
    BY <1>3 DEF Device!RevokeDevice, Whose, Device!TypeOK
  <2>2. devices' \in [DeviceIds -> Device!Device \cup {Nothing}]
    BY <2>1 DEF Whose, Device!TypeOK, Device!Device
  <2>3. \A e \in DeviceIds : devices'[e] # Nothing =>
           /\ devices[e] # Nothing \/ e = d
           /\ devices'[e].token = devices[e].token /\ devices'[e].post = devices[e].post
    BY <2>1 DEF Whose, Device!TypeOK, Device!Device
  <2>4. devices[d] # Nothing
    BY <1>3 DEF Device!RevokeDevice
  <2> QED
    BY <2>1, <2>2, <2>3, <2>4, IssuedKeeps DEF Whose, Device!TypeOK, Agrees
<1>4. ASSUME NEW k \in Calls, Device!Done(k) PROVE Whose'
  <2>1. /\ calls' = [calls EXCEPT ![k] = Nothing]
        /\ UNCHANGED <<invites, devices, issued, receipts>>
    BY <1>4 DEF Device!Done
  <2>2. /\ calls' \in [Calls -> Device!Context \cup {Nothing}]
        /\ \A j \in Calls : calls'[j] # Nothing => calls'[j] = calls[j]
    BY <2>1 DEF Whose, Device!TypeOK
  <2> QED
    BY <2>1, <2>2, IssuedKeeps DEF Whose, Device!TypeOK, Agrees
<1>5. CASE UNCHANGED Device!deviceVars
  BY <1>5, IssuedKeeps DEF Whose, Device!TypeOK, Agrees, Device!deviceVars
<1> QED
  BY <1>1, <1>2, <1>3, <1>4, <1>5, EnrolKeeps, CheckKeeps, SyncKeeps, ConfirmKeeps DEF Device!Next

\* A step of the desk is a step of the devices, or leaves them alone.
LEMMA DeviceRuns == Spec => Device!Spec
<1>1. Init => Device!Init
  BY DEF Init
<1>2. [Next]_deskVars => [Device!Next]_(Device!deviceVars)
  BY DEF Next, Rest, deskVars, deviceVars, Device!deviceVars
<1> QED
  BY <1>1, <1>2, PTL DEF Spec, Device!Spec

\* The rows, the calls and the receipts of the devices are well typed
\* (enrol_device, current_device and the field routes).
THEOREM DevicesTyped == Spec => []Device!TypeOK
<1>1. Whose => Device!TypeOK
  BY DEF Whose
<1> QED
  BY <1>1, DeviceRuns, InitWhose, StepWhose, PTL DEF Device!Spec

\* A receipt stays with the device and the store its token was issued for, and
\* is confirmed there only, however many enrolments and revocations overtake the
\* upload (enrol_device against create_from_sync and confirm_grn).
THEOREM ReceiptsStayAtTheirStore == Spec => []ReceiptsStayWhereTaken
<1>1. Whose => ReceiptsStayWhereTaken
  <2> SUFFICES ASSUME Whose, NEW g \in Receipts, receipts[g] # Nothing
               PROVE  /\ receipts[g].dev = issued[receipts[g].token].dev
                      /\ receipts[g].post = issued[receipts[g].token].post
    BY DEF ReceiptsStayWhereTaken, Device!ReceiptsStayWhereTaken
  <2>1. issued[receipts[g].token] = [dev |-> receipts[g].dev, post |-> receipts[g].post]
    BY DEF Whose, Agrees
  <2> QED
    BY <2>1
<1> QED
  BY <1>1, DeviceRuns, InitWhose, StepWhose, PTL DEF Device!Spec
=============================================================================
