--------------------------- MODULE ModelCacheProofs ---------------------------
(***************************************************************************)
(* Proofs about the model on disk: about ModelCache, for any number of     *)
(* threads, training runs and loads, that the key under which a model is   *)
(* cached says which model it is; and about Experiment, for any number of  *)
(* requests, seeds, actions and scenarios, that what is said about the     *)
(* policies while models come and go is a whole run and depends on the     *)
(* seed only.  The two share no state.                                     *)
(***************************************************************************)
EXTENDS ModelCache, Experiment, SequenceTheorems, TLAPS

-----------------------------------------------------------------------------
(* The inductive invariant.                                                *)

\* Each training run writes the model twice, and a whole file is a run's.
FilesOK == /\ stamp <= 2 * model.run
           /\ trainer = "dumping" => stamp + 1 <= 2 * model.run
           /\ model.whole => model.run # 0
           /\ manifest.run <= model.run

\* A thread that has read the file has a model; if the file was not written
\* since it looked at it, it has that file's model, and as fingerprint at most
\* that one's.
AfterLoad == {"hash", "manifest", "store"}
DraftOK(t) == /\ draft[t].key <= stamp
              /\ at[t] \in {"idle", "stat", "load"} => draft[t].print = Nothing
              /\ at[t] \in AfterLoad => draft[t].model # 0
              /\ at[t] \in AfterLoad /\ draft[t].key = stamp => /\ model = Whole(draft[t].model)
                                                             /\ draft[t].print.run <= draft[t].model

CacheInv == /\ TypeOK /\ FilesOK /\ KeyNamesContent
            /\ cache.key <= stamp
            /\ \A t \in Threads : DraftOK(t)

LEMMA Contents ==
    /\ \A n \in 0..MaxRuns : /\ Whole(n) \in Content /\ Part(n) \in Content
                             /\ Whole(n).run = n /\ Part(n).run = n
                             /\ Whole(n).whole = TRUE /\ Part(n).whole = FALSE
    /\ \A c \in Content : c.run \in 0..MaxRuns /\ (c.whole => c = Whole(c.run))
    /\ Nothing \in Content /\ Nothing.run = 0
    /\ NoBundle \in Bundle /\ NoBundle.key = 0 /\ NoBundle.print = Nothing
  BY CacheAssumption DEF Whole, Part, Content, Nothing, NoBundle, Bundle

LEMMA InitOK == Init => CacheInv
<1> SUFFICES ASSUME Init PROVE CacheInv
  OBVIOUS
<1>1. PICK c \in Content : /\ model = c /\ manifest = c
                           /\ c = Nothing \/ (c = Whole(1) /\ MaxRuns > 0)
  BY Contents, CacheAssumption DEF Init
<1>2. model.run \in 0..MaxRuns /\ (model.whole => model.run # 0) /\ manifest.run = model.run
  BY <1>1, Contents, CacheAssumption DEF Nothing
<1>3. FilesOK
  BY <1>2, CacheAssumption DEF Init, FilesOK
<1>4. TypeOK
  BY <1>1, Contents, CacheAssumption DEF Init, TypeOK
<1>5. \A t \in Threads : DraftOK(t)
  <2> SUFFICES ASSUME NEW t \in Threads PROVE DraftOK(t)
    OBVIOUS
  <2>1. draft[t].key = 0 /\ stamp = 0 /\ draft[t].print = Nothing
    BY DEF Init, NoBundle
  <2>2. at[t] \notin AfterLoad
    BY DEF Init, AfterLoad
  <2> QED BY <2>1, <2>2 DEF DraftOK, AfterLoad
<1>6. cache.key <= stamp /\ KeyNamesContent
  BY DEF Init, NoBundle, KeyNamesContent
<1> QED BY <1>3, <1>4, <1>5, <1>6 DEF CacheInv

-----------------------------------------------------------------------------
(* The training run.                                                       *)

\* A write of the model makes every key that was taken before an old one.
LEMMA NewStamp ==
    ASSUME CacheInv, TypeOK', FilesOK', stamp' = stamp + 1, UNCHANGED <<cache, locals>>
    PROVE  CacheInv'
<1>1. stamp \in Nat /\ cache.key \in Nat /\ \A t \in Threads : draft[t].key \in Nat
  BY Contents, CacheAssumption DEF CacheInv, TypeOK, Bundle
<1>2. cache.key < stamp' /\ cache' = cache
  BY <1>1 DEF CacheInv
<1>3. \A t \in Threads : draft'[t] = draft[t] /\ draft[t].key < stamp' /\ at'[t] = at[t]
  BY <1>1 DEF CacheInv, DraftOK, locals
<1>4. \A t \in Threads : DraftOK(t)'
  BY <1>1, <1>3 DEF CacheInv, DraftOK
<1> QED BY <1>1, <1>2, <1>4 DEF CacheInv, KeyNamesContent

\* The rest of it leaves the model alone.
LEMMA SameModel ==
    ASSUME CacheInv, TypeOK', FilesOK', UNCHANGED <<model, stamp, cache, locals>>
    PROVE  CacheInv'
  BY DEF CacheInv, DraftOK, KeyNamesContent, locals

LEMMA TrainingOK ==
    ASSUME CacheInv, DumpBegins \/ DumpEnds \/ ManifestBegins \/ ManifestEnds \/ Killed
    PROVE  CacheInv'
<1>1. /\ model.run \in 0..MaxRuns /\ MaxRuns \in Nat /\ stamp \in 0..2 * MaxRuns
      /\ stamp <= 2 * model.run /\ manifest.run \in 0..MaxRuns /\ manifest.run <= model.run
  BY Contents, CacheAssumption DEF CacheInv, TypeOK, FilesOK
<1>2. CASE DumpBegins
  <2>1. model.run + 1 \in 0..MaxRuns /\ stamp' = stamp + 1 /\ UNCHANGED <<cache, locals, manifest, loads>>
    BY <1>1, <1>2 DEF DumpBegins, Train
  <2>2. model' \in Content /\ model'.run = model.run + 1 /\ model'.whole = FALSE
    BY <1>2, <2>1, Contents DEF DumpBegins
  <2>3. FilesOK' /\ stamp' \in 0..2 * MaxRuns /\ trainer' = "dumping"
    BY <1>1, <1>2, <2>1, <2>2 DEF FilesOK, DumpBegins, Train
  <2>4. TypeOK'
    BY <2>1, <2>2, <2>3 DEF CacheInv, TypeOK, locals
  <2> QED BY <2>1, <2>3, <2>4, NewStamp
<1>3. CASE DumpEnds
  <2>1. stamp' = stamp + 1 /\ stamp + 1 <= 2 * model.run /\ UNCHANGED <<cache, locals, manifest, loads>>
    BY <1>3 DEF DumpEnds, Train, CacheInv, FilesOK
  <2>2. model' \in Content /\ model'.run = model.run /\ model.run # 0
    BY <1>1, <1>3, <2>1, Contents DEF DumpEnds
  <2>3. FilesOK' /\ stamp' \in 0..2 * MaxRuns /\ trainer' = "dumped"
    BY <1>1, <1>3, <2>1, <2>2 DEF FilesOK, DumpEnds, Train
  <2>4. TypeOK'
    BY <2>1, <2>2, <2>3 DEF CacheInv, TypeOK, locals
  <2> QED BY <2>1, <2>3, <2>4, NewStamp
<1>4. CASE ManifestBegins \/ ManifestEnds \/ Killed
  <2>1. UNCHANGED <<model, stamp, cache, locals, loads>> /\ trainer' \in {"writing", "idle"}
    BY <1>4 DEF ManifestBegins, ManifestEnds, Killed, Train, files
  <2>2. manifest' \in Content /\ manifest'.run <= model.run
    BY <1>1, <1>4, Contents DEF ManifestBegins, ManifestEnds, Killed, files, CacheInv, TypeOK
  <2>3. TypeOK' /\ FilesOK'
    BY <2>1, <2>2 DEF CacheInv, TypeOK, FilesOK, locals
  <2> QED BY <2>1, <2>3, SameModel
<1> QED BY <1>2, <1>3, <1>4

-----------------------------------------------------------------------------
(* The threads.                                                            *)

\* A step of t that writes no file: what is left to show is about t's own
\* bundle and the cache.
LEMMA OwnStep ==
    ASSUME CacheInv, NEW t \in Threads, UNCHANGED <<files, trainer>>, TypeOK',
           \A u \in Threads \ {t} : at'[u] = at[u] /\ draft'[u] = draft[u],
           DraftOK(t)', cache'.key <= stamp, KeyNamesContent'
    PROVE  CacheInv'
<1>1. \A u \in Threads \ {t} : DraftOK(u)'
  BY DEF CacheInv, DraftOK, files
<1> QED BY <1>1 DEF CacheInv, FilesOK, files

\* The call of t is over.
LEMMA EndsOK ==
    ASSUME CacheInv, NEW t \in Threads, Ends(t), UNCHANGED <<files, trainer, cache, loads>>
    PROVE  CacheInv'
<1> USE DEF CacheInv, TypeOK
<1>1. draft' = [draft EXCEPT ![t] = NoBundle] /\ at' = [at EXCEPT ![t] = "idle"]
  BY DEF Ends, Keep
<1>2. TypeOK'
  BY <1>1, Contents, CacheAssumption DEF files
<1>3. DraftOK(t)'
  BY <1>1, CacheAssumption DEF DraftOK, NoBundle, AfterLoad, files
<1> QED BY <1>1, <1>2, <1>3, OwnStep DEF KeyNamesContent, files

LEMMA StartOK == ASSUME CacheInv, NEW t \in Threads, Start(t) PROVE CacheInv'
<1> USE DEF CacheInv, TypeOK
<1>1. TypeOK'
  BY CacheAssumption DEF Start, Step, files
<1>2. DraftOK(t)'
  BY DEF Start, Step, DraftOK, AfterLoad, files
<1> QED BY <1>1, <1>2, OwnStep DEF Start, Step, KeyNamesContent, files

LEMMA StatOK == ASSUME CacheInv, NEW t \in Threads, Stat(t) PROVE CacheInv'
<1>1. CASE model = Nothing
  BY <1>1, EndsOK, CacheAssumption DEF Stat
<1>2. CASE model # Nothing
  <2> DEFINE b == [NoBundle EXCEPT !.key = stamp]
  <2>1. b \in Bundle /\ b.key = stamp /\ b.print = Nothing
    BY Contents DEF CacheInv, TypeOK, Bundle, NoBundle
  <2> HIDE DEF b
  <2>2. /\ draft' = [draft EXCEPT ![t] = b] /\ at' \in {[at EXCEPT ![t] = "hit"], [at EXCEPT ![t] = "load"]}
        /\ UNCHANGED <<files, trainer, cache, loads>>
    BY <1>2 DEF Stat, Keep, b
  <2>3. TypeOK'
    BY <2>1, <2>2 DEF CacheInv, TypeOK, files
  <2>4. DraftOK(t)'
    BY <2>1, <2>2, CacheAssumption DEF CacheInv, TypeOK, DraftOK, AfterLoad, files
  <2> QED BY <2>2, <2>3, <2>4, OwnStep DEF CacheInv, TypeOK, KeyNamesContent, files
<1> QED BY <1>1, <1>2

LEMMA HitOK == ASSUME CacheInv, NEW t \in Threads, Hit(t) PROVE CacheInv'
<1> USE DEF CacheInv, TypeOK
<1>1. /\ draft' = [draft EXCEPT ![t] = cache] /\ at' = [at EXCEPT ![t] = "loaded"] /\ cache \in Bundle
      /\ UNCHANGED <<files, trainer, cache, loads>>
  BY Contents DEF Hit, Step, Keep
<1>2. TypeOK'
  BY <1>1 DEF files
<1>3. DraftOK(t)'
  BY <1>1 DEF DraftOK, AfterLoad, files
<1> QED BY <1>1, <1>2, <1>3, OwnStep DEF KeyNamesContent, files

\* The one step that reads the model itself.
LEMMA LoadOK == ASSUME CacheInv, NEW t \in Threads, Load(t) PROVE CacheInv'
<1>1. CASE ~Valid(model)
  BY <1>1, EndsOK, CacheAssumption DEF Load
<1>2. CASE Valid(model)
  <2>1. model.run \in 0..MaxRuns /\ model.run # 0 /\ model = Whole(model.run) /\ model.whole
    BY <1>2, Contents DEF Valid, CacheInv, TypeOK, FilesOK
  <2> DEFINE b == [draft[t] EXCEPT !.model = model.run]
  <2>2. b \in Bundle /\ b.key = draft[t].key /\ b.model = model.run /\ b.print = draft[t].print
    BY <2>1 DEF CacheInv, TypeOK, Bundle
  <2>3. /\ draft' = [draft EXCEPT ![t] = b] /\ at' = [at EXCEPT ![t] = "hash"] /\ at[t] = "load"
        /\ UNCHANGED <<files, trainer, cache, loads>>
    BY <1>2, <2>1 DEF Load, Keep
  <2> HIDE DEF b
  <2>4. TypeOK'
    BY <2>2, <2>3 DEF CacheInv, TypeOK, files
  <2>5. DraftOK(t)'
    <3>1. b.print.run <= b.model
      BY <2>1, <2>2, <2>3, Contents DEF CacheInv, DraftOK
    <3> QED BY <2>1, <2>2, <2>3, <3>1 DEF CacheInv, TypeOK, DraftOK, files
  <2> QED BY <2>3, <2>4, <2>5, OwnStep DEF CacheInv, TypeOK, KeyNamesContent, files
<1> QED BY <1>1, <1>2

\* The fingerprint is taken of the file as it is, or of a manifest that is
\* never ahead of it.
LEMMA PrintOK ==
    ASSUME CacheInv, NEW t \in Threads, Hash(t) \/ ReadManifest(t) PROVE CacheInv'
<1>1. PICK c \in Content : /\ c \in {model, manifest, draft[t].print}
                           /\ draft' = [draft EXCEPT ![t] = [draft[t] EXCEPT !.print = c]]
                           /\ at[t] \in AfterLoad
                           /\ at' \in {[at EXCEPT ![t] = "manifest"], [at EXCEPT ![t] = "store"]}
                           /\ UNCHANGED <<files, trainer, cache, loads>>
  <2>1. CASE Hash(t)
    BY <2>1 DEF Hash, Step, Keep, AfterLoad, CacheInv, TypeOK
  <2>2. CASE ReadManifest(t) /\ manifest.whole
    BY <2>2 DEF ReadManifest, Step, Keep, AfterLoad, CacheInv, TypeOK
  <2>3. CASE ReadManifest(t) /\ ~manifest.whole
    <3>1. draft[t].print \in Content /\ [draft[t] EXCEPT !.print = draft[t].print] = draft[t]
      BY DEF CacheInv, TypeOK, Bundle
    <3> QED BY <2>3, <3>1 DEF ReadManifest, Step, Keep, AfterLoad
  <2> QED BY <2>1, <2>2, <2>3
<1> DEFINE b == [draft[t] EXCEPT !.print = c]
<1>2. b \in Bundle /\ b.key = draft[t].key /\ b.model = draft[t].model /\ b.print = c
  BY DEF CacheInv, TypeOK, Bundle
<1>3. draft' = [draft EXCEPT ![t] = b]
  BY <1>1
<1> HIDE DEF b
<1>4. TypeOK'
  BY <1>1, <1>2, <1>3 DEF CacheInv, TypeOK, files
<1>5. DraftOK(t)'
  <2>1. ASSUME draft[t].key = stamp PROVE c.run <= draft[t].model
    <3>1. model = Whole(draft[t].model) /\ draft[t].print.run <= draft[t].model
      BY <1>1, <2>1 DEF CacheInv, DraftOK
    <3>2. model.run = draft[t].model /\ manifest.run <= model.run
      BY <3>1, Contents DEF CacheInv, TypeOK, FilesOK, Bundle
    <3> QED BY <1>1, <3>1, <3>2 DEF CacheInv, TypeOK, Content
  <2>2. at'[t] \in {"manifest", "store"} /\ draft'[t] = b /\ stamp' = stamp /\ model' = model
    BY <1>1, <1>3 DEF CacheInv, TypeOK, files
  <2> QED BY <1>1, <1>2, <2>1, <2>2 DEF CacheInv, DraftOK
<1> QED BY <1>1, <1>3, <1>4, <1>5, OwnStep DEF CacheInv, TypeOK, KeyNamesContent, files

LEMMA StoreOK == ASSUME CacheInv, NEW t \in Threads, Store(t) PROVE CacheInv'
<1>1. /\ cache' = draft[t] /\ at' = [at EXCEPT ![t] = "loaded"] /\ at[t] = "store"
      /\ UNCHANGED <<files, trainer, draft, loads>>
  BY DEF Store, Step, KeyToStore, CacheInv, TypeOK, Bundle
<1>2. /\ draft[t] \in Bundle /\ draft[t].model # 0 /\ draft[t].key <= stamp
      /\ draft[t].key = stamp => /\ model = Whole(draft[t].model)
                                 /\ draft[t].print.run <= draft[t].model
  BY <1>1 DEF CacheInv, TypeOK, DraftOK, AfterLoad
<1>3. TypeOK'
  BY <1>1, <1>2 DEF CacheInv, TypeOK, files
<1>4. DraftOK(t)'
  BY <1>1, <1>2 DEF CacheInv, TypeOK, DraftOK, AfterLoad, files
<1>5. cache'.key <= stamp /\ KeyNamesContent'
  BY <1>1, <1>2 DEF KeyNamesContent, files
<1> QED BY <1>1, <1>3, <1>4, <1>5, OwnStep DEF CacheInv, TypeOK

LEMMA UseOK == ASSUME CacheInv, NEW t \in Threads, Use(t) PROVE CacheInv'
  BY EndsOK DEF Use

LEMMA Invariance == Spec => []CacheInv
<1>1. CacheInv /\ [Next]_vars => CacheInv'
  <2>1. ASSUME CacheInv, UNCHANGED vars PROVE CacheInv'
    BY <2>1, SameModel DEF vars, files, locals, CacheInv, TypeOK, FilesOK
  <2> QED BY <2>1, TrainingOK, StartOK, StatOK, HitOK, LoadOK, PrintOK, StoreOK, UseOK DEF Next
<1> QED BY <1>1, InitOK, PTL DEF Spec

-----------------------------------------------------------------------------
(* Theorems.                                                               *)

\* Files, threads and cache stay in their types, and only a bundle that has a
\* pipeline is ever cached.
THEOREM TypeCorrect == Spec => []TypeOK
<1>1. CacheInv => TypeOK
  BY DEF CacheInv
<1> QED BY <1>1, Invariance, PTL

\* The stat under which a bundle is cached is that of the file it came from, so
\* a model that was trained anew is never overlooked by a later decision.
THEOREM CachedUnderItsStat == Spec => []KeyNamesContent
<1>1. CacheInv => KeyNamesContent
  BY DEF CacheInv
<1> QED BY <1>1, Invariance, PTL
-----------------------------------------------------------------------------
(* Experiment: what a run holds.                                           *)

Arms == {"baseline", "adaptive"}

\* A row of a run of this seed: its outcome is the seed's.
RowsOfSeed(s) == {[scenario |-> i, arm |-> arm, action |-> a, recovered |-> Recovers(s, i, a)] :
                    i \in Nat, arm \in Arms, a \in Actions}

\* A run that began with a model: its rows come in pairs, one of each arm.
Begun(x) == /\ x.phase \in {"running", "failed", "done"}
            /\ x.seed \in Seeds /\ x.count \in 1..MaxCount
            /\ x.rows \in Seq(RowsOfSeed(x.seed))
            /\ Len(x.rows) <= 2 * x.count
            /\ \A k \in DOMAIN x.rows :
                   /\ x.rows[k].scenario = (k - 1) \div 2 + 1
                   /\ x.rows[k].arm = IF (k - 1) % 2 = 0 THEN "baseline" ELSE "adaptive"
            /\ x.phase = "done" => Len(x.rows) = 2 * x.count

RunOK(x) == x = Idle \/ x = [phase |-> "refused"] \/ Begun(x)

\* Only what ended well has been committed.
RunInv == /\ DOMAIN run = Requests /\ visible \subseteq Requests
          /\ \A r \in Requests : RunOK(run[r])
          /\ \A r \in visible : run[r].phase = "done"

\* A request whose phase is of a run that began, did begin.
LEMMA PhaseTells ==
    ASSUME NEW x, RunOK(x), x.phase \in {"running", "failed", "done"} PROVE Begun(x)
  BY DEF RunOK, Idle

\* A request moves on; what is committed is not touched.
LEMMA OneRun ==
    ASSUME RunInv, NEW r \in Requests, NEW x, RunOK(x),
           run' = [run EXCEPT ![r] = x],
           \/ visible' = visible /\ r \notin visible
           \/ visible' = visible \cup {r} /\ x.phase = "done"
    PROVE  RunInv'
<1>1. /\ DOMAIN run' = Requests /\ visible' \subseteq Requests
      /\ \A q \in Requests : run'[q] = IF q = r THEN x ELSE run[q]
  BY DEF RunInv
<1>2. \A q \in Requests : RunOK(run'[q])
  BY <1>1 DEF RunInv
<1>3. \A q \in visible' : run'[q].phase = "done"
  BY <1>1 DEF RunInv
<1> QED BY <1>1, <1>2, <1>3 DEF RunInv

\* The outcome is the cached one of this scenario and action or the draw's,
\* and both are the seed's.
LEMMA OutcomeIs ==
    ASSUME NEW s, NEW rows \in Seq(RowsOfSeed(s)), NEW a
    PROVE  Outcome(s, rows, a) = Recovers(s, Scenario(rows), a)
<1> DEFINE same == {k \in DOMAIN rows : rows[k].scenario = Scenario(rows) /\ rows[k].action = a}
<1>1. CASE same = {}
  BY <1>1 DEF Outcome, DrawOf
<1>2. CASE same # {}
  <2> DEFINE k == CHOOSE j \in same : TRUE
  <2>1. k \in DOMAIN rows /\ rows[k].scenario = Scenario(rows) /\ rows[k].action = a
    BY <1>2
  <2>2. rows[k] \in RowsOfSeed(s)
    BY <2>1
  <2>3. rows[k].recovered = Recovers(s, rows[k].scenario, rows[k].action)
    <3> HIDE DEF k
    <3> QED BY <2>2 DEF RowsOfSeed
  <2> QED BY <1>2, <2>1, <2>3 DEF Outcome
<1> QED BY <1>1, <1>2

LEMMA DecideKeeps ==
    ASSUME RunInv, NEW r \in Requests, NEW a \in Actions, Decide(r, a)
    PROVE  RunInv'
<1> DEFINE x == run[r]
           row == [scenario |-> Scenario(x.rows), arm |-> Arm(x.rows), action |-> a,
                   recovered |-> Outcome(x.seed, x.rows, a)]
           y == [x EXCEPT !.rows = Append(x.rows, row)]
<1>1. /\ x.phase = "running" /\ Len(x.rows) < 2 * x.count
      /\ run' = [run EXCEPT ![r] = y] /\ visible' = visible
  BY DEF Decide, Running, RunInv
<1>2. Begun(x) /\ r \notin visible
  BY <1>1, PhaseTells DEF RunInv
<1>3. x.rows \in Seq(RowsOfSeed(x.seed)) /\ Len(x.rows) \in Nat
  BY <1>2 DEF Begun
<1>4. row \in RowsOfSeed(x.seed)
  <2>1. row.recovered = Recovers(x.seed, Scenario(x.rows), a)
    BY <1>3, OutcomeIs
  <2>2. Scenario(x.rows) \in Nat /\ Arm(x.rows) \in Arms
    <3> DEFINE len == Len(x.rows)
    <3>1. len \in Nat
      BY <1>3
    <3> HIDE DEF len
    <3>2. len \div 2 + 1 \in Nat
      BY <3>1
    <3> QED BY <3>2 DEF len, Scenario, Arm, Arms
  <2> QED BY <2>1, <2>2 DEF RowsOfSeed
<1>5. /\ row.scenario = Len(x.rows) \div 2 + 1
      /\ row.arm = IF Len(x.rows) % 2 = 0 THEN "baseline" ELSE "adaptive"
  BY DEF Scenario, Arm
<1> HIDE DEF row
<1>6. Begun(y)
  <2>1. /\ y.phase = x.phase /\ y.seed = x.seed /\ y.count = x.count
        /\ y.rows = Append(x.rows, row)
    BY <1>2 DEF Begun
  <2> DEFINE more == Append(x.rows, row)
  <2>2. /\ more \in Seq(RowsOfSeed(x.seed)) /\ Len(more) = Len(x.rows) + 1
        /\ DOMAIN more = 1..Len(x.rows) + 1 /\ DOMAIN x.rows = 1..Len(x.rows)
        /\ \A k \in 1..Len(x.rows) : more[k] = x.rows[k]
        /\ more[Len(x.rows) + 1] = row
    BY <1>3, <1>4
  <2> HIDE DEF more
  <2>3. \A k \in DOMAIN more :
            /\ more[k].scenario = (k - 1) \div 2 + 1
            /\ more[k].arm = IF (k - 1) % 2 = 0 THEN "baseline" ELSE "adaptive"
    <3> TAKE k \in DOMAIN more
    <3>1. CASE k \in 1..Len(x.rows)
      BY <1>2, <2>2, <3>1 DEF Begun
    <3>2. CASE k = Len(x.rows) + 1
      <4>1. more[k] = row /\ k - 1 = Len(x.rows)
        BY <1>3, <2>2, <3>2
      <4> QED BY <1>5, <4>1
    <3> QED BY <1>3, <2>2, <3>1, <3>2
  <2>4. Len(more) <= 2 * x.count
    BY <1>1, <1>2, <1>3, <2>2 DEF Begun
  <2> QED BY <1>1, <1>2, <2>1, <2>2, <2>3, <2>4 DEF Begun, more
<1> QED BY <1>1, <1>2, <1>6, OneRun DEF RunOK

\* A run that fails or is committed keeps what it holds.
LEMMA EndedIsBegun ==
    ASSUME NEW x, Begun(x), NEW p \in {"failed", "done"},
           p = "done" => Len(x.rows) = 2 * x.count
    PROVE  Begun([x EXCEPT !.phase = p]) /\ [x EXCEPT !.phase = p].phase = p
<1> DEFINE y == [x EXCEPT !.phase = p]
<1>1. /\ y.phase = p /\ y.seed = x.seed /\ y.count = x.count /\ y.rows = x.rows
  BY DEF Begun
<1> HIDE DEF y
<1>2. Begun(y)
  BY <1>1 DEF Begun
<1> QED BY <1>1, <1>2 DEF y

LEMMA RestartKeeps == ASSUME RunInv, Restart PROVE RunInv'
<1>1. /\ run' = [r \in Requests |-> IF Running(r) THEN Failed(r) ELSE run[r]]
      /\ visible' = visible
  BY DEF Restart, LeftBehind
<1>2. ASSUME NEW r \in Requests PROVE RunOK(run'[r]) /\ (run[r].phase = "done" => run'[r] = run[r])
  <2>1. CASE Running(r)
    <3>1. run'[r] = [run[r] EXCEPT !.phase = "failed"] /\ run[r].phase = "running"
      BY <1>1, <2>1 DEF Running, Failed
    <3>2. Begun(run[r])
      BY <3>1, PhaseTells DEF RunInv
    <3>3. Begun(run'[r])
      BY <3>1, <3>2, EndedIsBegun
    <3> QED BY <3>1, <3>3 DEF RunOK
  <2>2. CASE ~Running(r)
    BY <1>1, <2>2 DEF RunInv
  <2> QED BY <2>1, <2>2
<1> QED BY <1>1, <1>2 DEF RunInv

\* The invariant of the experiments holds throughout.
LEMMA RunsHold == RunSpec => []RunInv
<1>1. RunInit => RunInv
  BY DEF RunInit, RunInv, RunOK
<1>2. RunInv /\ [RunNext]_(runVars) => RunInv'
  <2> SUFFICES ASSUME RunInv, [RunNext]_(runVars) PROVE RunInv'
    OBVIOUS
  <2>1. ASSUME NEW r \in Requests, NEW s \in Seeds, NEW n \in 1..MaxCount, Begin(r, s, n)
        PROVE  RunInv'
    <3> DEFINE x == IF readable
                    THEN [phase |-> "running", seed |-> s, count |-> n, rows |-> <<>>]
                    ELSE [phase |-> "refused"]
    <3>1. run' = [run EXCEPT ![r] = x] /\ visible' = visible /\ r \notin visible
      BY <2>1 DEF Begin, Idle, RunInv
    <3>2. CASE readable
      <4>1. /\ x.phase = "running" /\ x.seed = s /\ x.count = n /\ x.rows = <<>>
        BY <3>2
      <4> HIDE DEF x
      <4>2. Begun(x)
        BY <4>1 DEF Begun
      <4> QED BY <3>1, <4>2, OneRun DEF RunOK
    <3>3. CASE ~readable
      <4>1. RunOK(x)
        BY <3>3 DEF RunOK
      <4> HIDE DEF x
      <4> QED BY <3>1, <4>1, OneRun
    <3> QED BY <3>2, <3>3
  <2>2. ASSUME NEW r \in Requests, Fail(r) PROVE RunInv'
    <3> DEFINE x == [run[r] EXCEPT !.phase = "failed"]
    <3>1. /\ run[r].phase = "running" /\ run' = [run EXCEPT ![r] = x] /\ visible' = visible
      BY <2>2 DEF Fail, Running, Failed, LeftBehind
    <3>2. Begun(x) /\ r \notin visible
      BY <3>1, PhaseTells, EndedIsBegun DEF RunInv
    <3> HIDE DEF x
    <3> QED BY <3>1, <3>2, OneRun DEF RunOK
  <2>3. ASSUME NEW r \in Requests, Commit(r) PROVE RunInv'
    <3> DEFINE x == [run[r] EXCEPT !.phase = "done"]
    <3>1. /\ run[r].phase = "running" /\ run' = [run EXCEPT ![r] = x] /\ visible' = visible \cup {r}
          /\ Len(run[r].rows) = 2 * run[r].count
      BY <2>3 DEF Commit, Running
    <3>2. Begun(x) /\ x.phase = "done"
      BY <3>1, PhaseTells, EndedIsBegun DEF RunInv
    <3> HIDE DEF x
    <3> QED BY <3>1, <3>2, OneRun DEF RunOK
  <2>4. ASSUME UNCHANGED <<run, visible>> PROVE RunInv'
    BY <2>4 DEF RunInv
  <2>5. TrainAnew => RunInv'
    BY <2>4 DEF TrainAnew
  <2>6. UNCHANGED runVars => RunInv'
    BY <2>4 DEF runVars
  <2> QED BY <2>1, <2>2, <2>3, <2>5, <2>6, DecideKeeps, RestartKeeps DEF RunNext
<1> QED BY <1>1, <1>2, PTL DEF RunSpec

\* The pair of rows of scenario i.
LEMMA PairOf ==
    \A i \in Nat \ {0} : /\ 2 * i - 1 \in Nat /\ 2 * i \in Nat
                        /\ ((2 * i - 1) - 1) % 2 = 0 /\ ((2 * i - 1) - 1) \div 2 + 1 = i
                        /\ (2 * i - 1) % 2 = 1 /\ (2 * i - 1) \div 2 + 1 = i
<1> SUFFICES ASSUME NEW i \in Nat \ {0}
             PROVE  /\ 2 * i - 1 \in Nat /\ 2 * i \in Nat
                    /\ ((2 * i - 1) - 1) % 2 = 0 /\ ((2 * i - 1) - 1) \div 2 + 1 = i
                    /\ (2 * i - 1) % 2 = 1 /\ (2 * i - 1) \div 2 + 1 = i
  OBVIOUS
<1>1. (2 * i - 1) - 1 = 2 * (i - 1) /\ i - 1 \in Nat
  OBVIOUS
<1>2. \A j \in Nat : (2 * j) % 2 = 0 /\ (2 * j) \div 2 = j
  OBVIOUS
<1>3. 2 * i - 1 = 2 * (i - 1) + 1
  OBVIOUS
<1>4. \A j \in Nat : (2 * j + 1) % 2 = 1 /\ (2 * j + 1) \div 2 = j
  OBVIOUS
<1> QED BY <1>1, <1>2, <1>3, <1>4

\* Whatever fails and whenever the process is restarted, a reader of a
\* committed run sees both arms of each of its scenarios.
THEOREM ExperimentsAreWhole == RunSpec => []RunsAreWhole
<1>1. RunInv => RunsAreWhole
  <2> SUFFICES ASSUME RunInv, NEW r \in visible, NEW arm \in {"baseline", "adaptive"}
               PROVE  {Rows(r)[k].scenario : k \in RowsOf(r, arm)} = 1..run[r].count
    BY DEF RunsAreWhole
  <2> DEFINE rows == run[r].rows
             n == run[r].count
  <2>1. /\ n \in Nat /\ DOMAIN rows = 1..2 * n
        /\ \A k \in 1..2 * n :
               /\ rows[k].scenario = (k - 1) \div 2 + 1
               /\ rows[k].arm = IF (k - 1) % 2 = 0 THEN "baseline" ELSE "adaptive"
    <3>1. Begun(run[r]) /\ run[r].phase = "done"
      BY PhaseTells DEF RunInv
    <3>2. /\ n \in 1..MaxCount /\ rows \in Seq(RowsOfSeed(run[r].seed)) /\ Len(rows) = 2 * n
          /\ \A k \in DOMAIN rows :
                 /\ rows[k].scenario = (k - 1) \div 2 + 1
                 /\ rows[k].arm = IF (k - 1) % 2 = 0 THEN "baseline" ELSE "adaptive"
      BY <3>1 DEF Begun
    <3>3. n \in Nat /\ DOMAIN rows = 1..2 * n
      BY <3>2
    <3> QED BY <3>2, <3>3
  <2> DEFINE has == {k \in 1..2 * n : rows[k].arm = arm}
  <2>2. RowsOf(r, arm) = has /\ Rows(r) = rows
    BY <2>1 DEF RowsOf, Rows
  <2> HIDE DEF rows, n
  <2>3. \A k \in has : rows[k].scenario \in 1..n
    BY <2>1
  <2>4. ASSUME NEW i \in 1..n PROVE \E k \in has : rows[k].scenario = i
    <3>1. CASE arm = "baseline"
      <4>1. 2 * i - 1 \in 1..2 * n /\ ((2 * i - 1) - 1) % 2 = 0 /\ ((2 * i - 1) - 1) \div 2 + 1 = i
        BY <2>1, PairOf
      <4> QED BY <2>1, <3>1, <4>1
    <3>2. CASE arm = "adaptive"
      <4>1. 2 * i \in 1..2 * n /\ (2 * i - 1) % 2 # 0 /\ (2 * i - 1) \div 2 + 1 = i
        BY <2>1, PairOf
      <4> QED BY <2>1, <3>2, <4>1
    <3> QED BY <3>1, <3>2
  <2>5. {rows[k].scenario : k \in has} = 1..n
    <3> HIDE DEF has
    <3> QED BY <2>3, <2>4
  <2> QED BY <2>2, <2>5 DEF n
<1> QED BY <1>1, RunsHold, PTL

\* Two committed runs of a seed agree wherever they take the same action,
\* whichever models their adaptive arms had and in whatever order they decided.
THEOREM SeedsDecide == RunSpec => []SeedDecides
<1>1. RunInv => SeedDecides
  <2>1. ASSUME RunInv, NEW r \in visible, NEW k \in DOMAIN Rows(r)
        PROVE  Rows(r)[k].recovered
                 = Recovers(run[r].seed, Rows(r)[k].scenario, Rows(r)[k].action)
    <3> DEFINE row == Rows(r)[k]
    <3>1. Begun(run[r])
      BY <2>1, PhaseTells DEF RunInv
    <3>2. row \in RowsOfSeed(run[r].seed)
      BY <2>1, <3>1 DEF Begun, Rows
    <3> HIDE DEF row
    <3>3. row.recovered = Recovers(run[r].seed, row.scenario, row.action)
      BY <3>2 DEF RowsOfSeed
    <3> QED BY <3>3 DEF row
  <2> QED BY <2>1 DEF SeedDecides
<1> QED BY <1>1, RunsHold, PTL
===============================================================================
