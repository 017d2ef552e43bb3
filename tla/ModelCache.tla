------------------------------ MODULE ModelCache ------------------------------
(***************************************************************************)
(* The trained model on disk and in memory.                                *)
(*                                                                         *)
(* `python -m app.ml.train` rewrites model.joblib and then manifest.json   *)
(* beside a running service.  scorer._load caches the loaded bundle in a   *)
(* global of the process, under the model file's stat(); the webhook       *)
(* thread scores decisions with it while health and dashboard threads ask  *)
(* for the model's fingerprint.  A decision loads twice, to rank the       *)
(* actions and to record which model ranked them; each counts as a load.   *)
(*                                                                         *)
(* A file's content is the training run it came from (0 before the first)  *)
(* and whether it is whole; a fingerprint stands for the content hashed.   *)
(***************************************************************************)
EXTENDS Naturals

CONSTANTS
    Threads,     \* of the service
    MaxRuns,     \* bound: training runs
    MaxLoads     \* bound: loads

ASSUME CacheAssumption == MaxRuns \in Nat /\ MaxLoads \in Nat

Content == [run : 0..MaxRuns, whole : BOOLEAN]
Nothing == [run |-> 0, whole |-> FALSE]
Whole(n) == [run |-> n, whole |-> TRUE]
Part(n)  == [run |-> n, whole |-> FALSE]

\* A bundle: the key it is cached under, the run its pipeline came from and
\* the fingerprint it carries.
NoBundle == [key |-> 0, model |-> 0, print |-> Nothing]
Bundle   == [key : 0..2 * MaxRuns, model : 0..MaxRuns, print : Content]

VARIABLES
    model, stamp,    \* model.joblib, and its mtime and size: a number per write
    manifest,        \* manifest.json, as the fingerprint it holds
    trainer,         \* step of the training run
    cache,           \* scorer._cache
    at,              \* per thread: step of _load
    draft,           \* per thread: the bundle being put together
    loads

files  == <<model, stamp, manifest>>
locals == <<at, draft>>
vars   == <<files, trainer, cache, locals, loads>>

-----------------------------------------------------------------------------
(* train: each file is truncated, written and closed; the process may be    *)
(* stopped anywhere.                                                        *)

Train(step, next) == trainer = step /\ trainer' = next /\ UNCHANGED <<cache, locals, loads>>

DumpBegins == /\ Train("idle", "dumping") /\ model.run < MaxRuns
              /\ model' = Part(model.run + 1) /\ stamp' = stamp + 1 /\ UNCHANGED manifest
DumpEnds   == /\ Train("dumping", "dumped")
              /\ model' = Whole(model.run) /\ stamp' = stamp + 1 /\ UNCHANGED manifest
ManifestBegins == Train("dumped", "writing") /\ manifest' = Part(model.run) /\ UNCHANGED <<model, stamp>>
ManifestEnds   == Train("writing", "idle") /\ manifest' = Whole(model.run) /\ UNCHANGED <<model, stamp>>
Killed == trainer # "idle" /\ Train(trainer, "idle") /\ UNCHANGED files

-----------------------------------------------------------------------------
(* scorer._load, one step per access to a file or to the global.           *)

Step(t, here, there) == at[t] = here /\ at' = [at EXCEPT ![t] = there]
Keep(t, b) == draft' = [draft EXCEPT ![t] = b]

Start(t) ==
    /\ Step(t, "idle", "stat") /\ loads < MaxLoads /\ loads' = loads + 1
    /\ UNCHANGED <<files, trainer, cache, draft>>

\* The call is over: its caller has the bundle, or there is none.
Ends(t) == at' = [at EXCEPT ![t] = "idle"] /\ Keep(t, NoBundle)

\* Fault, not in the code: the file is looked at when it has been read.
KeyWhenRead(b) == stamp
KeyToStore(b) == b.key

Stat(t) ==
    /\ at[t] = "stat"
    /\ IF model = Nothing THEN Ends(t)
       ELSE /\ Keep(t, [NoBundle EXCEPT !.key = stamp])
            /\ at' = [at EXCEPT ![t] = IF cache # NoBundle /\ cache.key = stamp THEN "hit" ELSE "load"]
    /\ UNCHANGED <<files, trainer, cache, loads>>

\* The global is read again for the return value.
Hit(t) ==
    /\ Step(t, "hit", "loaded") /\ Keep(t, cache)
    /\ UNCHANGED <<files, trainer, cache, loads>>

Valid(c) == c.whole

\* joblib.load fails on a file that is not whole, or finds no pipeline in it.
Load(t) ==
    /\ at[t] = "load"
    /\ IF Valid(model)
       THEN /\ at' = [at EXCEPT ![t] = "hash"]
            /\ Keep(t, [draft[t] EXCEPT !.model = IF model.whole THEN model.run ELSE 0])
       ELSE Ends(t)
    /\ UNCHANGED <<files, trainer, cache, loads>>

\* compute_fingerprint opens the file once more.
Hash(t) ==
    /\ Step(t, "hash", "manifest") /\ Keep(t, [draft[t] EXCEPT !.print = model])
    /\ UNCHANGED <<files, trainer, cache, loads>>

\* A manifest that can be read is preferred to the hash.
ReadManifest(t) ==
    /\ Step(t, "manifest", "store")
    /\ Keep(t, IF manifest.whole THEN [draft[t] EXCEPT !.print = manifest] ELSE draft[t])
    /\ UNCHANGED <<files, trainer, cache, loads>>

Store(t) ==
    /\ Step(t, "store", "loaded")
    /\ cache' = [draft[t] EXCEPT !.key = KeyToStore(draft[t])]
    /\ UNCHANGED <<files, trainer, draft, loads>>

Use(t) == at[t] = "loaded" /\ Ends(t) /\ UNCHANGED <<files, trainer, cache, loads>>

Init ==
    /\ \E trained \in BOOLEAN : LET c == IF trained /\ MaxRuns > 0 THEN Whole(1) ELSE Nothing
                                IN model = c /\ manifest = c
    /\ stamp = 0 /\ trainer = "idle" /\ cache = NoBundle /\ loads = 0
    /\ at = [t \in Threads |-> "idle"] /\ draft = [t \in Threads |-> NoBundle]

Next == \/ DumpBegins \/ DumpEnds \/ ManifestBegins \/ ManifestEnds \/ Killed
        \/ \E t \in Threads : Start(t) \/ Stat(t) \/ Hit(t) \/ Load(t) \/ Hash(t)
                                \/ ReadManifest(t) \/ Store(t) \/ Use(t)

Spec == Init /\ [][Next]_vars

-----------------------------------------------------------------------------
(* Properties.                                                             *)

\* The state is what the files and the process can hold; what is cached has a
\* pipeline.
TypeOK ==
    /\ model \in Content /\ manifest \in Content /\ stamp \in 0..2 * MaxRuns
    /\ trainer \in {"idle", "dumping", "dumped", "writing"} /\ loads \in 0..MaxLoads
    /\ cache \in {NoBundle} \cup {b \in Bundle : b.model # 0}
    /\ draft \in [Threads -> Bundle]
    /\ at \in [Threads -> {"idle", "stat", "hit", "load", "hash", "manifest", "store", "loaded"}]

\* A cache entry whose key is that of the file on disk holds that file's
\* model, and no later model's fingerprint: retraining is always noticed,
\* however the writes, the loads of several threads and their stores
\* interleave.  (The fingerprint may be an older model's: train writes
\* manifest.json last.)
KeyNamesContent ==
    cache # NoBundle /\ cache.key = stamp => /\ model = Whole(cache.model)
                                             /\ cache.print.run <= cache.model
=============================================================================
