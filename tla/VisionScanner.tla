---------------------------- MODULE VisionScanner ---------------------------
(***************************************************************************)
(* Loading the local vision model once for two threads of one process      *)
(* (app/vision_safety.py): the event loop, which scans images and batches  *)
(* of video frames one after the other, and the warm-up that the start of  *)
(* the service runs in a thread of the pool.  A thread can be suspended    *)
(* between any two attribute accesses.                                     *)
(***************************************************************************)
EXTENDS Naturals, Sequences, FiniteSets

CONSTANTS
    Scans,  \* scans the event loop is asked for, each once
    Nobody  \* no thread, no scan

Threads == {"loop", "warmup"}

ASSUME VisionAssumption == IsFiniteSet(Scans) /\ Nobody \notin Scans \cup Threads

\* Attributes of the scanner, in the order _ensure_model assigns them.
Published == <<"model", "preprocess", "tokenizer", "text_features">>
Attributes == {Published[i] : i \in DOMAIN Published}

VARIABLES
    attributes, \* those that are not None
    lock,       \* the holder of _model_lock
    stage,      \* how far each thread is
    scan,       \* the scan of the event loop
    result,     \* what each scan returned
    loads       \* history: models built by a library

vars == <<attributes, lock, stage, scan, result, loads>>

Stages == {"idle", "entering", "waiting", "locked", "loading", "publishing",
           "ready", "preprocessed", "failed", "done"}

TypeOK ==
    /\ attributes \subseteq Attributes
    /\ lock \in Threads \cup {Nobody}
    /\ stage \in [Threads -> Stages]
    /\ scan \in Scans \cup {Nobody}
    /\ result \in [Scans -> {"none", "scanned", "fallback"}]
    /\ loads \in Nat

Init ==
    /\ attributes = {}
    /\ lock = Nobody
    /\ stage = [t \in Threads |-> "idle"]
    /\ scan = Nobody
    /\ result = [s \in Scans |-> "none"]
    /\ loads = 0

Goto(t, to) == stage' = [stage EXCEPT ![t] = to]

-----------------------------------------------------------------------------
(* _ensure_model                                                           *)

CheckOutside(t) ==
    /\ stage[t] = "entering"
    /\ Goto(t, IF "model" \in attributes THEN "ready" ELSE "waiting")
    /\ UNCHANGED <<attributes, lock, scan, result, loads>>

\* The event loop blocks here while the warm-up loads.
Acquire(t) ==
    /\ stage[t] = "waiting"
    /\ lock = Nobody
    /\ lock' = t
    /\ Goto(t, "locked")
    /\ UNCHANGED <<attributes, scan, result, loads>>

\* Mutant: the check is not repeated under the lock.
CheckNothing(t) ==
    /\ stage[t] = "locked"
    /\ Goto(t, "loading")
    /\ UNCHANGED <<attributes, lock, scan, result, loads>>

CheckInside(t) ==
    /\ stage[t] = "locked"
    /\ IF "model" \in attributes THEN Goto(t, "ready") /\ lock' = Nobody
       ELSE Goto(t, "loading") /\ UNCHANGED lock
    /\ UNCHANGED <<attributes, scan, result, loads>>

\* open_clip, or else clip, builds model and text features.
Load(t) ==
    /\ stage[t] = "loading"
    /\ loads' = loads + 1
    /\ Goto(t, "publishing")
    /\ UNCHANGED <<attributes, lock, scan, result>>

\* Mutant: the lock is not released when an exception leaves the block.
LoadFailsLocked(t) ==
    /\ stage[t] = "loading"
    /\ Goto(t, "failed")
    /\ UNCHANGED <<attributes, lock, scan, result, loads>>

\* Neither library can be used: RuntimeError.
LoadFails(t) ==
    /\ stage[t] = "loading"
    /\ lock' = Nobody
    /\ Goto(t, "failed")
    /\ UNCHANGED <<attributes, scan, result, loads>>

\* Mutant: the lock covers the loading only, not the assignments.
PublishUnlocked(t) ==
    /\ stage[t] = "publishing"
    /\ \E i \in DOMAIN Published :
          /\ Published[i] \notin attributes
          /\ \A j \in 1..(i - 1) : Published[j] \in attributes
          /\ attributes' = attributes \cup {Published[i]}
          /\ Goto(t, IF i = Len(Published) THEN "ready" ELSE "publishing")
    /\ lock' = Nobody
    /\ UNCHANGED <<scan, result, loads>>

\* One assignment; the last one is followed by the end of the block.
Publish(t) ==
    /\ stage[t] = "publishing"
    /\ \E i \in DOMAIN Published :
          /\ Published[i] \notin attributes
          /\ \A j \in 1..(i - 1) : Published[j] \in attributes
          /\ attributes' = attributes \cup {Published[i]}
          /\ IF i = Len(Published) THEN Goto(t, "ready") /\ lock' = Nobody
             ELSE UNCHANGED <<stage, lock>>
    /\ UNCHANGED <<scan, result, loads>>

-----------------------------------------------------------------------------
(* The warm-up, and the scans around _ensure_model.                        *)

\* _warm_local_vision_scanner: a failure is returned, and nobody looks at it.
StartWarmup ==
    /\ stage["warmup"] = "idle"
    /\ Goto("warmup", "entering")
    /\ UNCHANGED <<attributes, lock, scan, result, loads>>

EndWarmup ==
    /\ stage["warmup"] \in {"ready", "failed"}
    /\ Goto("warmup", "done")
    /\ UNCHANGED <<attributes, lock, scan, result, loads>>

StartScan(s) ==
    /\ stage["loop"] = "idle"
    /\ result[s] = "none"
    /\ scan' = s
    /\ Goto("loop", "entering")
    /\ UNCHANGED <<attributes, lock, result, loads>>

Return(with) ==
    /\ result' = [result EXCEPT ![scan] = with]
    /\ scan' = Nobody
    /\ Goto("loop", "idle")
    /\ UNCHANGED <<attributes, lock, loads>>

\* _predict_labels_batch calls _preprocess, and later multiplies with
\* _text_features: with None in their place it raises, which scan_image_bytes
\* and scan_video_bytes turn into a fallback.
Preprocess ==
    /\ stage["loop"] = "ready"
    /\ "preprocess" \in attributes
    /\ Goto("loop", "preprocessed")
    /\ UNCHANGED <<attributes, lock, scan, result, loads>>

Predict ==
    /\ stage["loop"] = "preprocessed"
    /\ "text_features" \in attributes
    /\ Return("scanned")

\* Mutant: the exception leaves the scanner.
FallBackRaises ==
    /\ stage["loop"] \in {"entering", "failed"}
    /\ Return("error")

\* Also an image that cannot be decoded, before the model is asked for.
FallBack ==
    /\ \/ stage["loop"] \in {"entering", "failed"}
       \/ stage["loop"] = "ready" /\ "preprocess" \notin attributes
       \/ stage["loop"] = "preprocessed" /\ "text_features" \notin attributes
    /\ Return("fallback")

-----------------------------------------------------------------------------
EnsureModel(t) ==
    CheckOutside(t) \/ Acquire(t) \/ CheckInside(t) \/ Load(t) \/ LoadFails(t) \/ Publish(t)

Run(t) ==
    \/ EnsureModel(t)
    \/ t = "warmup" /\ EndWarmup
    \/ t = "loop" /\ (Preprocess \/ Predict \/ FallBack)

Next ==
    \/ StartWarmup
    \/ \E s \in Scans : StartScan(s)
    \/ \E t \in Threads : Run(t)

\* A thread that can go on does, and loading ends one way or the other.
Spec == Init /\ [][Next]_vars /\ \A t \in Threads : WF_vars(Run(t))

-----------------------------------------------------------------------------
(* Properties.                                                             *)

\* One model is built, however the first scans meet the warm-up.
LoadedOnce == loads <= 1

\* The check outside the lock looks at the model only.  Once the lock is free
\* everything that belongs to a model is there: a scan that passes the check
\* falls back at most while the warm-up is still assigning, never afterwards.
PublishedWhole ==
    "model" \in attributes /\ lock = Nobody => attributes = Attributes

\* Every scan comes to an answer: the lock is free again whatever happens
\* under it.
ScansReturn == \A s \in Scans : scan = s ~> result[s] # "none"
=============================================================================
