---------------------------- MODULE VisionProofs ----------------------------
(***************************************************************************)
(* For any number of scans: the model is built once, and whole for whoever *)
(* finds the lock free.  For any video, any labels and any limits: where   *)
(* the samples lie, that batches show in ties only, and which labels of    *)
(* the pictures are returned.                                              *)
(***************************************************************************)
EXTENDS VisionScanner, VisionLabels, FiniteSetTheorems, SequenceTheorems, WellFoundedInduction,
        TLAPS

Critical == {"locked", "loading", "publishing"}

\* The holder of the lock, and nobody else, is inside the block.
LockHeld ==
    /\ lock # Nobody => stage[lock] \in Critical
    /\ \A t \in Threads : stage[t] \in Critical => lock = t

\* Attributes are assigned in the order of the code.
InSequence ==
    /\ "preprocess" \in attributes => "model" \in attributes
    /\ "tokenizer" \in attributes => "preprocess" \in attributes
    /\ "text_features" \in attributes => "tokenizer" \in attributes

\* What the holder has found and done so far.
Progress ==
    /\ (\A t \in Threads : stage[t] # "publishing") =>
          \/ attributes = {} /\ loads = 0
          \/ "text_features" \in attributes /\ loads = 1
    /\ \A t \in Threads : stage[t] = "loading" => attributes = {}
    /\ \A t \in Threads : stage[t] = "publishing" => loads = 1 /\ "text_features" \notin attributes

LoadInv == TypeOK /\ LockHeld /\ InSequence /\ Progress

LEMMA PublishedAttributes ==
    /\ DOMAIN Published = 1..4
    /\ Len(Published) = 4
    /\ Published[1] = "model" /\ Published[2] = "preprocess"
    /\ Published[3] = "tokenizer" /\ Published[4] = "text_features"
    /\ Attributes = {"model", "preprocess", "tokenizer", "text_features"}
<1>1. /\ DOMAIN Published = 1..4
      /\ Len(Published) = 4
      /\ Published[1] = "model" /\ Published[2] = "preprocess"
      /\ Published[3] = "tokenizer" /\ Published[4] = "text_features"
  BY DEF Published
<1>2. \A i \in 1..4 : i = 1 \/ i = 2 \/ i = 3 \/ i = 4
  OBVIOUS
<1>3. QED
  BY <1>1, <1>2 DEF Attributes

\* The four assignments, one by one.
LEMMA PublishCases ==
    ASSUME LoadInv, NEW t \in Threads, Publish(t)
    PROVE  /\ stage[t] = "publishing"
           /\ UNCHANGED <<scan, result, loads>>
           /\ \/ /\ \E a \in {"model", "preprocess", "tokenizer"} : attributes' = attributes \cup {a}
                 /\ UNCHANGED <<stage, lock>>
              \/ /\ attributes' = attributes \cup {"text_features"}
                 /\ stage' = [stage EXCEPT ![t] = "ready"]
                 /\ lock' = Nobody
           /\ InSequence'
<1>1. PICK i \in 1..4 :
          /\ \A j \in 1..(i - 1) : Published[j] \in attributes
          /\ attributes' = attributes \cup {Published[i]}
          /\ IF i = 4 THEN Goto(t, "ready") /\ lock' = Nobody ELSE UNCHANGED <<stage, lock>>
  BY PublishedAttributes DEF Publish
<1>2. CASE i = 1
  BY <1>1, <1>2, PublishedAttributes DEF Publish, LoadInv, InSequence
<1>3. CASE i = 2
  <2>1. Published[1] \in attributes
    BY <1>1, <1>3
  <2>2. QED
    BY <1>1, <1>3, <2>1, PublishedAttributes DEF Publish, LoadInv, InSequence
<1>4. CASE i = 3
  <2>1. Published[2] \in attributes
    BY <1>1, <1>4
  <2>2. QED
    BY <1>1, <1>4, <2>1, PublishedAttributes DEF Publish, LoadInv, InSequence
<1>5. CASE i = 4
  <2>1. Published[3] \in attributes
    BY <1>1, <1>5
  <2>2. QED
    BY <1>1, <1>5, <2>1, PublishedAttributes DEF Publish, LoadInv, InSequence, Goto
<1>6. QED
  BY <1>2, <1>3, <1>4, <1>5

\* Steps outside the block: the lock, the attributes and the count stay.
Outside ==
    /\ UNCHANGED <<attributes, lock, loads>>
    /\ \A t \in Threads : stage'[t] # stage[t] => stage[t] \notin Critical /\ stage'[t] \notin Critical
    /\ TypeOK'

LEMMA OutsideStep ==
    ASSUME LoadInv, Outside
    PROVE  LoadInv'
<1>1. \A t \in Threads : stage'[t] \in Critical \/ stage[t] \in Critical => stage'[t] = stage[t]
  BY DEF Outside
<1>2. LockHeld'
  BY <1>1 DEF LoadInv, TypeOK, LockHeld, Outside
<1>3. InSequence' /\ Progress'
  BY <1>1 DEF LoadInv, InSequence, Progress, Outside, Critical
<1>4. QED
  BY <1>2, <1>3 DEF LoadInv, Outside

LEMMA LoadStep ==
    ASSUME LoadInv, [Next]_vars
    PROVE  LoadInv'
<1> USE VisionAssumption DEF Goto, Stages
<1>0. TypeOK /\ "loop" \in Threads /\ "warmup" \in Threads /\ Nobody \notin Scans \cup Threads
  BY DEF LoadInv, Threads
<1>1. ASSUME NEW t \in Threads, CheckOutside(t) PROVE LoadInv'
  <2>1. Outside
    BY <1>0, <1>1 DEF CheckOutside, Outside, TypeOK, Critical
  <2>2. QED
    BY <2>1, OutsideStep
<1>2. CASE StartWarmup \/ EndWarmup
  <2>1. Outside
    BY <1>0, <1>2 DEF StartWarmup, EndWarmup, Outside, TypeOK, Critical
  <2>2. QED
    BY <2>1, OutsideStep
<1>3. ASSUME NEW s \in Scans, StartScan(s) PROVE LoadInv'
  <2>1. Outside
    BY <1>0, <1>3 DEF StartScan, Outside, TypeOK, Critical
  <2>2. QED
    BY <2>1, OutsideStep
<1>4. CASE Preprocess \/ Predict \/ FallBack
  <2>1. Outside
    BY <1>0, <1>4 DEF Preprocess, Predict, FallBack, Return, Outside, TypeOK, Critical
  <2>2. QED
    BY <2>1, OutsideStep
<1>5. ASSUME NEW t \in Threads, Acquire(t) PROVE LoadInv'
  <2>1. TypeOK'
    BY <1>0, <1>5 DEF Acquire, TypeOK
  <2>2. LockHeld'
    BY <1>0, <1>5 DEF Acquire, TypeOK, LoadInv, LockHeld, Critical
  <2>3. InSequence' /\ Progress'
    BY <1>0, <1>5 DEF Acquire, TypeOK, LoadInv, LockHeld, InSequence, Progress, Critical
  <2>4. QED
    BY <2>1, <2>2, <2>3 DEF LoadInv
<1>6. ASSUME NEW t \in Threads, CheckInside(t) PROVE LoadInv'
  <2>1. TypeOK'
    BY <1>0, <1>6 DEF CheckInside, TypeOK
  <2>2. LockHeld'
    BY <1>0, <1>6 DEF CheckInside, TypeOK, LoadInv, LockHeld, Critical
  <2>3. InSequence' /\ Progress'
    BY <1>0, <1>6 DEF CheckInside, TypeOK, LoadInv, LockHeld, InSequence, Progress, Critical
  <2>4. QED
    BY <2>1, <2>2, <2>3 DEF LoadInv
<1>7. ASSUME NEW t \in Threads, Load(t) PROVE LoadInv'
  <2>1. TypeOK'
    BY <1>0, <1>7 DEF Load, TypeOK
  <2>2. LockHeld'
    BY <1>0, <1>7 DEF Load, TypeOK, LoadInv, LockHeld, Critical
  <2>3. attributes = {} /\ loads = 0
    BY <1>0, <1>7 DEF Load, LoadInv, LockHeld, Progress, Critical
  <2>4. InSequence' /\ Progress'
    BY <1>0, <1>7, <2>3 DEF Load, TypeOK, LoadInv, LockHeld, InSequence, Progress, Critical
  <2>5. QED
    BY <2>1, <2>2, <2>4 DEF LoadInv
<1>8. ASSUME NEW t \in Threads, LoadFails(t) PROVE LoadInv'
  <2>1. TypeOK'
    BY <1>0, <1>8 DEF LoadFails, TypeOK
  <2>2. LockHeld'
    BY <1>0, <1>8 DEF LoadFails, TypeOK, LoadInv, LockHeld, Critical
  <2>3. InSequence' /\ Progress'
    BY <1>0, <1>8 DEF LoadFails, TypeOK, LoadInv, LockHeld, InSequence, Progress, Critical
  <2>4. QED
    BY <2>1, <2>2, <2>3 DEF LoadInv
<1>9. ASSUME NEW t \in Threads, Publish(t) PROVE LoadInv'
  <2>1. TypeOK'
    <3>1. attributes' \subseteq Attributes
      BY <1>0, <1>9, PublishCases, PublishedAttributes DEF TypeOK
    <3>2. stage' \in [Threads -> Stages] /\ lock' \in Threads \cup {Nobody}
      BY <1>0, <1>9, PublishCases DEF TypeOK
    <3>3. QED
      BY <1>0, <1>9, <3>1, <3>2, PublishCases DEF TypeOK
  <2>2. LockHeld'
    BY <1>0, <1>9, PublishCases DEF TypeOK, LoadInv, LockHeld, Critical
  <2>3. Progress'
    BY <1>0, <1>9, PublishCases DEF TypeOK, LoadInv, LockHeld, Progress, Critical
  <2>4. QED
    BY <1>9, <2>1, <2>2, <2>3, PublishCases DEF LoadInv
<1>10. CASE UNCHANGED vars
  BY <1>10 DEF vars, LoadInv, TypeOK, LockHeld, InSequence, Progress
<1>11. QED
  BY <1>1, <1>2, <1>3, <1>4, <1>5, <1>6, <1>7, <1>8, <1>9, <1>10 DEF Next, Run, EnsureModel

LEMMA LoadInit == Init => LoadInv
  BY VisionAssumption DEF Init, LoadInv, TypeOK, LockHeld, InSequence, Progress, Critical, Stages, Threads

LEMMA AlwaysLoadInv == Spec => []LoadInv
  BY LoadInit, LoadStep, PTL DEF Spec

\* The attributes, the lock, the two threads and the scans stay what the code
\* can make of them.
THEOREM ScannerTypeCorrect == Spec => []TypeOK
<1>1. LoadInv => TypeOK
  BY DEF LoadInv
<1>2. QED
  BY <1>1, AlwaysLoadInv, PTL

\* However many scans meet the warm-up, and however often loading fails, the
\* libraries build at most one model.
THEOREM ModelLoadedOnce == Spec => []LoadedOnce
<1>1. LoadInv => LoadedOnce
  BY DEF LoadInv, Progress, LoadedOnce
<1>2. QED
  BY <1>1, AlwaysLoadInv, PTL

\* While the lock is free a model is there with everything that belongs to it.
THEOREM ModelPublishedWhole == Spec => []PublishedWhole
<1>1. LoadInv => PublishedWhole
  <2> SUFFICES ASSUME LoadInv, "model" \in attributes, lock = Nobody
               PROVE  attributes = Attributes
    BY DEF PublishedWhole
  <2>1. \A t \in Threads : stage[t] # "publishing"
    BY VisionAssumption DEF LoadInv, LockHeld, Critical, Threads
  <2>2. "text_features" \in attributes
    BY <2>1 DEF LoadInv, Progress
  <2>3. QED
    BY <2>2, PublishedAttributes DEF LoadInv, InSequence, TypeOK
<1>2. QED
  BY <1>1, AlwaysLoadInv, PTL

-----------------------------------------------------------------------------
(* Quotients rounded down and up.                                          *)

LEMMA Quotients ==
    ASSUME NEW a \in Nat, NEW b \in Nat \ {0}
    PROVE  /\ a \div b \in Nat
           /\ b * (a \div b) <= a
           /\ a < b * (a \div b) + b
  OBVIOUS

LEMMA TimesGrows ==
    ASSUME NEW k \in Nat, NEW a \in Int, NEW b \in Int, a <= b
    PROVE  k * a <= k * b
  OBVIOUS

LEMMA Roundings ==
    ASSUME NEW a \in Nat, NEW b \in Nat \ {0}
    PROVE  /\ RoundedUp(a, b) \in Nat
           /\ a <= b * RoundedUp(a, b)
           /\ b * RoundedUp(a, b) < a + b
           /\ a > 0 => RoundedUp(a, b) > 0
           /\ RoundedUp(0, b) = 0
<1>1. a + b - 1 \in Nat
  OBVIOUS
<1>2. LET q == (a + b - 1) \div b IN q \in Nat /\ b * q <= a + b - 1 /\ a + b - 1 < b * q + b
  BY <1>1, Quotients
<1> DEFINE q == (a + b - 1) \div b
<1>3. q \in Nat /\ b * q <= a + b - 1 /\ a + b - 1 < b * q + b
  BY <1>2
<1>4. RoundedUp(a, b) = q
  BY DEF RoundedUp
<1> HIDE DEF q
<1>5. a > 0 => q > 0
  BY <1>3
<1>6. RoundedUp(0, b) = 0
  BY DEF RoundedUp
<1>7. QED
  BY <1>3, <1>4, <1>5, <1>6

LEMMA Cancel ==
    ASSUME NEW k \in Nat \ {0}, NEW a \in Int, NEW b \in Int, k * a < k * b
    PROVE  a < b
<1>1. b <= a => k * b <= k * a
  BY TimesGrows
<1>2. k * a \in Int /\ k * b \in Int
  OBVIOUS
<1>3. QED
  BY <1>1, <1>2

LEMMA SpreadOut ==
    ASSUME NEW n \in Nat \ {0}, NEW e \in Nat, NEW k \in Nat
    PROVE  /\ (k * e) \div n \in Nat
           /\ (0 * e) \div n = 0
           /\ (n * e) \div n = e
           /\ k <= n => (k * e) \div n <= e
           /\ e >= n => (k * e) \div n < ((k + 1) * e) \div n
           /\ ((k + 1) * e) \div n <= (k * e) \div n + RoundedUp(e, n)
<1> DEFINE x == k * e
           y == (k + 1) * e
           q == x \div n
           r == y \div n
           d == RoundedUp(e, n)
<1>1. x \in Nat /\ y \in Nat /\ y = x + e
  OBVIOUS
<1>2. q \in Nat /\ n * q <= x /\ x < n * q + n
  BY <1>1, Quotients
<1>3. r \in Nat /\ n * r <= y /\ y < n * r + n
  BY <1>1, Quotients
<1>4. d \in Nat /\ e <= n * d
  BY Roundings
<1>5. (0 * e) \div n = 0
  OBVIOUS
<1>6. (n * e) \div n = e
  <2> DEFINE w == (n * e) \div n
  <2>1. n * e \in Nat
    OBVIOUS
  <2>2. w \in Nat /\ n * w <= n * e /\ n * e < n * w + n
    BY <2>1, Quotients
  <2>3. n * w + n = n * (w + 1) /\ n * w < n * e + n /\ n * e + n = n * (e + 1)
    BY <2>2
  <2> HIDE DEF w
  <2>4. e < w + 1 /\ w < e + 1
    BY <2>2, <2>3, Cancel
  <2>5. QED
    BY <2>2, <2>4 DEF w
<1>7. ASSUME k <= n PROVE q <= e
  <2>1. x <= n * e
    BY <1>7, TimesGrows
  <2>2. n * q < n * e + n /\ n * e + n = n * (e + 1)
    BY <1>2, <2>1
  <2> HIDE DEF q, x
  <2>3. q < e + 1
    BY <1>2, <2>2, Cancel
  <2>4. QED
    BY <2>3, <1>2
<1> HIDE DEF x, y, q, r, d
<1>8. ASSUME e >= n PROVE q < r
  <2>1. n * q < n * r
    BY <1>1, <1>2, <1>3, <1>8
  <2>2. QED
    BY <1>2, <1>3, <2>1, Cancel
<1>9. r <= q + d
  <2>1. n * r < n * q + n + n * d
    BY <1>1, <1>2, <1>3, <1>4
  <2>2. n * q + n + n * d = n * (q + 1 + d)
    BY <1>2, <1>4
  <2>3. r < q + 1 + d
    BY <1>2, <1>3, <1>4, <2>1, <2>2, Cancel
  <2>4. QED
    BY <2>3, <1>2, <1>3, <1>4
<1>10. QED
  BY <1>2, <1>5, <1>6, <1>7, <1>8, <1>9 DEF x, y, q, r, d

-----------------------------------------------------------------------------
(* Which pictures are looked at.                                           *)

LEMMA SmallestOf ==
    ASSUME NEW T, T \subseteq Nat, T # {}
    PROVE  \E i \in T : \A j \in T : i <= j
<1>1. PICK i \in T : \A j \in T : ~ (<<j, i>> \in OpToRel(<, Nat))
  BY NatLessThanWellFounded, WFMin
<1>2. \A j \in T : ~ (j < i)
  BY <1>1 DEF OpToRel
<1>3. QED
  BY <1>2

Kinds == DOMAIN Pictures \cup {Unreadable}

LEMMA ReachedWithin ==
    ASSUME NEW video, video.pictures \in Seq(Kinds)
    PROVE  /\ Reached(video) \in 0..Len(video.pictures)
           /\ video.counted => Reached(video) = Len(video.pictures)
           /\ (\A i \in DOMAIN video.pictures : video.pictures[i] # Unreadable)
                 => Reached(video) = Len(video.pictures)
<1> DEFINE unread == {i \in 1..Len(video.pictures) : video.pictures[i] = Unreadable}
           bad == IF unread # {} THEN Min(unread) ELSE 0
<1>1. Len(video.pictures) \in Nat /\ DOMAIN video.pictures = 1..Len(video.pictures)
  OBVIOUS
<1>2. bad \in 0..Len(video.pictures) /\ (unread = {} => bad = 0) /\ (unread # {} => bad \in unread)
  <2>1. CASE unread = {}
    BY <2>1, <1>1
  <2>2. CASE unread # {}
    <3>1. unread \subseteq Nat
      BY <1>1
    <3>2. \E i \in unread : \A j \in unread : i <= j
      BY <2>2, <3>1, SmallestOf
    <3>3. Min(unread) \in unread
      BY <3>2 DEF Min
    <3>4. QED
      BY <3>3, <2>2
  <2>3. QED
    BY <2>1, <2>2
<1>3. SelectInSeq(video.pictures, LAMBDA p : p = Unreadable) = bad
  BY DEF SelectInSeq
<1>4. Reached(video) = IF video.counted \/ bad = 0 THEN Len(video.pictures) ELSE bad - 1
  BY <1>3 DEF Reached
<1>5. (\A i \in DOMAIN video.pictures : video.pictures[i] # Unreadable) => unread = {}
  BY <1>1
<1> HIDE DEF unread, bad
<1>6. QED
  BY <1>1, <1>2, <1>4, <1>5

\* Of how many pictures the first, the next and the last one looked at are.
Gap(candidates) == IF candidates <= max_frames THEN 1 ELSE RoundedUp(candidates - 1, max_frames - 1)

LEMMA ChosenSpread ==
    ASSUME NEW c \in Nat
    PROVE  LET chosen == Chosen(c)
               n == Least(c, max_frames)
           IN  /\ n \in Nat /\ n <= max_frames
               /\ DOMAIN chosen = 1..n
               /\ \A i \in 1..n : chosen[i] \in 0..(c - 1)
               /\ n > 0 => chosen[1] = 0
               /\ max_frames > 1 /\ n > 0 => chosen[n] = c - 1
               /\ max_frames > 1 => \A i \in 1..(n - 1) :
                     /\ chosen[i] < chosen[i + 1]
                     /\ chosen[i + 1] <= chosen[i] + Gap(c)
<1> DEFINE chosen == Chosen(c)
           m == max_frames
<1>0. m \in Nat \ {0}
  BY VisionLabelsAssumption
<1>1. CASE c <= m
  <2>1. chosen = [i \in 1..c |-> i - 1] /\ Least(c, m) = c /\ Gap(c) = 1
    BY <1>1 DEF Chosen, Least, Gap
  <2> HIDE DEF chosen, m
  <2>2. QED
    BY <1>0, <1>1, <2>1 DEF m, chosen
<1>2. CASE ~ (c <= m) /\ m = 1
  <2>1. chosen = [i \in 1..1 |-> 0] /\ Least(c, m) = 1
    BY <1>0, <1>2 DEF Chosen, Least
  <2> HIDE DEF chosen
  <2>2. QED
    BY <1>0, <1>2, <2>1 DEF chosen
<1>3. CASE ~ (c <= m) /\ m # 1
  <2> DEFINE e == c - 1
             k == m - 1
             d == RoundedUp(e, k)
  <2>1. /\ e \in Nat /\ k \in Nat \ {0} /\ e >= k
        /\ Least(c, m) = m /\ Gap(c) = d
    BY <1>0, <1>3 DEF Least, Gap
  <2>2. /\ DOMAIN chosen = 1..m
        /\ \A i \in 1..m : chosen[i] = ((i - 1) * e) \div k
    BY <1>3 DEF Chosen
  <2> HIDE DEF chosen, e, k, d
  <2>3. \A j \in Nat : /\ (j * e) \div k \in Nat
                       /\ (0 * e) \div k = 0
                       /\ (k * e) \div k = e
                       /\ j <= k => (j * e) \div k <= e
                       /\ (j * e) \div k < ((j + 1) * e) \div k
                       /\ ((j + 1) * e) \div k <= (j * e) \div k + d
    BY <2>1, SpreadOut DEF d
  <2>4. chosen[1] = 0
    <3>1. chosen[1] = ((1 - 1) * e) \div k
      BY <2>2, <1>0
    <3>2. QED
      BY <3>1, <2>3
  <2>5. chosen[m] = e
    <3>1. chosen[m] = ((m - 1) * e) \div k /\ m - 1 = k
      BY <2>2, <1>0 DEF k
    <3>2. QED
      BY <3>1, <2>3, <2>1
  <2>6. ASSUME NEW i \in 1..m PROVE chosen[i] \in 0..e
    <3>1. i - 1 \in Nat /\ i - 1 <= k
      BY <1>0 DEF k
    <3>2. chosen[i] = ((i - 1) * e) \div k
      BY <2>2
    <3>3. ((i - 1) * e) \div k \in Nat /\ ((i - 1) * e) \div k <= e
      BY <2>3, <3>1
    <3>4. QED
      BY <2>1, <3>2, <3>3
  <2>7. ASSUME NEW i \in 1..(m - 1) PROVE chosen[i] < chosen[i + 1] /\ chosen[i + 1] <= chosen[i] + d
    <3>1. i - 1 \in Nat /\ i \in 1..m /\ i + 1 \in 1..m /\ (i + 1) - 1 = (i - 1) + 1
      BY <1>0
    <3>2. chosen[i] = ((i - 1) * e) \div k /\ chosen[i + 1] = (((i - 1) + 1) * e) \div k
      BY <2>2, <3>1
    <3>3. QED
      BY <2>3, <3>1, <3>2
  <2>8. e = c - 1
    BY DEF e
  <2>9. QED
    BY <1>0, <2>1, <2>2, <2>4, <2>5, <2>6, <2>7, <2>8 DEF chosen
<1>4. QED
  BY <1>1, <1>2, <1>3

\* The samples are pictures of the video, from its first one on, and what
\* ScenesSampled calls the distance is how far they lie apart.
LEMMA SamplesSpread ==
    ASSUME NEW video, video.pictures \in Seq(Kinds)
    PROVE  LET at == SampledAt(video)
               c == RoundedUp(Reached(video), step)
               n == Least(c, max_frames)
               gap == IF video.counted THEN Gap(c) ELSE 1
           IN  /\ n \in Nat /\ n <= max_frames
               /\ DOMAIN at = 1..n
               /\ \A i \in 1..n : at[i] \in 1..Len(video.pictures)
               /\ n > 0 => at[1] = 1
               /\ max_frames > 1 /\ n > 0 => at[n] = 1 + step * ((IF video.counted THEN c ELSE n) - 1)
               /\ max_frames > 1 => \A i \in 1..(n - 1) :
                     at[i] < at[i + 1] /\ at[i + 1] <= at[i] + step * gap
<1> DEFINE at == SampledAt(video)
           reached == Reached(video)
           c == RoundedUp(reached, step)
           n == Least(c, max_frames)
           gap == IF video.counted THEN Gap(c) ELSE 1
           positions == IF video.counted THEN Chosen(c) ELSE First(c)
           last == (IF video.counted THEN c ELSE n) - 1
<1>0. step \in Nat \ {0} /\ max_frames \in Nat \ {0} /\ Len(video.pictures) \in Nat
  BY VisionLabelsAssumption
<1>1. reached \in 0..Len(video.pictures)
  BY ReachedWithin
<1>2. c \in Nat /\ step * c < reached + step
  <2> HIDE DEF reached
  <2>1. reached \in Nat
    BY <1>0, <1>1
  <2>2. QED
    BY <1>0, <2>1, Roundings
<1>3. /\ n \in Nat /\ n <= max_frames
      /\ DOMAIN positions = 1..n
      /\ \A i \in 1..n : positions[i] \in 0..(c - 1)
      /\ n > 0 => positions[1] = 0
      /\ max_frames > 1 /\ n > 0 => positions[n] = last
      /\ max_frames > 1 => \A i \in 1..(n - 1) :
            positions[i] < positions[i + 1] /\ positions[i + 1] <= positions[i] + gap
  <2>1. CASE video.counted
    <3>1. positions = Chosen(c) /\ gap = Gap(c) /\ last = c - 1
      BY <2>1
    <3> HIDE DEF c, positions, gap, last
    <3>2. QED
      BY <1>2, <3>1, ChosenSpread
  <2>2. CASE ~ video.counted
    <3>1. positions = [i \in 1..n |-> i - 1] /\ gap = 1 /\ last = n - 1
      BY <2>2 DEF First
    <3>2. n \in Nat /\ n <= max_frames /\ n <= c
      <4> HIDE DEF c
      <4> QED
        BY <1>0, <1>2 DEF Least
    <3> HIDE DEF c, positions, gap, n, last
    <3>3. QED
      BY <1>2, <3>1, <3>2
  <2>3. QED
    BY <2>1, <2>2
<1>4. at = [i \in DOMAIN positions |-> 1 + step * positions[i]]
  BY DEF SampledAt
<1>5. ASSUME max_frames > 1 PROVE gap \in Nat
  <2> HIDE DEF c
  <2>1. CASE video.counted /\ ~ (c <= max_frames)
    <3>1. c - 1 \in Nat /\ max_frames - 1 \in Nat \ {0}
      BY <1>0, <1>2, <1>5, <2>1
    <3>2. gap = RoundedUp(c - 1, max_frames - 1)
      BY <2>1 DEF Gap
    <3>3. QED
      BY <3>1, <3>2, Roundings
  <2>2. CASE ~ (video.counted /\ ~ (c <= max_frames))
    BY <2>2 DEF Gap
  <2>3. QED
    BY <2>1, <2>2
<1> HIDE DEF at, reached, c, n, gap, positions, last
<1>6. \A i \in 1..n : at[i] = 1 + step * positions[i] /\ positions[i] \in Nat /\ positions[i] <= c - 1
  BY <1>2, <1>3, <1>4
<1>7. ASSUME NEW i \in 1..n PROVE at[i] \in 1..Len(video.pictures)
  <2> DEFINE p == positions[i]
  <2>1. p \in Nat /\ p <= c - 1 /\ at[i] = 1 + step * p
    BY <1>6
  <2> HIDE DEF p
  <2>2. step * p <= step * (c - 1)
    BY <2>1, <1>0, <1>2, TimesGrows
  <2>3. step * (c - 1) = step * c - step /\ step * p \in Nat
    BY <2>1, <1>0, <1>2
  <2>4. QED
    BY <2>1, <2>2, <2>3, <1>0, <1>1, <1>2
<1>8. n > 0 => at[1] = 1
  <2>1. step * 0 = 0
    BY <1>0
  <2>2. n > 0 => 1 \in 1..n
    BY <1>3
  <2>3. QED
    BY <2>1, <2>2, <1>3, <1>6
<1>9. max_frames > 1 /\ n > 0 => at[n] = 1 + step * last
  BY <1>3, <1>6
<1>10. ASSUME max_frames > 1, NEW i \in 1..(n - 1)
       PROVE  at[i] < at[i + 1] /\ at[i + 1] <= at[i] + step * gap
  <2> DEFINE p == positions[i]
             q == positions[i + 1]
  <2>0. i \in 1..n /\ i + 1 \in 1..n
    BY <1>3
  <2>1. /\ p \in Nat /\ q \in Nat /\ p < q /\ q <= p + gap
        /\ at[i] = 1 + step * p /\ at[i + 1] = 1 + step * q
    BY <2>0, <1>3, <1>6, <1>10
  <2> HIDE DEF p, q
  <2>2. step * (p + 1) <= step * q
    BY <2>1, <1>0, TimesGrows
  <2>3. step * q <= step * (p + gap)
    <3>1. p + gap \in Int /\ step \in Nat
      BY <2>1, <1>0, <1>5, <1>10
    <3>2. QED
      BY <2>1, <3>1, TimesGrows
  <2>4. /\ step * (p + 1) = step * p + step
        /\ step * (p + gap) = step * p + step * gap
        /\ step * p \in Nat /\ step * q \in Nat /\ step * gap \in Nat
    BY <2>1, <1>0, <1>5, <1>10
  <2>5. QED
    BY <2>1, <2>2, <2>3, <2>4, <1>0
<1>11. DOMAIN at = 1..n
  BY <1>3, <1>4
<1>12. QED
  BY <1>3, <1>7, <1>8, <1>9, <1>10, <1>11, Zenon DEF at, reached, c, n, gap, last

LEMMA RisingSteps ==
    ASSUME NEW n \in Nat, NEW at, \A i \in 1..n : at[i] \in Int,
           \A i \in 1..(n - 1) : at[i] < at[i + 1]
    PROVE  \A i, j \in 1..n : i < j => at[i] < at[j]
<1> SUFFICES ASSUME NEW i \in 1..n
             PROVE  \A j \in 1..n : i < j => at[i] < at[j]
  OBVIOUS
<1> DEFINE wrong == {j \in 1..n : i < j /\ ~ (at[i] < at[j])}
<1>0. wrong \subseteq Nat
  OBVIOUS
<1>1. CASE wrong = {}
  BY <1>1
<1>2. CASE wrong # {}
  <2>1. PICK j \in wrong : \A k \in wrong : j <= k
    BY <1>0, <1>2, SmallestOf
  <2>2. j \in 1..n /\ i < j /\ ~ (at[i] < at[j])
    BY <2>1
  <2>3. j - 1 \in 1..(n - 1) /\ j - 1 \notin wrong
    BY <2>1, <2>2
  <2>4. at[j - 1] < at[j]
    BY <2>2, <2>3
  <2>5. i = j - 1 \/ at[i] < at[j - 1]
    BY <2>2, <2>3
  <2>6. j - 1 \in 1..n
    BY <2>3
  <2>7. QED
    BY <2>2, <2>4, <2>5, <2>6
<1>3. QED
  BY <1>1, <1>2

\* A scene longer than the gaps holds a sample.
LEMMA ScenesHit ==
    ASSUME NEW n \in Nat, n > 0, NEW at, \A i \in 1..n : at[i] \in Int, at[1] = 1,
           NEW distance \in Nat, NEW scene \in Nat \ {0}, scene <= at[n] ,
           \A i \in 1..(n - 1) : at[i + 1] <= at[i] + distance, distance > 0
    PROVE  \E i \in 1..n : at[i] \in scene..(scene + distance - 1)
<1> DEFINE later == {i \in 1..n : scene <= at[i]}
<1>1. n \in later /\ later \subseteq Nat
  OBVIOUS
<1>2. PICK i \in later : \A j \in later : i <= j
  BY <1>1, SmallestOf
<1>3. i \in 1..n /\ scene <= at[i]
  BY <1>2
<1>4. CASE i = 1
  BY <1>3, <1>4
<1>5. CASE i # 1
  <2>1. i - 1 \in 1..(n - 1) /\ i - 1 \in 1..n /\ i - 1 \notin later /\ (i - 1) + 1 = i
    BY <1>2, <1>3, <1>5
  <2>2. at[i - 1] < scene
    BY <2>1
  <2>3. at[i] <= at[i - 1] + distance
    BY <2>1
  <2>4. at[i] <= scene + distance - 1
    BY <2>1, <2>2, <2>3, <1>3
  <2>5. QED
    BY <2>4, <1>3
<1>6. QED
  BY <1>4, <1>5

LEMMA ScenesAreSampled ==
    ASSUME NEW video, video.pictures \in Seq(Kinds), max_frames > 1,
           \A i \in DOMAIN video.pictures : video.pictures[i] # Unreadable
    PROVE  LET at         == SampledAt(video)
               candidates == RoundedUp(Len(video.pictures), step)
               distance   == IF candidates <= max_frames \/ ~ video.counted THEN step
                             ELSE step * RoundedUp(candidates - 1, max_frames - 1)
               seenUpTo   == IF video.counted THEN Len(video.pictures)
                             ELSE Least(Len(video.pictures), step * max_frames)
           IN  /\ \A i, j \in DOMAIN at : i < j => at[i] < at[j]
               /\ \A first \in 1..(seenUpTo - distance + 1) :
                     \E i \in DOMAIN at : at[i] \in first..(first + distance - 1)
<1> DEFINE at         == SampledAt(video)
           c          == RoundedUp(Len(video.pictures), step)
           distance   == IF c <= max_frames \/ ~ video.counted THEN step
                         ELSE step * RoundedUp(c - 1, max_frames - 1)
           seenUpTo   == IF video.counted THEN Len(video.pictures)
                         ELSE Least(Len(video.pictures), step * max_frames)
           n          == Least(c, max_frames)
           gap        == IF video.counted THEN Gap(c) ELSE 1
           size       == Len(video.pictures)
<1>0. step \in Nat \ {0} /\ max_frames \in Nat \ {0} /\ size \in Nat
  BY VisionLabelsAssumption
<1>1. Reached(video) = Len(video.pictures)
  BY ReachedWithin
<1>2. /\ n \in Nat /\ n <= max_frames
      /\ DOMAIN at = 1..n
      /\ \A i \in 1..n : at[i] \in 1..size
      /\ n > 0 => at[1] = 1
      /\ n > 0 => at[n] = 1 + step * ((IF video.counted THEN c ELSE n) - 1)
      /\ \A i \in 1..(n - 1) : at[i] < at[i + 1] /\ at[i + 1] <= at[i] + step * gap
  BY <1>1, SamplesSpread
<1>3. c \in Nat /\ size <= step * c /\ (size > 0 => c > 0)
  BY <1>0, Roundings
<1>4. gap \in Nat \ {0} /\ step * gap = distance
  <2> HIDE DEF c
  <2>1. CASE c <= max_frames \/ ~ video.counted
    BY <2>1, <1>0 DEF Gap
  <2>2. CASE ~ (c <= max_frames \/ ~ video.counted)
    <3>1. c - 1 \in Nat /\ c - 1 > 0 /\ max_frames - 1 \in Nat \ {0}
      BY <1>0, <1>3, <2>2
    <3>2. gap = RoundedUp(c - 1, max_frames - 1) /\ distance = step * gap
      BY <2>2 DEF Gap
    <3>3. RoundedUp(c - 1, max_frames - 1) \in Nat /\ RoundedUp(c - 1, max_frames - 1) > 0
      BY <3>1, Roundings
    <3> HIDE DEF gap, distance
    <3>4. QED
      BY <3>2, <3>3
  <2>3. QED
    BY <2>1, <2>2
<1>5. distance \in Nat /\ distance >= step
  <2> HIDE DEF gap, distance
  <2>1. step * 1 <= step * gap
    BY <1>0, <1>4, TimesGrows
  <2>2. step * gap \in Nat
    BY <1>0, <1>4
  <2>3. QED
    BY <2>1, <2>2, <1>0, <1>4
<1>6. seenUpTo \in Nat /\ seenUpTo <= size /\ (~ video.counted => seenUpTo <= step * max_frames)
  <2>1. step * max_frames \in Nat
    BY <1>0
  <2>2. QED
    BY <2>1, <1>0 DEF Least
<1>7. n > 0 <=> c > 0
  <2> HIDE DEF c
  <2> QED
    BY <1>0, <1>3 DEF Least
<1>8. n > 0 => seenUpTo - distance + 1 <= at[n]
  <2> DEFINE last == IF video.counted THEN c ELSE n
  <2>1. n > 0 => at[n] = 1 + step * last - step /\ step * last \in Nat
    BY <1>0, <1>2, <1>3
  <2>2. seenUpTo <= step * last
    <3>1. CASE video.counted
      BY <3>1, <1>0, <1>3, <1>6
    <3>2. CASE ~ video.counted
      <4>1. last = c \/ last = max_frames
        BY <3>2 DEF Least
      <4>2. step * c \in Nat /\ step * max_frames \in Nat
        BY <1>0, <1>3
      <4> HIDE DEF last, c, seenUpTo
      <4>3. QED
        BY <3>2, <4>1, <4>2, <1>0, <1>3, <1>6
    <3>3. QED
      BY <3>1, <3>2
  <2> HIDE DEF last, n, at, distance, seenUpTo
  <2>3. QED
    BY <2>1, <2>2, <1>0, <1>2, <1>5, <1>6
<1> HIDE DEF at, c, distance, seenUpTo, n, gap
<1>9. \A i \in 1..n : at[i] \in Int
  BY <1>0, <1>2
<1>10. \A i, j \in DOMAIN at : i < j => at[i] < at[j]
  BY <1>2, <1>9, RisingSteps
<1>11. ASSUME NEW first \in 1..(seenUpTo - distance + 1)
       PROVE  \E i \in DOMAIN at : at[i] \in first..(first + distance - 1)
  <2>1. first \in Nat \ {0} /\ size > 0
    BY <1>0, <1>5, <1>6
  <2>2. n > 0
    BY <2>1, <1>3, <1>7
  <2>3. first <= at[n]
    BY <2>1, <2>2, <1>2, <1>5, <1>6, <1>8, <1>9
  <2>4. \A i \in 1..(n - 1) : at[i + 1] <= at[i] + distance
    BY <1>2, <1>4
  <2>5. \E i \in 1..n : at[i] \in first..(first + distance - 1)
    <3>1. at[1] = 1 /\ distance > 0
      BY <2>2, <1>0, <1>2, <1>5
    <3>2. QED
      BY <3>1, <2>1, <2>2, <2>3, <2>4, <1>2, <1>5, <1>9, ScenesHit
  <2>6. QED
    BY <2>5, <1>2
<1>12. QED
  BY <1>10, <1>11, Zenon DEF at, c, distance, seenUpTo

-----------------------------------------------------------------------------
(* Folds of the library: what they compute exists, step by step.           *)

\* A fold that takes the largest index last.
Folding(g, h, base, X, n) ==
    \A s \in SUBSET (1..n) :
        g[s] = IF s = {} THEN base ELSE h[<<g[s \ {Max(s)}], X[Max(s)]>>]

LEMMA LargestOf ==
    ASSUME NEW n \in Nat, NEW s, s \subseteq 0..n, s # {}
    PROVE  /\ Max(s) \in s
           /\ \A i \in s : i <= Max(s)
<1> DEFINE mirror == {j \in 0..n : n - j \in s}
<1>0. \A i \in s : i \in 0..n
  OBVIOUS
<1>1. mirror \subseteq Nat /\ \A i \in s : n - i \in mirror
  BY <1>0
<1>2. PICK m \in mirror : \A j \in mirror : m <= j
  <2>1. mirror # {}
    BY <1>1
  <2>2. QED
    BY <1>1, <2>1, SmallestOf
<1>3. m \in 0..n /\ n - m \in s
  BY <1>2
<1>4. \A i \in s : n - m >= i
  <2> TAKE i \in s
  <2>1. m <= n - i /\ i \in 0..n
    BY <1>0, <1>1, <1>2
  <2> HIDE DEF mirror
  <2>2. QED
    BY <2>1, <1>3
<1> DEFINE best == CHOOSE x \in s : \A y \in s : x >= y
<1>5. best \in s /\ \A y \in s : best >= y
  BY <1>3, <1>4
<1>6. Max(s) = best
  BY DEF Max
<1> HIDE DEF best
<1>7. best \in 0..n
  BY <1>0, <1>5
<1>8. QED
  BY <1>0, <1>5, <1>6, <1>7

LEMMA LargestIs ==
    ASSUME NEW n \in Nat, NEW s, s \subseteq 1..n, NEW k \in s, \A i \in s : i <= k
    PROVE  Max(s) = k
<1>1. Max(s) \in s /\ k <= Max(s)
  <2>1. s \subseteq 0..n /\ s # {}
    OBVIOUS
  <2>2. QED
    BY <2>1, LargestOf
<1>2. Max(s) \in 1..n /\ k \in 1..n /\ Max(s) <= k
  BY <1>1
<1>3. QED
  BY <1>1, <1>2

LEMMA FoldExists ==
    ASSUME NEW V, NEW S, NEW base \in V, NEW h \in [V \X S -> V],
           NEW n \in Nat, NEW X \in [1..n -> S]
    PROVE  \E g \in [SUBSET (1..n) -> V] : Folding(g, h, base, X, n)
<1> DEFINE exists(k) == \E g \in [SUBSET (1..k) -> V] : Folding(g, h, base, X, k)
           fails == {k \in 0..n : ~ exists(k)}
<1>1. exists(0)
  <2> DEFINE g == [s \in SUBSET (1..0) |-> base]
  <2>1. g \in [SUBSET (1..0) -> V] /\ Folding(g, h, base, X, 0)
    BY DEF Folding
  <2>2. QED
    BY <2>1
<1>2. ASSUME NEW k \in 1..n, exists(k - 1)
      PROVE  exists(k)
  <2>1. PICK g \in [SUBSET (1..(k - 1)) -> V] : Folding(g, h, base, X, k - 1)
    BY <1>2
  <2> DEFINE f == [s \in SUBSET (1..k) |->
                     IF k \in s THEN h[<<g[s \ {k}], X[k]>>] ELSE g[s]]
  <2>2. ASSUME NEW s \in SUBSET (1..k), k \in s
        PROVE  /\ s \ {k} \in SUBSET (1..(k - 1))
               /\ s \ {k} \in SUBSET (1..k)
               /\ Max(s) = k
    <3>0. \A i \in s : i \in 1..k
      OBVIOUS
    <3>1. \A i \in s : i <= k
      BY <3>0
    <3>2. k \in Nat
      OBVIOUS
    <3>3. Max(s) = k
      BY <3>1, <3>2, <2>2, LargestIs
    <3>4. \A i \in s \ {k} : i \in 1..(k - 1)
      BY <3>0
    <3>5. QED
      BY <3>3, <3>4
  <2>3. ASSUME NEW s \in SUBSET (1..k), k \notin s
        PROVE  s \in SUBSET (1..(k - 1))
    BY <2>3
  <2>4. X[k] \in S
    OBVIOUS
  <2>5. f \in [SUBSET (1..k) -> V]
    <3>1. ASSUME NEW s \in SUBSET (1..k)
          PROVE  (IF k \in s THEN h[<<g[s \ {k}], X[k]>>] ELSE g[s]) \in V
      <4>1. CASE k \in s
        <5>1. g[s \ {k}] \in V
          BY <4>1, <2>2
        <5>2. <<g[s \ {k}], X[k]>> \in V \X S
          BY <5>1, <2>4
        <5>3. QED
          BY <4>1, <5>2
      <4>2. CASE k \notin s
        BY <4>2, <2>3
      <4>3. QED
        BY <4>1, <4>2
    <3>2. QED
      BY <3>1
  <2>6. ASSUME NEW s \in SUBSET (1..k)
        PROVE  f[s] = IF s = {} THEN base ELSE h[<<f[s \ {Max(s)}], X[Max(s)]>>]
    <3>1. CASE k \in s
      <4>1. f[s] = h[<<g[s \ {k}], X[k]>>] /\ f[s \ {k}] = g[s \ {k}]
        BY <3>1, <2>2
      <4> HIDE DEF f
      <4>2. QED
        BY <3>1, <4>1, <2>2
    <3>2. CASE k \notin s
      <4>1. s \in SUBSET (1..(k - 1))
        BY <3>2, <2>3
      <4>2. /\ f[s] = g[s]
            /\ \A i : f[s \ {i}] = g[s \ {i}]
        BY <3>2, <4>1
      <4>3. g[s] = IF s = {} THEN base ELSE h[<<g[s \ {Max(s)}], X[Max(s)]>>]
        BY <4>1, <2>1 DEF Folding
      <4> HIDE DEF f
      <4>4. QED
        BY <4>2, <4>3
    <3>3. QED
      BY <3>1, <3>2
  <2> HIDE DEF f
  <2>7. QED
    BY <2>5, <2>6 DEF Folding
<1> HIDE DEF exists
<1>3. CASE fails = {}
  <2>1. n \in 0..n
    OBVIOUS
  <2>2. exists(n)
    BY <1>3, <2>1
  <2>3. QED
    BY <2>2 DEF exists
<1>4. CASE fails # {}
  <2>0. fails \subseteq Nat
    <3>1. 0..n \subseteq Nat
      OBVIOUS
    <3>2. QED
      BY <3>1
  <2>1. PICK k \in fails : \A j \in fails : k <= j
    BY <2>0, <1>4, SmallestOf
  <2>2. k \in 0..n /\ ~ exists(k)
    BY <2>1
  <2>3. k # 0
    BY <2>2, <1>1
  <2>4. k \in 1..n /\ k - 1 \in 0..n /\ k - 1 \notin fails
    <3>1. k \in 1..n /\ k - 1 \in 0..n /\ ~ (k <= k - 1)
      BY <2>2, <2>3
    <3>2. QED
      BY <2>1, <3>1
  <2>5. QED
    BY <2>2, <2>4, <1>2
<1>5. QED
  BY <1>3, <1>4

LEMMA UpTo ==
    ASSUME NEW n \in Nat, NEW k \in 1..n
    PROVE  /\ (1..k) \in SUBSET (1..n) /\ (1..k) # {}
           /\ (1..k) \ {Max(1..k)} = 1..(k - 1)
           /\ Max(1..k) = k
<1> DEFINE upTo == 1..k
<1>1. k \in Nat /\ k \in upTo /\ \A i \in upTo : i \in 1..n /\ i <= k
  OBVIOUS
<1>2. upTo \ {k} = 1..(k - 1)
  OBVIOUS
<1>3. upTo \in SUBSET (1..n) /\ upTo # {} /\ upTo \subseteq 1..k
  BY <1>1
<1> HIDE DEF upTo
<1>4. Max(upTo) = k
  BY <1>1, <1>3, LargestIs
<1>5. QED
  BY <1>2, <1>3, <1>4 DEF upTo

-----------------------------------------------------------------------------
(* Lists of scores, and one list after another.                            *)

\* A score: a label, how likely, for what it counts, and its place in a list.
Entry ==
    {s \in [label : Labels, confidence : 0..100,
            categories : {{}} \cup {LABEL_CATEGORY_MAP[l] : l \in Labels}, place : Nat \ {0}] :
        s.categories \in {{}, LABEL_CATEGORY_MAP[s.label]}}

IsList(list) ==
    /\ list \subseteq Entry
    /\ IsFiniteSet(list)
    /\ \A s, t \in list : s.place = t.place => s = t

\* One score per label.
Sole(scores) == \A s, t \in scores : s.label = t.label => s = t

\* What a picture, a batch or a video gives.
IsShort(list) ==
    /\ IsList(list)
    /\ Sole(list)
    /\ \A s \in list : s.place \in 1..top_k

Moved(s, i) == [s EXCEPT !.place = (i - 1) * top_k + s.place]

LEMMA Entries ==
    ASSUME NEW s \in Entry
    PROVE  /\ s.label \in Labels /\ s.confidence \in 0..100 /\ s.confidence \in Nat
           /\ s.place \in Nat \ {0}
           /\ s.categories \in {{}, LABEL_CATEGORY_MAP[s.label]}
  BY DEF Entry

LEMMA Replaced ==
    ASSUME NEW s \in Entry, NEW p \in Nat \ {0}
    PROVE  LET t == [s EXCEPT !.place = p]
           IN  /\ t \in Entry /\ t.place = p
               /\ t.label = s.label /\ t.confidence = s.confidence /\ t.categories = s.categories
  BY DEF Entry

LEMMA FiniteImage ==
    ASSUME NEW S, IsFiniteSet(S), NEW f, DOMAIN f = S
    PROVE  IsFiniteSet({f[x] : x \in S})
<1> DEFINE T == {f[x] : x \in S}
           g == [x \in S |-> f[x]]
<1>1. g \in [S -> T] /\ \A y \in T : \E x \in S : g[x] = y
  OBVIOUS
<1> HIDE DEF g, T
<1>2. g \in Surjection(S, T)
  BY <1>1 DEF Surjection
<1>3. IsFiniteSet(T)
  BY <1>2, FS_Surjection
<1>4. QED
  BY <1>3 DEF T

LEMMA Lexical ==
    ASSUME NEW i \in Nat \ {0}, NEW j \in Nat \ {0}, NEW x \in 1..top_k, NEW y \in 1..top_k
    PROVE  /\ (i - 1) * top_k + x \in Nat \ {0}
           /\ (i - 1) * top_k + x <= (j - 1) * top_k + y <=> i < j \/ (i = j /\ x <= y)
<1>0. top_k \in Nat \ {0}
  BY VisionLabelsAssumption
<1>1. /\ (i - 1) * top_k = top_k * (i - 1) /\ (j - 1) * top_k = top_k * (j - 1)
      /\ top_k * (i - 1) \in Nat /\ top_k * (j - 1) \in Nat
      /\ top_k * i = top_k * (i - 1) + top_k /\ top_k * j = top_k * (j - 1) + top_k
  BY <1>0
<1>2. i < j => top_k * i <= top_k * (j - 1)
  <2>1. i < j => i <= j - 1
    OBVIOUS
  <2>2. QED
    BY <2>1, <1>0, TimesGrows
<1>3. j < i => top_k * j <= top_k * (i - 1)
  <2>1. j < i => j <= i - 1
    OBVIOUS
  <2>2. QED
    BY <2>1, <1>0, TimesGrows
<1> DEFINE a == top_k * (i - 1)
           b == top_k * (j - 1)
<1>4. a \in Nat /\ b \in Nat /\ (i < j => a + top_k <= b) /\ (j < i => b + top_k <= a) /\ (i = j => a = b)
  BY <1>1, <1>2, <1>3
<1> HIDE DEF a, b
<1>5. a + x <= b + y <=> i < j \/ (i = j /\ x <= y)
  BY <1>0, <1>4
<1>6. a + x \in Nat \ {0}
  BY <1>0, <1>4
<1>7. QED
  BY <1>1, <1>5, <1>6 DEF a, b

LEMMA MovedScores ==
    ASSUME NEW list, IsShort(list), NEW s \in list, NEW i \in Nat \ {0}
    PROVE  /\ Moved(s, i) \in Entry
           /\ Moved(s, i).place = (i - 1) * top_k + s.place
           /\ Moved(s, i).label = s.label
           /\ Moved(s, i).confidence = s.confidence
           /\ Moved(s, i).categories = s.categories
<1>1. s \in Entry /\ s.place \in 1..top_k
  BY DEF IsShort, IsList
<1>2. (i - 1) * top_k + s.place \in Nat \ {0}
  BY <1>1, Lexical
<1>3. QED
  BY <1>1, <1>2, Replaced DEF Moved

LEMMA ListedScores ==
    ASSUME NEW lists, NEW n \in Nat, DOMAIN lists = 1..n, \A i \in 1..n : IsShort(lists[i])
    PROVE  /\ IsList(Listed(lists))
           /\ \A i \in 1..n : \A s \in lists[i] : Moved(s, i) \in Listed(lists)
           /\ \A u \in Listed(lists) : \E i \in 1..n : \E s \in lists[i] : u = Moved(s, i)
<1> DEFINE part(i) == {Moved(s, i) : s \in lists[i]}
           parts == {part(i) : i \in 1..n}
<1>1. Listed(lists) = UNION parts
  BY DEF Listed, Moved
<1>2. IsFiniteSet(UNION parts)
  <2>1. \A i \in 1..n : IsFiniteSet(part(i))
    <3> TAKE i \in 1..n
    <3>1. IsFiniteSet(lists[i])
      BY DEF IsShort, IsList
    <3> DEFINE f == [s \in lists[i] |-> Moved(s, i)]
    <3>2. IsFiniteSet({f[s] : s \in lists[i]})
      BY <3>1, FiniteImage
    <3>3. {f[s] : s \in lists[i]} = part(i)
      OBVIOUS
    <3>4. QED
      BY <3>2, <3>3
  <2>2. IsFiniteSet(parts)
    <3>1. IsFiniteSet(1..n)
      BY FS_Interval
    <3> DEFINE f == [i \in 1..n |-> part(i)]
    <3> HIDE DEF part
    <3>2. IsFiniteSet({f[i] : i \in 1..n})
      BY <3>1, FiniteImage
    <3>3. {f[i] : i \in 1..n} = parts
      OBVIOUS
    <3>4. QED
      BY <3>2, <3>3
  <2> HIDE DEF part
  <2>3. \A T \in parts : IsFiniteSet(T)
    BY <2>1
  <2> HIDE DEF parts
  <2>4. QED
    BY <2>2, <2>3, FS_UNION
<1>3. \A u \in Listed(lists) : \E i \in 1..n : \E s \in lists[i] : u = Moved(s, i)
  BY <1>1
<1>4. \A i \in 1..n : \A s \in lists[i] : Moved(s, i) \in Listed(lists)
  BY <1>1
<1>5. Listed(lists) \subseteq Entry
  BY <1>3, MovedScores
<1>6. ASSUME NEW u \in Listed(lists), NEW v \in Listed(lists), u.place = v.place
      PROVE  u = v
  <2>1. PICK i \in 1..n : \E s \in lists[i] : u = Moved(s, i)
    BY <1>3
  <2>2. PICK s \in lists[i] : u = Moved(s, i)
    BY <2>1
  <2>3. PICK j \in 1..n : \E t \in lists[j] : v = Moved(t, j)
    BY <1>3
  <2>4. PICK t \in lists[j] : v = Moved(t, j)
    BY <2>3
  <2>5. s.place \in 1..top_k /\ t.place \in 1..top_k
    BY DEF IsShort
  <2>6. (i - 1) * top_k + s.place = (j - 1) * top_k + t.place
    BY <2>2, <2>4, <1>6, MovedScores
  <2> DEFINE a == (i - 1) * top_k + s.place
             b == (j - 1) * top_k + t.place
  <2>7. /\ a \in Nat /\ b \in Nat
        /\ a <= b <=> i < j \/ (i = j /\ s.place <= t.place)
        /\ b <= a <=> j < i \/ (j = i /\ t.place <= s.place)
    BY <2>5, Lexical
  <2>8. a = b
    BY <2>6
  <2> HIDE DEF a, b
  <2>9. i = j /\ s.place = t.place
    BY <2>5, <2>7, <2>8
  <2>10. s = t
    BY <2>9 DEF IsShort, IsList
  <2>11. QED
    BY <2>2, <2>4, <2>9, <2>10
<1>7. QED
  BY <1>1, <1>2, <1>3, <1>4, <1>5, <1>6 DEF IsList

LEMMA PredictedScores ==
    ASSUME NEW p \in DOMAIN Pictures
    PROVE  IsShort(Predicted(p))
<1> DEFINE list == Pictures[p]
           n == Least(top_k, Len(list))
           label(i) == list[i].label
           similarity(i) == LET x == list[i].similarity IN IF x < 0 THEN - x ELSE x
           dominated(i) == \E safe \in 1..n :
                              /\ LABEL_CATEGORY_MAP[label(safe)] = {}
                              /\ Rounded(similarity(i)) + Margin < Rounded(similarity(safe))
           given(i) == IF similarity(i) >= Threshold /\ ~ dominated(i)
                       THEN LABEL_CATEGORY_MAP[label(i)] ELSE {}
           row(i) == [label |-> label(i), confidence |-> Rounded(similarity(i)),
                      categories |-> given(i), place |-> i]
<1>1. Predicted(p) = {row(i) : i \in 1..n}
  BY DEF Predicted
<1>2. /\ list \in Seq(Similarity)
      /\ \A i, j \in DOMAIN list : i < j => list[i].label # list[j].label
  <2>1. Pictures[p] \in Seq(Similarity)
    BY VisionLabelsAssumption
  <2>2. \A i, j \in DOMAIN Pictures[p] :
           i < j => Pictures[p][i].label # Pictures[p][j].label
    BY VisionLabelsAssumption
  <2>3. QED
    BY <2>1, <2>2
<1> HIDE DEF list
<1>3. n \in Nat /\ n <= top_k /\ n <= Len(list) /\ DOMAIN list = 1..Len(list)
      /\ Len(list) \in Nat /\ top_k \in Nat \ {0}
  BY <1>2, VisionLabelsAssumption DEF Least
<1> HIDE DEF n
<1>31. \A i \in 1..n : i \in DOMAIN list /\ i \in 1..top_k /\ i \in Nat \ {0}
  BY <1>3
<1>4. \A i \in 1..n : label(i) \in Labels /\ similarity(i) \in 0..1000
  <2> TAKE i \in 1..n
  <2>1. list[i] \in Similarity
    <3>1. i \in 1..Len(list)
      BY <1>3, <1>31
    <3>2. QED
      BY <1>2, <3>1, ElementOfSeq
  <2> DEFINE x == list[i].similarity
  <2>2. x \in -1000..1000 /\ list[i].label \in Labels
    BY <2>1 DEF Similarity
  <2> HIDE DEF x
  <2>3. (IF x < 0 THEN - x ELSE x) \in 0..1000
    BY <2>2
  <2>4. QED
    BY <2>2, <2>3 DEF x
<1> HIDE DEF similarity
<1>5. \A x \in 0..1000 : Rounded(x) \in 0..100
  BY DEF Rounded
<1>6. \A i \in 1..n : given(i) \in {{}, LABEL_CATEGORY_MAP[label(i)]}
  OBVIOUS
<1>7. \A i : row(i).label = label(i) /\ row(i).categories = given(i) /\ row(i).place = i
  OBVIOUS
<1>8. ASSUME NEW i \in 1..n PROVE row(i) \in Entry
  <2>1. Rounded(similarity(i)) \in 0..100 /\ i \in Nat \ {0}
    <3>1. similarity(i) \in 0..1000
      BY <1>4
    <3>2. QED
      BY <3>1, <1>5, <1>31
  <2> HIDE DEF label, given
  <2>2. row(i) \in [label : Labels, confidence : 0..100,
            categories : {{}} \cup {LABEL_CATEGORY_MAP[l] : l \in Labels}, place : Nat \ {0}]
    BY <2>1, <1>4, <1>6
  <2> HIDE DEF row
  <2>3. QED
    BY <2>2, <1>6, <1>7 DEF Entry
<1>9. \A i, j \in 1..n : label(i) = label(j) => i = j
  <2>1. \A i, j \in 1..n : i < j \/ j < i \/ i = j
    BY <1>3
  <2>2. QED
    BY <2>1, <1>2, <1>31
<1>10. IsFiniteSet(Predicted(p))
  <2>1. IsFiniteSet(1..n)
    BY <1>3, FS_Interval
  <2> HIDE DEF row
  <2> DEFINE f == [i \in 1..n |-> row(i)]
  <2>2. IsFiniteSet({f[i] : i \in 1..n})
    BY <2>1, FiniteImage
  <2>3. {f[i] : i \in 1..n} = Predicted(p)
    BY <1>1
  <2>4. QED
    BY <2>2, <2>3
<1> HIDE DEF row, label, given
<1>11. QED
  BY <1>1, <1>31, <1>7, <1>8, <1>9, <1>10 DEF IsShort, IsList, Sole

-----------------------------------------------------------------------------
(* Merging.                                                                *)

\* One score wins against another of its label.
Wins(s, t) ==
    \/ s.confidence > t.confidence
    \/ s.confidence = t.confidence /\ s.place <= t.place

LEMMA MergedScores ==
    ASSUME NEW list, IsList(list)
    PROVE  /\ Merged(list) = {s \in list : \A t \in list : t.label = s.label => Wins(s, t)}
           /\ IsList(Merged(list))
           /\ Merged(list) \subseteq list
           /\ Sole(Merged(list))
<1>1. Merged(list) = {s \in list : \A t \in list : t.label = s.label => Wins(s, t)}
  BY DEF Merged, Wins
<1>2. Merged(list) \in SUBSET list
  BY <1>1
<1>3. IsFiniteSet(Merged(list))
  BY <1>2, FS_Subset DEF IsList
<1>4. ASSUME NEW s \in Merged(list), NEW t \in Merged(list), s.label = t.label
      PROVE  s = t
  <2>1. s \in list /\ t \in list /\ Wins(s, t) /\ Wins(t, s)
    BY <1>1, <1>4
  <2>2. s \in Entry /\ t \in Entry
    BY <2>1 DEF IsList
  <2>3. s.confidence \in Nat /\ t.confidence \in Nat /\ s.place \in Nat /\ t.place \in Nat
    BY <2>2, Entries
  <2>4. s.place = t.place
    BY <2>1, <2>3 DEF Wins
  <2>5. QED
    BY <2>1, <2>4 DEF IsList
<1>5. QED
  BY <1>1, <1>2, <1>3, <1>4 DEF IsList, Sole

\* Every score of a list has one that wins against it or is it.
LEMMA MergedRepresents ==
    ASSUME NEW list, IsList(list), NEW s \in list
    PROVE  \E t \in Merged(list) : t.label = s.label /\ t.confidence >= s.confidence
<1> DEFINE same == {t \in list : t.label = s.label}
           short == {100 - t.confidence : t \in same}
<1>0. \A t \in same : t \in list /\ t.confidence \in 0..100 /\ t.place \in Nat
  BY Entries DEF IsList
<1>1. short \subseteq Nat /\ 100 - s.confidence \in short
  BY <1>0
<1>2. PICK m \in short : \A k \in short : m <= k
  <2> HIDE DEF short
  <2> QED
    BY <1>1, SmallestOf
<1>3. PICK u \in same : m = 100 - u.confidence
  BY <1>2
<1>4. \A t \in same : t.confidence <= u.confidence
  <2> TAKE t \in same
  <2>1. 100 - u.confidence <= 100 - t.confidence
    BY <1>2, <1>3
  <2> DEFINE x == t.confidence
             y == u.confidence
  <2>2. x \in 0..100 /\ y \in 0..100 /\ 100 - y <= 100 - x
    BY <1>0, <1>3, <2>1
  <2> HIDE DEF x, y
  <2>3. x <= y
    BY <2>2
  <2>4. QED
    BY <2>3 DEF x, y
<1> DEFINE best == {t \in same : t.confidence = u.confidence}
           places == {t.place : t \in best}
<1>5. places \subseteq Nat /\ u.place \in places
  BY <1>0, <1>3
<1>6. PICK p \in places : \A k \in places : p <= k
  <2> HIDE DEF places
  <2> QED
    BY <1>5, SmallestOf
<1>7. PICK w \in best : p = w.place
  BY <1>6
<1>8. \A t \in same : Wins(w, t)
  <2> TAKE t \in same
  <2>1. t.confidence <= u.confidence /\ w.confidence = u.confidence
    BY <1>4, <1>7
  <2>2. t.confidence = u.confidence => w.place <= t.place
    BY <1>6, <1>7
  <2>3. t.confidence \in 0..100 /\ u.confidence \in 0..100
    BY <1>0, <1>3
  <2>4. QED
    BY <2>1, <2>2, <2>3 DEF Wins
<1>9. w \in list /\ w.label = s.label
  BY <1>7
<1>10. w \in Merged(list)
  BY <1>8, <1>9, MergedScores
<1>11. w.confidence >= s.confidence
  BY <1>4, <1>7, <1>0
<1>12. QED
  BY <1>9, <1>10, <1>11

-----------------------------------------------------------------------------
(* Sorting and cutting.                                                    *)

LEMMA InsertedPlaces ==
    ASSUME NEW list, IsList(list), NEW s \in list
    PROVE  /\ Inserted(list, s) \in Nat
           /\ \E u \in list : u.label = s.label /\ u.place = Inserted(list, s)
<1> DEFINE places == {t.place : t \in {t \in list : t.label = s.label}}
<1>1. places \subseteq Nat /\ s.place \in places
  BY Entries DEF IsList
<1>2. Inserted(list, s) = Min(places)
  BY DEF Inserted
<1>3. Min(places) \in places
  <2> HIDE DEF places
  <2>1. PICK m \in places : \A k \in places : m <= k
    BY <1>1, SmallestOf
  <2>2. QED
    BY <2>1 DEF Min
<1>4. PICK u \in list : u.label = s.label /\ u.place = Min(places)
  BY <1>3
<1>5. Min(places) \in Nat
  BY <1>1, <1>3
<1> HIDE DEF places
<1>6. QED
  BY <1>2, <1>4, <1>5

\* Sorting has one outcome: of two labels one comes before the other.
LEMMA Ordered ==
    ASSUME NEW list, IsList(list), NEW s \in Merged(list), NEW t \in Merged(list)
    PROVE  /\ ~ Before(list, s, s)
           /\ s # t => Before(list, s, t) \/ Before(list, t, s)
           /\ \A u \in Merged(list) :
                 Before(list, s, t) /\ Before(list, t, u) => Before(list, s, u)
           /\ Before(list, s, t) => s.confidence >= t.confidence
<1>0. \A u \in Merged(list) : u \in list /\ u.confidence \in Nat /\ Inserted(list, u) \in Nat
  <2> TAKE u \in Merged(list)
  <2>1. u \in list /\ u \in Entry
    BY MergedScores DEF IsList
  <2>2. QED
    BY <2>1, Entries, InsertedPlaces
<1>1. Inserted(list, s) = Inserted(list, t) => s = t
  <2> SUFFICES ASSUME Inserted(list, s) = Inserted(list, t) PROVE s = t
    OBVIOUS
  <2>1. PICK u \in list : u.label = s.label /\ u.place = Inserted(list, s)
    BY <1>0, InsertedPlaces
  <2>2. PICK v \in list : v.label = t.label /\ v.place = Inserted(list, t)
    BY <1>0, InsertedPlaces
  <2>3. u = v
    BY <2>1, <2>2 DEF IsList
  <2>4. s.label = t.label
    BY <2>1, <2>2, <2>3
  <2>5. QED
    BY <2>4, MergedScores DEF Sole
<1> DEFINE c(x) == x.confidence
           i(x) == Inserted(list, x)
<1>2. \A x, y : Before(list, x, y) <=> (c(x) > c(y) \/ (c(x) = c(y) /\ i(x) < i(y)))
  BY DEF Before
<1>3. \A u \in Merged(list) : c(u) \in Nat /\ i(u) \in Nat
  BY <1>0
<1> HIDE DEF c, i
<1>4. ~ Before(list, s, s)
  BY <1>2, <1>3
<1>5. s # t => Before(list, s, t) \/ Before(list, t, s)
  BY <1>1, <1>2, <1>3 DEF i
<1>6. ASSUME NEW u \in Merged(list), Before(list, s, t), Before(list, t, u)
      PROVE  Before(list, s, u)
  BY <1>2, <1>3, <1>6
<1>7. Before(list, s, t) => s.confidence >= t.confidence
  BY <1>2, <1>3 DEF c
<1>8. QED
  BY <1>4, <1>5, <1>6, <1>7

\* So the ranks are 1 to the number of labels.
LEMMA Ranks ==
    ASSUME NEW list, IsList(list)
    PROVE  /\ Cardinality(Merged(list)) \in Nat
           /\ \A s \in Merged(list) : Rank(list, s) \in 1..Cardinality(Merged(list))
           /\ \A s, t \in Merged(list) : Rank(list, s) = Rank(list, t) => s = t
           /\ \A s, t \in Merged(list) : Rank(list, s) < Rank(list, t) => Before(list, s, t)
           /\ \A r \in 1..Cardinality(Merged(list)) : \E s \in Merged(list) : Rank(list, s) = r
<1> DEFINE M == Merged(list)
           N == Cardinality(M)
           first(s) == {t \in M : Before(list, t, s)}
           rank == [s \in M |-> Rank(list, s)]
<1>1. IsFiniteSet(M) /\ N \in Nat
  BY MergedScores, FS_CardinalityType DEF IsList
<1>2. ASSUME NEW s \in M
      PROVE  /\ IsFiniteSet(first(s)) /\ Cardinality(first(s)) \in Nat /\ s \notin first(s)
             /\ Rank(list, s) = 1 + Cardinality(first(s)) /\ Rank(list, s) \in 1..N
             /\ Cardinality(first(s) \cup {s}) = Rank(list, s) /\ IsFiniteSet(first(s) \cup {s})
  <2>1. first(s) \in SUBSET M /\ s \notin first(s)
    BY Ordered
  <2>2. IsFiniteSet(first(s)) /\ Cardinality(first(s)) \in Nat
    BY <2>1, <1>1, FS_Subset, FS_CardinalityType
  <2>3. Rank(list, s) = 1 + Cardinality(first(s))
    BY DEF Rank
  <2> HIDE DEF first
  <2>4. Cardinality(first(s) \cup {s}) = Cardinality(first(s)) + 1 /\ IsFiniteSet(first(s) \cup {s})
    BY <2>1, <2>2, FS_AddElement
  <2>5. first(s) \cup {s} \in SUBSET M
    BY <2>1
  <2>6. Cardinality(first(s) \cup {s}) <= N
    BY <2>5, <1>1, FS_Subset
  <2>7. QED
    BY <2>1, <2>2, <2>3, <2>4, <2>6, <1>1
<1>21. \A s \in M : Rank(list, s) \in Nat
  <2>1. \A s \in M : Rank(list, s) \in 1..N
    BY <1>2
  <2> HIDE DEF N, M, first
  <2>2. QED
    BY <1>1, <2>1
<1>3. ASSUME NEW s \in M, NEW t \in M, Before(list, s, t)
      PROVE  Rank(list, s) < Rank(list, t)
  <2>1. first(s) \cup {s} \in SUBSET first(t)
    BY <1>3, Ordered
  <2> HIDE DEF first
  <2>2. IsFiniteSet(first(t)) /\ Cardinality(first(t)) \in Nat /\ Rank(list, t) = 1 + Cardinality(first(t))
    BY <1>2
  <2>3. Cardinality(first(s) \cup {s}) <= Cardinality(first(t))
    BY <2>1, <2>2, FS_Subset
  <2>4. Cardinality(first(s) \cup {s}) = Rank(list, s)
    BY <1>2
  <2>5. QED
    BY <2>2, <2>3, <2>4, <1>21
<1>4. ASSUME NEW s \in M, NEW t \in M, Rank(list, s) = Rank(list, t) PROVE s = t
  <2>1. Rank(list, s) \in Nat /\ Rank(list, t) \in Nat
    BY <1>21
  <2>2. ~ Before(list, s, t) /\ ~ Before(list, t, s)
    BY <2>1, <1>3, <1>4
  <2>3. QED
    BY <2>2, Ordered
<1>5. ASSUME NEW s \in M, NEW t \in M, Rank(list, s) < Rank(list, t) PROVE Before(list, s, t)
  <2>1. Rank(list, s) \in Nat /\ Rank(list, t) \in Nat
    BY <1>21
  <2>2. ~ Before(list, t, s) /\ s # t
    BY <2>1, <1>3, <1>5
  <2>3. QED
    BY <2>2, Ordered
<1>6. \A r \in 1..N : \E s \in M : Rank(list, s) = r
  <2> DEFINE image == {Rank(list, s) : s \in M}
  <2>1. image \in SUBSET (1..N)
    BY <1>2
  <2>2. rank \in Bijection(M, image)
    <3>1. rank \in [M -> image]
      OBVIOUS
    <3>2. \A s, t \in M : rank[s] = rank[t] => s = t
      BY <1>4
    <3>3. \A r \in image : \E s \in M : rank[s] = r
      OBVIOUS
    <3> HIDE DEF rank, image, M
    <3>4. QED
      BY <3>1, <3>2, <3>3 DEF Bijection, Injection, Surjection, IsInjective
  <2>3. IsFiniteSet(1..N) /\ Cardinality(1..N) = N
    <3>1. 1 \in Int /\ N \in Int
      BY <1>1
    <3> HIDE DEF N
    <3>2. Cardinality(1..N) = IF 1 > N THEN 0 ELSE N - 1 + 1
      BY <3>1, FS_Interval
    <3>3. QED
      BY <3>1, <3>2, FS_Interval, <1>1
  <2> HIDE DEF image, rank
  <2>4. IsFiniteSet(image) /\ Cardinality(image) = N
    BY <2>2, <1>1, FS_Bijection DEF ExistsBijection
  <2>5. image = 1..N
    BY <2>1, <2>3, <2>4, FS_Subset
  <2>6. QED
    BY <2>5 DEF image
<1>7. QED
  BY <1>1, <1>2, <1>4, <1>5, <1>6

\* A set whose labels another set has too is not larger.
LEMMA FewerLabels ==
    ASSUME NEW S, Sole(S), NEW T, IsFiniteSet(T),
           \A s \in S : \E t \in T : t.label = s.label
    PROVE  IsFiniteSet(S) /\ Cardinality(S) <= Cardinality(T)
<1> DEFINE f == [s \in S |-> CHOOSE t \in T : t.label = s.label]
<1>1. \A s \in S : f[s] \in T /\ f[s].label = s.label
  OBVIOUS
<1>2. f \in [S -> T]
  BY <1>1
<1>3. \A s, t \in S : f[s] = f[t] => s = t
  <2> HIDE DEF f
  <2> QED
    BY <1>1 DEF Sole
<1>4. f \in Injection(S, T)
  BY <1>2, <1>3 DEF Injection, IsInjective
<1>5. QED
  BY <1>4, FS_Injection

\* A score without its place.
Bare(s) == [label |-> s.label, confidence |-> s.confidence, categories |-> s.categories]

\* What is kept is merged; what is not is no likelier than any of the top_k
\* that are.
LEMMA CutScores ==
    ASSUME NEW list, IsList(list)
    PROVE  /\ IsShort(Cut(list))
           /\ Cardinality(Cut(list)) \in 0..top_k
           /\ \A s \in Cut(list) : \E t \in Merged(list) : Bare(s) = Bare(t)
           /\ \A t \in Merged(list) :
                 \/ \E s \in Cut(list) : Bare(s) = Bare(t)
                 \/ /\ Cardinality(Cut(list)) = top_k
                    /\ \A s \in Cut(list) : s.confidence >= t.confidence
<1> DEFINE M == Merged(list)
           N == Cardinality(M)
           ranked(t) == [t EXCEPT !.place = Rank(list, t)]
           kept == {t \in M : Rank(list, t) <= top_k}
<1>0. /\ Cut(list) = {ranked(t) : t \in kept}
      /\ top_k \in Nat \ {0}
      /\ M \subseteq Entry /\ Sole(M) /\ N \in Nat
  BY MergedScores, Ranks, VisionLabelsAssumption DEF Cut, IsList
<1>1. ASSUME NEW t \in M
      PROVE  /\ ranked(t) \in Entry /\ ranked(t).place = Rank(list, t) /\ Bare(ranked(t)) = Bare(t)
             /\ ranked(t).label = t.label /\ ranked(t).confidence = t.confidence
             /\ Rank(list, t) \in 1..N
  <2>1. Rank(list, t) \in 1..N /\ t \in Entry
    BY <1>0, Ranks
  <2>2. Rank(list, t) \in Nat \ {0}
    BY <2>1, <1>0
  <2>3. QED
    BY <2>1, <2>2, Replaced DEF Bare
<1> HIDE DEF ranked
<1>2. IsFiniteSet(Cut(list))
  <2>1. kept \in SUBSET M /\ IsFiniteSet(M)
    BY MergedScores DEF IsList
  <2>2. IsFiniteSet(kept)
    BY <2>1, FS_Subset
  <2> HIDE DEF kept
  <2> DEFINE f == [t \in kept |-> ranked(t)]
  <2>3. IsFiniteSet({f[t] : t \in kept})
    BY <2>2, FiniteImage
  <2>4. {f[t] : t \in kept} = Cut(list)
    BY <1>0
  <2>5. QED
    BY <2>3, <2>4
<1>3. IsShort(Cut(list))
  <2>1. Cut(list) \subseteq Entry
    BY <1>0, <1>1
  <2>2. \A s \in Cut(list) : s.place \in 1..top_k
    BY <1>0, <1>1
  <2>3. Sole(Cut(list))
    BY <1>0, <1>1 DEF Sole
  <2>4. \A s, t \in Cut(list) : s.place = t.place => s = t
    <3>1. \A s, t \in M : Rank(list, s) = Rank(list, t) => s = t
      BY Ranks
    <3>2. QED
      BY <3>1, <1>0, <1>1
  <2>5. QED
    BY <2>1, <2>2, <2>3, <2>4, <1>2 DEF IsShort, IsList
<1>4. \A s \in Cut(list) : \E t \in M : Bare(s) = Bare(t)
  BY <1>0, <1>1
<1> DEFINE place == [s \in Cut(list) |-> s.place]
<1>5. Cardinality(Cut(list)) \in Nat /\ Cardinality(Cut(list)) <= top_k
  <2>1. IsFiniteSet(1..top_k) /\ Cardinality(1..top_k) = top_k
    <3>1. 1 \in Int /\ top_k \in Int
      BY <1>0
    <3>2. Cardinality(1..top_k) = IF 1 > top_k THEN 0 ELSE top_k - 1 + 1
      BY <3>1, FS_Interval
    <3>3. QED
      BY <3>1, <3>2, FS_Interval, <1>0
  <2>2. place \in Injection(Cut(list), 1..top_k)
    <3>1. place \in [Cut(list) -> 1..top_k]
      BY <1>3 DEF IsShort
    <3>2. \A s, t \in Cut(list) : place[s] = place[t] => s = t
      BY <1>3 DEF IsShort, IsList
    <3> HIDE DEF place
    <3>3. QED
      BY <3>1, <3>2 DEF Injection, IsInjective
  <2> HIDE DEF place
  <2>3. Cardinality(Cut(list)) <= Cardinality(1..top_k)
    BY <2>1, <2>2, FS_Injection
  <2>4. QED
    BY <2>1, <2>3, <1>2, FS_CardinalityType
<1>6. ASSUME NEW t \in M, t \notin kept
      PROVE  /\ Cardinality(Cut(list)) = top_k
             /\ \A s \in Cut(list) : s.confidence >= t.confidence
  <2>1. Rank(list, t) \in 1..N /\ ~ (Rank(list, t) <= top_k)
    BY <1>6, <1>1
  <2>2. top_k < N /\ top_k < Rank(list, t)
    BY <2>1, <1>0
  <2>3. place \in Surjection(Cut(list), 1..top_k)
    <3>1. ASSUME NEW r \in 1..top_k PROVE \E s \in Cut(list) : place[s] = r
      <4>1. r \in 1..N
        BY <2>2, <1>0
      <4>2. PICK u \in M : Rank(list, u) = r
        BY <4>1, Ranks
      <4>3. u \in kept
        BY <4>2, <1>0
      <4>4. ranked(u) \in Cut(list) /\ ranked(u).place = r
        BY <4>2, <4>3, <1>0, <1>1
      <4>5. QED
        BY <4>4
    <3>2. place \in [Cut(list) -> 1..top_k]
      BY <1>3 DEF IsShort
    <3> HIDE DEF place
    <3>3. QED
      BY <3>1, <3>2 DEF Surjection
  <2>4. top_k <= Cardinality(Cut(list))
    <3>1. Cardinality(1..top_k) <= Cardinality(Cut(list))
      <4> HIDE DEF place
      <4> QED
        BY <2>3, <1>2, FS_Surjection
    <3>2. Cardinality(1..top_k) = IF 1 > top_k THEN 0 ELSE top_k - 1 + 1
      <4>1. 1 \in Int /\ top_k \in Int
        BY <1>0
      <4>2. QED
        BY <4>1, FS_Interval
    <3>3. QED
      BY <3>1, <3>2, <1>0
  <2>5. ASSUME NEW s \in Cut(list) PROVE s.confidence >= t.confidence
    <3>1. PICK u \in kept : s = ranked(u)
      BY <1>0
    <3>2. Rank(list, u) < Rank(list, t)
      BY <2>2, <1>0, <1>1, <3>1
    <3>3. Before(list, u, t)
      BY <3>1, <3>2, Ranks
    <3>4. u.confidence >= t.confidence
      BY <3>1, <3>3, Ordered
    <3>5. QED
      BY <3>1, <3>4, <1>1
  <2>6. QED
    BY <2>4, <2>5, <1>5, <1>0
<1>7. \A t \in kept : \E s \in Cut(list) : Bare(s) = Bare(t)
  BY <1>0, <1>1
<1>8. Cardinality(Cut(list)) \in 0..top_k
  BY <1>5, <1>0
<1>9. QED
  BY <1>3, <1>4, <1>6, <1>7, <1>8

-----------------------------------------------------------------------------
(* How many labels there are down to a confidence.                         *)

Unplaced(c, scores) == {Bare(s) : s \in {s \in scores : s.confidence >= c}}

LEMMA Bared ==
    ASSUME NEW s, NEW t, Bare(s) = Bare(t)
    PROVE  s.label = t.label /\ s.confidence = t.confidence /\ s.categories = t.categories
<1>1. \A x : /\ Bare(x).label = x.label /\ Bare(x).confidence = x.confidence
             /\ Bare(x).categories = x.categories
  BY DEF Bare
<1>2. QED
  BY <1>1

LEMMA UnplacedScores ==
    ASSUME NEW list, IsList(list), Sole(list), NEW c
    PROVE  /\ Sole(Unplaced(c, list))
           /\ IsFiniteSet(Unplaced(c, list))
           /\ Cardinality(Unplaced(c, list)) \in Nat
           /\ Cardinality(Unplaced(c, list)) <= Cardinality(list)
           /\ \A s \in Unplaced(c, list) : \E t \in list :
                 s.label = t.label /\ t.confidence >= c /\ s = Bare(t)
           /\ \A t \in list : t.confidence >= c =>
                 Bare(t) \in Unplaced(c, list) /\ Bare(t).label = t.label
<1>1. \A t \in list : t.confidence >= c =>
         Bare(t) \in Unplaced(c, list) /\ Bare(t).label = t.label
  BY DEF Unplaced, Bare
<1>2. \A s \in Unplaced(c, list) : \E t \in list :
         s.label = t.label /\ t.confidence >= c /\ s = Bare(t)
  BY DEF Unplaced, Bare
<1>3. Sole(Unplaced(c, list))
  BY <1>2 DEF Sole
<1>4. IsFiniteSet(list)
  BY DEF IsList
<1>5. /\ IsFiniteSet(Unplaced(c, list))
      /\ Cardinality(Unplaced(c, list)) <= Cardinality(list)
  BY <1>2, <1>3, <1>4, FewerLabels
<1>6. QED
  BY <1>1, <1>2, <1>3, <1>5, FS_CardinalityType

\* A cut that is not full has lost nothing.
LEMMA FullOrWhole ==
    ASSUME NEW list, IsList(list), NEW c \in Nat
    PROVE  LET kept   == Unplaced(c, Cut(list))
               merged == Unplaced(c, Merged(list))
           IN  /\ kept \subseteq merged
               /\ Cardinality(kept) \in 0..top_k
               /\ Cardinality(merged) \in Nat /\ Cardinality(kept) <= Cardinality(merged)
               /\ Cardinality(kept) = top_k \/ kept = merged
<1> DEFINE kept == Unplaced(c, Cut(list))
           merged == Unplaced(c, Merged(list))
<1>0. /\ IsList(Merged(list)) /\ Sole(Merged(list)) /\ top_k \in Nat
      /\ IsList(Cut(list)) /\ Sole(Cut(list)) /\ Cardinality(Cut(list)) \in 0..top_k
      /\ \A t \in Merged(list) : t.confidence \in Nat
      /\ \A s \in Cut(list) : s.confidence \in Nat
  BY MergedScores, CutScores, VisionLabelsAssumption, Entries DEF IsShort, IsList
<1>1. kept \subseteq merged
  <2> SUFFICES ASSUME NEW x \in kept PROVE x \in merged
    OBVIOUS
  <2>1. PICK s \in Cut(list) : s.confidence >= c /\ x = Bare(s)
    BY <1>0, UnplacedScores
  <2>2. PICK t \in Merged(list) : Bare(s) = Bare(t)
    BY CutScores
  <2>3. t.confidence >= c
    BY <2>1, <2>2, Bared
  <2>4. QED
    BY <2>1, <2>2, <2>3, <1>0, UnplacedScores
<1>2. /\ Cardinality(kept) \in Nat /\ Cardinality(kept) <= Cardinality(Cut(list))
      /\ Sole(kept) /\ IsFiniteSet(kept)
  BY <1>0, UnplacedScores
<1>3. Cardinality(merged) \in Nat /\ Cardinality(kept) <= Cardinality(merged)
  <2>1. IsFiniteSet(merged) /\ Cardinality(merged) \in Nat
    BY <1>0, UnplacedScores
  <2>2. kept \in SUBSET merged
    BY <1>1
  <2> HIDE DEF kept, merged
  <2>3. QED
    BY <2>1, <2>2, FS_Subset
<1>4. ASSUME NEW x \in merged, x \notin kept PROVE Cardinality(kept) = top_k
  <2>1. PICK t \in Merged(list) : t.confidence >= c /\ x = Bare(t)
    BY <1>0, UnplacedScores
  <2>2. CASE \E s \in Cut(list) : Bare(s) = Bare(t)
    <3>1. PICK s \in Cut(list) : Bare(s) = Bare(t)
      BY <2>2
    <3>2. s.confidence >= c
      BY <2>1, <3>1, Bared
    <3>3. x \in kept
      BY <2>1, <3>1, <3>2, <1>0, UnplacedScores
    <3>4. QED
      BY <3>3, <1>4
  <2>3. CASE /\ Cardinality(Cut(list)) = top_k
             /\ \A s \in Cut(list) : s.confidence >= t.confidence
    <3>1. \A s \in Cut(list) : \E y \in kept : y.label = s.label
      <4> TAKE s \in Cut(list)
      <4>1. s.confidence >= t.confidence /\ s.confidence \in Nat /\ t.confidence \in Nat
        BY <2>3, <1>0
      <4>2. s.confidence >= c
        BY <4>1, <2>1
      <4>3. QED
        BY <4>2, <1>0, UnplacedScores
    <3>2. Cardinality(Cut(list)) <= Cardinality(kept)
      <4> HIDE DEF kept
      <4> QED
        BY <3>1, <1>0, <1>2, FewerLabels
    <3> HIDE DEF kept
    <3>3. QED
      BY <2>3, <3>2, <1>0, <1>2
  <2>4. QED
    BY <2>2, <2>3, CutScores
<1>5. Cardinality(kept) \in 0..top_k
  <2> HIDE DEF kept
  <2> QED
    BY <1>0, <1>2
<1>6. QED
  BY <1>1, <1>3, <1>4, <1>5

-----------------------------------------------------------------------------
(* Batches.                                                                *)

\* What the pictures show, one after the other.
All(pictures) == Listed([i \in DOMAIN pictures |-> Predicted(pictures[i])])

LEMMA PicturesShow ==
    ASSUME NEW pictures \in Seq(DOMAIN Pictures)
    PROVE  /\ Len(pictures) \in Nat /\ DOMAIN pictures = 1..Len(pictures)
           /\ IsList(All(pictures))
           /\ \A i \in DOMAIN pictures :
                 /\ IsShort(Predicted(pictures[i]))
                 /\ \A s \in Predicted(pictures[i]) : Moved(s, i) \in All(pictures)
           /\ \A u \in All(pictures) : \E i \in DOMAIN pictures :
                 \E s \in Predicted(pictures[i]) : u = Moved(s, i)
           /\ _scan_image_arrays(pictures) = Cut(All(pictures))
<1> DEFINE lists == [i \in DOMAIN pictures |-> Predicted(pictures[i])]
           n == Len(pictures)
<1>1. n \in Nat /\ DOMAIN pictures = 1..n /\ \A i \in 1..n : pictures[i] \in DOMAIN Pictures
  OBVIOUS
<1>2. \A i \in 1..n : lists[i] = Predicted(pictures[i]) /\ IsShort(lists[i])
  BY <1>1, PredictedScores
<1>3. DOMAIN lists = 1..n
  BY <1>1
<1> HIDE DEF lists, n
<1>4. /\ IsList(Listed(lists))
      /\ \A i \in 1..n : \A s \in lists[i] : Moved(s, i) \in Listed(lists)
      /\ \A u \in Listed(lists) : \E i \in 1..n : \E s \in lists[i] : u = Moved(s, i)
  BY <1>1, <1>2, <1>3, ListedScores
<1>5. All(pictures) = Listed(lists) /\ _scan_image_arrays(pictures) = Cut(Listed(lists))
  BY DEF All, _scan_image_arrays, lists
<1>6. QED
  BY <1>1, <1>2, <1>4, <1>5 DEF n

Place(b, i) == (b - 1) * batch_size + i

LEMMA BatchParts ==
    ASSUME NEW pictures \in Seq(DOMAIN Pictures)
    PROVE  LET n == Len(pictures)
               batches == Batches(pictures)
               N == RoundedUp(n, batch_size)
           IN  /\ N \in Nat /\ DOMAIN batches = 1..N
               /\ \A b \in 1..N :
                     /\ batches[b] \in Seq(DOMAIN Pictures)
                     /\ \A i \in 1..Len(batches[b]) :
                           /\ Place(b, i) \in 1..n
                           /\ batches[b][i] = pictures[Place(b, i)]
                     /\ \A c \in 1..N : \A i \in 1..Len(batches[b]), j \in 1..Len(batches[c]) :
                           Place(b, i) <= Place(c, j) => b <= c /\ (b = c => i <= j)
               /\ \A k \in 1..n : \E b \in 1..N : \E i \in 1..Len(batches[b]) : k = Place(b, i)
<1> DEFINE n == Len(pictures)
           B == batch_size
           N == RoundedUp(n, B)
           batches == Batches(pictures)
           from(b) == (b - 1) * B + 1
           to(b) == Least(b * B, n)
<1>0. n \in Nat /\ B \in Nat \ {0}
  BY VisionLabelsAssumption
<1>1. N \in Nat /\ n <= B * N /\ B * N < n + B
  BY <1>0, Roundings
<1>2. batches = [b \in 1..N |-> SubSeq(pictures, from(b), to(b))]
  BY DEF Batches
<1>3. ASSUME NEW b \in 1..N
      PROVE  /\ from(b) \in Nat \ {0} /\ from(b) <= to(b) /\ to(b) <= n /\ to(b) \in Nat
             /\ to(b) <= from(b) + B - 1
             /\ b < N => to(b) = from(b) + B - 1
             /\ b = N => to(b) = n
  <2> HIDE DEF n, N
  <2>1. b \in Nat /\ b - 1 \in Nat /\ b - 1 <= N - 1
    BY <1>1
  <2>2. B * (b - 1) <= B * (N - 1) /\ B * (b - 1) \in Nat
    BY <1>0, <1>1, <2>1, TimesGrows
  <2>3. B * (N - 1) = B * N - B /\ b * B = B * (b - 1) + B /\ (b - 1) * B = B * (b - 1)
    BY <1>0, <1>1, <2>1
  <2>4. b < N => B * b <= B * (N - 1)
    <3>1. b < N => b <= N - 1 /\ N - 1 \in Int
      BY <1>1, <2>1
    <3>2. QED
      BY <3>1, <2>1, <1>0, TimesGrows
  <2>5. b * B = B * b
    BY <1>0, <2>1
  <2>6. b = N => b * B >= n
    BY <2>5, <1>1
  <2>7. QED
    BY <2>1, <2>2, <2>3, <2>4, <2>5, <2>6, <1>0, <1>1 DEF Least
<1> HIDE DEF n, N, batches, to
<1>4. ASSUME NEW b \in 1..N
      PROVE  /\ batches[b] \in Seq(DOMAIN Pictures)
             /\ Len(batches[b]) = to(b) - from(b) + 1
             /\ \A i \in 1..Len(batches[b]) :
                  i \in 1..B /\ Place(b, i) \in 1..n /\ batches[b][i] = pictures[Place(b, i)]
  <2> DEFINE x == from(b)
             y == to(b)
             batch == SubSeq(pictures, x, y)
  <2>1. batches[b] = batch
    BY <1>2
  <2>2. x \in 1..n /\ y \in 1..n /\ x <= y /\ y <= x + B - 1
    BY <1>0, <1>3
  <2>3. n = Len(pictures)
    BY DEF n
  <2>4. \A i \in 1..(y - x + 1) : Place(b, i) = x + i - 1
    BY <1>0 DEF Place
  <2> HIDE DEF x, y
  <2>5. /\ batch \in Seq(DOMAIN Pictures)
        /\ Len(batch) = y - x + 1
        /\ \A i \in 1..(y - x + 1) : batch[i] = pictures[x + i - 1]
    <3>1. \A k \in x..y : pictures[k] \in DOMAIN Pictures
      BY <2>2, <2>3
    <3>2. x \in 1..(Len(pictures) + 1) /\ y \in (x - 1)..Len(pictures)
      BY <2>2, <2>3
    <3>3. /\ SubSeq(pictures, x, y) \in Seq(DOMAIN Pictures)
          /\ Len(SubSeq(pictures, x, y)) = IF x <= y THEN y - x + 1 ELSE 0
          /\ \A i \in 1..(y - x + 1) : SubSeq(pictures, x, y)[i] = pictures[x + i - 1]
      BY <3>1, <3>2, SubSeqProperties
    <3>4. QED
      BY <3>3, <2>2
  <2> HIDE DEF batch
  <2>6. \A i \in 1..Len(batch) : i \in 1..B /\ x + i - 1 \in 1..n
    BY <2>2, <2>5, <1>0
  <2>7. QED
    BY <2>1, <2>4, <2>5, <2>6 DEF x, y
<1>5. ASSUME NEW b \in 1..N, NEW c \in 1..N,
             NEW i \in 1..Len(batches[b]), NEW j \in 1..Len(batches[c]), Place(b, i) <= Place(c, j)
      PROVE  b <= c /\ (b = c => i <= j)
  <2>1. i \in 1..B /\ j \in 1..B /\ b \in Int /\ c \in Int
    BY <1>4
  <2>2. (b - 1) * B = B * (b - 1) /\ (c - 1) * B = B * (c - 1) /\ B * (b - 1) \in Int /\ B * (c - 1) \in Int
    BY <1>0, <2>1
  <2>3. B * (b - 1) < B * (c - 1) + B
    BY <2>1, <2>2, <1>0, <1>5 DEF Place
  <2>4. B * (c - 1) + B = B * c
    BY <1>0, <2>1
  <2>5. b - 1 < c
    BY <2>1, <2>3, <2>4, <1>0, Cancel
  <2>6. b = c => i <= j
    BY <2>1, <2>2, <1>5, <1>0 DEF Place
  <2>7. QED
    BY <2>1, <2>5, <2>6
<1>6. ASSUME NEW k \in 1..n
      PROVE  \E b \in 1..N : \E i \in 1..Len(batches[b]) : k = Place(b, i)
  <2> DEFINE b == RoundedUp(k, B)
             i == k - (b - 1) * B
  <2>1. k \in Nat /\ k > 0 /\ k <= n
    BY <1>0
  <2>2. b \in Nat /\ k <= B * b /\ B * b < k + B /\ b > 0
    BY <2>1, <1>0, Roundings
  <2> HIDE DEF b
  <2>3. B * (b - 1) = B * b - B /\ (b - 1) * B = B * (b - 1) /\ b * B = B * b /\ B * b \in Nat
    BY <1>0, <2>2
  <2>4. b <= N
    <3>1. B * (b - 1) < B * N
      BY <2>1, <2>2, <2>3, <1>0, <1>1
    <3>2. b - 1 < N
      BY <3>1, <1>0, <1>1, <2>2, Cancel
    <3>3. QED
      BY <3>2, <1>1, <2>2
  <2>5. b \in 1..N
    BY <2>2, <2>4, <1>1
  <2>6. from(b) <= k /\ k <= to(b)
    BY <2>1, <2>2, <2>3, <1>0 DEF to, Least
  <2>7. i \in 1..Len(batches[b])
    <3>1. to(b) \in Nat /\ Len(batches[b]) = to(b) - from(b) + 1
      BY <2>5, <1>3, <1>4
    <3>2. from(b) = B * b - B + 1 /\ i = k - (B * b - B)
      BY <2>3
    <3> HIDE DEF i, from
    <3>3. i \in Int /\ i >= 1 /\ i <= Len(batches[b]) /\ Len(batches[b]) \in Int
      BY <3>1, <3>2, <2>1, <2>2, <2>3, <2>6, <1>0
    <3>4. QED
      BY <3>3
  <2>8. k = Place(b, i)
    BY <2>1, <2>2, <2>3, <1>0 DEF Place
  <2>9. QED
    BY <2>5, <2>7, <2>8
<1>7. DOMAIN batches = 1..N
  BY <1>2
<1>8. QED
  BY <1>1, <1>4, <1>5, <1>6, <1>7 DEF n, N, batches

\* The labels kept of each batch.
\* The labels kept of each batch.
Kept(pictures) == [b \in DOMAIN Batches(pictures) |-> _scan_image_arrays(Batches(pictures)[b])]

LEMMA BatchesShow ==
    ASSUME NEW pictures \in Seq(DOMAIN Pictures)
    PROVE  /\ IsList(Listed(Kept(pictures)))
           /\ \A b \in DOMAIN Batches(pictures) :
                 /\ b \in Nat \ {0}
                 /\ Batches(pictures)[b] \in Seq(DOMAIN Pictures)
                 /\ Kept(pictures)[b] = Cut(All(Batches(pictures)[b]))
                 /\ IsList(All(Batches(pictures)[b]))
                 /\ IsShort(Kept(pictures)[b])
                 /\ \A s \in Kept(pictures)[b] : Moved(s, b) \in Listed(Kept(pictures))
           /\ \A u \in Listed(Kept(pictures)) : \E b \in DOMAIN Batches(pictures) :
                 \E s \in Kept(pictures)[b] : u = Moved(s, b)
           /\ scan_video_bytes(pictures) = Cut(Listed(Kept(pictures)))
<1> DEFINE N == RoundedUp(Len(pictures), batch_size)
           batches == Batches(pictures)
           X == Kept(pictures)
<1>1. N \in Nat /\ DOMAIN batches = 1..N /\ \A b \in 1..N : batches[b] \in Seq(DOMAIN Pictures)
  BY BatchParts
<1>2. \A b \in 1..N : X[b] = Cut(All(batches[b])) /\ IsList(All(batches[b]))
  BY <1>1, PicturesShow DEF Kept
<1>3. \A b \in 1..N : IsShort(X[b])
  BY <1>2, CutScores
<1>4. DOMAIN X = 1..N
  BY <1>1 DEF Kept
<1>5. scan_video_bytes(pictures) = Cut(Listed(X))
  BY DEF scan_video_bytes, Kept
<1> HIDE DEF N, X, batches
<1>6. /\ IsList(Listed(X))
      /\ \A b \in 1..N : \A s \in X[b] : Moved(s, b) \in Listed(X)
      /\ \A u \in Listed(X) : \E b \in 1..N : \E s \in X[b] : u = Moved(s, b)
  BY <1>1, <1>3, <1>4, ListedScores
<1>7. \A b \in 1..N : b \in Nat \ {0}
  BY <1>1
<1>8. QED
  BY <1>1, <1>2, <1>3, <1>5, <1>6, <1>7 DEF X, batches

\* The pictures of a batch are pictures of the video, in the same order.
LEMMA BatchShows ==
    ASSUME NEW pictures \in Seq(DOMAIN Pictures), NEW b \in DOMAIN Batches(pictures),
           NEW i \in DOMAIN Batches(pictures)[b], NEW s \in Predicted(Batches(pictures)[b][i])
    PROVE  /\ Place(b, i) \in DOMAIN pictures /\ Place(b, i) \in Nat \ {0} /\ i \in Nat \ {0}
           /\ s \in Predicted(pictures[Place(b, i)])
           /\ s.place \in 1..top_k
           /\ Moved(s, Place(b, i)) \in All(pictures)
           /\ Bare(Moved(s, Place(b, i))) = Bare(s)
           /\ Moved(s, Place(b, i)).place = (Place(b, i) - 1) * top_k + s.place
           /\ Moved(s, i) \in All(Batches(pictures)[b])
           /\ Bare(Moved(s, i)) = Bare(s)
           /\ Moved(s, i).place = (i - 1) * top_k + s.place
<1> DEFINE batch == Batches(pictures)[b]
           k == Place(b, i)
<1>1. batch \in Seq(DOMAIN Pictures) /\ i \in 1..Len(batch) /\ i \in Nat \ {0}
  BY BatchesShow
<1>2. k \in 1..Len(pictures) /\ batch[i] = pictures[k]
  <2>1. b \in 1..RoundedUp(Len(pictures), batch_size)
    BY BatchParts
  <2>2. QED
    BY <1>1, <2>1, BatchParts
<1>3. k \in DOMAIN pictures /\ k \in Nat \ {0}
  BY <1>2
<1> HIDE DEF k
<1>4. s \in Predicted(pictures[k]) /\ IsShort(Predicted(pictures[k])) /\ IsShort(Predicted(batch[i]))
  BY <1>2, <1>3, PicturesShow
<1>5. Moved(s, k) \in All(pictures)
  BY <1>3, <1>4, PicturesShow
<1>6. Moved(s, i) \in All(batch)
  BY <1>1, PicturesShow
<1>7. /\ Bare(Moved(s, k)) = Bare(s) /\ Moved(s, k).place = (k - 1) * top_k + s.place
  BY <1>3, <1>4, MovedScores DEF Bare
<1>8. /\ Bare(Moved(s, i)) = Bare(s) /\ Moved(s, i).place = (i - 1) * top_k + s.place
  BY <1>1, <1>4, MovedScores DEF Bare
<1>9. s.place \in 1..top_k
  BY <1>4 DEF IsShort
<1>10. QED
  BY <1>1, <1>3, <1>4, <1>5, <1>6, <1>7, <1>8, <1>9 DEF k

\* Where a score that is kept of a batch comes from.
LEMMA KeptComesFrom ==
    ASSUME NEW pictures \in Seq(DOMAIN Pictures), NEW b \in DOMAIN Batches(pictures),
           NEW r \in Kept(pictures)[b]
    PROVE  \E i \in DOMAIN Batches(pictures)[b] : \E s \in Predicted(Batches(pictures)[b][i]) :
              Bare(s) = Bare(r)
<1> DEFINE batch == Batches(pictures)[b]
<1>1. batch \in Seq(DOMAIN Pictures) /\ Kept(pictures)[b] = Cut(All(batch)) /\ IsList(All(batch))
  BY BatchesShow
<1>2. PICK t \in Merged(All(batch)) : Bare(r) = Bare(t)
  BY <1>1, CutScores
<1>3. t \in All(batch)
  BY <1>1, MergedScores
<1>4. PICK i \in DOMAIN batch : \E s \in Predicted(batch[i]) : t = Moved(s, i)
  BY <1>1, <1>3, PicturesShow
<1>5. PICK s \in Predicted(batch[i]) : t = Moved(s, i)
  BY <1>4
<1>6. Bare(s) = Bare(t)
  BY <1>5, BatchShows
<1>7. QED
  BY <1>2, <1>6

\* The best score of a label in the video, if its batch keeps it, is the best
\* one of the batches.
LEMMA BestIsKept ==
    ASSUME NEW pictures \in Seq(DOMAIN Pictures), NEW w \in Merged(All(pictures)),
           \A b \in DOMAIN Batches(pictures) : \A t \in Merged(All(Batches(pictures)[b])) :
              t.confidence >= w.confidence => \E r \in Kept(pictures)[b] : Bare(r) = Bare(t)
    PROVE  \E v \in Merged(Listed(Kept(pictures))) : Bare(v) = Bare(w)
<1> DEFINE batches == Batches(pictures)
           R == Listed(Kept(pictures))
           N == RoundedUp(Len(pictures), batch_size)
<1>0. IsList(All(pictures)) /\ IsList(R) /\ DOMAIN batches = 1..N /\ N \in Nat
  BY PicturesShow, BatchesShow, BatchParts
<1>1. w \in All(pictures) /\ \A t \in All(pictures) : t.label = w.label => Wins(w, t)
  BY <1>0, MergedScores
<1>2. PICK k \in DOMAIN pictures : \E s \in Predicted(pictures[k]) : w = Moved(s, k)
  BY <1>1, PicturesShow
<1>3. PICK s \in Predicted(pictures[k]) : w = Moved(s, k)
  BY <1>2
<1>4. PICK b \in DOMAIN batches : \E i \in DOMAIN batches[b] : k = Place(b, i)
  <2>1. k \in 1..Len(pictures)
    BY PicturesShow
  <2>2. PICK b \in 1..N : \E i \in 1..Len(batches[b]) : k = Place(b, i)
    BY <2>1, BatchParts
  <2>3. batches[b] \in Seq(DOMAIN Pictures)
    BY <2>2, BatchParts
  <2>4. QED
    BY <2>2, <2>3, <1>0
<1>5. PICK i \in DOMAIN batches[b] : k = Place(b, i)
  BY <1>4
<1>6. batches[b] \in Seq(DOMAIN Pictures) /\ i \in 1..Len(batches[b]) /\ b \in 1..N
  BY <1>0, BatchesShow
<1>7. batches[b][i] = pictures[k]
  BY <1>5, <1>6, BatchParts
<1>8. s \in Predicted(batches[b][i])
  BY <1>7
<1>9. /\ i \in Nat \ {0} /\ k \in Nat \ {0} /\ s.place \in 1..top_k
      /\ Bare(w) = Bare(s) /\ w.place = (k - 1) * top_k + s.place
      /\ Moved(s, i) \in All(batches[b])
      /\ Bare(Moved(s, i)) = Bare(s) /\ Moved(s, i).place = (i - 1) * top_k + s.place
  BY <1>3, <1>5, <1>8, BatchShows
\* Whatever has the label, further on in the video or less likely.
<1>10. ASSUME NEW c \in DOMAIN batches, NEW j \in DOMAIN batches[c],
              NEW t \in Predicted(batches[c][j]), t.label = s.label
       PROVE  /\ c \in 1..N /\ j \in 1..Len(batches[c]) /\ j \in Nat \ {0} /\ t.place \in 1..top_k
              /\ \/ s.confidence > t.confidence
                 \/ /\ s.confidence = t.confidence
                    /\ b <= c
                    /\ b = c => i < j \/ (i = j /\ s.place <= t.place)
  <2>1. /\ Place(c, j) \in Nat \ {0} /\ t.place \in 1..top_k /\ j \in Nat \ {0}
        /\ Moved(t, Place(c, j)) \in All(pictures)
        /\ Bare(Moved(t, Place(c, j))) = Bare(t)
        /\ Moved(t, Place(c, j)).place = (Place(c, j) - 1) * top_k + t.place
    BY BatchShows
  <2>2. Moved(t, Place(c, j)).label = t.label /\ Moved(t, Place(c, j)).confidence = t.confidence
    BY <2>1, Bared
  <2>3. w.label = s.label /\ w.confidence = s.confidence
    BY <1>9, Bared
  <2>4. Wins(w, Moved(t, Place(c, j)))
    BY <2>1, <2>2, <2>3, <1>1, <1>10
  <2>5. c \in 1..N /\ j \in 1..Len(batches[c])
    BY <1>0, BatchesShow
  <2>6. ASSUME ~ (s.confidence > t.confidence)
        PROVE  /\ s.confidence = t.confidence
               /\ Place(b, i) < Place(c, j) \/ (Place(b, i) = Place(c, j) /\ s.place <= t.place)
    <3>1. s.confidence = t.confidence /\ w.place <= Moved(t, Place(c, j)).place
      BY <2>2, <2>3, <2>4, <2>6 DEF Wins
    <3>2. (k - 1) * top_k + s.place <= (Place(c, j) - 1) * top_k + t.place
      BY <3>1, <2>1, <1>9
    <3>3. k < Place(c, j) \/ (k = Place(c, j) /\ s.place <= t.place)
      BY <3>2, <2>1, <1>9, Lexical
    <3>4. QED
      BY <3>1, <3>3, <1>5
  <2>7. Place(b, i) <= Place(c, j) => b <= c /\ (b = c => i <= j)
    BY <2>5, <1>6, BatchParts
  <2>8. i <= j => i < j \/ i = j
    BY <2>1, <1>9
  <2>9. b = c /\ i = j => Place(b, i) = Place(c, j)
    OBVIOUS
  <2>10. Place(b, i) \in Nat /\ Place(c, j) \in Nat
    BY <2>1, <1>5, <1>9
  <2>11. ASSUME ~ (s.confidence > t.confidence)
         PROVE  b <= c /\ (b = c => i < j \/ (i = j /\ s.place <= t.place))
    <3>1. Place(b, i) <= Place(c, j)
      BY <2>6, <2>10, <2>11
    <3>2. b <= c /\ (b = c => i <= j)
      BY <3>1, <2>7
    <3>3. Place(b, i) = Place(c, j) => s.place <= t.place
      BY <2>6, <2>10, <2>11
    <3>4. QED
      BY <3>2, <3>3, <2>8, <2>9
  <2>12. QED
    BY <2>1, <2>5, <2>6, <2>11
<1>11. Moved(s, i) \in Merged(All(batches[b]))
  <2>1. ASSUME NEW t \in All(batches[b]), t.label = Moved(s, i).label PROVE Wins(Moved(s, i), t)
    <3>1. PICK j \in DOMAIN batches[b] : \E q \in Predicted(batches[b][j]) : t = Moved(q, j)
      BY <1>6, PicturesShow
    <3>2. PICK q \in Predicted(batches[b][j]) : t = Moved(q, j)
      BY <3>1
    <3>3. Bare(t) = Bare(q) /\ t.place = (j - 1) * top_k + q.place
      BY <3>2, BatchShows
    <3>4. /\ t.label = q.label /\ t.confidence = q.confidence
          /\ Moved(s, i).label = s.label /\ Moved(s, i).confidence = s.confidence
      BY <3>3, <1>9, Bared
    <3>5. /\ j \in Nat \ {0} /\ q.place \in 1..top_k
          /\ \/ s.confidence > q.confidence
             \/ /\ s.confidence = q.confidence
                /\ i < j \/ (i = j /\ s.place <= q.place)
      <4>1. q.label = s.label
        BY <2>1, <3>4
      <4>2. /\ j \in Nat \ {0} /\ q.place \in 1..top_k
            /\ \/ s.confidence > q.confidence
               \/ /\ s.confidence = q.confidence
                  /\ b <= b
                  /\ b = b => i < j \/ (i = j /\ s.place <= q.place)
        BY <4>1, <1>10
      <4>3. QED
        BY <4>2
    <3>6. i < j \/ (i = j /\ s.place <= q.place) => Moved(s, i).place <= t.place
      <4>1. i < j \/ (i = j /\ s.place <= q.place)
               => (i - 1) * top_k + s.place <= (j - 1) * top_k + q.place
        BY <3>5, <1>9, Lexical
      <4>2. QED
        BY <4>1, <3>3, <1>9
    <3>7. QED
      BY <3>4, <3>5, <3>6 DEF Wins
  <2>2. IsList(All(batches[b]))
    BY BatchesShow
  <2>3. QED
    BY <2>1, <2>2, <1>9, MergedScores
<1>12. PICK r \in Kept(pictures)[b] : Bare(r) = Bare(s)
  <2>1. Moved(s, i).confidence = w.confidence
    BY <1>9, Bared
  <2>2. w.confidence \in Nat
    BY <1>0, <1>1, Entries DEF IsList
  <2>3. Moved(s, i).confidence >= w.confidence
    BY <2>1, <2>2
  <2>4. PICK r \in Kept(pictures)[b] : Bare(r) = Bare(Moved(s, i))
    BY <2>3, <1>11
  <2>5. QED
    BY <2>4, <1>9
<1>13. /\ IsShort(Kept(pictures)[b]) /\ b \in Nat \ {0} /\ r.place \in 1..top_k
       /\ Moved(r, b) \in R /\ Bare(Moved(r, b)) = Bare(r)
       /\ Moved(r, b).place = (b - 1) * top_k + r.place
  <2>1. IsShort(Kept(pictures)[b]) /\ b \in Nat \ {0} /\ Moved(r, b) \in R
    BY BatchesShow
  <2>2. QED
    BY <2>1, MovedScores DEF Bare, IsShort
<1>14. Moved(r, b) \in Merged(R)
  <2>1. ASSUME NEW u \in R, u.label = Moved(r, b).label PROVE Wins(Moved(r, b), u)
    <3>1. PICK c \in DOMAIN batches : \E q \in Kept(pictures)[c] : u = Moved(q, c)
      BY BatchesShow
    <3>2. PICK q \in Kept(pictures)[c] : u = Moved(q, c)
      BY <3>1
    <3>3. IsShort(Kept(pictures)[c]) /\ c \in Nat \ {0}
      BY BatchesShow
    <3>4. /\ u.label = q.label /\ u.confidence = q.confidence
          /\ u.place = (c - 1) * top_k + q.place /\ q.place \in 1..top_k
      BY <3>2, <3>3, MovedScores DEF IsShort
    <3>5. PICK j \in DOMAIN batches[c] : \E t \in Predicted(batches[c][j]) : Bare(t) = Bare(q)
      BY KeptComesFrom
    <3>6. PICK t \in Predicted(batches[c][j]) : Bare(t) = Bare(q)
      BY <3>5
    <3>7. /\ t.label = q.label /\ t.confidence = q.confidence
          /\ Moved(r, b).label = s.label /\ Moved(r, b).confidence = s.confidence
          /\ r.label = s.label
      BY <3>6, <1>12, <1>13, Bared
    <3>8. s.confidence > q.confidence \/ (s.confidence = q.confidence /\ b <= c)
      BY <2>1, <3>4, <3>7, <1>10
    <3>9. b = c => r = q
      BY <2>1, <3>3, <3>4, <3>7 DEF IsShort, Sole
    <3>10. b <= c => b < c \/ b = c
      BY <3>3, <1>13
    <3>11. r.place = q.place => r.place <= q.place
      BY <3>4, <1>13
    <3>12. b <= c => (b - 1) * top_k + r.place <= (c - 1) * top_k + q.place
      <4>1. b <= c => b < c \/ (b = c /\ r.place <= q.place)
        BY <3>9, <3>10, <3>11
      <4>2. QED
        BY <4>1, <3>3, <3>4, <1>13, Lexical
    <3>13. QED
      BY <3>4, <3>7, <3>8, <3>12, <1>13 DEF Wins
  <2>2. QED
    BY <2>1, <1>0, <1>13, MergedScores
<1>15. Bare(Moved(r, b)) = Bare(w)
  BY <1>9, <1>12, <1>13
<1>16. QED
  BY <1>14, <1>15

\* Of what is as likely as c: the batches give the video's labels, or there
\* are too many for top_k.
LEMMA BatchesMerge ==
    ASSUME NEW pictures \in Seq(DOMAIN Pictures), NEW c \in Nat
    PROVE  LET all  == Unplaced(c, Merged(All(pictures)))
               rest == Unplaced(c, Merged(Listed(Kept(pictures))))
           IN  \/ all = rest
               \/ Cardinality(all) >= top_k /\ Cardinality(rest) >= top_k
<1> DEFINE batches == Batches(pictures)
           A == All(pictures)
           R == Listed(Kept(pictures))
           all == Unplaced(c, Merged(A))
           rest == Unplaced(c, Merged(R))
<1>0. /\ IsList(A) /\ IsList(R) /\ top_k \in Nat
      /\ IsList(Merged(A)) /\ Sole(Merged(A)) /\ IsList(Merged(R)) /\ Sole(Merged(R))
      /\ \A s \in A : s.confidence \in Nat
      /\ \A s \in R : s.confidence \in Nat
  <2>1. IsList(A) /\ IsList(R)
    BY PicturesShow, BatchesShow
  <2>2. QED
    BY <2>1, MergedScores, VisionLabelsAssumption, Entries DEF IsList
\* A score of a batch has a likelier one of its label in both.
<1>1. ASSUME NEW b \in DOMAIN batches, NEW r \in Kept(pictures)[b], r.confidence >= c
      PROVE  /\ \E x \in rest : x.label = r.label
             /\ \E x \in all : x.label = r.label
  <2>0. /\ IsShort(Kept(pictures)[b]) /\ b \in Nat \ {0} /\ Moved(r, b) \in R
        /\ r.confidence \in Nat
    BY BatchesShow, Entries DEF IsShort, IsList
  <2>1. PICK v \in Merged(R) : v.label = r.label /\ v.confidence >= r.confidence
    <3>1. Moved(r, b).label = r.label /\ Moved(r, b).confidence = r.confidence
      BY <2>0, MovedScores
    <3>2. QED
      BY <3>1, <2>0, <1>0, MergedRepresents
  <2>2. v \in R
    BY <1>0, MergedScores
  <2>3. v.confidence >= c
    BY <2>0, <2>1, <2>2, <1>0, <1>1
  <2>4. \E x \in rest : x.label = r.label
    BY <2>1, <2>3, <1>0, UnplacedScores
  <2>5. PICK i \in DOMAIN batches[b] : \E s \in Predicted(batches[b][i]) : Bare(s) = Bare(r)
    BY KeptComesFrom
  <2>6. PICK s \in Predicted(batches[b][i]) : Bare(s) = Bare(r)
    BY <2>5
  <2>7. Moved(s, Place(b, i)) \in A /\ Bare(Moved(s, Place(b, i))) = Bare(r)
    BY <2>6, BatchShows
  <2>8. Moved(s, Place(b, i)).label = r.label /\ Moved(s, Place(b, i)).confidence = r.confidence
    BY <2>7, Bared
  <2>9. PICK w \in Merged(A) : w.label = r.label /\ w.confidence >= r.confidence
    BY <2>7, <2>8, <1>0, MergedRepresents
  <2>10. w \in A
    BY <1>0, MergedScores
  <2>11. w.confidence >= c
    BY <2>0, <2>9, <2>10, <1>0, <1>1
  <2>12. \E x \in all : x.label = r.label
    BY <2>9, <2>11, <1>0, UnplacedScores
  <2>13. QED
    BY <2>4, <2>12
<1>2. CASE \E b \in DOMAIN batches : \E t \in Merged(All(batches[b])) :
              t.confidence >= c /\ ~ \E r \in Kept(pictures)[b] : Bare(r) = Bare(t)
  <2>1. PICK b \in DOMAIN batches : \E t \in Merged(All(batches[b])) :
              t.confidence >= c /\ ~ \E r \in Kept(pictures)[b] : Bare(r) = Bare(t)
    BY <1>2
  <2>2. PICK t \in Merged(All(batches[b])) :
              t.confidence >= c /\ ~ \E r \in Kept(pictures)[b] : Bare(r) = Bare(t)
    BY <2>1
  <2>3. /\ Kept(pictures)[b] = Cut(All(batches[b])) /\ IsList(All(batches[b]))
        /\ IsShort(Kept(pictures)[b])
    BY BatchesShow
  <2>4. /\ Cardinality(Kept(pictures)[b]) = top_k
        /\ \A r \in Kept(pictures)[b] : r.confidence >= t.confidence
    BY <2>2, <2>3, CutScores
  <2>5. ASSUME NEW r \in Kept(pictures)[b] PROVE r.confidence >= c
    <3>1. r.confidence \in Nat
      BY <2>3, Entries DEF IsShort, IsList
    <3>2. t.confidence \in Nat
      BY <2>3, MergedScores, Entries DEF IsList
    <3>3. r.confidence >= t.confidence
      BY <2>4
    <3>4. QED
      BY <3>1, <3>2, <3>3, <2>2
  <2>6. /\ \A r \in Kept(pictures)[b] : \E x \in all : x.label = r.label
        /\ \A r \in Kept(pictures)[b] : \E x \in rest : x.label = r.label
    BY <2>5, <1>1
  <2>7. /\ IsFiniteSet(all) /\ Cardinality(all) \in Nat
        /\ IsFiniteSet(rest) /\ Cardinality(rest) \in Nat
    BY <1>0, UnplacedScores
  <2> DEFINE kept == Kept(pictures)[b]
  <2>8. Sole(kept)
    BY <2>3 DEF IsShort
  <2> HIDE DEF all, rest, kept
  <2>9. Cardinality(kept) <= Cardinality(all) /\ Cardinality(kept) <= Cardinality(rest)
    BY <2>6, <2>7, <2>8, FewerLabels DEF kept
  <2>10. Cardinality(all) >= top_k /\ Cardinality(rest) >= top_k
    BY <2>4, <2>7, <2>9, <1>0 DEF kept
  <2>11. QED
    BY <2>10 DEF all, rest
<1>3. CASE \A b \in DOMAIN batches : \A t \in Merged(All(batches[b])) :
              t.confidence >= c => \E r \in Kept(pictures)[b] : Bare(r) = Bare(t)
  <2>1. ASSUME NEW w \in Merged(A), w.confidence >= c
        PROVE  \E v \in Merged(R) : Bare(v) = Bare(w) /\ v.confidence >= c
    <3>1. w \in A /\ w.confidence \in Nat
      BY <1>0, MergedScores
    <3>2. ASSUME NEW b \in DOMAIN batches, NEW t \in Merged(All(batches[b])),
                 t.confidence >= w.confidence
          PROVE  \E r \in Kept(pictures)[b] : Bare(r) = Bare(t)
      <4>1. IsList(All(batches[b]))
        BY BatchesShow
      <4>2. t.confidence \in Nat
        BY <4>1, MergedScores, Entries DEF IsList
      <4>3. t.confidence >= c
        BY <4>2, <3>1, <3>2, <2>1
      <4>4. QED
        BY <4>3, <1>3
    <3>3. PICK v \in Merged(R) : Bare(v) = Bare(w)
      BY <3>2, BestIsKept
    <3>4. v.confidence = w.confidence
      BY <3>3, Bared
    <3>5. QED
      BY <3>3, <3>4, <2>1
  <2>2. all \subseteq rest
    <3> SUFFICES ASSUME NEW x \in all PROVE x \in rest
      OBVIOUS
    <3>1. PICK w \in Merged(A) : w.confidence >= c /\ x = Bare(w)
      BY <1>0, UnplacedScores
    <3>2. PICK v \in Merged(R) : Bare(v) = Bare(w) /\ v.confidence >= c
      BY <3>1, <2>1
    <3>3. QED
      BY <3>1, <3>2, <1>0, UnplacedScores
  <2>3. rest \subseteq all
    <3> SUFFICES ASSUME NEW x \in rest PROVE x \in all
      OBVIOUS
    <3>1. PICK v \in Merged(R) : v.confidence >= c /\ x = Bare(v)
      BY <1>0, UnplacedScores
    <3>2. v \in R
      BY <1>0, MergedScores
    <3>3. PICK b \in DOMAIN batches : \E r \in Kept(pictures)[b] : v = Moved(r, b)
      BY <3>2, BatchesShow
    <3>4. PICK r \in Kept(pictures)[b] : v = Moved(r, b)
      BY <3>3
    <3>5. v.label = r.label /\ v.confidence = r.confidence
      BY <3>4, BatchesShow, MovedScores
    <3>6. PICK y \in all : y.label = r.label
      BY <3>1, <3>5, <1>1
    <3>7. y \in rest
      BY <3>6, <2>2
    <3>8. x \in rest /\ x.label = y.label
      BY <3>1, <3>5, <3>6 DEF Bare
    <3>9. x = y
      BY <3>7, <3>8, <1>0, UnplacedScores DEF Sole
    <3>10. QED
      BY <3>6, <3>9
  <2>4. QED
    BY <2>2, <2>3
<1>4. QED
  BY <1>2, <1>3

\* What batches change: only which labels of those that are just as likely as
\* the last one are kept.
LEMMA BatchesDoNotMatter ==
    ASSUME NEW pictures \in Seq(DOMAIN Pictures), NEW c \in Nat
    PROVE  LET one   == Unplaced(c, _scan_image_arrays(pictures))
               video == Unplaced(c, scan_video_bytes(pictures))
           IN  /\ Cardinality(video) = Cardinality(one)
               /\ Cardinality(one) < top_k => video = one
<1> DEFINE A == All(pictures)
           R == Listed(Kept(pictures))
           one == Unplaced(c, Cut(A))
           video == Unplaced(c, Cut(R))
           all == Unplaced(c, Merged(A))
           rest == Unplaced(c, Merged(R))
<1>0. IsList(A) /\ IsList(R) /\ top_k \in Nat
  BY PicturesShow, BatchesShow, VisionLabelsAssumption
<1>1. /\ Cardinality(one) \in 0..top_k /\ Cardinality(all) \in Nat
      /\ Cardinality(one) <= Cardinality(all)
      /\ Cardinality(one) = top_k \/ one = all
  BY <1>0, FullOrWhole
<1>2. /\ Cardinality(video) \in 0..top_k /\ Cardinality(rest) \in Nat
      /\ Cardinality(video) <= Cardinality(rest)
      /\ Cardinality(video) = top_k \/ video = rest
  BY <1>0, FullOrWhole
<1>3. all = rest \/ (Cardinality(all) >= top_k /\ Cardinality(rest) >= top_k)
  BY BatchesMerge
<1>4. _scan_image_arrays(pictures) = Cut(A) /\ scan_video_bytes(pictures) = Cut(R)
  BY PicturesShow, BatchesShow
<1> HIDE DEF one, video, all, rest
<1>5. CASE all = rest
  <2>1. CASE Cardinality(one) = top_k
    <3>1. Cardinality(rest) >= top_k
      BY <2>1, <1>1, <1>5
    <3>2. Cardinality(video) = top_k
      BY <3>1, <1>2, <1>0
    <3>3. QED
      BY <2>1, <3>2, <1>0, <1>4 DEF one, video
  <2>2. CASE Cardinality(one) # top_k
    <3>1. one = all /\ Cardinality(one) < top_k
      BY <2>2, <1>1, <1>0
    <3>2. Cardinality(rest) < top_k
      BY <3>1, <1>5
    <3>3. video = rest
      BY <3>2, <1>2, <1>0
    <3>4. video = one
      BY <3>1, <3>3, <1>5
    <3>5. QED
      BY <3>4, <1>4 DEF one, video
  <2>3. QED
    BY <2>1, <2>2
<1>6. CASE Cardinality(all) >= top_k /\ Cardinality(rest) >= top_k
  <2>1. Cardinality(one) = top_k /\ Cardinality(video) = top_k
    BY <1>6, <1>0, <1>1, <1>2
  <2>2. QED
    BY <2>1, <1>0, <1>4 DEF one, video
<1>7. QED
  BY <1>3, <1>5, <1>6

LEMMA SampledPictures ==
    ASSUME NEW video, video.pictures \in Seq(Kinds)
    PROVE  Sampled(video) \in Seq(DOMAIN Pictures)
<1> DEFINE at == SampledAt(video)
           S == 1..Len(video.pictures)
           V == Seq(DOMAIN Pictures)
           n == Len(at)
           Taken(frames, i) == IF video.pictures[i] = Unreadable THEN frames
                               ELSE Append(frames, video.pictures[i])
           Runs(it) == it = [s \in SUBSET (DOMAIN at) |->
                               IF s = {} THEN <<>> ELSE Taken(it[s \ {Max(s)}], at[Max(s)])]
           iter == CHOOSE it : Runs(it)
           h == [x \in V \X S |-> Taken(x[1], x[2])]
<1>1. n \in Nat /\ DOMAIN at = 1..n /\ at \in [1..n -> S]
  <2>1. PICK m \in Nat : DOMAIN at = 1..m /\ \A i \in 1..m : at[i] \in S
    BY SamplesSpread
  <2>2. at = [i \in DOMAIN at |-> at[i]]
    BY DEF SampledAt
  <2> HIDE DEF at, S
  <2>3. at \in [1..m -> S]
    BY <2>1, <2>2
  <2>4. at \in Seq(S) /\ Len(at) = m
    BY <2>3
  <2>5. QED
    BY <2>1, <2>3, <2>4
<1>2. Sampled(video) = iter[DOMAIN at]
  BY DEF Sampled, FoldLeft, MapThenFoldSet
<1> HIDE DEF at, n
<1>3. ASSUME NEW frames \in V, NEW i \in S PROVE Taken(frames, i) \in V
  <2>1. video.pictures[i] \in DOMAIN Pictures \cup {Unreadable}
    BY DEF Kinds
  <2>2. video.pictures[i] # Unreadable => Append(frames, video.pictures[i]) \in V
    BY <2>1, AppendProperties
  <2>3. QED
    BY <2>2
<1>0. <<>> \in V
  OBVIOUS
<1> HIDE DEF Taken, V, S
<1>4. h \in [V \X S -> V] /\ <<>> \in V /\ \A frames \in V, i \in S : h[<<frames, i>>] = Taken(frames, i)
  BY <1>0, <1>3
<1> HIDE DEF h
<1>5. PICK g \in [SUBSET (1..n) -> V] : Folding(g, h, <<>>, at, n)
  BY <1>1, <1>4, FoldExists
<1>6. ASSUME NEW s \in SUBSET (1..n)
      PROVE  g[s] = IF s = {} THEN <<>> ELSE Taken(g[s \ {Max(s)}], at[Max(s)])
  <2>1. CASE s = {}
    BY <2>1, <1>5 DEF Folding
  <2>2. CASE s # {}
    <3>0. s \subseteq 0..n
      BY <1>1
    <3>1. Max(s) \in s
      BY <3>0, <2>2, <1>1, LargestOf
    <3>2. g[s \ {Max(s)}] \in V /\ at[Max(s)] \in S
      BY <3>1, <1>1, <1>5
    <3>3. g[s] = h[<<g[s \ {Max(s)}], at[Max(s)]>>]
      BY <2>2, <1>5 DEF Folding
    <3>4. QED
      BY <2>2, <3>2, <3>3, <1>4
  <2>3. QED
    BY <2>1, <2>2
<1>7. Runs(g)
  BY <1>1, <1>5, <1>6
<1> HIDE DEF Runs
<1>8. Runs(iter)
  BY <1>7
<1> HIDE DEF iter
<1>9. /\ iter[{}] = <<>>
      /\ \A s \in SUBSET (1..n) : s # {} => iter[s] = Taken(iter[s \ {Max(s)}], at[Max(s)])
  BY <1>1, <1>8 DEF Runs
<1> DEFINE wrong == {k \in 0..n : iter[1..k] \notin V}
<1>10. CASE wrong # {}
  <2>0. wrong \subseteq Nat
    BY <1>1
  <2>1. PICK k \in wrong : \A j \in wrong : k <= j
    BY <2>0, <1>10, SmallestOf
  <2>2. k # 0
    <3>1. 1..0 = {}
      OBVIOUS
    <3>2. QED
      BY <3>1, <1>4, <1>9, <2>1
  <2>3. k \in 1..n /\ k - 1 \in 0..n /\ ~ (k <= k - 1)
    BY <2>1, <2>2, <1>1
  <2>4. iter[1..(k - 1)] \in V
    BY <2>1, <2>3
  <2>5. iter[1..k] = Taken(iter[1..(k - 1)], at[k])
    BY <2>3, <1>1, <1>9, UpTo
  <2>6. at[k] \in S
    BY <2>3, <1>1
  <2>7. QED
    BY <2>1, <2>4, <2>5, <2>6, <1>3
<1>11. CASE wrong = {}
  BY <1>1, <1>2, <1>11 DEF V
<1>12. QED
  BY <1>10, <1>11

-----------------------------------------------------------------------------
(* Labels of a video, and risks.                                           *)

LEMMA LabelsComeFrom ==
    ASSUME NEW pictures \in Seq(DOMAIN Pictures), NEW s \in scan_video_bytes(pictures)
    PROVE  \E i \in DOMAIN pictures : \E t \in Predicted(pictures[i]) : Bare(t) = Bare(s)
<1> DEFINE R == Listed(Kept(pictures))
<1>1. IsList(R) /\ scan_video_bytes(pictures) = Cut(R)
  BY BatchesShow
<1>2. PICK v \in Merged(R) : Bare(s) = Bare(v)
  BY <1>1, CutScores
<1>3. v \in R
  BY <1>1, MergedScores
<1>4. PICK b \in DOMAIN Batches(pictures) : \E r \in Kept(pictures)[b] : v = Moved(r, b)
  BY <1>3, BatchesShow
<1>5. PICK r \in Kept(pictures)[b] : v = Moved(r, b)
  BY <1>4
<1>6. Bare(v) = Bare(r)
  BY <1>5, BatchesShow, MovedScores DEF Bare
<1>7. PICK i \in DOMAIN Batches(pictures)[b] :
         \E t \in Predicted(Batches(pictures)[b][i]) : Bare(t) = Bare(r)
  BY KeptComesFrom
<1>8. PICK t \in Predicted(Batches(pictures)[b][i]) : Bare(t) = Bare(r)
  BY <1>7
<1>9. Place(b, i) \in DOMAIN pictures /\ t \in Predicted(pictures[Place(b, i)])
  BY <1>8, BatchShows
<1>10. QED
  BY <1>2, <1>6, <1>8, <1>9

LEMMA VideoLabels ==
    ASSUME NEW pictures \in Seq(DOMAIN Pictures)
    PROVE  /\ IsShort(scan_video_bytes(pictures))
           /\ IsShort(_scan_image_arrays(pictures))
           /\ scan_video_bytes(pictures) \subseteq Entry
           /\ Cardinality(scan_video_bytes(pictures)) \in 0..top_k
<1>1. IsShort(scan_video_bytes(pictures)) /\ Cardinality(scan_video_bytes(pictures)) \in 0..top_k
  BY BatchesShow, CutScores
<1>2. IsShort(_scan_image_arrays(pictures))
  BY PicturesShow, CutScores
<1>3. QED
  BY <1>1, <1>2 DEF IsShort, IsList

Risks(scores, c) ==
    {_clip_confidence_to_risk_score(s.confidence) : s \in {t \in scores : c \in t.categories}}

LEMMA RisksAreScores ==
    ASSUME NEW scores, scores \subseteq Entry, NEW c \in DOMAIN _category_scores(scores)
    PROVE  /\ _category_scores(scores)[c] \in Risks(scores, c)
           /\ \A r \in Risks(scores, c) : r <= _category_scores(scores)[c]
           /\ _category_scores(scores)[c] \in 0..99
           /\ Risks(scores, c) \subseteq 0..99
<1>1. \A d \in 0..100 : _clip_confidence_to_risk_score(d) \in 0..99
  BY DEF _clip_confidence_to_risk_score, Least
<1>2. \A s \in scores : s.confidence \in 0..100
  BY DEF Entry
<1>3. Risks(scores, c) \subseteq 0..99
  BY <1>1, <1>2 DEF Risks
<1>4. c \in UNION {s.categories : s \in scores}
  BY DEF _category_scores
<1>5. Risks(scores, c) # {}
  BY <1>4 DEF Risks
<1>6. _category_scores(scores)[c] = Max(Risks(scores, c))
  BY <1>4 DEF _category_scores, Risks
<1>7. Max(Risks(scores, c)) \in Risks(scores, c) /\ \A r \in Risks(scores, c) : r <= Max(Risks(scores, c))
  <2>1. 99 \in Nat
    OBVIOUS
  <2>2. QED
    BY <1>3, <1>5, <2>1, LargestOf
<1>8. QED
  BY <1>3, <1>6, <1>7

\* Of a label of one picture and the labels of the video.

\* Of a label of one picture and the labels of the video.
LEMMA UnsafeLabelsReported ==
    ASSUME NEW pictures \in Seq(DOMAIN Pictures), NEW i \in DOMAIN pictures,
           NEW unsafe \in Predicted(pictures[i]), unsafe.categories # {}
    PROVE  LET labels == scan_video_bytes(pictures)
           IN  \/ \E s \in labels :
                     /\ s.label = unsafe.label
                     /\ s.categories = unsafe.categories
                     /\ s.confidence >= unsafe.confidence
               \/ /\ \A s \in labels : s.label # unsafe.label /\ s.confidence >= unsafe.confidence
                  /\ Cardinality(labels) = top_k
               \/ \E j \in DOMAIN pictures : \E s \in Predicted(pictures[j]) :
                     /\ s.label = unsafe.label
                     /\ s.categories = {}
                     /\ s.confidence >= unsafe.confidence
<1> DEFINE labels == scan_video_bytes(pictures)
           c == unsafe.confidence
           likely == Unplaced(c, labels)
           one == Unplaced(c, Cut(All(pictures)))
<1>0. /\ IsShort(Predicted(pictures[i])) /\ unsafe \in Entry /\ c \in Nat
      /\ IsList(All(pictures)) /\ top_k \in Nat
      /\ _scan_image_arrays(pictures) = Cut(All(pictures))
      /\ i \in Nat \ {0}
  <2>1. /\ IsShort(Predicted(pictures[i])) /\ IsList(All(pictures))
        /\ _scan_image_arrays(pictures) = Cut(All(pictures))
        /\ i \in Nat \ {0}
    BY PicturesShow
  <2>2. unsafe \in Entry
    BY <2>1 DEF IsShort, IsList
  <2>3. QED
    BY <2>1, <2>2, Entries, VisionLabelsAssumption
<1>1. IsList(labels) /\ Sole(labels) /\ Cardinality(labels) \in 0..top_k /\ IsFiniteSet(labels)
  BY VideoLabels DEF IsShort, IsList
\* The label in the answer, at least as likely as in the picture.
<1>2. ASSUME NEW s \in labels, s.label = unsafe.label, s.confidence >= c
      PROVE  \/ s.categories = unsafe.categories
             \/ \E j \in DOMAIN pictures : \E t \in Predicted(pictures[j]) :
                   t.label = unsafe.label /\ t.categories = {} /\ t.confidence >= c
  <2>1. s \in Entry
    BY <1>1 DEF IsList
  <2>2. CASE s.categories = {}
    <3>1. PICK j \in DOMAIN pictures : \E t \in Predicted(pictures[j]) : Bare(t) = Bare(s)
      BY LabelsComeFrom
    <3>2. PICK t \in Predicted(pictures[j]) : Bare(t) = Bare(s)
      BY <3>1
    <3>3. t.label = s.label /\ t.confidence = s.confidence /\ t.categories = s.categories
      BY <3>2, Bared
    <3>4. QED
      BY <3>2, <3>3, <2>2, <1>2
  <2>3. CASE s.categories # {}
    <3>1. s.categories = LABEL_CATEGORY_MAP[s.label]
      BY <2>1, <2>3, Entries
    <3>2. unsafe.categories = LABEL_CATEGORY_MAP[unsafe.label]
      BY <1>0, Entries
    <3>3. QED
      BY <3>1, <3>2, <1>2
  <2>4. QED
    BY <2>2, <2>3
<1>3. CASE \E s \in labels : s.label = unsafe.label /\ s.confidence >= c
  BY <1>2, <1>3
<1>4. CASE ~ \E s \in labels : s.label = unsafe.label /\ s.confidence >= c
  <2>1. PICK w \in Merged(All(pictures)) : w.label = unsafe.label /\ w.confidence >= c
    <3>1. /\ Moved(unsafe, i) \in All(pictures) /\ Moved(unsafe, i).label = unsafe.label
          /\ Moved(unsafe, i).confidence = c
      BY <1>0, PicturesShow, MovedScores
    <3>2. QED
      BY <3>1, <1>0, MergedRepresents
  <2>2. IsList(Merged(All(pictures))) /\ Sole(Merged(All(pictures)))
    BY <1>0, MergedScores
  <2>3. Bare(w) \in Unplaced(c, Merged(All(pictures))) /\ Bare(w).label = unsafe.label
    BY <2>1, <2>2, UnplacedScores
  <2>4. \A x \in likely : x.label # unsafe.label
    BY <1>1, <1>4, UnplacedScores
  <2>5. Cardinality(likely) = top_k
    <3>1. /\ Cardinality(likely) = Cardinality(one)
          /\ Cardinality(one) < top_k => likely = one
      BY <1>0, BatchesDoNotMatter
    <3>2. /\ Cardinality(one) \in 0..top_k
          /\ Cardinality(one) = top_k \/ one = Unplaced(c, Merged(All(pictures)))
      BY <1>0, FullOrWhole
    <3> HIDE DEF likely, one
    <3>3. one # likely \/ Cardinality(one) = top_k
      BY <3>2, <2>3, <2>4
    <3>4. QED
      BY <3>1, <3>2, <3>3, <1>0
  <2> DEFINE top == {s \in labels : s.confidence >= c}
  <2>6. top \in SUBSET labels /\ \A x \in likely : \E s \in top : s.label = x.label
    BY <1>1, UnplacedScores
  <2>7. IsFiniteSet(top) /\ Cardinality(top) <= Cardinality(labels) /\ Cardinality(top) \in Nat
    BY <2>6, <1>1, FS_Subset, FS_CardinalityType
  <2>8. Sole(likely)
    BY <1>1, UnplacedScores
  <2> HIDE DEF likely, top
  <2>9. Cardinality(likely) <= Cardinality(top)
    BY <2>6, <2>7, <2>8, FewerLabels
  <2>10. Cardinality(top) = Cardinality(labels) /\ Cardinality(labels) = top_k
    BY <2>5, <2>7, <2>9, <1>0, <1>1
  <2>11. top = labels
    BY <2>6, <2>10, <1>1, FS_Subset
  <2>12. \A s \in labels : s.confidence >= c
    BY <2>11 DEF top
  <2>13. QED
    BY <2>10, <2>12, <1>4
<1>5. QED
  BY <1>3, <1>4

LEMMA RisksAreShown ==
    ASSUME NEW pictures \in Seq(DOMAIN Pictures),
           NEW c \in DOMAIN _category_scores(scan_video_bytes(pictures))
    PROVE  \E i \in DOMAIN pictures :
              LET own == _category_scores(Predicted(pictures[i]))
              IN  c \in DOMAIN own /\ _category_scores(scan_video_bytes(pictures))[c] <= own[c]
<1> DEFINE labels == scan_video_bytes(pictures)
           risk == _category_scores(labels)[c]
<1>1. labels \subseteq Entry
  BY VideoLabels
<1>2. risk \in Risks(labels, c) /\ risk \in 0..99
  <2> HIDE DEF labels
  <2> QED
    BY <1>1, RisksAreScores DEF labels
<1>3. PICK s \in labels : c \in s.categories /\ risk = _clip_confidence_to_risk_score(s.confidence)
  BY <1>2 DEF Risks
<1>4. PICK i \in DOMAIN pictures : \E t \in Predicted(pictures[i]) : Bare(t) = Bare(s)
  BY LabelsComeFrom
<1>5. PICK t \in Predicted(pictures[i]) : Bare(t) = Bare(s)
  BY <1>4
<1>6. t.confidence = s.confidence /\ t.categories = s.categories
  BY <1>5, Bared
<1>7. Predicted(pictures[i]) \subseteq Entry
  BY PicturesShow DEF IsShort, IsList
<1> DEFINE shown == Predicted(pictures[i])
           own == _category_scores(shown)
<1> HIDE DEF shown, risk
<1>8. c \in DOMAIN own
  BY <1>3, <1>5, <1>6 DEF _category_scores, shown
<1>9. risk \in Risks(shown, c)
  BY <1>3, <1>5, <1>6 DEF Risks, shown
<1>10. risk <= own[c]
  BY <1>7, <1>8, <1>9, RisksAreScores DEF shown
<1>11. QED
  BY <1>8, <1>10 DEF shown, risk
=============================================================================
