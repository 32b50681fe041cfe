---------------------------- MODULE VisionLabels ----------------------------
(***************************************************************************)
(* From the pictures of a video to a risk per category                     *)
(* (app/vision_safety.py): which pictures are looked at, which labels they *)
(* get, how the labels of batches are merged and cut, and what is left.    *)
(* Similarities are thousandths; confidences are rounded to hundredths,    *)
(* and so are risks.                                                       *)
(***************************************************************************)
EXTENDS Integers, Sequences, FiniteSets, SequencesExt, FiniteSetsExt

CONSTANTS
    LABEL_CATEGORY_MAP,  \* categories of each label, none for a safe one
    Pictures,            \* by kind of picture: the labels with their similarity, likeliest first
    Unreadable,          \* a picture that cannot be decoded
    top_k, batch_size, max_frames,
    step                 \* pictures from one candidate to the next

Labels == DOMAIN LABEL_CATEGORY_MAP

\* local_vision_threshold, of what is not rounded yet, and UNSAFE_DOMINANCE_MARGIN.
Threshold == 230
Margin == 1

\* round: to the nearest, a half to the even one.
Rounded(x) == IF x % 10 = 5 THEN 2 * ((x + 10) \div 20) ELSE (x + 5) \div 10

\* A label as similar to a picture as the cosine of their features says.
Similarity == [label : Labels, similarity : -1000..1000]

\* Where topk finds labels equally similar, a picture lists them in either order.
ASSUME VisionLabelsAssumption ==
    /\ {top_k, batch_size, max_frames, step} \subseteq Nat \ {0}
    /\ Unreadable \notin DOMAIN Pictures
    /\ \A p \in DOMAIN Pictures :
          /\ Pictures[p] \in Seq(Similarity)
          /\ \A i, j \in DOMAIN Pictures[p] : i < j =>
                /\ Pictures[p][i].label # Pictures[p][j].label
                /\ Pictures[p][i].similarity >= Pictures[p][j].similarity
          /\ \A l \in Labels : \E i \in DOMAIN Pictures[p] : Pictures[p][i].label = l

-----------------------------------------------------------------------------
(* _sample_video_frames: a video is a sequence of pictures, whose number   *)
(* the container states (counted) or not.                                  *)

Least(a, b) == IF a <= b THEN a ELSE b
RoundedUp(a, b) == (a + b - 1) \div b

\* Mutant: a long video is cut to its first candidates.
ChosenFirst(candidates) == [i \in 1..Least(candidates, max_frames) |-> i - 1]

\* Of a counted video: all candidates, or as many as linspace spreads from the
\* first to the last one, rounded down.
Chosen(candidates) ==
    IF candidates <= max_frames THEN [i \in 1..candidates |-> i - 1]
    ELSE [i \in 1..max_frames |->
            IF max_frames = 1 THEN 0 ELSE ((i - 1) * (candidates - 1)) \div (max_frames - 1)]

\* Of another video: the first ones.
First(candidates) == [i \in 1..Least(candidates, max_frames) |-> i - 1]

\* A video without a count is read from its start up to what cannot be read.
Reached(video) ==
    LET bad == SelectInSeq(video.pictures, LAMBDA p : p = Unreadable)
    IN  IF video.counted \/ bad = 0 THEN Len(video.pictures) ELSE bad - 1

SampledAt(video) ==
    LET candidates == RoundedUp(Reached(video), step)
        positions  == IF video.counted THEN Chosen(candidates) ELSE First(candidates)
    IN  [i \in DOMAIN positions |-> 1 + step * positions[i]]

\* Frames that cannot be read are left out.
Sampled(video) ==
    FoldLeft(LAMBDA frames, at : IF video.pictures[at] = Unreadable THEN frames
                                 ELSE Append(frames, video.pictures[at]),
             <<>>, SampledAt(video))

-----------------------------------------------------------------------------
(* Labels of one picture, of a batch, of a video: lists of scores with the *)
(* categories they count for, as sets of scores with their place.          *)

\* _predict_labels_batch for one picture, and
\* _remove_context_dominated_unsafe_labels: a safe label of the same picture is
\* clearly likelier.
Predicted(picture) ==
    LET top           == 1..Least(top_k, Len(Pictures[picture]))
        label(i)      == Pictures[picture][i].label
        similarity(i) == LET x == Pictures[picture][i].similarity IN IF x < 0 THEN - x ELSE x
        dominated(i)  == \E safe \in top :
                            /\ LABEL_CATEGORY_MAP[label(safe)] = {}
                            /\ Rounded(similarity(i)) + Margin < Rounded(similarity(safe))
    IN  {[label |-> label(i), confidence |-> Rounded(similarity(i)),
          categories |-> IF similarity(i) >= Threshold /\ ~ dominated(i)
                         THEN LABEL_CATEGORY_MAP[label(i)] ELSE {},
          place |-> i] : i \in top}

\* The scores of several lists of at most top_k, one list after the other.
Listed(lists) ==
    UNION {{[s EXCEPT !.place = (i - 1) * top_k + s.place] : s \in lists[i]} : i \in DOMAIN lists}

\* Mutant: the score found last wins.
MergedLast(list) ==
    {s \in list : \A t \in list : t.label = s.label => s.place >= t.place}

\* merged_labels: the highest score of a label wins, of equal ones the first.
Merged(list) ==
    {s \in list : \A t \in list : t.label = s.label =>
        \/ s.confidence > t.confidence
        \/ s.confidence = t.confidence /\ s.place <= t.place}

\* A label stays where it was inserted, whichever of its scores wins.
Inserted(list, s) == Min({t.place : t \in {t \in list : t.label = s.label}})

\* Sorting keeps the order of insertion of labels that are equally likely.
Before(list, s, t) ==
    \/ s.confidence > t.confidence
    \/ s.confidence = t.confidence /\ Inserted(list, s) < Inserted(list, t)

Rank(list, s) == 1 + Cardinality({t \in Merged(list) : Before(list, t, s)})

\* Merged, sorted and cut to the first top_k.
Cut(list) ==
    {[s EXCEPT !.place = Rank(list, s)] : s \in {t \in Merged(list) : Rank(list, t) <= top_k}}

_scan_image_arrays(pictures) ==
    Cut(Listed([i \in DOMAIN pictures |-> Predicted(pictures[i])]))

\* Mutant: a batch starts after the first picture that the last one left.
BatchesSkipping(pictures) ==
    [b \in 1..RoundedUp(Len(pictures), batch_size) |->
        SubSeq(pictures, (b - 1) * (batch_size + 1) + 1,
               Least((b - 1) * (batch_size + 1) + batch_size, Len(pictures)))]

Batches(pictures) ==
    [b \in 1..RoundedUp(Len(pictures), batch_size) |->
        SubSeq(pictures, (b - 1) * batch_size + 1, Least(b * batch_size, Len(pictures)))]

\* scan_video_bytes: each batch is merged and cut, and so is the whole.
scan_video_bytes(pictures) ==
    LET batches == Batches(pictures)
    IN  Cut(Listed([b \in DOMAIN batches |-> _scan_image_arrays(batches[b])]))

_clip_confidence_to_risk_score(confidence) ==
    IF confidence < 23 THEN 0 ELSE Least(99, 55 + ((confidence - 23) * 44) \div 17)

\* The risk of a category is that of its likeliest label.
_category_scores(scores) ==
    [c \in UNION {s.categories : s \in scores} |->
        Max({_clip_confidence_to_risk_score(s.confidence) :
                s \in {t \in scores : c \in t.categories}})]
=============================================================================
