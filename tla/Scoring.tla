------------------------------- MODULE Scoring -------------------------------
(***************************************************************************)
(* What a content is decided to be (app/services/moderation_service.py),   *)
(* composed from the vision scanner with its threads, the labels of the    *)
(* pictures it is given, the detectors and an untouched policy.  The event *)
(* loop scans and decides without an await in between; a text's model      *)
(* answer and an audio's transcript are awaited before.                    *)
(***************************************************************************)
EXTENDS VisionScanner, VisionLabels, Detectors

CONSTANTS
    Texts,    \* texts moderated, transcripts and hints
    Models,   \* answers of the inference service
    Uploads,  \* images and videos
    NoAnswer

IsModel(model) == \A c \in DOMAIN model : c \in ModerationCategory /\ model[c] \in Score

\* Objects by name, whatever its case, with the groups of words and the text in it.
IsObjects(objects) == \A o \in objects : o.groups \subseteq Groups /\ o.text \in Text

\* What the caller and, of an image, the cloud scanner say of an upload, and its
\* pictures: an image is a counted video of one.  `seams' is what is found only
\* where two of the texts meet.
IsUpload(u) ==
    /\ \/ /\ u.kind = "image"
          /\ {u.caption, u.ocr, u.cloud.ocr} \subseteq Text
          /\ IsObjects(u.cloud.labels)
          /\ u.cloud.search \in SafeSearch
          /\ u.counted /\ Len(u.pictures) = 1
       \/ u.kind = "video" /\ u.texts \subseteq Text
    /\ IsObjects(u.objects)
    /\ u.seams \in Text
    /\ u.pictures \in Seq(DOMAIN Pictures \cup {Unreadable})
    /\ u.counted => u.pictures # <<>>

ASSUME ScoringAssumption ==
    /\ Texts \subseteq Text
    /\ \A m \in Models : IsModel(m)
    /\ \A u \in Uploads : IsUpload(u)
    /\ \A l \in Labels : LABEL_CATEGORY_MAP[l] \subseteq ModerationCategory

VARIABLE answer  \* the one the event loop is about to return

scoringVars == <<vars, answer>>

ScoringInit == Init /\ answer = NoAnswer

-----------------------------------------------------------------------------
(* Answers.                                                                *)

\* moderate_text, after the awaited answer of the inference service.
TextAnswer(text, model) ==
    [kind |-> "text", text |-> text, model |-> model,
     results |-> ModerateWithInference(text, model)]

\* What the code itself writes before a hint and before the cloud's labels.
Written == [Silence EXCEPT !.markers = {"upper", "lower", "other", "long"}]

\* _audio_transcript: the transcript, then the hint.
Transcript(heard, hint) ==
    Join({heard, hint} \cup IF Silence \in {heard, hint} THEN {} ELSE {Written})

\* moderate_audio: a transcription that failed leaves the caller's hint.
AudioAnswer(heard, hint) ==
    [kind |-> "audio", text |-> Transcript(heard, hint), model |-> NoLabels,
     results |-> Moderate(Transcript(heard, hint))]

_merge_unique(first, second) ==
    first \cup {o \in second : \A p \in first : p.name # o.name}

\* ImageScanResult.caption
CloudCaption(labels) == IF labels = {} THEN Silence ELSE Join({Written} \cup WordsOf(labels))

\* Of an image the caller's caption and text keep out the cloud's.
Caption(image) ==
    IF image.caption # Silence THEN image.caption ELSE CloudCaption(image.cloud.labels)
OcrText(image) == IF image.ocr # Silence THEN image.ocr ELSE image.cloud.ocr

Detected(upload) ==
    IF upload.kind = "image" THEN _merge_unique(upload.objects, upload.cloud.labels)
    ELSE upload.objects

\* moderate_image, moderate_video; labels and visual risks are empty without
\* the local scan.
PictureResults(upload, visual) ==
    IF upload.kind = "image"
    THEN moderate_image(Caption(upload), Detected(upload), OcrText(upload), upload.seams,
                        upload.cloud.search, visual)
    ELSE moderate_video(upload.texts, Detected(upload), upload.seams, visual)

PictureAnswer(upload, labels) ==
    [kind |-> "picture", upload |-> upload, labels |-> labels,
     results |-> PictureResults(upload, _category_scores(labels))]

NotScanned == {}

-----------------------------------------------------------------------------
(* Steps.                                                                  *)

Free == stage["loop"] = "idle" /\ answer = NoAnswer

AnswerText ==
    /\ Free
    /\ \E text \in Texts, model \in Models : answer' = TextAnswer(text, model)
    /\ UNCHANGED vars

AnswerAudio ==
    /\ Free
    /\ \E heard, hint \in Texts \cup {Silence} : answer' = AudioAnswer(heard, hint)
    /\ UNCHANGED vars

\* A picture given by its description only.
AnswerDescribed ==
    /\ Free
    /\ \E upload \in Uploads : answer' = PictureAnswer(upload, NotScanned)
    /\ UNCHANGED vars

AnswerScanned ==
    /\ Predict
    /\ \E upload \in Uploads :
          /\ Sampled(upload) # <<>>
          /\ answer' = PictureAnswer(upload, scan_video_bytes(Sampled(upload)))

\* The scan fell back: the other sources decide.
AnswerUnscanned ==
    /\ FallBack
    /\ \E upload \in Uploads : answer' = PictureAnswer(upload, NotScanned)

StartUpload(s) ==
    /\ Free
    /\ StartScan(s)
    /\ UNCHANGED answer

Respond ==
    /\ answer # NoAnswer
    /\ answer' = NoAnswer
    /\ UNCHANGED vars

RunLoop ==
    \/ AnswerScanned
    \/ AnswerUnscanned
    \/ (EnsureModel("loop") \/ Preprocess) /\ UNCHANGED answer

RunWarmup == Run("warmup") /\ UNCHANGED answer

ScoringNext ==
    \/ StartWarmup /\ UNCHANGED answer
    \/ \E s \in Scans : StartUpload(s)
    \/ Respond
    \/ AnswerText
    \/ AnswerAudio
    \/ AnswerDescribed
    \/ RunLoop
    \/ RunWarmup

\* Fairness of the threads, as in VisionScanner.
ScoringSpec ==
    /\ ScoringInit
    /\ [][ScoringNext]_scoringVars
    /\ \A t \in Threads : WF_vars(Run(t))

-----------------------------------------------------------------------------
(* Properties.                                                             *)

\* Words of a game and lower-case letters are in both texts or in neither.
SameSofteners(weak, text) ==
    \A marker \in {"game", "lower"} : marker \in text.markers => marker \in weak.markers

\* No evidence that the other does not show.
Weaker(text, model, than) ==
    /\ \A c \in ModerationCategory : text.matches[c] <= than.text.matches[c]
    /\ text.markers \subseteq than.text.markers
    /\ SameSofteners(text, than.text)
    /\ DOMAIN model \subseteq DOMAIN than.model
    /\ \A c \in DOMAIN model : model[c] <= than.model[c]

\* Under an untouched policy, adding evidence never clears a content that was
\* flagged: another pattern, a marker, a higher score of the model.  Help-seeking
\* words lower a score and the cap on the model's toxicity lowers another, down
\* from a block, but some category still asks for review.  Two additions do clear
\* a text and are left out: gaming slang, which is meant to, and lower-case
\* letters, which end the suspicion of a text in capitals.
MoreEvidenceNeverClears ==
    answer # NoAnswer /\ answer.kind # "picture" =>
        \A protected \in BOOLEAN : Action(answer.results, protected) = "allow" =>
            \A text \in Texts, model \in Models : Weaker(text, model, answer) =>
                Action(ModerateWithInference(text, model), protected) = "allow"

\* The texts of a picture that are joined for the rules.
Parts(upload) ==
    (IF upload.kind = "image" THEN {Caption(upload), OcrText(upload)} ELSE upload.texts)
        \cup WordsOf(Detected(upload))

\* What is found in the names, what SafeSearch answered and whether the text
\* that counts for it mentions the underage, without what the rules say.
SeenAlone(upload) ==
    LET underage == IF upload.kind = "image" THEN OcrText(upload)
                    ELSE Join(Parts(upload) \cup {upload.seams})
    IN  Seen(Silence, GroupsOf(Detected(upload)), "underage" \in underage.markers,
             IF upload.kind = "image" THEN upload.cloud.search ELSE NotSearched, <<>>)

\* A picture is decided at least as strictly as what is seen in it, or its scan,
\* would be alone, so that a scan that fell back leaves what the others say.  Its
\* texts are joined before the rules are asked, and one softens another: a name
\* with gaming slang in it clears a caption, lower-case letters clear a text in
\* capitals, other words turn a block into a review.  But for the first two,
\* words that would be flagged by themselves are never cleared by the others.
SourcesNeverClear ==
    answer # NoAnswer /\ answer.kind = "picture" =>
        LET upload == answer.upload
            whole  == Join(Parts(upload) \cup {upload.seams})
            shown  == Seen(Silence, {}, FALSE, NotSearched, _category_scores(answer.labels))
        IN  \A protected \in BOOLEAN :
              /\ \A alone \in {SeenAlone(upload), shown} :
                    P!Severity[Action(alone, protected)]
                        <= P!Severity[Action(answer.results, protected)]
              /\ Action(answer.results, protected) = "allow" =>
                    \A some \in SUBSET Parts(upload) : SameSofteners(Join(some), whole) =>
                        Action(Moderate(Join(some)), protected) = "allow"

Scanned == answer # NoAnswer /\ answer.kind = "picture" /\ answer.labels # NotScanned

\* An unsafe label of a picture that was looked at reaches the answer of the
\* video, with its categories, unless top_k labels at least as likely leave no
\* room for it, or the same label was at least as likely beside a safe one; and
\* no category has a risk that no single picture shows.
VideoRiskExplained ==
    Scanned =>
        LET pictures == Sampled(answer.upload)
            shown    == [i \in DOMAIN pictures |-> Predicted(pictures[i])]
            risk     == _category_scores(answer.labels)
        IN  /\ \A i \in DOMAIN pictures : \A unsafe \in {s \in shown[i] : s.categories # {}} :
                  \/ \E s \in answer.labels :
                        /\ s.label = unsafe.label
                        /\ s.categories = unsafe.categories
                        /\ s.confidence >= unsafe.confidence
                  \/ /\ \A s \in answer.labels :
                            s.label # unsafe.label /\ s.confidence >= unsafe.confidence
                     /\ Cardinality(answer.labels) = top_k
                  \/ \E j \in DOMAIN pictures : \E s \in shown[j] :
                        /\ s.label = unsafe.label
                        /\ s.categories = {}
                        /\ s.confidence >= unsafe.confidence
            /\ \A c \in DOMAIN risk : \E i \in DOMAIN pictures :
                  LET own == _category_scores(shown[i])
                  IN  c \in DOMAIN own /\ risk[c] <= own[c]

\* Labels that are at least so likely, wherever they are in the list.
AtLeast(confidence, labels) ==
    {[label |-> s.label, confidence |-> s.confidence, categories |-> s.categories] :
        s \in {s \in labels : s.confidence >= confidence}}

\* The size of the batches shows only in labels that are exactly as likely as
\* the last one there is room for: down to every confidence, merging and cutting
\* batch by batch leaves as many labels as one batch with everything would, and
\* as long as they are not top_k yet the same ones, for the same categories.
BatchingInvisible ==
    Scanned =>
        LET one == _scan_image_arrays(Sampled(answer.upload))
        IN  \A c \in 0..100 :
                /\ Cardinality(AtLeast(c, answer.labels)) = Cardinality(AtLeast(c, one))
                /\ Cardinality(AtLeast(c, one)) < top_k =>
                      AtLeast(c, answer.labels) = AtLeast(c, one)

\* Of a video that can be read, no picture is looked at twice, and a scene is
\* looked at if it lasts as long as the distance between samples: the step, or
\* in a long counted video what max_frames samples from end to end leave
\* between them.  A video without a count is looked at for max_frames steps.
ScenesSampled ==
    Scanned /\ max_frames > 1 /\ (\A i \in DOMAIN answer.upload.pictures :
                                     answer.upload.pictures[i] # Unreadable) =>
        LET video      == answer.upload
            at         == SampledAt(video)
            candidates == RoundedUp(Len(video.pictures), step)
            distance   == IF candidates <= max_frames \/ ~ video.counted THEN step
                          ELSE step * RoundedUp(candidates - 1, max_frames - 1)
            seenUpTo   == IF video.counted THEN Len(video.pictures)
                          ELSE Least(Len(video.pictures), step * max_frames)
        IN  /\ \A i, j \in DOMAIN at : i < j => at[i] < at[j]
            /\ \A first \in 1..(seenUpTo - distance + 1) :
                  \E i \in DOMAIN at : at[i] \in first..(first + distance - 1)
=============================================================================
