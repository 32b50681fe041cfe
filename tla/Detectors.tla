------------------------------ MODULE Detectors ------------------------------
(***************************************************************************)
(* From the evidence in one content to a score per category                *)
(* (app/detectors.py), and under an untouched policy to a decision.        *)
(* Scores are hundredths.  A text is what the pattern library matches in   *)
(* it and the markers found in it; the text model's answer is a function   *)
(* on the labels it scored.                                                *)
(***************************************************************************)
EXTENDS Integers, FiniteSetsExt

ModerationCategory ==
    {"toxicity", "harassment", "hate_speech", "sexual_content", "self_harm", "violence",
     "extremism", "spam_scam", "child_safety", "pii_leakage", "illegal_activity"}

Score == 0..100

\* The review threshold and the block threshold of a category.
DEFAULT_CATEGORY_THRESHOLDS ==
    LET at(review, block) == [review |-> review, block |-> block]
    IN  [toxicity |-> at(55, 82), harassment |-> at(52, 80), hate_speech |-> at(45, 72),
         sexual_content |-> at(58, 86), self_harm |-> at(35, 68), violence |-> at(45, 78),
         extremism |-> at(30, 65), spam_scam |-> at(55, 84), child_safety |-> at(20, 50),
         pii_leakage |-> at(40, 70), illegal_activity |-> at(42, 73)]

P == INSTANCE Policy WITH
        Categories <- ModerationCategory, Top <- 100, MinThreshold <- 5,
        DefaultThresholds <- DEFAULT_CATEGORY_THRESHOLDS

-----------------------------------------------------------------------------
(* Evidence in a text.                                                     *)

\* Scores of the library's regular expressions ...
PATTERN_LIBRARY ==
    [toxicity |-> {62}, harassment |-> {88}, hate_speech |-> {82, 90, 93, 94, 96},
     sexual_content |-> {78}, self_harm |-> {92}, violence |-> {87, 95}, extremism |-> {93},
     spam_scam |-> {80, 82}, child_safety |-> {99}, pii_leakage |-> {58, 72},
     illegal_activity |-> {86}]

\* ... and those of the phrases added to it.
_add_phrase_rules ==
    [toxicity |-> {}, harassment |-> {62, 82, 86}, hate_speech |-> {62, 86},
     sexual_content |-> {64, 88, 90}, self_harm |-> {90, 92}, violence |-> {90}, extremism |-> {},
     spam_scam |-> {90}, child_safety |-> {96}, pii_leakage |-> {90}, illegal_activity |-> {90}]

\* No pattern of the category matches.
Unmatched == 0

\* The highest score matched in each category.
Matches ==
    {m \in [ModerationCategory -> 0..99] :
        \A c \in ModerationCategory :
            m[c] \in PATTERN_LIBRARY[c] \cup _add_phrase_rules[c] \cup {Unmatched}}

\* A URL; upper-case, lower-case and other characters, more than twelve of them;
\* words of scams, and the words that are looked for one by one.
Markers ==
    {"http", "upper", "lower", "other", "long", "scam", "you", "die", "help me", "game", "underage"}

Text == [matches : Matches, markers : SUBSET Markers]

\* No text; where the code strips a text, a blank one too.
Silence == [matches |-> [c \in ModerationCategory |-> Unmatched], markers |-> {}]

\* Texts one after the other with blanks between them: what is in one of them is
\* in the whole, where the rules cannot tell one from the other.
Join(texts) ==
    [matches |-> [c \in ModerationCategory |-> Max({Unmatched} \cup {t.matches[c] : t \in texts})],
     markers |-> UNION {t.markers : t \in texts}]

Higher(a, b) == IF a >= b THEN a ELSE b

-----------------------------------------------------------------------------
(* Scores of a text: a score per category, and whether it has reasons.     *)

\* isupper: no letter of the whole text is in lower case.
InCapitals(markers) == {"upper", "long"} \subseteq markers /\ "lower" \notin markers

\* FastRuleDetector.score
FastScore(text) ==
    [c \in ModerationCategory |->
        LET marker == CASE c = "spam_scam" /\ "http" \in text.markers -> 50
                        [] c = "toxicity" /\ InCapitals(text.markers) -> 35
                        [] OTHER -> Unmatched
        IN  [score |-> Higher(2, Higher(text.matches[c], marker)),
             reasons |-> text.matches[c] # Unmatched \/ marker # Unmatched]]

Ambiguous(results) ==
    \E c \in ModerationCategory : results[c].score \in 35..70

\* What the context makes of one result of an ambiguous text.
Context(c, result, markers) ==
    LET to(score) == [score |-> score, reasons |-> TRUE]
    IN  CASE c = "spam_scam" /\ "scam" \in markers -> to(Higher(result.score, 83))
          [] c = "harassment" /\ {"you", "die"} \subseteq markers -> to(Higher(result.score, 90))
          [] c = "self_harm" /\ "help me" \in markers -> to(Higher(result.score - 18, 10))
          [] c = "toxicity" /\ "game" \in markers -> to(Higher(result.score - 12, 5))
          [] OTHER -> result

\* HybridModerationEngine.moderate: the rules, then rescore_if_needed.
Moderate(text) ==
    LET fast == FastScore(text)
    IN  IF ~ Ambiguous(fast) THEN fast
        ELSE [c \in ModerationCategory |-> Context(c, fast[c], text.markers)]

\* Mutant: the model's toxicity is capped whether or not sexual rules matched.
CappedAlways(c, score, results) ==
    IF c = "toxicity" /\ ~ results[c].reasons
       /\ score >= DEFAULT_CATEGORY_THRESHOLDS["toxicity"].block
    THEN DEFAULT_CATEGORY_THRESHOLDS["toxicity"].review - 1
    ELSE score

\* The model calls sexual phrasing toxic: that alone must not block.
Capped(c, score, results) ==
    IF /\ c = "toxicity"
       /\ results["sexual_content"].reasons
       /\ ~ results[c].reasons
       /\ score >= DEFAULT_CATEGORY_THRESHOLDS["toxicity"].block
    THEN DEFAULT_CATEGORY_THRESHOLDS["toxicity"].review - 1
    ELSE score

\* moderate_with_inference; without a model, or when the call failed, the
\* answer has no labels and the rules decide.
ModerateWithInference(text, answer) ==
    LET results == Moderate(text)
    IN  [c \in ModerationCategory |->
            IF c \notin DOMAIN answer THEN results[c]
            ELSE [score |-> Higher(results[c].score, Capped(c, answer[c], results)),
                  reasons |-> TRUE]]

\* What TransformerModerationRunner.score_text answers: three labels from words
\* in the text while no model is loaded, else every category, three of which
\* the model's labels raise above a hundredth.
HeuristicAnswer(insulted, threatened, scammed) ==
    [toxicity |-> IF insulted THEN 82 ELSE 3, harassment |-> IF threatened THEN 88 ELSE 2,
     spam_scam |-> IF scammed THEN 85 ELSE 2]

ModelAnswer(toxic, insult, obscene) ==
    [c \in ModerationCategory |->
        CASE c = "toxicity" -> Higher(1, toxic)
          [] c = "harassment" -> Higher(1, insult)
          [] c = "sexual_content" -> Higher(1, obscene)
          [] OTHER -> 1]

\* InferenceClient.score_text: any failure becomes an answer without labels.
NoLabels == <<>>

-----------------------------------------------------------------------------
(* Scores of images and videos.                                            *)

\* Words looked for in the names of detected objects: "weapon", of which a "gun"
\* or a "knife" only says what "blood" says; "lingerie" is with "nudity".
Groups == {"weapon", "blood", "nudity", "child", "drugs"}

GroupsOf(objects) == UNION {o.groups : o \in objects}
WordsOf(objects) == {o.text : o \in objects}

Likelihoods == {"UNKNOWN", "UNLIKELY", "POSSIBLE", "LIKELY"}

\* Of the two answers of SafeSearch about sexual content the stronger counts.
SafeSearch == [sexual : Likelihoods, violence : Likelihoods]
NotSearched == [sexual |-> "UNKNOWN", violence |-> "UNKNOWN"]

Searched(likelihood, possible) ==
    CASE likelihood = "LIKELY" -> 86
      [] likelihood = "POSSIBLE" -> possible
      [] OTHER -> 0

\* _apply_image_heuristics
Heuristic(c, groups, underage, search) ==
    CASE c = "violence" ->
            Higher(IF {"weapon", "blood"} \cap groups # {} THEN 82 ELSE 0,
                   Searched(search.violence, 50))
      [] c = "sexual_content" ->
            Higher(IF "nudity" \in groups THEN 80 ELSE 0, Searched(search.sexual, 48))
      [] c = "child_safety" -> IF underage \/ "child" \in groups THEN 94 ELSE 0
      [] c = "illegal_activity" -> IF {"weapon", "drugs"} \cap groups # {} THEN 80 ELSE 0
      [] OTHER -> 0

\* Mutant: the visual scan replaces what the other sources found.
VisualOnly(c, score, visual) ==
    IF c \in DOMAIN visual THEN visual[c] ELSE score

\* _apply_visual_safety_scores: a visual score only raises.
Visual(c, score, visual) ==
    IF c \in DOMAIN visual THEN Higher(score, visual[c]) ELSE score

\* The rules on all the words, then what raises a score only.
Seen(text, groups, underage, search, visual) ==
    LET results == Moderate(text)
    IN  [c \in ModerationCategory |->
            LET score == Higher(results[c].score, Heuristic(c, groups, underage, search))
            IN  [score |-> Visual(c, score, visual), reasons |-> results[c].reasons]]

\* moderate_image; `seams' is what is found only where two texts meet.
moderate_image(caption, objects, ocr, seams, search, visual) ==
    Seen(Join({caption, ocr, seams} \cup WordsOf(objects)), GroupsOf(objects),
         "underage" \in ocr.markers, search, visual)

\* moderate_video: what is said, described and read; SafeSearch is not asked.
moderate_video(texts, objects, seams, visual) ==
    LET said == Join(texts \cup {seams} \cup WordsOf(objects))
    IN  Seen(said, GroupsOf(objects), "underage" \in said.markers, NotSearched, visual)

-----------------------------------------------------------------------------
(* Deciding.                                                               *)

\* A policy that nobody has touched, in protected mode or not.
Untouched(protected) ==
    [thresholds |-> [c \in ModerationCategory |-> [review |-> P!Unset, block |-> P!Unset]],
     review_enabled |-> TRUE, protected_mode |-> protected]

Action(results, protected) ==
    P!evaluate_policy([c \in ModerationCategory |-> results[c].score], Untouched(protected))
=============================================================================
