---------------------------- MODULE ScoringProofs ----------------------------
(***************************************************************************)
(* For any texts and models: more evidence never clears a content, and no  *)
(* source of a picture clears what another is flagged for, but for gaming  *)
(* slang and lower-case letters.  For any uploads, labels, top_k,          *)
(* batch_size and max_frames: what the answers on videos rest on.          *)
(* And the composition is the scanner of VisionProofs with answers beside  *)
(* it.                                                                     *)
(***************************************************************************)
EXTENDS Scoring, VisionProofs

LEMMA ScannerStep ==
    ASSUME [ScoringNext]_scoringVars
    PROVE  [Next]_vars
  BY DEF ScoringNext, scoringVars, StartUpload, Respond, AnswerText, AnswerAudio, AnswerDescribed,
         RunLoop, RunWarmup, AnswerScanned, AnswerUnscanned, Next, Run, Threads, EnsureModel

\* Answers ride on the scanner: the composed system is the scanner's
\* specification, fairness included, with answers beside it.
THEOREM ScoringImplementsScanner == ScoringSpec => Spec
<1>1. ScoringInit => Init
  BY DEF ScoringInit
<1>2. QED
  BY <1>1, ScannerStep, PTL DEF ScoringSpec, Spec

-----------------------------------------------------------------------------
(* Thresholds of an untouched policy.                                      *)

ReviewAt(c, protected) == P!Threshold(Untouched(protected), c, "review")

LEMMA Defaults ==
    \A c \in ModerationCategory :
        LET default == DEFAULT_CATEGORY_THRESHOLDS[c]
        IN  /\ default.review \in 20..58
            /\ default.block \in default.review..100
            /\ c = "toxicity" => default.review = 55 /\ default.block = 82
            /\ c = "self_harm" => default.review = 35
  BY DEF DEFAULT_CATEGORY_THRESHOLDS, ModerationCategory

LEMMA Thresholds ==
    ASSUME NEW c \in ModerationCategory, NEW protected \in BOOLEAN
    PROVE  /\ ReviewAt(c, protected) \in 1..580
           /\ P!Threshold(Untouched(protected), c, "block") \in Int
           /\ ReviewAt(c, protected) <= P!Threshold(Untouched(protected), c, "block")
           /\ c = "toxicity" => ReviewAt(c, protected) >= 440
           /\ c = "self_harm" => ReviewAt(c, protected) >= 280
<1> DEFINE default == DEFAULT_CATEGORY_THRESHOLDS[c]
           row == Untouched(protected)
<1>1. /\ P!Effective(row, c)["review"] = default.review
      /\ P!Effective(row, c)["block"] = default.block
  BY DEF P!Effective, P!_sanitize_override, P!Levels, P!Unset, Untouched
<1>2. row.protected_mode = protected
  BY DEF Untouched
<1>3. /\ default.review \in 20..58
      /\ default.block \in default.review..100
      /\ c = "toxicity" => default.review = 55 /\ default.block = 82
      /\ c = "self_harm" => default.review = 35
  BY Defaults
<1>4. P!Factor["review"] = 8 /\ P!Factor["block"] = 9
  BY DEF P!Factor
<1>5. /\ P!Threshold(row, c, "review") =
            IF ~ protected THEN 10 * default.review
            ELSE IF 8 * default.review > 50 THEN 8 * default.review ELSE 50
      /\ P!Threshold(row, c, "block") =
            IF ~ protected THEN 10 * default.block
            ELSE IF 9 * default.block > 50 THEN 9 * default.block ELSE 50
  BY <1>1, <1>2, <1>4 DEF P!Threshold
<1> HIDE DEF default, row
<1>6. QED
  BY <1>3, <1>5 DEF ReviewAt, row

Results == [ModerationCategory -> [score : Score, reasons : BOOLEAN]]

LEMMA ScoresAreIntegers ==
    ASSUME NEW results \in Results
    PROVE  \A c \in ModerationCategory : results[c].score \in Int
  BY DEF Results, Score

\* Some category asks for review at least.
Flagged(results, protected) ==
    \E c \in ModerationCategory : 10 * results[c].score >= ReviewAt(c, protected)

LEMMA AllowedUnlessFlagged ==
    ASSUME NEW results \in Results, NEW protected \in BOOLEAN
    PROVE  Action(results, protected) = "allow" <=> ~ Flagged(results, protected)
<1> DEFINE scores == [c \in ModerationCategory |-> results[c].score]
           row == Untouched(protected)
<1>1. DOMAIN scores = ModerationCategory /\ row.review_enabled = TRUE
  BY DEF Untouched
<1>2. \A c \in ModerationCategory : scores[c] = results[c].score /\ scores[c] \in Int
  BY DEF Results, Score
<1>3. P!Blocking(scores, row) =
        {c \in ModerationCategory : 10 * results[c].score >= P!Threshold(row, c, "block")}
  BY <1>1, <1>2 DEF P!Blocking
<1>4. P!Reviewing(scores, row) =
        {c \in ModerationCategory \ P!Blocking(scores, row) :
            10 * results[c].score >= ReviewAt(c, protected)}
  BY <1>1, <1>2 DEF P!Reviewing, ReviewAt
<1>5. Action(results, protected) = "allow"
        <=> P!Blocking(scores, row) = {} /\ P!Reviewing(scores, row) = {}
  BY DEF Action, P!evaluate_policy
<1>6. \A c \in ModerationCategory :
        10 * results[c].score >= P!Threshold(row, c, "block")
            => 10 * results[c].score >= ReviewAt(c, protected)
  <2> TAKE c \in ModerationCategory
  <2>1. /\ ReviewAt(c, protected) \in Int
        /\ P!Threshold(row, c, "block") \in Int
        /\ ReviewAt(c, protected) <= P!Threshold(row, c, "block")
    BY Thresholds DEF row
  <2>2. results[c].score \in Int
    BY <1>2
  <2> HIDE DEF row
  <2>3. QED
    BY <2>1, <2>2
<1> HIDE DEF scores, row
<1>7. QED
  BY <1>3, <1>4, <1>5, <1>6 DEF Flagged

-----------------------------------------------------------------------------
(* Scores of the rules.                                                    *)

\* What the library and the markers can make of the categories that matter.
LEMMA FastScores ==
    ASSUME NEW text \in Text
    PROVE  /\ FastScore(text) \in Results
           /\ \A c \in ModerationCategory : FastScore(text)[c].score \in 2..99
           /\ FastScore(text)["toxicity"].score \in {2, 35, 62}
           /\ FastScore(text)["self_harm"].score \in {2, 90, 92}
           /\ FastScore(text)["sexual_content"].reasons
                 => FastScore(text)["sexual_content"].score >= 64
<1> DEFINE fast == FastScore(text)
           marker(c) == CASE c = "spam_scam" /\ "http" \in text.markers -> 50
                          [] c = "toxicity" /\ InCapitals(text.markers) -> 35
                          [] OTHER -> Unmatched
<1>1. /\ \A c \in ModerationCategory : text.matches[c] \in 0..99
      /\ text.matches["toxicity"] \in {0, 62}
      /\ text.matches["self_harm"] \in {0, 90, 92}
      /\ text.matches["sexual_content"] \in {0, 64, 78, 88, 90}
  BY DEF Text, Matches, PATTERN_LIBRARY, _add_phrase_rules, Unmatched, ModerationCategory
<1>2. \A c \in ModerationCategory :
        /\ fast[c] = [score |-> Higher(2, Higher(text.matches[c], marker(c))),
                      reasons |-> text.matches[c] # Unmatched \/ marker(c) # Unmatched]
        /\ marker(c) \in {0, 35, 50}
        /\ c \notin {"spam_scam", "toxicity"} => marker(c) = 0
        /\ c # "spam_scam" => marker(c) # 50
  BY DEF FastScore, Unmatched
<1> HIDE DEF marker, fast
<1>3. \A c \in ModerationCategory :
        /\ fast[c].score \in 2..99
        /\ fast[c].reasons \in BOOLEAN
        /\ fast[c].score = Higher(2, Higher(text.matches[c], marker(c)))
        /\ fast[c].reasons = (text.matches[c] # 0 \/ marker(c) # 0)
        /\ fast[c] \in [score : Score, reasons : BOOLEAN]
  <2> TAKE c \in ModerationCategory
  <2> DEFINE match == text.matches[c]
             mark == marker(c)
             high == Higher(2, Higher(match, mark))
             because == (match # Unmatched \/ mark # Unmatched)
  <2>1. fast[c] = [score |-> high, reasons |-> because]
    BY <1>2
  <2>2. match \in 0..99 /\ mark \in {0, 35, 50}
    BY <1>1, <1>2
  <2>3. because \in BOOLEAN /\ because = (match # 0 \/ mark # 0)
    BY DEF Unmatched
  <2> HIDE DEF match, mark
  <2>4. high \in 2..99 /\ high \in Score
    BY <2>2 DEF Higher, Score
  <2> HIDE DEF high, because
  <2>5. fast[c] \in [score : Score, reasons : BOOLEAN]
    BY <2>1, <2>3, <2>4
  <2>6. fast[c].score = high /\ fast[c].reasons = because
    BY <2>1
  <2>7. QED
    BY <2>3, <2>4, <2>5, <2>6 DEF match, mark, high
<1>4. {"toxicity", "self_harm", "sexual_content"} \subseteq ModerationCategory
  BY DEF ModerationCategory
<1>5. fast = [c \in ModerationCategory |-> fast[c]]
  BY DEF FastScore, fast
<1>6. fast \in Results
  BY <1>3, <1>5 DEF Results
<1>7. fast["toxicity"].score \in {2, 35, 62}
  BY <1>1, <1>2, <1>3, <1>4 DEF Higher
<1>8. fast["self_harm"].score \in {2, 90, 92}
  BY <1>1, <1>2, <1>3, <1>4 DEF Higher
<1>9. fast["sexual_content"].reasons => fast["sexual_content"].score >= 64
  BY <1>1, <1>2, <1>3, <1>4 DEF Higher
<1>10. QED
  BY <1>3, <1>6, <1>7, <1>8, <1>9 DEF fast

\* How far the context moves one result.
Rescored(c, markers, score, because, moved) ==
    /\ moved \in [score : Score, reasons : BOOLEAN]
    /\ c \notin {"toxicity", "self_harm"} => moved.score >= score
    /\ c = "self_harm" => moved.score >= score - 18 /\ (moved.score <= score \/ moved.score = 10)
    /\ c = "toxicity" => moved.score = IF "game" \in markers THEN Higher(score - 12, 5) ELSE score
    /\ c = "sexual_content" => moved.score = score /\ moved.reasons = because

LEMMA ContextMoves ==
    ASSUME NEW c, NEW markers, NEW score \in 2..99, NEW because \in BOOLEAN
    PROVE  Rescored(c, markers, score, because,
                 Context(c, [score |-> score, reasons |-> because], markers))
<1> DEFINE row(h, r) == [score |-> h, reasons |-> r]
           moved == Context(c, row(score, because), markers)
<1>1. \A h \in Score, r \in BOOLEAN :
        /\ row(h, r) \in [score : Score, reasons : BOOLEAN]
        /\ row(h, r).score = h
        /\ row(h, r).reasons = r
  OBVIOUS
<1>2. score \in Score
  BY DEF Score
<1> SUFFICES Rescored(c, markers, score, because, moved)
  OBVIOUS
<1> USE DEF Rescored
<1>3. CASE c = "spam_scam" /\ "scam" \in markers
  <2> DEFINE high == Higher(score, 83)
  <2>1. moved = row(high, TRUE)
    BY <1>3 DEF Context
  <2>2. high \in Score /\ high >= score
    BY DEF Higher, Score
  <2> HIDE DEF high, row
  <2>3. moved.score = high /\ moved \in [score : Score, reasons : BOOLEAN]
    BY <1>1, <2>1, <2>2
  <2> HIDE DEF moved
  <2>4. QED
    BY <2>2, <2>3, <1>3
<1>4. CASE c = "harassment" /\ {"you", "die"} \subseteq markers
  <2> DEFINE high == Higher(score, 90)
  <2>1. moved = row(high, TRUE)
    BY <1>4 DEF Context
  <2>2. high \in Score /\ high >= score
    BY DEF Higher, Score
  <2> HIDE DEF high, row
  <2>3. moved.score = high /\ moved \in [score : Score, reasons : BOOLEAN]
    BY <1>1, <2>1, <2>2
  <2> HIDE DEF moved
  <2>4. QED
    BY <2>2, <2>3, <1>4
<1>5. CASE c = "self_harm" /\ "help me" \in markers
  <2> DEFINE high == Higher(score - 18, 10)
  <2>1. moved = row(high, TRUE)
    BY <1>5 DEF Context
  <2>2. high \in Score /\ high >= score - 18 /\ (high <= score \/ high = 10)
    BY DEF Higher, Score
  <2> HIDE DEF high, row
  <2>3. moved.score = high /\ moved \in [score : Score, reasons : BOOLEAN]
    BY <1>1, <2>1, <2>2
  <2> HIDE DEF moved
  <2>4. QED
    BY <2>2, <2>3, <1>5
<1>6. CASE c = "toxicity" /\ "game" \in markers
  <2> DEFINE high == Higher(score - 12, 5)
  <2>1. moved = row(high, TRUE)
    BY <1>6 DEF Context
  <2>2. high \in Score /\ TRUE
    BY DEF Higher, Score
  <2> HIDE DEF high, row
  <2>3. moved.score = high /\ moved \in [score : Score, reasons : BOOLEAN]
    BY <1>1, <2>1, <2>2
  <2> HIDE DEF moved
  <2>4. moved.score = Higher(score - 12, 5) /\ moved \in [score : Score, reasons : BOOLEAN]
    BY <2>3 DEF high
  <2>5. QED
    BY <2>4, <1>6
<1>7. CASE /\ ~ (c = "spam_scam" /\ "scam" \in markers)
           /\ ~ (c = "harassment" /\ {"you", "die"} \subseteq markers)
           /\ ~ (c = "self_harm" /\ "help me" \in markers)
           /\ ~ (c = "toxicity" /\ "game" \in markers)
  <2>1. moved = row(score, because)
    BY <1>7 DEF Context
  <2> HIDE DEF moved, row
  <2>2. /\ moved.score = score
        /\ moved.reasons = because
        /\ moved \in [score : Score, reasons : BOOLEAN]
    BY <1>1, <1>2, <2>1
  <2>3. moved.score >= score /\ moved.score >= score - 18 /\ moved.score <= score
    BY <2>2
  <2>4. c = "toxicity" => moved.score = IF "game" \in markers THEN Higher(score - 12, 5) ELSE score
    BY <2>2, <1>7, Zenon
  <2>5. QED
    BY <2>2, <2>3, <2>4, Zenon
<1>8. QED
  BY <1>3, <1>4, <1>5, <1>6, <1>7

\* What the context leaves of them.
LEMMA ContextScores ==
    ASSUME NEW text \in Text
    PROVE  LET fast == FastScore(text)
               results == Moderate(text)
           IN  /\ results \in Results
               /\ ~ Ambiguous(fast) => results = fast
               /\ Ambiguous(fast) =>
                    \A c \in ModerationCategory : results[c] = Context(c, fast[c], text.markers)
               /\ \A c \in ModerationCategory \ {"toxicity", "self_harm"} :
                    results[c].score >= fast[c].score
               /\ results["self_harm"].score >= fast["self_harm"].score - 18
               /\ results["self_harm"].score >= 28 => fast["self_harm"].score \in {90, 92}
               /\ results["toxicity"].score >= 44 => fast["toxicity"].score = 62
               /\ fast["toxicity"].score = 62 =>
                    results["toxicity"].score = IF "game" \in text.markers THEN 50 ELSE 62
               /\ results["sexual_content"].reasons => results["sexual_content"].score >= 64
<1> DEFINE fast == FastScore(text)
           results == Moderate(text)
           context(c) == Context(c, fast[c], text.markers)
<1>1. /\ fast \in Results
      /\ \A c \in ModerationCategory : fast[c].score \in 2..99
      /\ fast["toxicity"].score \in {2, 35, 62}
      /\ fast["self_harm"].score \in {2, 90, 92}
      /\ fast["sexual_content"].reasons => fast["sexual_content"].score >= 64
  BY FastScores
<1>2. /\ ~ Ambiguous(fast) => results = fast
      /\ Ambiguous(fast) => results = [c \in ModerationCategory |-> context(c)]
  BY DEF Moderate
<1>3. {"toxicity", "self_harm", "sexual_content"} \subseteq ModerationCategory
  BY DEF ModerationCategory
<1>4. fast["toxicity"].score = 62 => Ambiguous(fast)
  BY <1>3 DEF Ambiguous
<1> HIDE DEF fast, results
<1>5. ASSUME NEW c \in ModerationCategory
      PROVE  Rescored(c, text.markers, fast[c].score, fast[c].reasons, context(c))
  <2>1. /\ fast[c] = [score |-> fast[c].score, reasons |-> fast[c].reasons]
        /\ fast[c].score \in 2..99
        /\ fast[c].reasons \in BOOLEAN
    BY <1>1 DEF Results
  <2>2. QED
    BY <2>1, ContextMoves
<1> HIDE DEF context
<1> USE DEF Rescored
<1>6. results \in Results
  BY <1>1, <1>2, <1>5 DEF Results
<1>7. CASE Ambiguous(fast)
  <2>1. \A c \in ModerationCategory : results[c] = context(c)
    BY <1>2, <1>7
  <2>2. \A c \in ModerationCategory \ {"toxicity", "self_harm"} :
            results[c].score >= fast[c].score
    BY <2>1, <1>5
  <2>3. /\ results["self_harm"].score >= fast["self_harm"].score - 18
        /\ results["self_harm"].score >= 28 => fast["self_harm"].score \in {90, 92}
    <3> DEFINE before == fast["self_harm"].score
               after == results["self_harm"].score
    <3>1. /\ after \in Int
          /\ after >= before - 18
          /\ after <= before \/ after = 10
      BY <2>1, <1>3, <1>5 DEF Score
    <3>2. before \in {2, 90, 92}
      BY <1>1
    <3> HIDE DEF before, after
    <3>3. after >= before - 18 /\ (after >= 28 => before \in {90, 92})
      BY <3>1, <3>2
    <3>4. QED
      BY <3>3 DEF before, after
  <2>4. results["toxicity"].score = IF "game" \in text.markers
                                    THEN Higher(fast["toxicity"].score - 12, 5)
                                    ELSE fast["toxicity"].score
    BY <2>1, <1>3, <1>5
  <2>5. /\ results["toxicity"].score >= 44 => fast["toxicity"].score = 62
        /\ fast["toxicity"].score = 62 =>
               results["toxicity"].score = IF "game" \in text.markers THEN 50 ELSE 62
    BY <2>4, <1>1 DEF Higher
  <2>6. /\ results["sexual_content"].score = fast["sexual_content"].score
        /\ results["sexual_content"].reasons = fast["sexual_content"].reasons
    BY <2>1, <1>3, <1>5
  <2>7. QED
    BY <2>1, <2>2, <2>3, <2>5, <2>6, <1>1, <1>6, <1>7 DEF fast, results, context
<1>8. CASE ~ Ambiguous(fast)
  <2>1. results = fast
    BY <1>2, <1>8
  <2>2. \A c \in ModerationCategory : fast[c].score \in Int
    BY <1>1
  <2>3. \A c \in ModerationCategory : results[c].score >= fast[c].score
    BY <2>1, <2>2
  <2>4. /\ results["self_harm"].score >= fast["self_harm"].score - 18
        /\ results["self_harm"].score >= 28 => fast["self_harm"].score \in {90, 92}
        /\ results["toxicity"].score >= 44 => fast["toxicity"].score = 62
        /\ fast["toxicity"].score # 62
    BY <2>1, <1>1, <1>4, <1>8
  <2>5. QED
    BY <2>1, <2>3, <2>4, <1>1, <1>6, <1>8 DEF fast, results
<1>9. QED
  BY <1>7, <1>8

\* No evidence of `weak' that `text' does not show.
WeakerText(weak, text) ==
    /\ \A c \in ModerationCategory : weak.matches[c] <= text.matches[c]
    /\ weak.markers \subseteq text.markers
    /\ SameSofteners(weak, text)

LEMMA FastScoresGrow ==
    ASSUME NEW weak \in Text, NEW text \in Text, WeakerText(weak, text)
    PROVE  \A c \in ModerationCategory : FastScore(weak)[c].score <= FastScore(text)[c].score
<1> DEFINE marker(c, t) == CASE c = "spam_scam" /\ "http" \in t.markers -> 50
                             [] c = "toxicity" /\ InCapitals(t.markers) -> 35
                             [] OTHER -> Unmatched
<1> TAKE c \in ModerationCategory
<1>1. /\ weak.matches[c] \in 0..99
      /\ text.matches[c] \in 0..99
      /\ weak.matches[c] <= text.matches[c]
      /\ weak.markers \subseteq text.markers
      /\ InCapitals(weak.markers) => InCapitals(text.markers)
  BY DEF WeakerText, SameSofteners, InCapitals, Text, Matches
<1>2. /\ marker(c, weak) \in {0, 35, 50}
      /\ marker(c, text) \in {0, 35, 50}
      /\ marker(c, weak) <= marker(c, text)
  BY <1>1 DEF Unmatched
<1>3. /\ FastScore(weak)[c].score = Higher(2, Higher(weak.matches[c], marker(c, weak)))
      /\ FastScore(text)[c].score = Higher(2, Higher(text.matches[c], marker(c, text)))
  BY DEF FastScore
<1>4. ASSUME NEW a \in Int, NEW b \in Int, NEW x \in Int, NEW y \in Int, a <= b, x <= y
      PROVE  Higher(2, Higher(a, x)) <= Higher(2, Higher(b, y))
  BY <1>4 DEF Higher
<1> HIDE DEF marker
<1> DEFINE a == weak.matches[c]
           b == text.matches[c]
           x == marker(c, weak)
           y == marker(c, text)
<1>5. a \in Int /\ b \in Int /\ x \in Int /\ y \in Int /\ a <= b /\ x <= y
  BY <1>1, <1>2
<1> HIDE DEF a, b, x, y
<1>6. Higher(2, Higher(a, x)) <= Higher(2, Higher(b, y))
  BY <1>4, <1>5
<1>7. QED
  BY <1>3, <1>6 DEF a, b, x, y

-----------------------------------------------------------------------------
(* More evidence.                                                          *)

LEMMA ContextGrows ==
    ASSUME NEW c, c \notin {"toxicity", "self_harm"},
           NEW weaker, NEW stronger, weaker \subseteq stronger,
           NEW less \in [score : Score, reasons : BOOLEAN],
           NEW more \in [score : Score, reasons : BOOLEAN], less.score <= more.score
    PROVE  Context(c, less, weaker).score <= Context(c, more, stronger).score
<1> DEFINE row(h) == [score |-> h, reasons |-> TRUE]
<1>1. \A h : row(h).score = h
  OBVIOUS
<1>2. less.score \in Int /\ more.score \in Int
  BY DEF Score
<1>3. ASSUME NEW floor \in Int
      PROVE  /\ Higher(less.score, floor) <= Higher(more.score, floor)
             /\ less.score <= Higher(more.score, floor)
  BY <1>2 DEF Higher
<1> HIDE DEF row
<1>4. CASE c = "spam_scam"
  <2>1. \A set, entry : Context(c, entry, set) = IF "scam" \in set THEN row(Higher(entry.score, 83))
                                                 ELSE entry
    BY <1>4 DEF Context, row
  <2>2. QED
    BY <2>1, <1>1, <1>3
<1>5. CASE c = "harassment"
  <2>1. \A set, entry : Context(c, entry, set) = IF {"you", "die"} \subseteq set
                                                 THEN row(Higher(entry.score, 90))
                                                 ELSE entry
    BY <1>5 DEF Context, row
  <2>2. QED
    BY <2>1, <1>1, <1>3
<1>6. CASE c \notin {"spam_scam", "harassment"}
  <2>1. \A set, entry : Context(c, entry, set) = entry
    BY <1>6 DEF Context
  <2>2. QED
    BY <2>1
<1>7. QED
  BY <1>4, <1>5, <1>6

LEMMA RulesNeverClear ==
    ASSUME NEW weak \in Text, NEW text \in Text, WeakerText(weak, text),
           NEW protected \in BOOLEAN, Flagged(Moderate(weak), protected)
    PROVE  Flagged(Moderate(text), protected)
<1> DEFINE slow == FastScore(weak)
           fast == FastScore(text)
           before == Moderate(weak)
           after == Moderate(text)
<1>1. \A c \in ModerationCategory : slow[c].score <= fast[c].score
  BY FastScoresGrow
<1>2. \A c \in ModerationCategory :
        /\ slow[c].score \in 2..99
        /\ fast[c].score \in 2..99
        /\ fast["toxicity"].score \in {2, 35, 62}
        /\ fast["self_harm"].score \in {2, 90, 92}
  BY FastScores
<1>3. /\ ~ Ambiguous(slow) => before = slow
      /\ ~ Ambiguous(fast) => after = fast
      /\ \A c \in ModerationCategory :
            /\ before[c].score \in Int
            /\ after[c].score \in Int
            /\ Ambiguous(slow) => before[c] = Context(c, slow[c], weak.markers)
            /\ Ambiguous(fast) => after[c] = Context(c, fast[c], text.markers)
      /\ \A c \in ModerationCategory \ {"toxicity", "self_harm"} :
            after[c].score >= fast[c].score
  <2>1. before \in Results /\ after \in Results
    BY ContextScores
  <2>2. \A c \in ModerationCategory : before[c].score \in Int /\ after[c].score \in Int
    BY <2>1 DEF Results, Score
  <2>3. QED
    BY <2>2, ContextScores, Zenon
<1>4. /\ before["self_harm"].score >= 28 => slow["self_harm"].score \in {90, 92}
      /\ after["self_harm"].score >= fast["self_harm"].score - 18
      /\ before["toxicity"].score >= 44 => slow["toxicity"].score = 62
      /\ slow["toxicity"].score = 62 =>
            before["toxicity"].score = IF "game" \in weak.markers THEN 50 ELSE 62
      /\ fast["toxicity"].score = 62 =>
            after["toxicity"].score = IF "game" \in text.markers THEN 50 ELSE 62
  BY ContextScores
<1>5. \A c \in ModerationCategory :
        /\ ReviewAt(c, protected) \in 1..580
        /\ c = "toxicity" => ReviewAt(c, protected) >= 440
        /\ c = "self_harm" => ReviewAt(c, protected) >= 280
  BY Thresholds
<1>6. weak.markers \subseteq text.markers /\ ("game" \in text.markers => "game" \in weak.markers)
  BY DEF WeakerText, SameSofteners
<1>7. PICK c \in ModerationCategory : 10 * before[c].score >= ReviewAt(c, protected)
  BY DEF Flagged
<1> SUFFICES \E d \in ModerationCategory : 10 * after[d].score >= ReviewAt(d, protected)
  BY DEF Flagged
<1>8. /\ slow[c].score \in Int /\ fast[c].score \in Int
      /\ before[c].score \in Int /\ after[c].score \in Int
  BY <1>2, <1>3
<1>9. slow[c] \in [score : Score, reasons : BOOLEAN] /\ fast[c] \in [score : Score, reasons : BOOLEAN]
  BY FastScores DEF Results
<1> HIDE DEF slow, fast, before, after
<1>10. ASSUME NEW d \in ModerationCategory, after[d].score >= 58
       PROVE  \E e \in ModerationCategory : 10 * after[e].score >= ReviewAt(e, protected)
  <2> DEFINE score == after[d].score
             at == ReviewAt(d, protected)
  <2>1. score \in Int /\ score >= 58 /\ at \in 1..580
    BY <1>3, <1>5, <1>10
  <2> HIDE DEF score, at
  <2>2. 10 * score >= at
    BY <2>1
  <2>3. QED
    BY <2>2 DEF score, at
<1>11. ASSUME after[c].score >= before[c].score
       PROVE  \E e \in ModerationCategory : 10 * after[e].score >= ReviewAt(e, protected)
  <2> DEFINE old == before[c].score
             new == after[c].score
             at == ReviewAt(c, protected)
  <2>1. old \in Int /\ new \in Int /\ at \in Int /\ 10 * old >= at /\ new >= old
    BY <1>5, <1>7, <1>8, <1>11
  <2> HIDE DEF old, new, at
  <2>2. 10 * new >= at
    BY <2>1
  <2>3. QED
    BY <2>2 DEF new, at
<1>12. CASE c = "toxicity"
  <2>1. before[c].score >= 44
    BY <1>5, <1>7, <1>8, <1>12
  <2>2. slow[c].score = 62
    BY <2>1, <1>4, <1>12
  <2>3. fast[c].score = 62
    BY <2>2, <1>1, <1>2, <1>12
  <2>4. after[c].score >= before[c].score
    BY <2>2, <2>3, <1>4, <1>6, <1>12
  <2>5. QED
    BY <2>4, <1>11
<1>13. CASE c = "self_harm"
  <2>1. before[c].score >= 28
    BY <1>5, <1>7, <1>8, <1>13
  <2>2. slow[c].score >= 90
    BY <2>1, <1>4, <1>13
  <2>3. after[c].score >= 72
    BY <2>2, <1>1, <1>4, <1>8, <1>13
  <2>4. QED
    BY <2>3, <1>8, <1>10
<1>14. CASE c \notin {"toxicity", "self_harm"} /\ ~ Ambiguous(slow)
  <2>1. before[c].score = slow[c].score
    BY <1>3, <1>14
  <2>2. after[c].score >= fast[c].score
    BY <1>3, <1>14
  <2>3. after[c].score >= before[c].score
    BY <2>1, <2>2, <1>1, <1>8
  <2>4. QED
    BY <2>3, <1>11
<1>15. CASE Ambiguous(slow) /\ ~ Ambiguous(fast)
  <2>1. PICK d \in ModerationCategory : slow[d].score \in 35..70
    BY <1>15 DEF Ambiguous
  <2>2. fast[d].score \notin 35..70
    BY <1>15 DEF Ambiguous
  <2>3. fast[d].score >= 71
    BY <2>1, <2>2, <1>1, <1>2
  <2>4. after[d].score >= 71 /\ after[d].score \in Int
    BY <2>3, <1>3, <1>15
  <2>5. QED
    BY <2>4, <1>10
<1>16. CASE c \notin {"toxicity", "self_harm"} /\ Ambiguous(slow) /\ Ambiguous(fast)
  <2>1. /\ before[c] = Context(c, slow[c], weak.markers)
        /\ after[c] = Context(c, fast[c], text.markers)
    BY <1>3, <1>16
  <2>2. slow[c].score <= fast[c].score
    BY <1>1
  <2>3. after[c].score >= before[c].score
    BY <2>1, <2>2, <1>6, <1>8, <1>16, <1>9, ContextGrows
  <2>4. QED
    BY <2>3, <1>11
<1>17. QED
  BY <1>12, <1>13, <1>14, <1>15, <1>16

LEMMA CapIsACap ==
    ASSUME NEW c, NEW score \in Score, NEW results
    PROVE  /\ Capped(c, score, results) \in Score
           /\ Capped(c, score, results) <= score
           /\ Capped(c, score, results) # score => results["sexual_content"].reasons
<1>1. /\ DEFAULT_CATEGORY_THRESHOLDS["toxicity"].review = 55
      /\ DEFAULT_CATEGORY_THRESHOLDS["toxicity"].block = 82
  BY DEF DEFAULT_CATEGORY_THRESHOLDS
<1>2. Capped(c, score, results) = IF /\ c = "toxicity"
                                     /\ results["sexual_content"].reasons
                                     /\ ~ results[c].reasons
                                     /\ score >= 82
                                  THEN 54
                                  ELSE score
  BY <1>1 DEF Capped
<1>3. QED
  BY <1>2 DEF Score

\* What the model adds to the rules, per category.
LEMMA InferenceScores ==
    ASSUME NEW text \in Text, NEW model, IsModel(model)
    PROVE  LET rules == Moderate(text)
               results == ModerateWithInference(text, model)
           IN  /\ results \in Results
               /\ \A c \in ModerationCategory : results[c].score >= rules[c].score
               /\ \A c \in DOMAIN model : results[c].score >= Capped(c, model[c], rules)
               /\ \A c \in ModerationCategory :
                    \/ results[c].score = rules[c].score
                    \/ c \in DOMAIN model /\ results[c].score = Capped(c, model[c], rules)
<1> DEFINE rules == Moderate(text)
           results == ModerateWithInference(text, model)
           cap(c) == Capped(c, model[c], rules)
<1>1. rules \in Results
  BY ContextScores
<1>2. results = [c \in ModerationCategory |->
                    IF c \notin DOMAIN model THEN rules[c]
                    ELSE [score |-> Higher(rules[c].score, cap(c)), reasons |-> TRUE]]
  BY DEF ModerateWithInference
<1>3. \A c \in DOMAIN model : c \in ModerationCategory /\ cap(c) \in Score
  BY CapIsACap DEF IsModel
<1> HIDE DEF rules, results, cap
<1>4. ASSUME NEW c \in ModerationCategory
      PROVE  /\ results[c] \in [score : Score, reasons : BOOLEAN]
             /\ results[c].score >= rules[c].score
             /\ c \in DOMAIN model => results[c].score >= cap(c)
             /\ \/ results[c].score = rules[c].score
                \/ c \in DOMAIN model /\ results[c].score = cap(c)
  <2>1. rules[c] \in [score : Score, reasons : BOOLEAN]
    BY <1>1 DEF Results
  <2>2. CASE c \notin DOMAIN model
    <3>1. results[c] = rules[c]
      BY <1>2, <2>2
    <3>2. QED
      BY <3>1, <2>1, <2>2 DEF Score
  <2>3. CASE c \in DOMAIN model
    <3> DEFINE high == Higher(rules[c].score, cap(c))
    <3>1. results[c] = [score |-> high, reasons |-> TRUE]
      BY <1>2, <2>3
    <3>2. /\ high \in Score
          /\ high >= rules[c].score
          /\ high >= cap(c)
          /\ high = rules[c].score \/ high = cap(c)
      BY <1>3, <2>1, <2>3 DEF Higher, Score
    <3> HIDE DEF high
    <3>3. QED
      BY <3>1, <3>2, <2>3
  <2>4. QED
    BY <2>2, <2>3
<1>5. results \in Results
  BY <1>2, <1>4 DEF Results
<1>6. QED
  BY <1>3, <1>4, <1>5 DEF rules, results, cap

LEMMA EvidenceNeverClears ==
    ASSUME NEW weak \in Text, NEW text \in Text, WeakerText(weak, text),
           NEW less, IsModel(less), NEW more, IsModel(more),
           DOMAIN less \subseteq DOMAIN more, \A c \in DOMAIN less : less[c] <= more[c],
           NEW protected \in BOOLEAN, Flagged(ModerateWithInference(weak, less), protected)
    PROVE  Flagged(ModerateWithInference(text, more), protected)
<1> DEFINE before == ModerateWithInference(weak, less)
           after == ModerateWithInference(text, more)
           rulesBefore == Moderate(weak)
           rules == Moderate(text)
           at(c) == ReviewAt(c, protected)
           flagged == Flagged(after, protected)
<1>1. PICK c \in ModerationCategory : 10 * before[c].score >= at(c)
  BY DEF Flagged
<1>2. \A d \in ModerationCategory :
        /\ at(d) \in 1..580
        /\ after[d].score \in Int /\ before[d].score \in Int /\ rules[d].score \in Int
        /\ after[d].score >= rules[d].score
  <2>1. before \in Results /\ after \in Results /\ rules \in Results
    BY InferenceScores, ContextScores
  <2>2. \A d \in ModerationCategory :
            after[d].score \in Int /\ before[d].score \in Int /\ rules[d].score \in Int
    BY <2>1, ScoresAreIntegers
  <2>3. \A d \in ModerationCategory : after[d].score >= rules[d].score
    BY InferenceScores
  <2>4. QED
    BY <2>2, <2>3, Thresholds
<1>3. ASSUME NEW d \in ModerationCategory, 10 * after[d].score >= at(d)
      PROVE  flagged
  BY <1>3 DEF Flagged
<1> SUFFICES flagged
  OBVIOUS
<1>4. CASE before[c].score = rulesBefore[c].score
  <2>1. Flagged(rulesBefore, protected)
    BY <1>1, <1>4 DEF Flagged
  <2>2. PICK d \in ModerationCategory : 10 * rules[d].score >= at(d)
    BY <2>1, RulesNeverClear DEF Flagged
  <2> HIDE DEF before, after, rules, rulesBefore, at, flagged
  <2>3. 10 * after[d].score >= at(d)
    <3> DEFINE high == after[d].score
               low == rules[d].score
               limit == at(d)
    <3>1. high \in Int /\ low \in Int /\ limit \in Int /\ high >= low /\ 10 * low >= limit
      BY <1>2, <2>2
    <3> HIDE DEF high, low, limit
    <3>2. 10 * high >= limit
      BY <3>1
    <3>3. QED
      BY <3>2 DEF high, limit
  <2>4. QED
    BY <2>3, <1>3
<1>5. CASE c \in DOMAIN less /\ before[c].score = Capped(c, less[c], rulesBefore)
  <2>1. /\ c \in DOMAIN more
        /\ less[c] \in Score /\ more[c] \in Score /\ less[c] <= more[c]
    BY <1>5 DEF IsModel
  <2>2. /\ Capped(c, less[c], rulesBefore) <= less[c]
        /\ Capped(c, more[c], rules) # more[c] => rules["sexual_content"].reasons
        /\ after[c].score >= Capped(c, more[c], rules)
    BY <2>1, CapIsACap, InferenceScores
  <2>3. rules["sexual_content"].reasons => rules["sexual_content"].score >= 64
    BY ContextScores
  <2>4. "sexual_content" \in ModerationCategory
    BY DEF ModerationCategory
  <2> HIDE DEF before, after, rules, rulesBefore, at, flagged
  <2>5. CASE Capped(c, more[c], rules) = more[c]
    <3> DEFINE old == before[c].score
               new == after[c].score
               limit == at(c)
    <3>1. new >= old
      BY <1>2, <1>5, <2>1, <2>2, <2>5 DEF Score
    <3>2. new \in Int /\ old \in Int /\ limit \in Int /\ 10 * old >= limit
      BY <1>1, <1>2
    <3> HIDE DEF old, new, limit
    <3>3. 10 * new >= limit
      BY <3>1, <3>2
    <3>4. QED
      BY <3>3, <1>3 DEF new, limit
  <2>6. CASE Capped(c, more[c], rules) # more[c]
    <3> DEFINE new == after["sexual_content"].score
               limit == at("sexual_content")
    <3>1. new \in Int /\ new >= 64 /\ limit \in 1..580
      BY <1>2, <2>2, <2>3, <2>4, <2>6
    <3> HIDE DEF new, limit
    <3>2. 10 * new >= limit
      BY <3>1
    <3>3. QED
      BY <3>2, <2>4, <1>3 DEF new, limit
  <2>7. QED
    BY <2>5, <2>6
<1>6. QED
  BY <1>4, <1>5, InferenceScores

-----------------------------------------------------------------------------
(* Every answer.                                                           *)

\* Texts and audios are decided from a text and what a model says of it.
Explained(a) ==
    a # NoAnswer /\ a.kind # "picture" =>
        /\ a.text \in Text
        /\ IsModel(a.model)
        /\ a.results = ModerateWithInference(a.text, a.model)

LEMMA SilenceIsAText == Silence \in Text
<1>1. Unmatched \in 0..99
  BY DEF Unmatched
<1>2. Silence.matches \in Matches
  BY <1>1 DEF Silence, Matches
<1>3. QED
  BY <1>2 DEF Silence, Text

LEMMA WrittenIsAText == Written \in Text
<1>1. Silence.matches \in Matches
  BY SilenceIsAText DEF Text
<1>2. Written = [matches |-> Silence.matches, markers |-> {"upper", "lower", "other", "long"}]
  BY DEF Written, Silence
<1> DEFINE none == Silence.matches
<1> HIDE DEF none
<1>3. [matches |-> none, markers |-> {"upper", "lower", "other", "long"}] \in Text
  BY <1>1 DEF Text, Markers, none
<1>4. QED
  BY <1>2, <1>3 DEF none

\* Joined texts show what some of them show, and more.
LEMMA JoinedTexts ==
    ASSUME NEW texts, texts \subseteq Text, NEW some, some \subseteq texts
    PROVE  /\ Join(texts) \in Text
           /\ \A c \in ModerationCategory : Join(some).matches[c] <= Join(texts).matches[c]
           /\ Join(some).markers \subseteq Join(texts).markers
<1> DEFINE found(set, c) == {Unmatched} \cup {t.matches[c] : t \in set}
           rules(c) == PATTERN_LIBRARY[c] \cup _add_phrase_rules[c] \cup {Unmatched}
<1>1. ASSUME NEW c \in ModerationCategory
      PROVE  /\ found(texts, c) \subseteq rules(c) /\ found(some, c) \subseteq found(texts, c)
             /\ found(texts, c) \subseteq 0..99
             /\ found(texts, c) # {} /\ found(some, c) # {}
  <2>1. \A t \in texts : t.matches \in Matches
    BY DEF Text
  <2>2. \A t \in texts : t.matches[c] \in rules(c) /\ t.matches[c] \in 0..99
    BY <2>1 DEF Matches
  <2>3. Unmatched \in rules(c) /\ Unmatched \in 0..99
    BY DEF Unmatched
  <2> HIDE DEF rules
  <2>4. QED
    BY <2>2, <2>3
<1> HIDE DEF found, rules
<1>2. ASSUME NEW c \in ModerationCategory
      PROVE  /\ Max(found(texts, c)) \in rules(c) /\ Max(found(texts, c)) \in 0..99
             /\ Max(found(some, c)) <= Max(found(texts, c))
  <2>1. /\ Max(found(texts, c)) \in found(texts, c)
        /\ \A m \in found(texts, c) : m <= Max(found(texts, c))
    BY <1>1, LargestOf, 99 \in Nat
  <2>2. found(some, c) \subseteq 0..99
    BY <1>1
  <2>3. Max(found(some, c)) \in found(some, c)
    BY <1>1, <2>2, LargestOf, 99 \in Nat
  <2>4. QED
    BY <1>1, <2>1, <2>3
<1>3. /\ Join(texts).matches = [c \in ModerationCategory |-> Max(found(texts, c))]
      /\ Join(some).matches = [c \in ModerationCategory |-> Max(found(some, c))]
      /\ Join(texts).markers = UNION {t.markers : t \in texts}
      /\ Join(some).markers = UNION {t.markers : t \in some}
      /\ Join(texts) = [matches |-> Join(texts).matches, markers |-> Join(texts).markers]
  BY DEF Join, found
<1>4. Join(texts).matches \in Matches
  BY <1>2, <1>3 DEF Matches, rules
<1>5. Join(texts).markers \subseteq Markers
  BY <1>3 DEF Text
<1>6. Join(texts) \in Text
  <2> DEFINE m == Join(texts).matches
             k == Join(texts).markers
  <2>1. Join(texts) = [matches |-> m, markers |-> k] /\ m \in Matches /\ k \in SUBSET Markers
    BY <1>3, <1>4, <1>5
  <2> HIDE DEF m, k
  <2>2. QED
    BY <2>1 DEF Text
<1>7. QED
  BY <1>2, <1>3, <1>6

\* Without labels the rules decide.
LEMMA RulesAlone ==
    ASSUME NEW text \in Text
    PROVE  IsModel(NoLabels) /\ Moderate(text) = ModerateWithInference(text, NoLabels)
<1>1. DOMAIN NoLabels = {}
  BY DEF NoLabels
<1>2. Moderate(text) = [c \in ModerationCategory |-> Moderate(text)[c]]
  BY ContextScores DEF Results
<1>3. QED
  BY <1>1, <1>2 DEF IsModel, ModerateWithInference

LEMMA AnswersExplained == ScoringSpec => []Explained(answer)
<1>1. ScoringInit => Explained(answer)
  BY DEF ScoringInit, Explained
<1>2. ASSUME Explained(answer), [ScoringNext]_scoringVars
      PROVE  Explained(answer)'
  <2>1. CASE answer' = answer \/ answer' = NoAnswer
    BY <1>2, <2>1 DEF Explained
  <2>2. CASE AnswerText
    <3>1. PICK text \in Texts, model \in Models : answer' = TextAnswer(text, model)
      BY <2>2 DEF AnswerText
    <3>2. text \in Text /\ IsModel(model)
      BY ScoringAssumption
    <3>3. QED
      BY <3>1, <3>2 DEF TextAnswer, Explained
  <2>3. CASE AnswerAudio
    <3>1. PICK heard, hint \in Texts \cup {Silence} : answer' = AudioAnswer(heard, hint)
      BY <2>3 DEF AnswerAudio
    <3>2. Transcript(heard, hint) \in Text
      <4>1. {heard, hint} \cup (IF Silence \in {heard, hint} THEN {} ELSE {Written}) \subseteq Text
        BY ScoringAssumption, SilenceIsAText, WrittenIsAText
      <4>2. QED
        BY <4>1, JoinedTexts DEF Transcript
    <3>3. QED
      BY <3>1, <3>2, RulesAlone DEF AudioAnswer, Explained
  <2>4. CASE AnswerDescribed \/ AnswerScanned \/ AnswerUnscanned
    <3>1. \E upload, labels : answer' = PictureAnswer(upload, labels)
      BY <2>4 DEF AnswerDescribed, AnswerScanned, AnswerUnscanned
    <3>2. answer'.kind = "picture"
      BY <3>1 DEF PictureAnswer
    <3>3. QED
      BY <3>2 DEF Explained
  <2>5. QED
    BY <1>2, <2>1, <2>2, <2>3, <2>4
       DEF ScoringNext, scoringVars, StartUpload, Respond, RunLoop, RunWarmup
<1>3. QED
  BY <1>1, <1>2, PTL DEF ScoringSpec

\* For every text of the library's patterns and markers and every model, in
\* any sequence of answers: only gaming slang and lower-case letters clear a text.
THEOREM MoreEvidence == ScoringSpec => []MoreEvidenceNeverClears
<1>1. ASSUME Explained(answer)
      PROVE  MoreEvidenceNeverClears
  <2> SUFFICES ASSUME answer # NoAnswer, answer.kind # "picture",
                      NEW protected \in BOOLEAN, Action(answer.results, protected) = "allow",
                      NEW text \in Texts, NEW model \in Models, Weaker(text, model, answer)
               PROVE  Action(ModerateWithInference(text, model), protected) = "allow"
    BY DEF MoreEvidenceNeverClears
  <2>1. /\ answer.text \in Text
        /\ IsModel(answer.model)
        /\ answer.results = ModerateWithInference(answer.text, answer.model)
    BY <1>1 DEF Explained
  <2>2. text \in Text /\ IsModel(model)
    BY ScoringAssumption
  <2>3. /\ WeakerText(text, answer.text)
        /\ DOMAIN model \subseteq DOMAIN answer.model
        /\ \A c \in DOMAIN model : model[c] <= answer.model[c]
    BY DEF Weaker, WeakerText
  <2>4. /\ answer.results \in Results
        /\ ModerateWithInference(text, model) \in Results
    BY <2>1, <2>2, InferenceScores
  <2>5. ~ Flagged(answer.results, protected)
    BY <2>4, AllowedUnlessFlagged
  <2>6. ~ Flagged(ModerateWithInference(text, model), protected)
    BY <2>1, <2>2, <2>3, <2>5, EvidenceNeverClears
  <2>7. QED
    BY <2>4, <2>6, AllowedUnlessFlagged
<1>2. QED
  BY <1>1, AnswersExplained, PTL

-----------------------------------------------------------------------------
(* Sources of a picture.                                                   *)

\* Some category blocks.
Blocked(results, protected) ==
    \E c \in ModerationCategory :
        10 * results[c].score >= P!Threshold(Untouched(protected), c, "block")

LEMMA Actions ==
    ASSUME NEW results \in Results, NEW protected \in BOOLEAN
    PROVE  Action(results, protected) =
              IF Blocked(results, protected) THEN "block"
              ELSE IF Flagged(results, protected) THEN "review" ELSE "allow"
<1> DEFINE scores == [c \in ModerationCategory |-> results[c].score]
           row == Untouched(protected)
<1>1. DOMAIN scores = ModerationCategory /\ row.review_enabled = TRUE
  BY DEF Untouched
<1>2. \A c \in ModerationCategory : scores[c] = results[c].score
  OBVIOUS
<1>3. P!Blocking(scores, row) =
        {c \in ModerationCategory : 10 * results[c].score >= P!Threshold(row, c, "block")}
  BY <1>1, <1>2 DEF P!Blocking
<1>4. P!Reviewing(scores, row) =
        {c \in ModerationCategory \ P!Blocking(scores, row) :
            10 * results[c].score >= ReviewAt(c, protected)}
  BY <1>1, <1>2 DEF P!Reviewing, ReviewAt
<1>5. Action(results, protected) =
        IF P!Blocking(scores, row) # {} THEN "block"
        ELSE IF P!Reviewing(scores, row) # {} THEN "review" ELSE "allow"
  BY DEF Action, P!evaluate_policy
<1>6. P!Blocking(scores, row) # {} <=> Blocked(results, protected)
  BY <1>3 DEF Blocked, row
<1> HIDE DEF scores, row
<1>7. P!Blocking(scores, row) = {} =>
        (P!Reviewing(scores, row) # {} <=> Flagged(results, protected))
  BY <1>4 DEF Flagged
<1>8. QED
  BY <1>5, <1>6, <1>7

\* Scores that are nowhere lower are not decided more softly.
LEMMA HigherNeverSofter ==
    ASSUME NEW less \in Results, NEW more \in Results, NEW protected \in BOOLEAN,
           \A c \in ModerationCategory : less[c].score <= more[c].score
    PROVE  P!Severity[Action(less, protected)] <= P!Severity[Action(more, protected)]
<1>1. ASSUME NEW c \in ModerationCategory, NEW at \in Int, 10 * less[c].score >= at
      PROVE  10 * more[c].score >= at
  <2> DEFINE x == less[c].score
             y == more[c].score
  <2>1. x \in Int /\ y \in Int /\ x <= y /\ 10 * x >= at
    BY <1>1, ScoresAreIntegers
  <2> HIDE DEF x, y
  <2>2. 10 * y >= at
    BY <2>1
  <2>3. QED
    BY <2>2 DEF y
<1>2. Blocked(less, protected) => Blocked(more, protected)
  BY <1>1, Thresholds DEF Blocked
<1>3. Flagged(less, protected) => Flagged(more, protected)
  BY <1>1, Thresholds DEF Flagged
<1>4. P!Severity["allow"] = 0 /\ P!Severity["review"] = 1 /\ P!Severity["block"] = 2
  BY DEF P!Severity
<1>5. /\ Action(less, protected) = IF Blocked(less, protected) THEN "block"
                                   ELSE IF Flagged(less, protected) THEN "review" ELSE "allow"
      /\ Action(more, protected) = IF Blocked(more, protected) THEN "block"
                                   ELSE IF Flagged(more, protected) THEN "review" ELSE "allow"
  BY Actions
<1>6. QED
  BY <1>2, <1>3, <1>4, <1>5

\* No rule leaves a category below two hundredths, where silence is.
LEMMA RulesLeaveTwo ==
    ASSUME NEW text \in Text
    PROVE  \A c \in ModerationCategory : Moderate(text)[c].score >= 2
<1> TAKE c \in ModerationCategory
<1> DEFINE fast == FastScore(text)
           moved == Context(c, fast[c], text.markers)
<1>1. fast \in Results /\ \A d \in ModerationCategory : fast[d].score \in 2..99
  BY FastScores
<1>2. Moderate(text)[c] = fast[c] \/ Moderate(text)[c] = moved
  BY DEF Moderate
<1>3. moved.score >= 2
  <2> DEFINE row(h) == [score |-> h, reasons |-> TRUE]
             before == fast[c].score
  <2>1. \/ moved = row(Higher(before, 83)) \/ moved = row(Higher(before, 90))
        \/ moved = row(Higher(before - 18, 10)) \/ moved = row(Higher(before - 12, 5))
        \/ moved = fast[c]
    BY DEF Context
  <2>2. before \in 2..99
    BY <1>1
  <2>3. \A h : row(h).score = h
    OBVIOUS
  <2> HIDE DEF row, moved, fast
  <2>4. /\ Higher(before, 83) >= 2 /\ Higher(before, 90) >= 2
        /\ Higher(before - 18, 10) >= 2 /\ Higher(before - 12, 5) >= 2
    BY <2>2 DEF Higher
  <2>5. QED
    BY <2>1, <2>2, <2>3, <2>4
<1>4. QED
  BY <1>1, <1>2, <1>3

LEMMA SilenceScoresTwo == \A c \in ModerationCategory : Moderate(Silence)[c].score = 2
<1>1. \A c \in ModerationCategory : FastScore(Silence)[c].score = 2
  BY DEF FastScore, Silence, InCapitals, Unmatched, Higher
<1>2. ~ Ambiguous(FastScore(Silence))
  BY <1>1 DEF Ambiguous
<1>3. QED
  BY <1>1, <1>2 DEF Moderate

LEMMA HeuristicScores ==
    ASSUME NEW c, NEW objects, NEW underage, NEW search
    PROVE  /\ Heuristic(c, objects, underage, search) \in Score
           /\ Heuristic(c, {}, FALSE, NotSearched) = 0
<1>1. \A likelihood, possible : possible \in {48, 50} => Searched(likelihood, possible) \in {0, 48, 50, 86}
  BY DEF Searched
<1>2. Searched("UNKNOWN", 48) = 0 /\ Searched("UNKNOWN", 50) = 0
  BY DEF Searched
<1>3. Heuristic(c, {}, FALSE, NotSearched) = 0
  BY <1>2 DEF Heuristic, NotSearched, Higher
<1>4. Heuristic(c, objects, underage, search) \in Score
  <2>1. Searched(search.violence, 50) \in {0, 48, 50, 86} /\ Searched(search.sexual, 48) \in {0, 48, 50, 86}
    BY <1>1
  <2>2. QED
    BY <2>1 DEF Heuristic, Higher, Score
<1>5. QED
  BY <1>3, <1>4

\* What the scan says of a category it knows is a score.
IsVisual(visual) == \A c \in DOMAIN visual : visual[c] \in Score

LEMMA PictureScores ==
    ASSUME NEW text \in Text, NEW objects, NEW underage, NEW search, NEW visual, IsVisual(visual)
    PROVE  LET results == Seen(text, objects, underage, search, visual)
               score(c) == Higher(Moderate(text)[c].score, Heuristic(c, objects, underage, search))
           IN  /\ results \in Results
               /\ \A c \in ModerationCategory :
                    /\ results[c].score = Visual(c, score(c), visual)
                    /\ score(c) \in Score
<1> DEFINE results == Seen(text, objects, underage, search, visual)
           score(c) == Higher(Moderate(text)[c].score, Heuristic(c, objects, underage, search))
           row(c) == [score |-> Visual(c, score(c), visual), reasons |-> Moderate(text)[c].reasons]
<1>1. results = [c \in ModerationCategory |-> row(c)]
  BY DEF Seen
<1>2. Moderate(text) \in Results
  BY ContextScores
<1>3. \A c \in ModerationCategory : Moderate(text)[c].score \in Score /\ Moderate(text)[c].reasons \in BOOLEAN
  BY <1>2 DEF Results
<1>4. \A c \in ModerationCategory : score(c) \in Score
  BY <1>3, HeuristicScores DEF Higher
<1> HIDE DEF score
<1>5. \A c \in ModerationCategory : Visual(c, score(c), visual) \in Score
  BY <1>4 DEF Visual, Higher, IsVisual
<1>6. \A c : row(c).score = Visual(c, score(c), visual)
  OBVIOUS
<1>7. \A c \in ModerationCategory : row(c) \in [score : Score, reasons : BOOLEAN]
  BY <1>3, <1>5
<1> HIDE DEF row, results
<1>8. results \in Results /\ \A c \in ModerationCategory : results[c].score = Visual(c, score(c), visual)
  BY <1>1, <1>6, <1>7 DEF Results
<1>9. QED
  BY <1>4, <1>8 DEF results, score

LEMMA VisualRaises ==
    ASSUME NEW c, NEW visual, IsVisual(visual), NEW less \in Score, NEW more \in Score, less <= more
    PROVE  /\ more <= Visual(c, more, visual)
           /\ Visual(c, less, visual) <= Visual(c, more, visual)
  BY DEF Visual, Higher, IsVisual, Score

LEMMA InBetween ==
    ASSUME NEW a \in Score, NEW b \in Score, NEW c \in Score, a <= b, b <= c
    PROVE  a <= c
  BY DEF Score

LEMMA NoSourceSoftens ==
    ASSUME NEW text \in Text, NEW objects, NEW underage, NEW search, NEW visual, IsVisual(visual),
           NEW protected \in BOOLEAN
    PROVE  /\ \A results \in {Seen(Silence, objects, underage, search, <<>>),
                              Seen(Silence, {}, FALSE, NotSearched, visual)} :
                P!Severity[Action(results, protected)]
                    <= P!Severity[Action(Seen(text, objects, underage, search, visual), protected)]
           /\ Action(Seen(text, objects, underage, search, visual), protected) = "allow"
                => ~ Flagged(Moderate(text), protected)
<1> DEFINE all == Seen(text, objects, underage, search, visual)
           own(c) == Moderate(text)[c].score
           seen(c) == Heuristic(c, objects, underage, search)
           score(c) == Higher(own(c), seen(c))
<1>1. /\ all \in Results
      /\ \A c \in ModerationCategory : all[c].score = Visual(c, score(c), visual) /\ score(c) \in Score
  BY PictureScores
<1>2. IsVisual(<<>>) /\ \A c, h : Visual(c, h, <<>>) = h
  BY DEF IsVisual, Visual
<1>3. Silence \in Text
  BY SilenceIsAText
<1>4. Moderate(text) \in Results
  BY ContextScores
<1>5. ASSUME NEW c \in ModerationCategory
      PROVE  /\ own(c) \in Score /\ own(c) >= 2 /\ seen(c) \in Score
             /\ own(c) <= score(c) /\ Higher(2, seen(c)) <= score(c) /\ Higher(2, 0) <= score(c)
             /\ Higher(2, seen(c)) \in Score /\ Higher(2, 0) \in Score
             /\ score(c) <= Visual(c, score(c), visual)
             /\ Visual(c, Higher(2, 0), visual) <= Visual(c, score(c), visual)
             /\ Visual(c, score(c), visual) \in Score
  <2>1. own(c) \in Score /\ own(c) >= 2 /\ seen(c) \in Score
    BY <1>4, RulesLeaveTwo, HeuristicScores DEF Results
  <2>0. ASSUME NEW x \in Score, x >= 2, NEW y \in Score
        PROVE  /\ x <= Higher(x, y) /\ Higher(2, y) <= Higher(x, y) /\ Higher(2, 0) <= Higher(x, y)
               /\ Higher(2, y) \in Score /\ Higher(2, 0) \in Score /\ Higher(x, y) \in Score
    BY <2>0 DEF Higher, Score
  <2> HIDE DEF own, seen
  <2>2. /\ own(c) <= score(c) /\ Higher(2, seen(c)) <= score(c) /\ Higher(2, 0) <= score(c)
        /\ Higher(2, seen(c)) \in Score /\ Higher(2, 0) \in Score /\ score(c) \in Score
    BY <2>0, <2>1
  <2> HIDE DEF score
  <2>3. /\ score(c) <= Visual(c, score(c), visual)
        /\ Visual(c, Higher(2, 0), visual) <= Visual(c, score(c), visual)
    BY <2>2, VisualRaises
  <2>4. Visual(c, score(c), visual) \in Score
    BY <2>2 DEF Visual, Higher, IsVisual
  <2>5. QED
    BY <2>1, <2>2, <2>3, <2>4
<1> HIDE DEF all
<1>6. ASSUME NEW results \in Results,
             \A c \in ModerationCategory : results[c].score <= all[c].score
      PROVE  P!Severity[Action(results, protected)] <= P!Severity[Action(all, protected)]
  BY <1>1, <1>6, HigherNeverSofter
<1>7. ASSUME Action(all, protected) = "allow"
      PROVE  ~ Flagged(Moderate(text), protected)
  <2> DEFINE own_results == Moderate(text)
  <2>1. ASSUME NEW c \in ModerationCategory
        PROVE  own_results[c].score <= all[c].score
    <3>1. /\ own(c) <= score(c) /\ score(c) <= all[c].score
          /\ own(c) \in Score /\ score(c) \in Score /\ all[c].score \in Score
      BY <1>1, <1>5
    <3>2. own_results[c].score = own(c)
      OBVIOUS
    <3> HIDE DEF own, score, own_results
    <3>3. QED
      BY <3>1, <3>2, InBetween
  <2>2. own_results \in Results
    BY <1>4
  <2> HIDE DEF own_results
  <2>3. P!Severity[Action(own_results, protected)] <= P!Severity[Action(all, protected)]
    BY <1>1, <2>1, <2>2, HigherNeverSofter
  <2>4. P!Severity["allow"] = 0 /\ P!Severity["review"] = 1 /\ P!Severity["block"] = 2
    BY DEF P!Severity
  <2>5. Action(own_results, protected) = "allow"
    BY <1>7, <2>2, <2>3, <2>4, Actions
  <2>6. QED
    BY <2>2, <2>5, AllowedUnlessFlagged DEF own_results
<1>8. ASSUME NEW results, results = Seen(Silence, objects, underage, search, <<>>)
      PROVE  P!Severity[Action(results, protected)] <= P!Severity[Action(all, protected)]
  <2>1. /\ results \in Results
        /\ \A c \in ModerationCategory : results[c].score = Visual(c, Higher(2, seen(c)), <<>>)
    BY <1>2, <1>3, <1>8, PictureScores, SilenceScoresTwo
  <2>2. \A c \in ModerationCategory : results[c].score <= all[c].score
    <3> TAKE c \in ModerationCategory
    <3>1. /\ Higher(2, seen(c)) <= score(c) /\ score(c) <= all[c].score /\ Higher(2, seen(c)) \in Score
          /\ score(c) \in Score /\ all[c].score \in Score
      BY <1>1, <1>5
    <3>2. results[c].score = Higher(2, seen(c))
      BY <1>2, <2>1
    <3>3. Higher(2, seen(c)) <= all[c].score
      BY <3>1, InBetween
    <3>4. QED
      BY <3>2, <3>3
  <2>3. QED
    BY <2>1, <2>2, <1>6 DEF all
<1>9. ASSUME NEW results, results = Seen(Silence, {}, FALSE, NotSearched, visual)
      PROVE  P!Severity[Action(results, protected)] <= P!Severity[Action(all, protected)]
  <2>1. /\ results \in Results
        /\ \A c \in ModerationCategory : results[c].score = Visual(c, Higher(2, 0), visual)
    <3> DEFINE nothing == {}
               no == FALSE
    <3>1. results = Seen(Silence, nothing, no, NotSearched, visual)
      BY <1>9
    <3>2. \A c : Heuristic(c, nothing, no, NotSearched) = 0
      BY HeuristicScores
    <3> HIDE DEF nothing, no, own, seen, score
    <3>3. /\ results \in Results
          /\ \A c \in ModerationCategory : results[c].score =
                Visual(c, Higher(Moderate(Silence)[c].score, Heuristic(c, nothing, no, NotSearched)), visual)
      BY <1>3, <3>1, PictureScores
    <3>4. QED
      BY <3>2, <3>3, SilenceScoresTwo
  <2>2. \A c \in ModerationCategory : results[c].score <= all[c].score
    BY <2>1, <1>1, <1>5
  <2>3. QED
    BY <2>1, <2>2, <1>6 DEF all
<1>10. QED
  BY <1>7, <1>8, <1>9 DEF all

-----------------------------------------------------------------------------
(* Answers on pictures.                                                    *)

\* Pictures are decided from an upload and what a whole scan of it, if there
\* was one, returned.
PictureExplained(a) ==
    a # NoAnswer /\ a.kind = "picture" =>
        /\ a.upload \in Uploads
        /\ a.labels \in {NotScanned, scan_video_bytes(Sampled(a.upload))}
        /\ a = PictureAnswer(a.upload, a.labels)

LEMMA PicturesExplained == ScoringSpec => []PictureExplained(answer)
<1>1. ScoringInit => PictureExplained(answer)
  BY DEF ScoringInit, PictureExplained
<1>2. ASSUME PictureExplained(answer), [ScoringNext]_scoringVars
      PROVE  PictureExplained(answer)'
  <2>1. CASE answer' = answer \/ answer' = NoAnswer
    BY <1>2, <2>1 DEF PictureExplained
  <2>2. CASE AnswerText \/ AnswerAudio
    <3>1. answer'.kind \in {"text", "audio"}
      BY <2>2 DEF AnswerText, AnswerAudio, TextAnswer, AudioAnswer
    <3>2. QED
      BY <3>1 DEF PictureExplained
  <2>3. CASE AnswerDescribed \/ AnswerScanned \/ AnswerUnscanned
    <3>1. PICK upload \in Uploads :
             \E labels \in {NotScanned, scan_video_bytes(Sampled(upload))} :
                 answer' = PictureAnswer(upload, labels)
      BY <2>3 DEF AnswerDescribed, AnswerScanned, AnswerUnscanned
    <3> PICK labels \in {NotScanned, scan_video_bytes(Sampled(upload))} :
            answer' = PictureAnswer(upload, labels)
      BY <3>1
    <3>2. answer'.upload = upload /\ answer'.labels = labels
      BY <3>1 DEF PictureAnswer
    <3>3. QED
      BY <3>2 DEF PictureExplained
  <2>4. QED
    BY <1>2, <2>1, <2>2, <2>3
       DEF ScoringNext, scoringVars, StartUpload, Respond, RunLoop, RunWarmup
<1>3. QED
  BY <1>1, <1>2, PTL DEF ScoringSpec

\* What follows for the labels of an answer.
LEMMA AnsweredPictures ==
    ASSUME PictureExplained(answer), answer # NoAnswer, answer.kind = "picture"
    PROVE  /\ IsUpload(answer.upload)
           /\ answer.upload.pictures \in Seq(Kinds)
           /\ Sampled(answer.upload) \in Seq(DOMAIN Pictures)
           /\ answer.labels # NotScanned => answer.labels = scan_video_bytes(Sampled(answer.upload))
           /\ answer.labels \subseteq Entry
<1>1. /\ answer.upload \in Uploads
      /\ answer.labels \in {NotScanned, scan_video_bytes(Sampled(answer.upload))}
  BY DEF PictureExplained
<1>2. IsUpload(answer.upload)
  BY <1>1, ScoringAssumption
<1>3. answer.upload.pictures \in Seq(Kinds)
  BY <1>2 DEF IsUpload, Kinds
<1> DEFINE pictures == Sampled(answer.upload)
<1>4. pictures \in Seq(DOMAIN Pictures)
  BY <1>3, SampledPictures
<1> HIDE DEF pictures
<1>5. scan_video_bytes(pictures) \subseteq Entry
  BY <1>4, VideoLabels
<1>6. QED
  BY <1>1, <1>2, <1>3, <1>4, <1>5 DEF NotScanned, pictures

\* For every video, every set of labels and every batch_size and top_k: down to
\* every confidence as many labels are returned as one batch would return, and
\* the same ones where there is room for more.
THEOREM BatchesAreInvisible == ScoringSpec => []BatchingInvisible
<1>1. ASSUME PictureExplained(answer) PROVE BatchingInvisible
  <2> DEFINE one == _scan_image_arrays(Sampled(answer.upload))
  <2> SUFFICES ASSUME Scanned, NEW c \in 0..100
               PROVE  /\ Cardinality(AtLeast(c, answer.labels)) = Cardinality(AtLeast(c, one))
                      /\ Cardinality(AtLeast(c, one)) < top_k =>
                            AtLeast(c, answer.labels) = AtLeast(c, one)
    BY DEF BatchingInvisible
  <2>1. /\ Sampled(answer.upload) \in Seq(DOMAIN Pictures)
        /\ answer.labels = scan_video_bytes(Sampled(answer.upload))
    BY <1>1, AnsweredPictures DEF Scanned
  <2>2. c \in Nat
    OBVIOUS
  <2>3. \A labels : AtLeast(c, labels) = Unplaced(c, labels)
    BY DEF AtLeast, Unplaced, Bare
  <2>4. QED
    BY <2>1, <2>2, <2>3, BatchesDoNotMatter
<1>2. QED
  BY <1>1, PicturesExplained, PTL

\* However many pictures, labels and batches there are, an unsafe label is only
\* lost to top_k labels at least as likely or to itself found safe elsewhere, and every risk
\* has a picture that shows it.
THEOREM RisksOfVideosExplained == ScoringSpec => []VideoRiskExplained
<1>1. ASSUME PictureExplained(answer) PROVE VideoRiskExplained
  <2> DEFINE pictures == Sampled(answer.upload)
             shown == [i \in DOMAIN pictures |-> Predicted(pictures[i])]
             labels == answer.labels
  <2> SUFFICES ASSUME Scanned
               PROVE  /\ \A i \in DOMAIN pictures : \A unsafe \in {s \in shown[i] : s.categories # {}} :
                            \/ \E s \in labels :
                                  /\ s.label = unsafe.label
                                  /\ s.categories = unsafe.categories
                                  /\ s.confidence >= unsafe.confidence
                            \/ /\ \A s \in labels :
                                      s.label # unsafe.label /\ s.confidence >= unsafe.confidence
                               /\ Cardinality(labels) = top_k
                            \/ \E j \in DOMAIN pictures : \E s \in shown[j] :
                                  /\ s.label = unsafe.label
                                  /\ s.categories = {}
                                  /\ s.confidence >= unsafe.confidence
                      /\ \A c \in DOMAIN _category_scores(labels) : \E i \in DOMAIN pictures :
                            LET own == _category_scores(shown[i])
                            IN  c \in DOMAIN own /\ _category_scores(labels)[c] <= own[c]
    BY DEF VideoRiskExplained
  <2>1. pictures \in Seq(DOMAIN Pictures) /\ labels = scan_video_bytes(pictures)
    BY <1>1, AnsweredPictures DEF Scanned
  <2>2. \A i \in DOMAIN pictures : shown[i] = Predicted(pictures[i])
    OBVIOUS
  <2> HIDE DEF pictures, shown, labels
  <2>3. ASSUME NEW i \in DOMAIN pictures, NEW unsafe \in shown[i], unsafe.categories # {}
        PROVE  \/ \E s \in labels :
                     /\ s.label = unsafe.label
                     /\ s.categories = unsafe.categories
                     /\ s.confidence >= unsafe.confidence
               \/ /\ \A s \in labels :
                         s.label # unsafe.label /\ s.confidence >= unsafe.confidence
                  /\ Cardinality(labels) = top_k
               \/ \E j \in DOMAIN pictures : \E s \in shown[j] :
                     /\ s.label = unsafe.label
                     /\ s.categories = {}
                     /\ s.confidence >= unsafe.confidence
    BY <2>1, <2>2, <2>3, UnsafeLabelsReported
  <2>4. ASSUME NEW c \in DOMAIN _category_scores(labels)
        PROVE  \E i \in DOMAIN pictures :
                  LET own == _category_scores(shown[i])
                  IN  c \in DOMAIN own /\ _category_scores(labels)[c] <= own[c]
    BY <2>1, <2>2, RisksAreShown
  <2>5. QED
    BY <2>3, <2>4
<1>2. QED
  BY <1>1, PicturesExplained, PTL

\* For every step, max_frames and length of a video, linspace's rounding
\* included, no picture is looked at twice and no long scene is missed.
THEOREM LongScenesSampled == ScoringSpec => []ScenesSampled
<1>1. ASSUME PictureExplained(answer) PROVE ScenesSampled
  <2>1. ASSUME Scanned, max_frames > 1,
               \A i \in DOMAIN answer.upload.pictures : answer.upload.pictures[i] # Unreadable
        PROVE  ScenesSampled
    <3>1. answer.upload.pictures \in Seq(Kinds)
      BY <1>1, <2>1, AnsweredPictures DEF Scanned
    <3>2. QED
      BY <2>1, <3>1, ScenesAreSampled DEF ScenesSampled
  <2>2. QED
    BY <2>1 DEF ScenesSampled
<1>2. QED
  BY <1>1, PicturesExplained, PTL

\* The words of an upload, and what its texts have in them.
LEMMA PartsAreTexts ==
    ASSUME NEW u, IsUpload(u)
    PROVE  Parts(u) \subseteq Text /\ u.seams \in Text
<1>1. ASSUME NEW labels, IsObjects(labels)
      PROVE  WordsOf(labels) \subseteq Text
  BY <1>1 DEF IsObjects, WordsOf
<1>2. CASE u.kind = "image"
  <2>1. /\ {u.caption, u.ocr, u.cloud.ocr} \subseteq Text
        /\ IsObjects(u.cloud.labels) /\ IsObjects(u.objects) /\ u.seams \in Text
    BY <1>2 DEF IsUpload
  <2>2. CloudCaption(u.cloud.labels) \in Text
    <3>1. {Written} \cup WordsOf(u.cloud.labels) \subseteq Text
      BY <1>1, <2>1, WrittenIsAText
    <3>2. QED
      BY <3>1, SilenceIsAText, JoinedTexts DEF CloudCaption
  <2>3. Caption(u) \in Text /\ OcrText(u) \in Text
    BY <2>1, <2>2 DEF Caption, OcrText
  <2>4. IsObjects(Detected(u))
    BY <1>2, <2>1 DEF Detected, _merge_unique, IsObjects
  <2>5. WordsOf(Detected(u)) \subseteq Text
    BY <1>1, <2>4
  <2>6. QED
    BY <1>2, <2>1, <2>3, <2>5 DEF Parts
<1>3. CASE u.kind # "image"
  <2>1. u.texts \subseteq Text /\ IsObjects(u.objects) /\ u.seams \in Text
    BY <1>3 DEF IsUpload
  <2>2. WordsOf(Detected(u)) \subseteq Text
    BY <1>1, <1>3, <2>1 DEF Detected
  <2>3. QED
    BY <1>3, <2>1, <2>2 DEF Parts
<1>4. QED
  BY <1>2, <1>3

\* For every upload, whatever the library matches in its texts, the cloud and
\* the local scan say of it: what is seen or scanned decides at least what it
\* would alone, and what some of its texts would be flagged for is not cleared
\* by the others, unless they bring gaming slang or lower-case letters.
THEOREM NoSourceIsCleared == ScoringSpec => []SourcesNeverClear
<1>1. ASSUME PictureExplained(answer) PROVE SourcesNeverClear
  <2> DEFINE upload == answer.upload
             visual == _category_scores(answer.labels)
             whole == Join(Parts(upload) \cup {upload.seams})
             groups == GroupsOf(Detected(upload))
             text == IF upload.kind = "image" THEN OcrText(upload) ELSE whole
             search == IF upload.kind = "image" THEN upload.cloud.search ELSE NotSearched
             underage == "underage" \in text.markers
             shown == Seen(Silence, {}, FALSE, NotSearched, visual)
  <2> SUFFICES ASSUME answer # NoAnswer, answer.kind = "picture", NEW protected \in BOOLEAN
               PROVE  /\ \A alone \in {SeenAlone(upload), shown} :
                            P!Severity[Action(alone, protected)]
                                <= P!Severity[Action(answer.results, protected)]
                      /\ Action(answer.results, protected) = "allow" =>
                            \A some \in SUBSET Parts(upload) : SameSofteners(Join(some), whole) =>
                                Action(Moderate(Join(some)), protected) = "allow"
    BY DEF SourcesNeverClear
  <2>1. IsUpload(upload) /\ answer.labels \subseteq Entry
    BY <1>1, AnsweredPictures
  <2>2. Parts(upload) \cup {upload.seams} \subseteq Text
    BY <2>1, PartsAreTexts
  <2>3. whole \in Text
    BY <2>2, JoinedTexts
  <2>4. IsVisual(visual)
    <3>1. \A c \in DOMAIN visual : visual[c] \in 0..99
      BY <2>1, RisksAreScores
    <3> HIDE DEF visual
    <3> QED
      BY <3>1 DEF IsVisual, Score
  <2>5. answer.results = Seen(whole, groups, underage, search, visual)
    <3>1. answer.results = PictureResults(upload, visual)
      BY <1>1 DEF PictureExplained, PictureAnswer
    <3>2. CASE upload.kind = "image"
      <4>1. Parts(upload) \cup {upload.seams}
              = {Caption(upload), OcrText(upload), upload.seams} \cup WordsOf(Detected(upload))
        BY <3>2 DEF Parts
      <4>2. QED
        BY <3>1, <3>2, <4>1 DEF PictureResults, moderate_image
    <3>3. CASE upload.kind # "image"
      <4>1. Parts(upload) \cup {upload.seams}
              = upload.texts \cup {upload.seams} \cup WordsOf(Detected(upload))
        BY <3>3 DEF Parts
      <4>2. QED
        BY <3>1, <3>3, <4>1 DEF PictureResults, moderate_video
    <3>4. QED
      BY <3>2, <3>3
  <2>6. SeenAlone(upload) = Seen(Silence, groups, underage, search, <<>>)
    BY DEF SeenAlone
  <2>7. ASSUME NEW some \in SUBSET Parts(upload), SameSofteners(Join(some), whole),
               Action(answer.results, protected) = "allow"
        PROVE  Action(Moderate(Join(some)), protected) = "allow"
    <3>1. Join(some) \in Text
      BY <2>2, JoinedTexts
    <3>2. WeakerText(Join(some), whole)
      BY <2>2, <2>7, JoinedTexts DEF WeakerText
    <3> HIDE DEF upload, visual, whole, groups, underage, search
    <3>3. ~ Flagged(Moderate(whole), protected)
      BY <2>3, <2>4, <2>5, <2>7, NoSourceSoftens
    <3>4. ~ Flagged(Moderate(Join(some)), protected)
      BY <2>3, <3>1, <3>2, <3>3, RulesNeverClear
    <3>5. Moderate(Join(some)) \in Results
      BY <3>1, ContextScores
    <3>6. QED
      BY <3>4, <3>5, AllowedUnlessFlagged
  <2> HIDE DEF visual, upload, whole, groups, underage, search
  <2>8. \A alone \in {SeenAlone(upload), shown} :
            P!Severity[Action(alone, protected)] <= P!Severity[Action(answer.results, protected)]
    BY <2>3, <2>4, <2>5, <2>6, NoSourceSoftens
  <2>9. QED
    BY <2>7, <2>8
<1>2. QED
  BY <1>1, PicturesExplained, PTL

\* The scanner's type invariant, in the system composed with it.
THEOREM ScoringTypeCorrect == ScoringSpec => []TypeOK
  BY ScoringImplementsScanner, ScannerTypeCorrect, PTL

=============================================================================
