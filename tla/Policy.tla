------------------------------- MODULE Policy -------------------------------
(***************************************************************************)
(* What a tenant's policy makes of the scores of one content               *)
(* (app/policy.py, and the reading of a stored policy in                   *)
(* app/services/policy_service.py).  Scores and thresholds are whole steps *)
(* between 0.0 and 1.0, Top being 1.0; thresholds in force are counted in  *)
(* tenths of a step, so that the factors of protected mode are exact.      *)
(***************************************************************************)
EXTENDS Integers

CONSTANTS
    Categories,        \* ModerationCategory
    Top,               \* the score 1.0
    MinThreshold,      \* MIN_POLICY_THRESHOLD
    DefaultThresholds  \* DEFAULT_CATEGORY_THRESHOLDS

Levels == {"review", "block"}

\* None: the override leaves this threshold to the default.
Unset == -1

\* PolicyOverride.validate_order: a validation error unless this holds.
InOrder(override) ==
    override.review # Unset /\ override.block # Unset => override.review <= override.block

\* What the schema PolicyOverride accepts.
Override ==
    {o \in [Levels -> (MinThreshold..Top) \cup {Unset}] : InOrder(o)}

\* What the thresholds column may hold for a category: rows written before
\* the lower limit existed are below it.
StoredOverride == [Levels -> (0..Top) \cup {Unset}]

PolicyRow == [thresholds : [Categories -> StoredOverride],
              review_enabled : BOOLEAN, protected_mode : BOOLEAN]

ASSUME PolicyAssumption ==
    /\ Top \in Nat
    /\ MinThreshold \in 1..Top
    /\ DefaultThresholds \in [Categories -> [Levels -> MinThreshold..Top]]
    /\ \A c \in Categories : DefaultThresholds[c]["review"] <= DefaultThresholds[c]["block"]

-----------------------------------------------------------------------------
(* Reading a stored policy.                                                *)

_sanitize_override(override) ==
    [level \in Levels |->
        IF override[level] # Unset /\ override[level] < MinThreshold
        THEN MinThreshold ELSE override[level]]

\* _with_effective_thresholds: a default for every threshold left open.
Effective(row, c) ==
    LET override == _sanitize_override(row.thresholds[c])
    IN  [level \in Levels |->
            IF override[level] # Unset THEN override[level] ELSE DefaultThresholds[c][level]]

\* get_policy_for_tenant builds a PolicyOverride twice per category, from the
\* stored values and from the effective ones, and fails on one out of order.
Loadable(row) ==
    \A c \in Categories :
        InOrder(_sanitize_override(row.thresholds[c])) /\ InOrder(Effective(row, c))

-----------------------------------------------------------------------------
(* Deciding.                                                               *)

\* Mutant: protected mode raises the threshold for review.
FactorRaised == [review |-> 12, block |-> 9]

Factor == [review |-> 8, block |-> 9]

\* _threshold_for with _apply_protected_mode, in tenths of a step.
Threshold(row, c, level) ==
    LET set     == 10 * Effective(row, c)[level]
        lowered == Factor[level] * Effective(row, c)[level]
    IN  IF ~ row.protected_mode THEN set
        ELSE IF lowered > 10 * MinThreshold THEN lowered ELSE 10 * MinThreshold

\* _decision_contexts: categories that reach their block threshold, and those
\* that reach only the one for review.
Blocking(scores, row) ==
    {c \in DOMAIN scores : 10 * scores[c] >= Threshold(row, c, "block")}

Reviewing(scores, row) ==
    {c \in DOMAIN scores \ Blocking(scores, row) :
        row.review_enabled /\ 10 * scores[c] >= Threshold(row, c, "review")}

\* Mutant: only the category with the highest score decides.
EvaluateHighest(scores, row) ==
    LET top == {c \in DOMAIN scores : \A d \in DOMAIN scores : scores[d] <= scores[c]}
    IN  IF top \subseteq Blocking(scores, row) THEN "block"
        ELSE IF top \cap Reviewing(scores, row) # {} THEN "review" ELSE "allow"

evaluate_policy(scores, row) ==
    IF Blocking(scores, row) # {} THEN "block"
    ELSE IF Reviewing(scores, row) # {} THEN "review" ELSE "allow"

Severity == [allow |-> 0, review |-> 1, block |-> 2]
=============================================================================
