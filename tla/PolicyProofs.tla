---------------------------- MODULE PolicyProofs ----------------------------
(***************************************************************************)
(* For every set of categories, thresholds and updates: what protected     *)
(* mode does to decisions, which updates keep a policy readable, and what  *)
(* concurrent updates of a policy or a case leave alone.                   *)
(***************************************************************************)
EXTENDS DashboardUpdates, TLAPS

LEMMA TypeStep ==
    ASSUME TypeOK, [Next]_vars
    PROVE  TypeOK'
<1> USE DEF TypeOK, Stages
<1>1. ASSUME NEW h \in Handlers, NEW u \in Updates, Refuse(h, u) PROVE TypeOK'
  BY <1>1 DEF Refuse
<1>2. ASSUME NEW h \in Handlers, NEW u \in Updates, Load(h, u) PROVE TypeOK'
  BY <1>2, UpdatesAssumption DEF Load
<1>3. ASSUME NEW h \in Handlers, Store(h) PROVE TypeOK'
  <2>1. update[h] \in Update /\ loaded[h] \in PolicyRow
    BY <1>3 DEF Store
  <2> DEFINE after == Requested(loaded[h], update[h])
  <2>2. after \in PolicyRow
    <3>1. Merged(loaded[h].thresholds, update[h]) \in [Categories -> StoredOverride]
      BY <2>1 DEF Merged, Update, PolicyRow
    <3>2. QED
      BY <2>1, <3>1 DEF Requested, Update, PolicyRow
  <2>3. row' \in PolicyRow
    BY <1>3, <2>1, <2>2 DEF Store, Column, PolicyRow
  <2>4. QED
    BY <1>3, <2>3 DEF Store
<1>4. ASSUME NEW h \in Handlers, Reload(h) \/ ReloadFails(h) \/ Die(h) PROVE TypeOK'
  BY <1>4 DEF Reload, ReloadFails, Die
<1>5. ASSUME NEW h \in Handlers, LogEvent(h) PROVE TypeOK'
  BY <1>5 DEF LogEvent
<1>6. CASE UNCHANGED vars
  BY <1>6 DEF vars
<1>7. QED
  BY <1>1, <1>2, <1>3, <1>4, <1>5, <1>6 DEF Next

\* The types of the policy row and of the handlers hold in every behaviour.
THEOREM TypeCorrect == Spec => []TypeOK
<1>1. Init => TypeOK
  BY UpdatesAssumption DEF Init, TypeOK, Stages
<1>2. QED
  BY <1>1, TypeStep, PTL DEF Spec

-----------------------------------------------------------------------------
(* Protected mode.                                                         *)

\* No stored row puts a threshold in force below the lower limit.
LEMMA EffectiveType ==
    ASSUME NEW r \in PolicyRow, NEW c \in Categories, NEW level \in Levels
    PROVE  Effective(r, c)[level] \in MinThreshold..Top
<1>1. r.thresholds[c] \in StoredOverride
  BY DEF PolicyRow
<1>2. r.thresholds[c][level] \in (0..Top) \cup {Unset}
  BY <1>1 DEF StoredOverride
<1>3. DefaultThresholds[c][level] \in MinThreshold..Top
  BY PolicyAssumption
<1>4. QED
  BY <1>2, <1>3, PolicyAssumption DEF Effective, _sanitize_override, Unset

\* Protected mode lowers a threshold or leaves it where it is.
LEMMA ProtectedLowers ==
    ASSUME NEW r \in PolicyRow, NEW c \in Categories, NEW level \in Levels
    PROVE  /\ Threshold([r EXCEPT !.protected_mode = TRUE], c, level) \in Nat
           /\ Threshold([r EXCEPT !.protected_mode = FALSE], c, level) \in Nat
           /\ Threshold([r EXCEPT !.protected_mode = TRUE], c, level)
                 <= Threshold([r EXCEPT !.protected_mode = FALSE], c, level)
<1> DEFINE on == [r EXCEPT !.protected_mode = TRUE]
           off == [r EXCEPT !.protected_mode = FALSE]
           e == Effective(r, c)[level]
<1>1. /\ on.protected_mode = TRUE /\ off.protected_mode = FALSE
      /\ on.thresholds = r.thresholds /\ off.thresholds = r.thresholds
  BY DEF PolicyRow
<1>2. Effective(on, c) = Effective(r, c) /\ Effective(off, c) = Effective(r, c)
  BY <1>1 DEF Effective
<1>3. e \in Int /\ MinThreshold \in Int /\ 0 < MinThreshold /\ MinThreshold <= e
  BY EffectiveType, PolicyAssumption
<1>4. Factor[level] \in {8, 9}
  BY DEF Factor, Levels
<1> HIDE DEF on, off, e
<1>5. Threshold(off, c, level) = 10 * e
  BY <1>1, <1>2 DEF Threshold, e
<1>6. Threshold(on, c, level) =
        IF Factor[level] * e > 10 * MinThreshold THEN Factor[level] * e ELSE 10 * MinThreshold
  BY <1>1, <1>2 DEF Threshold, e
<1>7. QED
  BY <1>3, <1>4, <1>5, <1>6 DEF on, off

LEMMA StricterDecision ==
    ASSUME NEW r \in PolicyRow, NEW scores \in [Categories -> 0..Top]
    PROVE  Severity[evaluate_policy(scores, [r EXCEPT !.protected_mode = FALSE])]
              <= Severity[evaluate_policy(scores, [r EXCEPT !.protected_mode = TRUE])]
<1> DEFINE on == [r EXCEPT !.protected_mode = TRUE]
           off == [r EXCEPT !.protected_mode = FALSE]
<1>1. on.review_enabled = r.review_enabled /\ off.review_enabled = r.review_enabled
  BY DEF PolicyRow
<1>2. \A c \in Categories, level \in Levels :
          /\ Threshold(on, c, level) \in Nat
          /\ Threshold(off, c, level) \in Nat
          /\ Threshold(on, c, level) <= Threshold(off, c, level)
  BY ProtectedLowers
<1> HIDE DEF on, off
<1>3. Blocking(scores, off) \subseteq Blocking(scores, on)
  <2> SUFFICES ASSUME NEW c \in Categories, 10 * scores[c] >= Threshold(off, c, "block")
               PROVE  10 * scores[c] >= Threshold(on, c, "block")
    BY DEF Blocking
  <2>1. scores[c] \in Int
    BY PolicyAssumption
  <2>2. QED
    BY <1>2, <2>1 DEF Levels
<1>4. Reviewing(scores, off) \subseteq Reviewing(scores, on) \cup Blocking(scores, on)
  <2> SUFFICES ASSUME NEW c \in Categories, 10 * scores[c] >= Threshold(off, c, "review")
               PROVE  10 * scores[c] >= Threshold(on, c, "review")
    BY <1>1 DEF Blocking, Reviewing
  <2>1. scores[c] \in Int
    BY PolicyAssumption
  <2>2. QED
    BY <1>2, <2>1 DEF Levels
<1>5. Severity["allow"] = 0 /\ Severity["review"] = 1 /\ Severity["block"] = 2
  BY DEF Severity
<1>6. Severity[evaluate_policy(scores, off)] <= Severity[evaluate_policy(scores, on)]
  <2> DEFINE a == evaluate_policy(scores, off)
             b == evaluate_policy(scores, on)
  <2>1. a \in {"allow", "review", "block"} /\ b \in {"allow", "review", "block"}
    BY DEF evaluate_policy
  <2>2. a = "block" => b = "block"
    BY <1>3 DEF evaluate_policy
  <2>3. a = "review" => b # "allow"
    BY <1>4 DEF evaluate_policy
  <2> HIDE DEF a, b
  <2>4. Severity[a] <= Severity[b]
    BY <1>5, <2>1, <2>2, <2>3
  <2>5. QED
    BY <2>4 DEF a, b
<1>7. QED
  BY <1>6 DEF on, off

\* Turning protected mode on makes no decision more lenient, whatever policy
\* is stored and whatever the content scores.
THEOREM ProtectedModeIsStricter == Spec => []ProtectedModeStricter
<1>1. TypeOK => ProtectedModeStricter
  BY StricterDecision DEF TypeOK, ProtectedModeStricter
<1>2. QED
  BY <1>1, TypeCorrect, PTL

-----------------------------------------------------------------------------
(* Higher scores.                                                          *)

\* Every category that reaches a threshold still reaches it.
LEMMA ScoresOnlyAdd ==
    ASSUME NEW r \in PolicyRow,
           NEW low \in [Categories -> 0..Top], NEW high \in [Categories -> 0..Top],
           \A c \in Categories : low[c] <= high[c]
    PROVE  /\ Blocking(low, r) \subseteq Blocking(high, r)
           /\ Reviewing(low, r) \subseteq Reviewing(high, r) \cup Blocking(high, r)
<1>1. ASSUME NEW c \in Categories, NEW level \in Levels,
             10 * low[c] >= Threshold(r, c, level)
      PROVE  10 * high[c] >= Threshold(r, c, level)
  <2>1. [r EXCEPT !.protected_mode = r.protected_mode] = r
    BY DEF PolicyRow
  <2>2. r.protected_mode \in BOOLEAN
    BY DEF PolicyRow
  <2>3. Threshold(r, c, level) \in Nat
    BY <2>1, <2>2, ProtectedLowers
  <2>4. low[c] \in Int /\ high[c] \in Int /\ low[c] <= high[c]
    BY PolicyAssumption
  <2>5. QED
    BY <1>1, <2>3, <2>4
<1>2. "block" \in Levels /\ "review" \in Levels
  BY DEF Levels
<1>3. QED
  BY <1>1, <1>2 DEF Blocking, Reviewing

\* Content that a policy stops is also stopped when it scores higher, by the
\* same policy, in any category.
THEOREM HigherScoresAreNeverSofter == Spec => []HigherScoresNeverSofter
<1>1. ASSUME TypeOK, NEW low \in [Categories -> 0..Top], NEW high \in [Categories -> 0..Top],
             \A c \in Categories : low[c] <= high[c]
      PROVE  Severity[evaluate_policy(low, row)] <= Severity[evaluate_policy(high, row)]
  <2> DEFINE a == evaluate_policy(low, row)
             b == evaluate_policy(high, row)
  <2>1. /\ Blocking(low, row) \subseteq Blocking(high, row)
        /\ Reviewing(low, row) \subseteq Reviewing(high, row) \cup Blocking(high, row)
    BY <1>1, ScoresOnlyAdd DEF TypeOK
  <2>2. a \in {"allow", "review", "block"} /\ b \in {"allow", "review", "block"}
    BY DEF evaluate_policy
  <2>3. a = "block" => b = "block"
    BY <2>1 DEF evaluate_policy
  <2>4. a = "review" => b # "allow"
    BY <2>1 DEF evaluate_policy
  <2>5. Severity["allow"] = 0 /\ Severity["review"] = 1 /\ Severity["block"] = 2
    BY DEF Severity
  <2> HIDE DEF a, b
  <2>6. Severity[a] <= Severity[b]
    BY <2>2, <2>3, <2>4, <2>5
  <2>7. QED
    BY <2>6 DEF a, b
<1>2. TypeOK => HigherScoresNeverSofter
  BY <1>1 DEF HigherScoresNeverSofter
<1>3. QED
  BY <1>2, TypeCorrect, PTL

-----------------------------------------------------------------------------
(* Reading back what was stored.                                           *)

\* The schema's order of the two thresholds, for the stored row and for what
\* handlers are about to store.
OrderKept ==
    /\ TypeOK
    /\ \A c \in Categories : InOrder(row.thresholds[c])
    /\ \A h \in Handlers : stage[h] = "loaded" =>
          /\ Accepts(update[h])
          /\ \A c \in Categories : InOrder(loaded[h].thresholds[c])

LEMMA OrderKeptStep ==
    ASSUME OrderKept, [Next]_vars
    PROVE  OrderKept'
<1>1. TypeOK /\ TypeOK'
  BY TypeStep DEF OrderKept
<1>2. ASSUME NEW h \in Handlers, NEW u \in Updates, Load(h, u)
      PROVE  OrderKept'
  BY <1>1, <1>2 DEF OrderKept, Load, TypeOK, Accepts
<1>3. ASSUME NEW h \in Handlers, Store(h)
      PROVE  OrderKept'
  <2>1. update[h] \in Update /\ loaded[h] \in PolicyRow /\ row \in PolicyRow
    BY <1>1, <1>3 DEF Store, TypeOK
  <2>2. Accepts(update[h]) /\ \A c \in Categories : InOrder(loaded[h].thresholds[c])
    BY <1>3 DEF Store, OrderKept
  <2> DEFINE merged == Merged(loaded[h].thresholds, update[h])
  <2>3. \A c \in Categories : InOrder(merged[c])
    BY <2>2 DEF Merged, Accepts, Override
  <2>4. row'.thresholds = merged \/ row'.thresholds = row.thresholds
    BY <1>3, <2>1 DEF Store, Column, Requested, PolicyRow
  <2>5. \A c \in Categories : InOrder(row'.thresholds[c])
    BY <2>3, <2>4 DEF OrderKept
  <2>6. /\ UNCHANGED <<update, loaded>>
        /\ \A g \in Handlers : stage'[g] = "loaded" => stage[g] = "loaded"
    BY <1>1, <1>3 DEF Store, TypeOK
  <2>7. QED
    BY <1>1, <2>5, <2>6 DEF OrderKept, Accepts
<1>4. CASE /\ UNCHANGED <<row, update, loaded>>
           /\ \A g \in Handlers : stage'[g] = "loaded" => stage[g] = "loaded"
  BY <1>1, <1>4 DEF OrderKept, Accepts
<1>5. ASSUME NEW h \in Handlers,
             \/ \E u \in Updates : Refuse(h, u)
             \/ Reload(h) \/ ReloadFails(h) \/ LogEvent(h) \/ Die(h)
      PROVE  OrderKept'
  <2>1. UNCHANGED <<row, update, loaded>>
    BY <1>5 DEF Refuse, Reload, ReloadFails, LogEvent, Die
  <2>2. \A g \in Handlers : stage'[g] = "loaded" => stage[g] = "loaded"
    BY <1>1, <1>5 DEF Refuse, Reload, ReloadFails, LogEvent, Die, TypeOK
  <2>3. QED
    BY <1>4, <2>1, <2>2
<1>6. CASE UNCHANGED vars
  BY <1>4, <1>6 DEF vars
<1>7. QED
  BY <1>2, <1>3, <1>5, <1>6 DEF Next

\* Raising both thresholds to the lower limit keeps their order, and with
\* both or none stored the defaults do not mix with them.
LEMMA WholeOverridesLoad ==
    ASSUME OrderKept
    PROVE  StoredPolicyLoadable
<1> SUFFICES ASSUME NEW c \in Categories,
                    (row.thresholds[c]["review"] = Unset) = (row.thresholds[c]["block"] = Unset)
             PROVE  InOrder(_sanitize_override(row.thresholds[c])) /\ InOrder(Effective(row, c))
  BY DEF StoredPolicyLoadable, Loadable
<1> DEFINE o == row.thresholds[c]
           s == _sanitize_override(o)
           e == Effective(row, c)
           d == DefaultThresholds[c]
<1>1. o \in StoredOverride /\ InOrder(o)
  BY DEF OrderKept, TypeOK, PolicyRow
<1>2. o["review"] \in Int /\ o["block"] \in Int
  BY <1>1, PolicyAssumption DEF StoredOverride, Levels, Unset
<1>3. MinThreshold \in Nat /\ MinThreshold > 0
  BY PolicyAssumption
<1>4. d["review"] \in Int /\ d["block"] \in Int /\ d["review"] <= d["block"]
  BY PolicyAssumption DEF Levels
<1>5. \A level \in Levels :
          /\ s[level] = IF o[level] # Unset /\ o[level] < MinThreshold THEN MinThreshold ELSE o[level]
          /\ e[level] = IF s[level] # Unset THEN s[level] ELSE d[level]
  BY DEF _sanitize_override, Effective
<1>6. "review" \in Levels /\ "block" \in Levels
  BY DEF Levels
<1>7. o["review"] # Unset /\ o["block"] # Unset => o["review"] <= o["block"]
  BY <1>1 DEF InOrder
<1> HIDE DEF o, s, e, d
<1>8. s["review"] # Unset /\ s["block"] # Unset => s["review"] <= s["block"]
  BY <1>2, <1>3, <1>5, <1>6, <1>7 DEF Unset
<1>9. (s["review"] = Unset) = (s["block"] = Unset)
  BY <1>2, <1>3, <1>5, <1>6 DEF Unset, o
<1>10. e["review"] <= e["block"]
  BY <1>4, <1>5, <1>6, <1>8, <1>9
<1>11. QED
  BY <1>8, <1>10 DEF InOrder, o, s, e

\* No sequence of updates, by however many handlers on however stale rows,
\* stores a policy that cannot be read, unless it leaves one of a category's
\* two thresholds to the default.
THEOREM WholePoliciesAreReadable == Spec => []StoredPolicyLoadable
<1>1. Init => OrderKept
  <2>1. Init => TypeOK
    BY UpdatesAssumption DEF Init, TypeOK, Stages
  <2>2. QED
    BY <2>1, UpdatesAssumption DEF Init, OrderKept
<1>2. QED
  BY <1>1, OrderKeptStep, WholeOverridesLoad, PTL DEF Spec

-----------------------------------------------------------------------------
(* Concurrent updates.                                                     *)

\* For any handlers, updates and rows.
THEOREM OthersFlagsAreKept == Spec => OthersFlagsKept
<1>1. ASSUME TypeOK, NEW h \in Handlers, Store(h)
      PROVE  /\ update[h].review_enabled = Keep => row'.review_enabled = row.review_enabled
             /\ update[h].protected_mode = Keep => row'.protected_mode = row.protected_mode
  <2> DEFINE after == Requested(loaded[h], update[h])
  <2>1. row' = [column \in DOMAIN row |-> Column(row[column], loaded[h][column], after[column])]
    BY <1>1 DEF Store
  <2>2. {"review_enabled", "protected_mode"} \subseteq DOMAIN row
    BY <1>1 DEF TypeOK, PolicyRow
  <2>3. /\ update[h].review_enabled = Keep => after.review_enabled = loaded[h].review_enabled
        /\ update[h].protected_mode = Keep => after.protected_mode = loaded[h].protected_mode
    BY DEF Requested
  <2> HIDE DEF after
  <2>4. QED
    BY <2>1, <2>2, <2>3 DEF Column
<1>2. TypeOK /\ [Next]_vars =>
          [\A h \in Handlers : Store(h) =>
              /\ update[h].review_enabled = Keep => row'.review_enabled = row.review_enabled
              /\ update[h].protected_mode = Keep => row'.protected_mode = row.protected_mode]_vars
  BY <1>1
<1>3. QED
  BY <1>2, TypeCorrect, PTL DEF Spec, OthersFlagsKept

LEMMA CaseTypeStep ==
    ASSUME CaseTypeOK, [DashboardNext]_dashboardVars
    PROVE  CaseTypeOK'
<1> USE DEF CaseTypeOK
<1>1. ASSUME NEW h \in Handlers, NEW u \in CaseUpdates, LoadCase(h, u)
      PROVE  CaseTypeOK'
  BY <1>1, CaseUpdatesAssumption DEF LoadCase
<1>2. ASSUME NEW h \in Handlers, CommitCase(h)
      PROVE  CaseTypeOK'
  <2>1. seen[h] \in CaseRow /\ asked[h] \in CaseUpdate /\ case \in CaseRow
    OBVIOUS
  <2>2. /\ Updated(h).status \in Statuses
        /\ Updated(h).assignee \in Assignees \cup {Nobody}
    BY <2>1 DEF Updated, CaseRow, CaseUpdate
  <2>3. Updated(h).notes \in Seq(Note)
    <3>1. h \in Note /\ seen[h].notes \in Seq(Note)
      BY <2>1 DEF Note, CaseRow
    <3>2. Append(seen[h].notes, h) \in Seq(Note)
      BY <3>1
    <3>3. QED
      BY <3>1, <3>2 DEF Updated
  <2>4. DOMAIN case = {"status", "assignee", "notes"}
    BY <2>1 DEF CaseRow
  <2>5. case' = [column \in DOMAIN case |->
                    Written(case[column], seen[h][column], Updated(h)[column])]
    BY <1>2 DEF CommitCase
  <2>6. /\ case'.status \in Statuses
        /\ case'.assignee \in Assignees \cup {Nobody}
        /\ case'.notes \in Seq(Note)
    BY <2>1, <2>2, <2>3, <2>4, <2>5 DEF Written, CaseRow
  <2>7. case' \in CaseRow
    BY <2>4, <2>5, <2>6 DEF CaseRow
  <2>8. QED
    BY <1>2, <2>7 DEF CommitCase
<1>3. ASSUME NEW h \in Handlers, DieOnCase(h)
      PROVE  CaseTypeOK'
  BY <1>3 DEF DieOnCase
<1>4. CASE UNCHANGED caseVars
  BY <1>4 DEF caseVars
<1>5. QED
  BY <1>1, <1>2, <1>3, <1>4 DEF DashboardNext, UpdatesCase, UpdatesPolicy, CaseStep, dashboardVars

THEOREM CaseTypeCorrect == DashboardSpec => []CaseTypeOK
<1>1. DashboardInit => CaseTypeOK
  <2>1. "created" \in Note
    BY DEF Note
  <2>2. <<"created">> \in Seq(Note)
    BY <2>1
  <2>3. Created \in CaseRow
    BY <2>2 DEF Created, CaseRow, Statuses
  <2>4. NotAsked \in CaseUpdate
    BY DEF NotAsked, CaseUpdate
  <2>5. QED
    BY <2>3, <2>4 DEF DashboardInit, CaseInit, CaseTypeOK
<1>2. QED
  BY <1>1, CaseTypeStep, PTL DEF DashboardSpec

LEMMA Columns ==
    ASSUME CaseTypeOK, NEW h \in Handlers, CommitCase(h)
    PROVE  \A column \in {"status", "assignee", "notes"} :
              case'[column] = Written(case[column], seen[h][column], Updated(h)[column])
  BY DEF CaseTypeOK, CaseRow, CommitCase

\* For any moderators, updates and interleaving.
THEOREM NotesAreLostOnlyToNotes == DashboardSpec => NotesLostOnlyToNotes
<1>1. ASSUME CaseTypeOK, NEW h \in Handlers, CommitCase(h),
             NEW n \in Notes(case) \ Notes(case')
      PROVE  asked[h].note /\ n \notin Notes(seen[h])
  <2>1. case'.notes = Written(case.notes, seen[h].notes, Updated(h).notes)
    BY <1>1, Columns
  <2>2. case'.notes # case.notes
    BY <1>1 DEF Notes
  <2>3. asked[h].note /\ case'.notes = Append(seen[h].notes, h)
    BY <2>1, <2>2 DEF Written, Updated
  <2>4. seen[h].notes \in Seq(Note)
    BY <1>1 DEF CaseTypeOK, CaseRow
  <2>5. \A i \in DOMAIN seen[h].notes :
            i \in DOMAIN case'.notes /\ case'.notes[i] = seen[h].notes[i]
    BY <2>3, <2>4
  <2>6. QED
    BY <1>1, <2>3, <2>5 DEF Notes
<1>2. CaseTypeOK /\ [DashboardNext]_dashboardVars =>
          [\A h \in Handlers : CommitCase(h) =>
              \A n \in Notes(case) \ Notes(case') : asked[h].note /\ n \notin Notes(seen[h])]_caseVars
  BY <1>1
<1>3. QED
  BY <1>2, CaseTypeCorrect, PTL DEF DashboardSpec, NotesLostOnlyToNotes

\* For any moderators, updates and interleaving.
THEOREM CaseFieldsAreKept == DashboardSpec => CaseFieldsKept
<1>1. ASSUME CaseTypeOK, NEW h \in Handlers, CommitCase(h)
      PROVE  /\ asked[h].status = Keep => case'.status = case.status
             /\ asked[h].assignee = Keep => case'.assignee = case.assignee
  <2>1. /\ case'.status = Written(case.status, seen[h].status, Updated(h).status)
        /\ case'.assignee = Written(case.assignee, seen[h].assignee, Updated(h).assignee)
    BY <1>1, Columns
  <2>2. QED
    BY <2>1 DEF Written, Updated
<1>2. CaseTypeOK /\ [DashboardNext]_dashboardVars =>
          [\A h \in Handlers : CommitCase(h) =>
              /\ asked[h].status = Keep => case'.status = case.status
              /\ asked[h].assignee = Keep => case'.assignee = case.assignee]_caseVars
  BY <1>1
<1>3. QED
  BY <1>2, CaseTypeCorrect, PTL DEF DashboardSpec, CaseFieldsKept

\* Updates of cases leave policies alone, so that what is proved of the policy's
\* updates holds beside them.
THEOREM DashboardImplementsPolicyUpdates == DashboardSpec => Spec
<1>1. DashboardInit => Init
  BY DEF DashboardInit
<1>2. [DashboardNext]_dashboardVars => [Next]_vars
  BY DEF DashboardNext, UpdatesPolicy, UpdatesCase, Next, dashboardVars
<1>3. QED
  BY <1>1, <1>2, PTL DEF DashboardSpec, Spec

\* For any handlers, updates and rows.
THEOREM DashboardTypeCorrect == DashboardSpec => []DashboardTypeOK
  BY DashboardImplementsPolicyUpdates, TypeCorrect, CaseTypeCorrect, PTL DEF DashboardTypeOK
=============================================================================
