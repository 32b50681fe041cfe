---------------------------- MODULE ReviewCases -----------------------------
(***************************************************************************)
(* Changing a review case: PATCH /cases/{id} (app/main.py,                 *)
(* app/repositories/moderation.py).  A handler reads the case, writes it   *)
(* back, and logs the change in the same transaction.  Handlers of several *)
(* processes interleave between the two.                                   *)
(***************************************************************************)
EXTENDS Sequences, DashboardHandlers

CONSTANTS
    CaseUpdates,  \* request bodies sent
    Assignees,
    Nobody        \* the assignee of a case that nobody was given

Statuses == {"open", "in_review", "resolved", "dismissed"}

\* ReviewCaseUpdate; a note stands for the handler that was sent it.
CaseUpdate == [status : Statuses \cup {Keep}, assignee : Assignees \cup {Nobody, Keep},
               note : BOOLEAN]

\* Its schema refuses an update that says nothing.
Says(u) == u.status # Keep \/ u.assignee # Keep \/ u.note

ASSUME CaseUpdatesAssumption ==
    /\ CaseUpdates \subseteq CaseUpdate /\ \A u \in CaseUpdates : Says(u)
    /\ "created" \notin Handlers

VARIABLES
    case,       \* the committed row of review_cases
    caseStage,  \* how far each handler is
    asked,      \* the request body it handles
    seen,       \* the row as its session read it
    logged      \* handlers with a review_case.updated event

caseVars == <<case, caseStage, asked, seen, logged>>

Note == Handlers \cup {"created"}
CaseRow == [status : Statuses, assignee : Assignees \cup {Nobody}, notes : Seq(Note)]

\* As the moderation pipeline created it.
Created == [status |-> "open", assignee |-> Nobody, notes |-> <<"created">>]

NotAsked == [status |-> Keep, assignee |-> Keep, note |-> FALSE]

CaseTypeOK ==
    /\ case \in CaseRow
    /\ caseStage \in [Handlers -> {"new", "loaded", "updated", "died"}]
    /\ asked \in [Handlers -> CaseUpdate]
    /\ seen \in [Handlers -> CaseRow]
    /\ logged \subseteq Handlers

CaseInit ==
    /\ case = Created
    /\ caseStage = [h \in Handlers |-> "new"]
    /\ asked = [h \in Handlers |-> NotAsked]
    /\ seen = [h \in Handlers |-> Created]
    /\ logged = {}

\* get_review_case
LoadCase(h, u) ==
    /\ caseStage[h] = "new"
    /\ caseStage' = [caseStage EXCEPT ![h] = "loaded"]
    /\ asked' = [asked EXCEPT ![h] = u]
    /\ seen' = [seen EXCEPT ![h] = case]
    /\ UNCHANGED <<case, logged>>

\* Mutant: a note takes the place of the others.
UpdatedAlone(h) ==
    LET was(old, new) == IF new = Keep THEN old ELSE new
    IN  [status |-> was(seen[h].status, asked[h].status),
         assignee |-> was(seen[h].assignee, asked[h].assignee),
         notes |-> IF asked[h].note THEN <<h>> ELSE seen[h].notes]

\* What update_review_case makes of the row it loaded.
Updated(h) ==
    LET was(old, new) == IF new = Keep THEN old ELSE new
    IN  [status |-> was(seen[h].status, asked[h].status),
         assignee |-> was(seen[h].assignee, asked[h].assignee),
         notes |-> IF asked[h].note THEN Append(seen[h].notes, h) ELSE seen[h].notes]

\* Mutant: the session writes back every column.
WrittenAlways(now, before, after) == after

\* A session writes only the columns that differ from those it loaded.
Written(now, before, after) == IF after # before THEN after ELSE now

\* One transaction: the row is locked from the UPDATE to the commit.
CommitCase(h) ==
    /\ caseStage[h] = "loaded"
    /\ case' = [column \in DOMAIN case |->
                    Written(case[column], seen[h][column], Updated(h)[column])]
    /\ logged' = logged \cup {h}
    /\ caseStage' = [caseStage EXCEPT ![h] = "updated"]
    /\ UNCHANGED <<asked, seen>>

\* Before the commit: nothing is stored.
DieOnCase(h) ==
    /\ caseStage[h] = "loaded"
    /\ caseStage' = [caseStage EXCEPT ![h] = "died"]
    /\ UNCHANGED <<case, asked, seen, logged>>

CaseStep(h) ==
    \/ \E u \in CaseUpdates : LoadCase(h, u)
    \/ CommitCase(h)
    \/ DieOnCase(h)

-----------------------------------------------------------------------------
(* Properties.                                                             *)

Notes(row) == {row.notes[i] : i \in DOMAIN row.notes}

\* A note disappears only when two moderators annotate the case at once: it was
\* committed after the other one read the case, and the other one's note takes
\* its place.  So the first note stays, and an update without a note loses none.
NotesLostOnlyToNotes ==
    [][\A h \in Handlers : CommitCase(h) =>
          \A n \in Notes(case) \ Notes(case') : asked[h].note /\ n \notin Notes(seen[h])]_caseVars

\* An update that leaves the status or the assignee open never reverts what
\* another handler made of it in between.
CaseFieldsKept ==
    [][\A h \in Handlers : CommitCase(h) =>
          /\ asked[h].status = Keep => case'.status = case.status
          /\ asked[h].assignee = Keep => case'.assignee = case.assignee]_caseVars
=============================================================================
