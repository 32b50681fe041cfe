SPECIFICATION DashboardSpec
CONSTANTS
    violence = violence
    spam = spam
    Categories = {violence, spam}
    Top = 6
    MinThreshold = 1
    DefaultThresholds <- MCDefaults
    Handlers = {h1, h2}
    Updates <- MCUpdates
    InitialRows <- MCRows
    NoUpdate = NoUpdate
    Keep = Keep
    CaseUpdates <- MCCaseUpdates
    Assignees = {moderator}
    Nobody = Nobody
    moderator = moderator
INVARIANTS
    DashboardTypeOK
    StoredPolicyLoadable
    ProtectedModeStricter
    HigherScoresNeverSofter
PROPERTIES
    OthersFlagsKept
    NotesLostOnlyToNotes
    CaseFieldsKept
CHECK_DEADLOCK FALSE
