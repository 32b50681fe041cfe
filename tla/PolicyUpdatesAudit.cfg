SPECIFICATION Spec
CONSTANTS
    violence = violence
    spam = spam
    Categories = {violence, spam}
    Top = 6
    MinThreshold = 1
    DefaultThresholds <- MCDefaults
    Handlers = {h1, h2}
    Updates <- MCPartialUpdates
    InitialRows <- MCRows
    NoUpdate = NoUpdate
    Keep = Keep
INVARIANTS
    UpdatesAudited
CHECK_DEADLOCK FALSE
