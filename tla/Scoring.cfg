SPECIFICATION ScoringSpec
CONSTANTS
    Scans = {s1, s2}
    Nobody = Nobody
    NoAnswer = NoAnswer
    Unreadable = Unreadable
    LABEL_CATEGORY_MAP <- MCLabels
    Pictures <- MCPictures
    top_k = 2
    batch_size = 2
    max_frames = 3
    step = 2
    Texts <- MCTexts
    Models <- MCModels
    Uploads <- MCUploads
INVARIANTS
    TypeOK
    LoadedOnce
    PublishedWhole
    MoreEvidenceNeverClears
    SourcesNeverClear
    VideoRiskExplained
    BatchingInvisible
    ScenesSampled
PROPERTIES
    ScansReturn
CHECK_DEADLOCK FALSE
