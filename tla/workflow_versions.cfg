SPECIFICATION Spec
CONSTANTS
    Sessions = {s1, s2}
    MaxVersions = 4
SYMMETRY Symmetry
INVARIANTS
    OnePublished
    VersionsAreDense
PROPERTIES
    ReleaseAlteredOnlyByStaleAutosave
    PublishesWhatItSaved
    ActiveIsLostOnlyToStaleAutosave
CHECK_DEADLOCK FALSE
