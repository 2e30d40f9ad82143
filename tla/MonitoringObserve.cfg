SPECIFICATION Spec
CONSTANTS
    DefaultListLimit = 1
    MaxListLimit = 2
    Target = "t"
    Configs <- MCConfigs
    AlertBodies <- MCAlertBodies
    SampleBodies <- MCSampleBodies
    RawLimits <- MCRawLimits
    UnknownName = 2
    MaxLabelLength = 3
    FirstTime = 2
    LastTime = 4
    Epoch = 3
    MaxTimestamp = 1
INVARIANTS
    MostUrgentKept
    ComponentsDeserved
    ScrapesExact
    ForeignSeriesHarmless
    EncodesWhatItAccepts
