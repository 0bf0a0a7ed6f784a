SPECIFICATION StagesSpec
CONSTANTS
    None = None
    Never = 11
    DEFAULT_ART_DOMAINS <- MCDomains
    Labels <- MCLabels
    ExtraDomains <- MCExtra
    FetchUrls <- MCUrls
    FirstUrls <- MCFirstUrls
    AnswersOf <- MCAnswersOf
    DOWNLOAD_TIMEOUT = 1
    DOWNLOAD_DEADLINE = 4
    MAX_REDIRECTS = 2
    MAX_COVER_BYTES = 3
    CHUNK = 2
    Configs <- MCConfigs
    Rendered <- MCRendered
    CTL_TIMEOUT = 1
    MAX_STDERR_READ = 2
    PIPE_CAPACITY = 1
    MaxOutput = 4
INVARIANTS
    StagesTypeOK
    ConnectsOnlyChecked
    JobTimeBounded
    CallContained
    RevertReachesCtl
