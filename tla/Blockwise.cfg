SPECIFICATION FairSpec
CONSTANTS
    Upload = 3
    Download = 3
    MaxDups = 1
    MaxEchoes = 1
INVARIANTS UploadWhole DownloadWhole
PROPERTIES Completes AskedWhole
CHECK_DEADLOCK FALSE
