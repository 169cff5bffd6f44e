\* Deadlines, serialized checks, hints and catching up; a tree of four
\* directories that changes twice under a portable observer.
CONSTANTS
    Targets = 2
    MaxEdits = 2
    SignatureOf <- StatSignature
    quietDelay = 1
    maximumDelay = 3
    healthyCheck = 4
    degradedCheck = 2
    startupTimeout = 3
    d1 = d1
    d2 = d2
    d3 = d3
    d4 = d4
    Dir <- MCDir
    Root = d1
    Below <- MCBelow
    FirstDirs = {d1, d2, d3}
    Ignored = {}
    Watcher = {1, 2, 3, 4, 5}
    NoWatcher = NoWatcher
    BatchSize = 2
    MaxChanges = 2
SPECIFICATION MCSpec
CHECK_DEADLOCK FALSE
INVARIANTS ChecksSound SourceReleased ShownCoversApplied DirectoriesTracked
PROPERTIES CatchesUp StalledSourceDegrades TreeGoesOn
