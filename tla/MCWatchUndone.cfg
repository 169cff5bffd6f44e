\* An input whose change is undone while it is reloaded.
CONSTANTS
    Targets = 1
    MaxEdits = 2
    SignatureOf <- PatchSignature
    quietDelay = 1
    maximumDelay = 3
    healthyCheck = 4
    degradedCheck = 2
    startupTimeout = 3
SPECIFICATION FairSpec
PROPERTIES CatchesUp
