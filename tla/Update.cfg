CONSTANTS
    Releases <- Published
    Empty <- NoRelease
    CurrentVersion = 1
    InstallMethod = "SelfInstall"
    MaxCalls = 3
SPECIFICATION FairSpec
INVARIANTS
    
    InstallsWhatItVerified
PROPERTIES
    UserLearnsOfFailure
    InFlightEnds
