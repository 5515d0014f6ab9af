SPECIFICATION FairSpec
CONSTANTS
    Files = {f1, f2}
    Sounds = {s1}
    NoFile = nofile
    MaxMusic = 3
    Calls <- MonitorCalls
INVARIANTS
    AudioThreadSurvives
PROPERTIES
    BgmResumes
    ShutdownCompletes
