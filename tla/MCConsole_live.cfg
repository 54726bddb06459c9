SPECIFICATION FairSpec
CONSTANTS
    Runs = {r1}
    Jobs = {j1}
    NoRun = NoRun
    Backlog = 2
PROPERTIES
    EverythingSettles
