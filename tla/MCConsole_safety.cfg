SPECIFICATION Spec
CONSTANTS
    Runs = {r1, r2}
    Jobs = {j1}
    NoRun = NoRun
    Backlog = 2
SYMMETRY Interchangeable
INVARIANTS
    TypeOK
    OneRepublisher
    StoppableWhileAlive
PROPERTIES
    StoppingStays
