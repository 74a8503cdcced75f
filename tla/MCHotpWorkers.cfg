SPECIFICATION Spec
CONSTANTS
    Workers = {u, w}
    CountWindow = 3
    MaxFail = 3
    MaxCounter = 3
SYMMETRY WorkerSymmetry
INVARIANTS
    TypeOK
    ReplayOnlyAfterRegress
    GuessesStayBounded
