\* The test harness: three tests, a pool of two threads or none, any file that stays and any exception.
CONSTANTS
    Tests = 3
    Workers = 2
    Leftovers = 1
SPECIFICATION Spec
INVARIANTS
    ReportIsComplete
    NothingRunsAfterReport
    PassRunsWhatWasLinked
    OldCodeIsSaid
PROPERTY Terminates
