\* Two stages, pipes of two units, a cap of one: a read may reach the cap, pass
\* it in one go, or pass it again afterwards.
SPECIFICATION Spec
CONSTANTS
    MaxStages = 2
    PipeSize = 2
    MaxOutput = 1
    MaxWrites = 3
INVARIANTS
    TypeOK
    NothingLeftBehind
    OkIsComplete
PROPERTIES
    KillsOnlyItsOwn
    AnswersOnceUnheld
\* A stopped child that the daemon may not kill leaves the handler in its wait
\* for ever, and nothing else has to happen.
CHECK_DEADLOCK FALSE
