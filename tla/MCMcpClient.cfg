\* Two processes for the path, one command (execute or sudo-request) and
\* one start, stop or status;
\* the processes are interchangeable.
SPECIFICATION Spec
SYMMETRY Symmetry
CONSTANTS
    Server = {d1, d2}
    Nobody = Nobody
    Stale = Stale
    k1 = k1
    k2 = k2
    Call = {k1, k2}
    Tools <- TwoCalls
INVARIANTS
    TypeOK
    
    NotSentNotRun
    RunsAgainOnlyAcrossRestart
    
    
PROPERTIES
    AnsweredIsFinal
\* Every call may have returned and every process may have ended.
CHECK_DEADLOCK FALSE
