SPECIFICATION FairSpec
CONSTANTS
    Timers = {t1, t2}
    Expiries = {0, 15}
    Free = free
    TickSpace = 40
    ThreadLimit = 2
    LastCall = 10
INVARIANT TypeOK
INVARIANT FreedIsLetGo
INVARIANT NotEarly
 
PROPERTY HandlerRuns
PROPERTY TimersAreFreed
