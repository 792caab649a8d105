\* The durations of the code, up to three timers.
SPECIFICATION FairSpec
CONSTANTS
    Short = 2
    Long = 10
    MaxTimers = 3
INVARIANTS
    TypeOK
    UndisturbedToastLasts
    ShownHasTimer
PROPERTIES
    EventuallyHidden
