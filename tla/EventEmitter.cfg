SPECIFICATION FairSpec
CONSTANTS
    Event = {e1, e2}
    NoEvent = NoEvent
    SlowStart = TRUE
    QueueBound = 4
INVARIANTS UrgentBeforeNormal FiresAgain
PROPERTIES ImplementsBus EventuallyNotified
