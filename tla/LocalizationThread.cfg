CONSTANTS
    Times = 1
    Thresh = 2
    Interval = 2
    Period = 2
    Road = 2
    MaxSessions = 2
SPECIFICATION FairSpec
INVARIANT StatusTellsSuccess
PROPERTIES FailedIsEarned AttemptIsEarned MatchEveryPeriod ExactUnlessStrayed RelocalizationEnds
