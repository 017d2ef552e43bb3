\* Two replies at a time, on two days, with and without a provider.
SPECIFICATION FairSpec
CONSTANTS
    Horizon = 2
    Threads = {t1, t2}
    Messages <- AllMessages
    Answers <- AllAnswers
    Providers = {"disabled", "anthropic", "opencode_zen"}
    MaxReplies = 2
    MaxDay = 1
INVARIANTS InjectionRecordsNothing PromiseOfItsDay
PROPERTIES EndedStaysEnded WaitEnds
CHECK_DEADLOCK FALSE
