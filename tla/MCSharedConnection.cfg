SPECIFICATION HandlerSpec
INVARIANTS
    AnsweredOnce
    AnsweredInTime
    ToldIsStored
    NothingHalfDone
    LockIsBrief
