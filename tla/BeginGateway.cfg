CONSTANTS
    Attempt = {a1, a2}
    Thread = {t1, t2, t3}
    Key = {k1}
    Body = {b1}
    MaxMessages = 2
    MaxTime = 1
    TotalPosition = 0
    None = None
SPECIFICATION ServerSpec
INVARIANTS
    OneOutcome
    AckedMessageKept
    OneAttemptPerKey
    FateIsTrue
PROPERTIES
    FrozenWhenClosed
    EveryTerminalReturns
    ImplementsRecord
    RecoveryIsFinal
    OpenKeysSettle
