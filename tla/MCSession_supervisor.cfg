SPECIFICATION LiveSpec
CONSTANTS
    Poll = 5
    IdleReset = 1
    InitialBackoff = 1
    MaxBackoff = 1
    LogoutTimeout = 1
    Work <- MCSomeWork
    MaxMail = 1
INVARIANT TypeOK
INVARIANT NoLostWakeup
INVARIANT HealthyIfAnswered
PROPERTY WedgeReported
PROPERTY MailGetsMirrored
PROPERTY ClosesAndStops
