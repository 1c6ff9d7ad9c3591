SPECIFICATION Spec
CONSTANTS
    Poll = 2
    IdleReset = 1
    InitialBackoff = 1
    MaxBackoff = 2
    LogoutTimeout = 1
    Work <- MCLongQueue
    MaxMail = 1
INVARIANT HealthyWhileWorking
