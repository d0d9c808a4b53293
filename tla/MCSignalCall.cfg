CONSTANTS
    Policies <- MCPolicies
    Transports <- MCTransports
    RetryMax = 1
    MaxFires = 3
SPECIFICATION Spec
INVARIANT PendingNotStuck
INVARIANT QueueSerial
INVARIANT SoleUnlessReentered
PROPERTY NewestUnlessLate
PROPERTY NeverHangs
PROPERTY DropReopens
\* Fires are bounded, so a run ends.
CHECK_DEADLOCK FALSE
