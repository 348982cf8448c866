SPECIFICATION LinkSpec
CONSTANTS
    SeqMod = 16
    FirstSeqs <- MCFirstSeqs
    MaxLead = 2
    MaxCmds = 4
    Endless = FALSE
    MaxWire = 2
    MaxConns = 2
    MaxBehind = 2
    MaxFaults = 2
INVARIANTS
    TypeOK
    FreshLinkIsObeyed
PROPERTIES
    OrderIsKept
    DeliversForEver
\* A server left with a half-open connection waits for ever, and so does the bridge.
CHECK_DEADLOCK FALSE
