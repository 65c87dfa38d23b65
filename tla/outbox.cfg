CONSTANTS
    Rows <- TheRows
    Muted <- OneRowMuted
    Poisoned <- OneRowPoisoned
    Providers <- TheProviders
    Beats <- TheBeats
    Batch = 2
    MaxAttempts = 2
    MaxMishaps = 3
SPECIFICATION FairOutboxSpec
INVARIANTS HeartbeatsConserved DeliveredIsSent
PROPERTIES RowsDelivered
CHECK_DEADLOCK FALSE
