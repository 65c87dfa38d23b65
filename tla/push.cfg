CONSTANTS
    Streams <- TheStreams
    MaxReports = 2
    MaxFaults = 2
SPECIFICATION FairSpec
INVARIANTS NothingBehindTheToken
PROPERTIES EveryReportPushed
CHECK_DEADLOCK FALSE
