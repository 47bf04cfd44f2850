\* Safety of the vote tally and the push decision at one member whose
\* supernode runs one worker thread.
CONSTANTS
    n1 = n1
    n2 = n2
    n3 = n3
    Members <- MCOneMember
    Others <- MCOthers
    OtherVotes <- MCOtherVotes
    Amounts = {500}
    COIN = 10
    FeeOutcomes = {"unparsable", "zero", "positive"}
    InitStatuses = {"None", "InProgress"}
    LedgerVerdicts = {"OK", "Failed", "DoubleSpend"}
    Workers = 1
    MaxReqDeliver = 2
    MaxVoteDeliver = 1
    MaxTransportFailures = 1
    MaxExpiries = 0

SPECIFICATION Spec

PROPERTY TallyRefinement
INVARIANT PushOnGenuineQuorum
