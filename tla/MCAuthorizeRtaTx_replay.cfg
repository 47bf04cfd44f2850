\* Two worker threads and the request delivered twice to one member.
CONSTANTS
    n1 = n1
    n2 = n2
    n3 = n3
    COIN = 10
    InitStatuses = {"None", "InProgress"}
    MaxReqDeliver = 2
    MaxVoteDeliver = 1
    MaxExpiries = 0
    Members <- MCOneMember
    Others <- MCOthers
    OtherVotes <- MCOtherVotes
    Amounts = {500}
    FeeOutcomes = {"positive"}
    LedgerVerdicts = {"OK"}
    Workers = 2
    MaxTransportFailures = 0

SPECIFICATION Spec

INVARIANT IdempotenceCheckStillHolds
