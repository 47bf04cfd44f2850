\* Status broadcasts of one member over the whole vote traffic.
CONSTANTS
    n1 = n1
    n2 = n2
    n3 = n3
    COIN = 10
    InitStatuses = {"None", "InProgress"}
    MaxReqDeliver = 1
    MaxVoteDeliver = 1
    MaxExpiries = 0
    Members <- MCOneMember
    Others <- MCOthers
    OtherVotes <- MCOtherVotes
    Amounts = {500}
    FeeOutcomes = {"positive"}
    LedgerVerdicts = {"OK"}
    Workers = 1
    MaxTransportFailures = 0

SPECIFICATION Spec

INVARIANT NodeBroadcastsAgree
