\* Context entries expiring by their TTL at any point of the vote traffic,
\* one member with one worker thread.
CONSTANTS
    n1 = n1
    n2 = n2
    n3 = n3
    Members <- MCOneMember
    Others <- MCOthers
    OtherVotes <- MCOtherVotes
    Amounts = {500}
    COIN = 10
    FeeOutcomes = {"zero", "positive"}
    InitStatuses = {"InProgress"}
    LedgerVerdicts = {"OK"}
    Workers = 1
    MaxReqDeliver = 2
    MaxVoteDeliver = 1
    MaxTransportFailures = 0
    MaxExpiries = 1

SPECIFICATION Spec

INVARIANT PushOnGenuineQuorum
