\* Two members with one worker thread each, every member approves,
\* nothing fails, and each vote may reach the other member twice: some
\* member must send the tx to the ledger, and no signer is counted twice.
CONSTANTS
    n1 = n1
    n2 = n2
    n3 = n3
    COIN = 10
    InitStatuses = {"None", "InProgress"}
    MaxReqDeliver = 2
    MaxVoteDeliver = 2
    MaxExpiries = 0
    Members <- MCTwoMembers
    Others = {}
    OtherVotes = {}
    Amounts = {500}
    FeeOutcomes = {"positive"}
    LedgerVerdicts = {"OK", "Failed"}
    Workers = 1
    MaxTransportFailures = 0

SPECIFICATION FairSpec

 
INVARIANT EachSignerCountedOnce
