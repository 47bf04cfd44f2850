-------------------------- MODULE MCAuthorizeRtaTx --------------------------
(* Model-checking instances of AuthorizeRtaTx.  Amounts are scaled with    *)
(* COIN = 10, so 500 stands for 50 coins and 1001 for 100.1 coins.          *)
EXTENDS AuthorizeRtaTx

CONSTANTS n1, n2, n3

\* One member modelled through its handlers; n2 is an honest member that
\* approves, n3 a Byzantine member.
MCOneMember == {n1}
MCOthers == {n2, n3}

\* n2's approval; n3 approves and rejects with its own key, forges an
\* approval in n1's name, and sends a vote whose result is Invalid.
MCOtherVotes ==
    {[signer |-> n2, result |-> "Approved", sigBy |-> n2],
     [signer |-> n3, result |-> "Approved", sigBy |-> n3],
     [signer |-> n3, result |-> "Rejected", sigBy |-> n3],
     [signer |-> n1, result |-> "Approved", sigBy |-> n3],
     [signer |-> n3, result |-> "Invalid",  sigBy |-> n3]}

\* Two members modelled through their handlers, nobody else votes.
MCTwoMembers == {n1, n2}


=============================================================================
