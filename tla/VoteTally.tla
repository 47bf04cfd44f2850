------------------------------ MODULE VoteTally ------------------------------
(***************************************************************************)
(* What a supernode's vote tally for one payment promises (specification   *)
(* section 3, VoteTally; section 4.3, vote admission rules): two disjoint  *)
(* sets of signers, approved and rejected.  A vote is admitted only if its *)
(* signer really signed it and its result is Approved or Rejected; a       *)
(* signer's first admitted vote wins; an admitted vote stays until the     *)
(* whole entry is dropped (TTL expiry or loss of the process).  Each       *)
(* admission adds exactly one signer: the tally behaves as if admissions   *)
(* were atomic.                                                            *)
(***************************************************************************)
CONSTANTS
    Nodes,      \* supernodes that keep a tally
    Signers     \* sample members that may sign a vote

VARIABLES
    tally,      \* tally[n]: n's approved and rejected signers
    signed      \* <<signer, result>> pairs their signers have sent

Counted == {"Approved", "Rejected"}

NoVotes == [approved |-> {}, rejected |-> {}]

Init == tally = [n \in Nodes |-> NoVotes]

\* n admits the vote <<s, r>>: genuine, counted, and s not yet in the tally.
Admit(n, s, r) ==
    /\ <<s, r>> \in signed
    /\ r \in Counted
    /\ s \notin tally[n].approved \cup tally[n].rejected
    /\ tally' = [tally EXCEPT ![n] =
                   IF r = "Approved" THEN [@ EXCEPT !.approved = @ \cup {s}]
                                     ELSE [@ EXCEPT !.rejected = @ \cup {s}]]
    /\ UNCHANGED signed

\* n's tally entry is gone: it expired, or the process lost its memory.
Forget(n) ==
    /\ tally' = [tally EXCEPT ![n] = NoVotes]
    /\ UNCHANGED signed

\* More votes are sent; none is ever unsent.
Cast ==
    /\ signed \subseteq signed'
    /\ UNCHANGED tally

Next ==
    \/ \E n \in Nodes, s \in Signers, r \in Counted : Admit(n, s, r)
    \/ \E n \in Nodes : Forget(n)
    \/ Cast

Spec == Init /\ [][Next]_<<tally, signed>>
=============================================================================
