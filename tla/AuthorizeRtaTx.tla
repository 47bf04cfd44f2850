--------------------------- MODULE AuthorizeRtaTx ---------------------------
(***************************************************************************)
(* Real-time authorization of one payment by a supernode auth sample, as   *)
(* implemented by the two route handlers of                                *)
(* src/src/supernode/requests/authorize_rta_tx.cpp:                         *)
(*   authorizeRtaTxRequestHandler   (/cryptonode/authorize_rta_tx_request)  *)
(*   authorizeRtaTxResponseHandler  (/cryptonode/authorize_rta_tx_response) *)
(*                                                                         *)
(* Every honest sample member runs both handlers as graft tasks on its own *)
(* worker pool of Workers threads.  A handler invocation runs on one       *)
(* worker from entry to return; a task that returns Again or Forward is    *)
(* re-invoked later with the transport's reply.  The only state shared by  *)
(* tasks is the member's global context ctx.global (TTL map), modelled by  *)
(* ctx[n] restricted to the keys of this payment's tx.                     *)
(*                                                                         *)
(* handleTxAuthRequest and handleRtaAuthResponseMulticast each read a      *)
(* context entry and write it back later in the same invocation without a  *)
(* lock; they are split into two steps at that point, and a worker stays   *)
(* held between the two.                                                   *)
(***************************************************************************)
EXTENDS Integers, Sequences, FiniteSets, SequencesExt, Functions

CONSTANTS
    Members,              \* sample members whose handlers are modelled
    Others,               \* sample members seen only through their votes
    OtherVotes,           \* the votes Others may send, genuine or forged
    Amounts,              \* candidate values of AuthorizeRtaTxRequest.amount
    COIN,                 \* atomic units per coin (scaled down for TLC)
    FeeOutcomes,          \* what getAmountFromTx may find for a member
    InitStatuses,         \* payment statuses a member may hold before voting
    LedgerVerdicts,       \* what /sendrawtransaction answers for this tx
    Workers,              \* worker threads of a supernode's task pool
    MaxReqDeliver,        \* bound: deliveries of the request to one member
    MaxVoteDeliver,       \* bound: deliveries of one vote to one member
    MaxTransportFailures, \* bound: failed multicast/broadcast calls
    MaxExpiries           \* bound: context entries dropped by their TTL

Sample == Members \cup Others

ASSUME /\ Members \cap Others = {}
       /\ Workers \in Nat \ {0}
       /\ FeeOutcomes \subseteq {"unparsable", "zero", "positive"}
       /\ LedgerVerdicts \subseteq {"OK", "Failed", "DoubleSpend"}

\* RTAAuthResult (requestdefines.h:115-120); Invalid is never counted.
Results == {"Approved", "Rejected", "Invalid"}

\* RTAStatus values the handlers read and write.
Statuses == {"None", "InProgress", "Success", "Fail",
             "RejectedByPOS", "RejectedByWallet"}

\* The statuses handleCryptonodeTxPushResponse treats as already processed.
FinalStatuses == {"Success", "Fail", "RejectedByPOS", "RejectedByWallet"}

RTA_VOTES_TO_REJECT == 1

VotesToApprove(amt) == IF amt \div COIN > 100 THEN 4 ELSE 2

\* AuthorizeRtaTxResponse: the vote, abstracted to who it names as signer
\* (signature.id_key), its result and whose key produced the signatures.
VoteMsg == [signer : Sample, result : Results, sigBy : Sample]

\* RtaAuthResult: approved and rejected signature vectors, kept as
\* sequences of id_keys.
Tally == [approved : Seq(Sample), rejected : Seq(Sample)]
EmptyTally == [approved |-> <<>>, rejected |-> <<>>]

NoAmount == -1

\* The context of a member that holds nothing for this payment.
EmptyCtx(st) == [tx |-> FALSE, paymentId |-> FALSE, amount |-> NoAmount,
                 tally |-> EmptyTally, status |-> st]

VARIABLES
    fee,         \* fee[n]: the supernode fee getAmountFromTx finds for n
    amount,      \* the amount the payer put into AuthorizeRtaTxRequest
    verdict,     \* the ledger's answer to /sendrawtransaction for this tx
    ctx,         \* ctx[n]: n's global-context entries of this payment
    up,          \* up[n]: n's supernode process is running
    reqTasks,    \* tasks of authorizeRtaTxRequestHandler
    respTasks,   \* tasks of authorizeRtaTxResponseHandler
    votesSent,   \* votes the transport has multicast to the sample
    inPool,      \* the ledger accepted the tx into its pool
    failures,    \* transport calls that failed so far
    expiries,    \* context entries expired so far
    admitted,    \* admitted[n]: votes n folded into its stored tally
    pushes,      \* every /sendrawtransaction call: member, tally copy,
                 \* the signers whose signatures the pushed tx carries
    broadcasts   \* every status broadcast: member, status

envVars  == <<fee, amount, verdict>>
histVars == <<admitted, pushes, broadcasts>>
vars == <<fee, amount, verdict, ctx, up, reqTasks, respTasks, votesSent,
          inPool, failures, expiries, admitted, pushes, broadcasts>>

-----------------------------------------------------------------------------
(* Helpers translated from the handlers.                                   *)

\* signAuthResponse: an honest member signs its own result with its key.
VoteOf(n) == [signer |-> n, sigBy |-> n,
              result |-> IF fee[n] = "positive" THEN "Approved"
                                                ELSE "Rejected"]

\* Fault variant: the signatures are not verified.
SignatureNotChecked(m) == TRUE

\* validateAuthResponse: both signatures verify under signature.id_key.
SignatureValid(m) == m.sigBy = m.signer

\* Fault variant: the stored tally is not read before the vote is added.
LoadedTallyNotRead(n) == EmptyTally

\* The tally loaded at the start of the admission (an absent entry reads
\* as a default-constructed RtaAuthResult).
LoadedTally(n) == ctx[n].tally

\* Fault variant: the duplicate check at lines 437-438 is dropped.
AlreadyProcessedNever(tl, s) == FALSE

\* alreadyApproved(id) || alreadyRejected(id)
AlreadyProcessed(tl, s) == s \in ToSet(tl.approved) \cup ToSet(tl.rejected)

\* The tally with the admitted vote appended to its vector.
AddVote(tl, m) ==
    IF m.result = "Approved"
    THEN [tl EXCEPT !.approved = Append(@, m.signer)]
    ELSE [tl EXCEPT !.rejected = Append(@, m.signer)]

\* The votes a tally holds, as <<signer, result>> pairs.
TallyVotes(tl) == {<<s, "Approved">> : s \in ToSet(tl.approved)}
                  \cup {<<s, "Rejected">> : s \in ToSet(tl.rejected)}

\* A set of the context's status key: a final status is never replaced.
SetStatus(old, new) == IF old \in FinalStatuses THEN old ELSE new

Busy(n) == Cardinality({t \in reqTasks : t.running /\ t.node = n})
           + Cardinality({t \in respTasks : t.running /\ t.node = n})

FreeWorker(n) == up[n] /\ Busy(n) < Workers

CanFail == failures < MaxTransportFailures

ReqDeliveries(n) == Cardinality({t \in reqTasks : t.node = n})

\* The votes the transport may deliver: those the modelled members
\* multicast and those the other members may send at any time.
Multicast == votesSent \cup OtherVotes

VoteDeliveries(n, m) ==
    Cardinality({t \in respTasks : t.node = n /\ t.msg = m})

-----------------------------------------------------------------------------
(* authorizeRtaTxRequestHandler (lines 641-667)                            *)

\* ClientRequest: the request multicast reaches n; the dispatcher moves the
\* task to ClientRequestAgain and storeRequestAndReplyOk keeps the body in
\* the local context, acknowledges the sender and returns Again.
ClientRequest(n) ==
    /\ FreeWorker(n)
    /\ ReqDeliveries(n) < MaxReqDeliver
    /\ reqTasks' = reqTasks \cup
         {[node |-> n, k |-> ReqDeliveries(n) + 1,
           hstate |-> "ClientRequestAgain", running |-> FALSE,
           out |-> "none", result |-> "pending"]}
    /\ UNCHANGED <<envVars, ctx, up, respTasks, votesSent, inPool,
                   failures, expiries, histVars>>

\* Fault variant: the idempotence guard is missing.
TxNeverStored(n) == FALSE

\* The idempotence guard: the :tx_id_to_tx entry of the tx exists.
TxAlreadyStored(n) == ctx[n].tx

\* ClientRequestAgain, up to the idempotence guard: the dispatcher moves the
\* task to CryptonodeReply; handleTxAuthRequest parses the kept body and the
\* tx and refuses a tx whose :tx_id_to_tx entry exists.
HandleTxAuthRequestCheck(t) ==
    /\ t \in reqTasks
    /\ t.hstate = "ClientRequestAgain"
    /\ FreeWorker(t.node)
    /\ reqTasks' = (reqTasks \ {t}) \cup
         {IF TxAlreadyStored(t.node)
          THEN [t EXCEPT !.hstate = "CryptonodeReply", !.result = "Error"]
          ELSE [t EXCEPT !.hstate = "CryptonodeReply", !.running = TRUE]}
    /\ UNCHANGED <<envVars, ctx, up, respTasks, votesSent, inPool,
                   failures, expiries, histVars>>

\* The rest of handleTxAuthRequest: store the amount, find this member's
\* fee (an unparsable one ends the task after the amount is stored), store
\* tx and payment id and Forward the signed vote as a multicast.
HandleTxAuthRequestStore(t) ==
    LET n == t.node
        ok == fee[n] # "unparsable"
    IN
    /\ t \in reqTasks
    /\ t.running
    /\ ctx' = [ctx EXCEPT ![n] =
                 IF ok THEN [@ EXCEPT !.amount = amount, !.tx = TRUE,
                                      !.paymentId = TRUE]
                       ELSE [@ EXCEPT !.amount = amount]]
    /\ reqTasks' = (reqTasks \ {t}) \cup
         {IF ok THEN [t EXCEPT !.running = FALSE, !.out = "multicast"]
                ELSE [t EXCEPT !.running = FALSE, !.result = "Error"]}
    /\ UNCHANGED <<envVars, up, respTasks, votesSent, inPool,
                   failures, expiries, histVars>>

\* CryptonodeReply: the transport multicasts the vote and
\* handleCryptonodeMulticastStatus checks its acknowledgement.  A failed
\* call may or may not have carried the vote.
HandleCryptonodeMulticastStatus(t) ==
    /\ t \in reqTasks
    /\ t.out = "multicast" /\ t.result = "pending"
    /\ FreeWorker(t.node)
    /\ \/ /\ votesSent' = votesSent \cup {VoteOf(t.node)}
          /\ reqTasks' = (reqTasks \ {t}) \cup {[t EXCEPT !.result = "Ok"]}
          /\ UNCHANGED failures
       \/ /\ CanFail
          /\ failures' = failures + 1
          /\ votesSent' \in {votesSent, votesSent \cup {VoteOf(t.node)}}
          /\ reqTasks' = (reqTasks \ {t}) \cup {[t EXCEPT !.result = "Error"]}
    /\ UNCHANGED <<envVars, ctx, up, respTasks, inPool, expiries, histVars>>

-----------------------------------------------------------------------------
(* authorizeRtaTxResponseHandler (lines 677-709)                           *)

\* The early returns of handleRtaAuthResponseMulticast before the vote is
\* folded in: a result other than Approved/Rejected, no payment id for the
\* tx, bad signatures, a signer already in the loaded tally.
VoteRefused(n, m, tl) ==
    \/ m.result \notin {"Approved", "Rejected"}
    \/ ~ctx[n].paymentId
    \/ ~SignatureValid(m)
    \/ AlreadyProcessed(tl, m.signer)

\* RtaAuthReply, up to the append: vote m reaches n; the dispatcher moves
\* the task to TransactionPushReply and handleRtaAuthResponseMulticast
\* checks the vote, loads the tally and appends the vote to its copy.
HandleRtaAuthResponseRead(n, m) ==
    LET tl == LoadedTally(n)
        refused == VoteRefused(n, m, tl)
    IN
    /\ FreeWorker(n)
    /\ m \in Multicast
    /\ VoteDeliveries(n, m) < MaxVoteDeliver
    /\ respTasks' = respTasks \cup
         {[node |-> n, msg |-> m, k |-> VoteDeliveries(n, m) + 1,
           hstate |-> "TransactionPushReply", running |-> ~refused,
           copy |-> IF refused THEN EmptyTally ELSE AddVote(tl, m),
           txIdLocal |-> FALSE, out |-> "none", ack |-> "none",
           result |-> IF refused THEN "Error" ELSE "pending"]}
    /\ UNCHANGED <<envVars, ctx, up, reqTasks, votesSent, inPool,
                   failures, expiries, histVars>>

\* The rest of handleRtaAuthResponseMulticast: store the task's copy of the
\* tally, require the amount and the tx, then decide on the copy: enough
\* rejections set status Fail and Forward a status broadcast; enough
\* approvals Forward /sendrawtransaction with tx_id in the local context;
\* otherwise answer Ok.
HandleRtaAuthResponseWrite(t) ==
    LET n == t.node
        tl == t.copy
        ready == ctx[n].amount # NoAmount /\ ctx[n].tx
        reject == ready /\ Len(tl.rejected) >= RTA_VOTES_TO_REJECT
        approve == ready /\ ~reject
                   /\ Len(tl.approved) >= VotesToApprove(ctx[n].amount)
        stored == [ctx[n] EXCEPT !.tally = tl]
    IN
    /\ t \in respTasks
    /\ t.running
    /\ admitted' = [admitted EXCEPT ![n] = @ \cup {<<t.msg.signer, t.msg.result>>}]
    /\ ctx' = [ctx EXCEPT ![n] =
                 IF reject THEN [stored EXCEPT !.status = SetStatus(@, "Fail")]
                           ELSE stored]
    /\ respTasks' = (respTasks \ {t}) \cup
         {CASE ~ready  -> [t EXCEPT !.running = FALSE, !.result = "Error"]
            [] reject  -> [t EXCEPT !.running = FALSE, !.out = "broadcast"]
            [] approve -> [t EXCEPT !.running = FALSE, !.out = "sendraw",
                                    !.txIdLocal = TRUE]
            [] OTHER   -> [t EXCEPT !.running = FALSE, !.result = "Ok"]}
    /\ broadcasts' = IF reject THEN broadcasts \cup {[node |-> n, status |-> "Fail"]}
                               ELSE broadcasts
    /\ pushes' = IF approve
                 THEN pushes \cup {[node |-> n, copy |-> tl]}
                            ELSE pushes
    /\ UNCHANGED <<envVars, up, reqTasks, votesSent, inPool, failures,
                   expiries>>

\* TransactionPushReply: the ledger answers /sendrawtransaction; the
\* dispatcher moves the task to StatusBroadcastReply and
\* handleCryptonodeTxPushResponse looks up the payment's status: none is an
\* error, a final one or a double spend is acknowledged, otherwise the
\* ledger's answer is broadcast as Success or Fail.
HandleCryptonodeTxPushResponse(t) ==
    LET n == t.node
        st == IF ctx[n].paymentId THEN ctx[n].status ELSE "None"
        res == CASE st = "None"            -> "Error"
                 [] st \in FinalStatuses   -> "Ok"
                 [] verdict = "DoubleSpend" -> "Ok"
                 [] OTHER                  -> "pending"
        bcast == IF verdict = "OK" THEN "Success" ELSE "Fail"
    IN
    /\ t \in respTasks
    /\ t.out = "sendraw" /\ t.result = "pending"
    /\ FreeWorker(n)
    /\ inPool' = (inPool \/ verdict = "OK")
    /\ respTasks' = (respTasks \ {t}) \cup
         {IF res = "pending"
          THEN [t EXCEPT !.hstate = "StatusBroadcastReply", !.out = "broadcast"]
          ELSE [t EXCEPT !.hstate = "StatusBroadcastReply", !.result = res]}
    /\ broadcasts' = IF res = "pending"
                     THEN broadcasts \cup {[node |-> n, status |-> bcast]}
                     ELSE broadcasts
    /\ UNCHANGED <<envVars, ctx, up, reqTasks, votesSent, failures, expiries,
                   admitted, pushes>>

\* abort() in a handler: n's process ends, its tasks and context are gone.
Crash(n, t) ==
    /\ up' = [up EXCEPT ![n] = FALSE]
    /\ ctx' = [ctx EXCEPT ![n] = EmptyCtx("None")]
    /\ admitted' = [admitted EXCEPT ![n] = {}]
    /\ respTasks' = {IF u = t THEN [u EXCEPT !.result = "Abort"]
                     ELSE IF u.node = n /\ u.result = "pending"
                          THEN [u EXCEPT !.running = FALSE, !.result = "Killed"]
                          ELSE u : u \in respTasks}
    /\ reqTasks' = {IF u.node = n /\ u.result = "pending"
                    THEN [u EXCEPT !.running = FALSE, !.result = "Killed"]
                    ELSE u : u \in reqTasks}

\* The transport acknowledges a status broadcast and the task is invoked in
\* its current state.  After the approve path that is StatusBroadcastReply
\* (handleStatusBroadcastResponse).  After the reject path the dispatcher
\* left TransactionPushReply (line 688; line 482 writes StatusBroadcastReply
\* into ctx.global under the key "handleRtaAuthResponseMulticast", which
\* nobody reads), so handleCryptonodeTxPushResponse runs and reads the
\* tx_id that the reject path never put in the local context: reading the
\* missing key throws (InternalError) or yields "" and the handler calls
\* abort().
HandleBroadcastReply(t) ==
    LET n == t.node IN
    /\ t \in respTasks
    /\ t.out = "broadcast" /\ t.result = "pending"
    /\ FreeWorker(n)
    /\ \E a \in {"OK"} \cup (IF CanFail THEN {"Error"} ELSE {}) :
         /\ failures' = IF a = "OK" THEN failures ELSE failures + 1
         /\ IF t.hstate = "StatusBroadcastReply"
            THEN /\ respTasks' = (respTasks \ {t}) \cup
                      {[t EXCEPT !.ack = a,
                                 !.result = IF a = "OK" THEN "Ok" ELSE "Error"]}
                 /\ UNCHANGED <<ctx, up, reqTasks, admitted>>
            ELSE \/ /\ respTasks' = (respTasks \ {t}) \cup
                          {[t EXCEPT !.hstate = "StatusBroadcastReply",
                                     !.ack = a, !.result = "Error"]}
                    /\ UNCHANGED <<ctx, up, reqTasks, admitted>>
                 \/ Crash(n, [t EXCEPT !.hstate = "StatusBroadcastReply", !.ack = a])
    /\ UNCHANGED <<envVars, votesSent, inPool, expiries, pushes, broadcasts>>

-----------------------------------------------------------------------------
(* The environment                                                         *)

\* A crashed supernode is started again with an empty context.
Restart(n) ==
    /\ ~up[n]
    /\ up' = [up EXCEPT ![n] = TRUE]
    /\ UNCHANGED <<envVars, ctx, reqTasks, respTasks, votesSent, inPool,
                   failures, expiries, histVars>>

\* One entry of n's context reaches its RTA_TX_TTL and is dropped.
Expire(n) ==
    /\ up[n]
    /\ expiries < MaxExpiries
    /\ \E f \in DOMAIN EmptyCtx("None") :
         /\ ctx[n][f] # EmptyCtx("None")[f]
         /\ ctx' = [ctx EXCEPT ![n][f] = EmptyCtx("None")[f]]
         /\ admitted' = IF f = "tally" THEN [admitted EXCEPT ![n] = {}]
                                       ELSE admitted
    /\ expiries' = expiries + 1
    /\ UNCHANGED <<envVars, up, reqTasks, respTasks, votesSent, inPool,
                   failures, pushes, broadcasts>>

\* Every task has finished: the payment's traffic is over.
Quiescent ==
    /\ \A t \in reqTasks : t.result # "pending"
    /\ \A t \in respTasks : t.result # "pending"
    /\ UNCHANGED vars

-----------------------------------------------------------------------------
Init ==
    /\ fee \in [Members -> FeeOutcomes]
    /\ amount \in Amounts
    /\ verdict \in LedgerVerdicts
    /\ \E st \in [Members -> InitStatuses] : ctx = [n \in Members |-> EmptyCtx(st[n])]
    /\ up = [n \in Members |-> TRUE]
    /\ reqTasks = {}
    /\ respTasks = {}
    /\ votesSent = {}
    /\ inPool = FALSE
    /\ failures = 0
    /\ expiries = 0
    /\ admitted = [n \in Members |-> {}]
    /\ pushes = {}
    /\ broadcasts = {}

\* The steps of the handlers and of the transport delivering to them.
TaskStep ==
    \/ \E n \in Members : ClientRequest(n)
    \/ \E t \in reqTasks : \/ HandleTxAuthRequestCheck(t)
                           \/ HandleTxAuthRequestStore(t)
                           \/ HandleCryptonodeMulticastStatus(t)
    \/ \E n \in Members, m \in Multicast : HandleRtaAuthResponseRead(n, m)
    \/ \E t \in respTasks : \/ HandleRtaAuthResponseWrite(t)
                            \/ HandleCryptonodeTxPushResponse(t)
                            \/ HandleBroadcastReply(t)

Next ==
    \/ TaskStep
    \/ \E n \in Members : Restart(n) \/ Expire(n)
    \/ Quiescent

\* The transport delivers what it carries and the worker pool runs every
\* queued task; TTL expiry, restarts and the other members promise nothing.
Fairness == WF_vars(TaskStep)

Spec == Init /\ [][Next]_vars

FairSpec == Spec /\ Fairness

-----------------------------------------------------------------------------
(* Properties                                                              *)

\* Type invariant: the shape of every variable (used while developing the
\* model; the runs check the properties below).
TypeOK ==
    /\ fee \in [Members -> {"unparsable", "zero", "positive"}]
    /\ amount \in Amounts
    /\ verdict \in LedgerVerdicts
    /\ \A n \in Members :
         /\ ctx[n].tx \in BOOLEAN /\ ctx[n].paymentId \in BOOLEAN
         /\ ctx[n].amount \in Amounts \cup {NoAmount}
         /\ ctx[n].tally \in Tally /\ ctx[n].status \in Statuses
    /\ up \in [Members -> BOOLEAN]
    /\ votesSent \subseteq VoteMsg
    /\ \A t \in reqTasks :
         /\ t.node \in Members
         /\ t.hstate \in {"ClientRequestAgain", "CryptonodeReply"}
         /\ t.out \in {"none", "multicast"}
         /\ t.result \in {"pending", "Ok", "Error", "Killed"}
    /\ \A t \in respTasks :
         /\ t.node \in Members /\ t.msg \in VoteMsg /\ t.copy \in Tally
         /\ t.hstate \in {"TransactionPushReply", "StatusBroadcastReply"}
         /\ t.out \in {"none", "sendraw", "broadcast"}
         /\ t.result \in {"pending", "Ok", "Error", "Abort", "Killed"}
    /\ failures \in 0..MaxTransportFailures
    /\ expiries \in 0..MaxExpiries

\* The approval quorum the specification sets (section 4.3): 2 votes when
\* amount <= 100 * COIN, else 4.
SpecVotesToApprove(amt) == IF amt <= 100 * COIN THEN 2 ELSE 4

\* s itself signed and multicast an Approved vote.
CastApproval(s) == [signer |-> s, result |-> "Approved", sigBy |-> s] \in Multicast

\* No vote is lost from a tally: every vote a member folded into its tally
\* (handleRtaAuthResponseMulticast, ctx.global.set at line 453) is still in
\* the stored tally, unless the entry expired or the process restarted.
\* Concurrent admissions that read the same tally would overwrite each other.
NoAdmittedVoteLost ==
    \A n \in Members : admitted[n] \subseteq TallyVotes(ctx[n].tally)

\* No double count: however often the transport delivers a vote, and
\* whatever a signer sends (one result twice, or Approved and Rejected), a
\* signer appears at most once in a stored tally, across its approved and
\* rejected vectors (the duplicate check at lines 437-438).  The set view
\* of TallyRefinement hides a signer appended twice with one result.
EachSignerCountedOnce ==
    \A n \in Members : IsInjective(ctx[n].tally.approved \o ctx[n].tally.rejected)

\* A member sends the tx to the ledger (line 496) only on a genuine quorum:
\* the tally copy it decided on holds fewer rejections than the reject
\* threshold and at least the specification's approval quorum of distinct
\* signers who each signed and sent an Approved vote themselves.
PushOnGenuineQuorum ==
    \A p \in pushes :
        /\ Len(p.copy.rejected) < RTA_VOTES_TO_REJECT
        /\ Cardinality({s \in ToSet(p.copy.approved) : CastApproval(s)})
              >= SpecVotesToApprove(amount)

\* A member never broadcasts two different final statuses for the payment:
\* once it has broadcast Success or Fail (lines 484, 602) it does not
\* broadcast the other (specification sections 3 and 4.4).
NodeBroadcastsAgree ==
    \A b1, b2 \in broadcasts : b1.node = b2.node => b1.status = b2.status

\* A status broadcast the transport acknowledged with OK is answered Ok to
\* the transport (handleStatusBroadcastResponse, lines 609-629), and the
\* member does not fail on it.
StatusBroadcastAckHandled ==
    \A t \in respTasks : (t.out = "broadcast" /\ t.ack = "OK") => t.result = "Ok"

\* The idempotence guard of handleTxAuthRequest (line 280) still holds when
\* the task acts on it: no request task that passed the guard finds the
\* tx already stored by another task when it stores the tx and forwards
\* its vote (lines 311-316).  Specification section 8: a replayed request
\* is refused by the guard and leaves the context unchanged.
IdempotenceCheckStillHolds ==
    \A t \in reqTasks : t.running => ~ctx[t.node].tx

\* The detailed tallies implement the abstract VoteTally: viewed as sets of
\* signers, every change a handler makes to a stored tally is one genuine,
\* counted, first vote of a signer added, or the whole entry dropped.  The
\* genuine votes are those whose signatures are the signer's own.
VT == INSTANCE VoteTally WITH
        Nodes <- Members,
        Signers <- Sample,
        tally <- [n \in Members |->
                    [approved |-> ToSet(ctx[n].tally.approved),
                     rejected |-> ToSet(ctx[n].tally.rejected)]],
        signed <- {<<m.signer, m.result>> :
                     m \in {x \in votesSent \cup OtherVotes : x.sigBy = x.signer}}

TallyRefinement == VT!Spec

=============================================================================
