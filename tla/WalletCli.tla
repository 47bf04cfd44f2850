------------------------------ MODULE WalletCli ------------------------------
(***************************************************************************)
(* The payer wallet of src/src/apps/rta-wallet-cli/main.cpp: main() reads  *)
(* the payment details from the QR-code file, polls the supernode for the  *)
(* payment data until sale_timeout, decrypts it, asks for the auth         *)
(* sample's wallet addresses, builds the tx and calls /dapi/v2.0/pay.      *)
(*                                                                         *)
(* The program is sequential: pc is its position, each action one step of *)
(* main() with every early return.  What the outside world answers (the    *)
(* QR-code file, each HTTP reply and its duration, the wallet library) is  *)
(* a nondeterministic choice.  Bodies and keys are abstracted to whether   *)
(* they parse and to which reply they came from.  Time is in seconds from  *)
(* the start of getPaymentData.                                            *)
(***************************************************************************)
EXTENDS Integers

CONSTANTS
    QrOutcomes,       \* what the QR-code file holds: "missing", "badjson",
                      \*   "badkey", "ok"
    HttpStatuses,     \* statuses the supernode may answer get_payment_data with
    Bodies,           \* bodies it may send: "" (none), "error", "data"
    CallTimes,        \* seconds a completed HTTP call may take
    SaleTimeout,      \* --sale-timeout, in seconds
    InfoOutcomes      \* whether the decrypted PaymentInfo deserializes

VARIABLES
    pc,          \* position in main()
    qr,          \* the QR-code file's content (fixed at start)
    details,     \* m_paymentDetails: "parsed" or "default"
    keyOk,       \* m_decryption_key was set from the details
    raw,         \* raw_resp of the last get_payment_data reply
    status,      \* http_status of that reply
    clock,       \* elapsed: seconds since the polling loop started
    queries,     \* history: the details each get_payment_data request carried
    decoded,     \* history: the http status of the reply that was decoded
    paid,        \* history: /pay was called
    exitCode     \* the process's exit status once pc = "exit"

vars == <<pc, qr, details, keyOk, raw, status, clock, queries, decoded,
          paid, exitCode>>

Fail == /\ pc' = "exit" /\ exitCode' = "EXIT_FAILURE"

-----------------------------------------------------------------------------
\* Program start: the Wallet members have their defaults (empty payment
\* details, no decryption key, no reply yet).
Init ==
    /\ pc = "parseCommandLine"
    /\ qr \in QrOutcomes
    /\ details = "default" /\ keyOk = FALSE
    /\ raw = "" /\ status = 0 /\ clock = 0
    /\ queries = {} /\ decoded = {} /\ paid = FALSE
    /\ exitCode = "none"

walletVars == <<qr, details, keyOk, raw, status, clock, queries,
                     decoded, paid>>

\* main(): options that do not parse, and --help, end the process with
\* EXIT_FAILURE; otherwise the log is configured and the Wallet is built.
ParseCommandLine ==
    /\ pc = "parseCommandLine"
    /\ \/ Fail
       \/ pc' = "openWallet" /\ UNCHANGED exitCode
    /\ UNCHANGED walletVars

\* Wallet::Wallet: an existing wallet file is loaded, otherwise a new one
\* is generated; then it is stored.  A load that throws (a wrong password,
\* a corrupt file) reaches CATCH_ENTRY, which returns 1.
OpenWallet ==
    /\ pc = "openWallet"
    /\ \/ Fail
       \/ pc' = "readPaymentDetails" /\ UNCHANGED exitCode
    /\ UNCHANGED walletVars

\* readPaymentDetails: load the file, parse the JSON, parse the key.  A
\* JSON parse failure returns r, which is still true from the load.
ReadPaymentDetails ==
    /\ pc = "readPaymentDetails"
    /\ CASE qr = "missing" -> Fail /\ UNCHANGED <<details, keyOk>>
         [] qr = "badjson" -> /\ pc' = "getPaymentData"
                              /\ UNCHANGED <<details, keyOk, exitCode>>
         [] qr = "badkey"  -> Fail /\ details' = "parsed" /\ UNCHANGED keyOk
         [] qr = "ok"      -> /\ pc' = "getPaymentData"
                              /\ details' = "parsed" /\ keyOk' = TRUE
                              /\ UNCHANGED exitCode
    /\ UNCHANGED <<qr, raw, status, clock, queries, decoded, paid>>

\* do { ... } while (elapsed < m_sale_timeout)
PollAgain(e) == e < SaleTimeout

\* Fault variant: elapsed is the last iteration's time, not the total.
ElapsedLastOnly(c, d) == d + 1

\* elapsed after an iteration that started at c, whose call took d seconds,
\* and the sleep of one second.
ElapsedAfter(c, d) == c + d + 1

\* One iteration of the polling loop of getPaymentData, with the checks
\* after the loop: a failed call returns false; a 200 reply with a body
\* leaves the loop; otherwise sleep, and on timeout an empty raw_resp fails
\* and any other body is decoded whatever its status.
PollPaymentData ==
    /\ pc = "getPaymentData"
    /\ queries' = queries \cup {details}
    /\ \/ Fail /\ UNCHANGED <<raw, status, clock>>
       \/ \E st \in HttpStatuses, b \in Bodies, d \in CallTimes :
            LET e == ElapsedAfter(clock, d) IN
            /\ raw' = b /\ status' = st
            /\ IF st = 200 /\ b # ""
               THEN pc' = "decode" /\ UNCHANGED <<clock, exitCode>>
               ELSE /\ clock' = e
                    /\ CASE PollAgain(e) -> pc' = "getPaymentData"
                                            /\ UNCHANGED exitCode
                         [] b = ""       -> Fail
                         [] OTHER        -> pc' = "decode" /\ UNCHANGED exitCode
    /\ UNCHANGED <<qr, details, keyOk, decoded, paid>>

\* The rest of getPaymentData: deserialize the response, decrypt the
\* payment info with m_decryption_key, deserialize it (a failure is only
\* logged) and decrypt its Details.  Only a data body deserializes into a
\* PaymentDataResponse; decryption needs the key from the QR code; a
\* PaymentInfo that did not deserialize keeps its empty Details, which do
\* not decrypt.
DecodePaymentData ==
    /\ pc = "decode"
    /\ decoded' = decoded \cup {status}
    /\ \E info \in InfoOutcomes :
         IF raw = "data" /\ keyOk /\ info = "ok"
         THEN pc' = "pay" /\ UNCHANGED exitCode
         ELSE Fail
    /\ UNCHANGED <<qr, details, keyOk, raw, status, clock, queries, paid>>

\* pay(): get_supernode_info must answer 200 with one address per sample
\* key; every key must parse into the rta header; the wallet must build
\* exactly one tx; /pay must answer 202.  Each check returns false.
Pay ==
    /\ pc = "pay"
    /\ \E infoOk, keysOk, oneTx \in BOOLEAN, payStatus \in {0, 202, 500} :
         /\ paid' = (infoOk /\ keysOk /\ oneTx)
         /\ IF paid' /\ payStatus = 202
            THEN pc' = "exit" /\ exitCode' = "0"
            ELSE Fail
    /\ UNCHANGED <<qr, details, keyOk, raw, status, clock, queries, decoded>>

\* The process has exited.
Exited == pc = "exit" /\ UNCHANGED vars

Next == ParseCommandLine \/ OpenWallet \/ ReadPaymentDetails
        \/ PollPaymentData \/ DecodePaymentData \/ Pay \/ Exited

Spec == Init /\ [][Next]_vars

\* main() is one thread that runs its steps to the end.
FairSpec == Spec /\ WF_vars(Next)

-----------------------------------------------------------------------------
(* Properties                                                              *)

\* Type invariant: the shape of every variable (used while developing the
\* model; the runs check the properties below).
TypeOK ==
    /\ pc \in {"parseCommandLine", "openWallet", "readPaymentDetails",
              "getPaymentData", "decode", "pay", "exit"}
    /\ details \in {"parsed", "default"} /\ keyOk \in BOOLEAN
    /\ raw \in Bodies \cup {""} /\ status \in HttpStatuses \cup {0}
    /\ clock \in Nat /\ paid \in BOOLEAN

\* The polling loop of getPaymentData stops: whatever the supernode
\* answers, the wallet leaves the loop once sale_timeout has elapsed, and
\* the process exits.
WalletTerminates == <>(pc = "exit")

\* getPaymentData queries the supernode only for payment details that
\* readPaymentDetails parsed from the QR code (main() exits when
\* readPaymentDetails fails).
QueryOnlyWithPaymentDetails == queries \subseteq {"parsed"}

\* The wallet decodes payment data only from a 200 reply, the reply the
\* polling loop waits for.
DecodeOnlyOkReply == decoded \subseteq {200}
=============================================================================
