\* A well-formed QR code; the supernode may answer with any status.
CONSTANTS
    QrOutcomes = {"ok"}
    HttpStatuses = {200, 500}
    Bodies = {"", "error", "data"}
    CallTimes = {0, 1}
    SaleTimeout = 3
    InfoOutcomes = {"ok", "bad"}

SPECIFICATION Spec

INVARIANT DecodeOnlyOkReply
