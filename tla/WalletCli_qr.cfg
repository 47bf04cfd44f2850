\* A QR-code file whose JSON does not parse.
CONSTANTS
    QrOutcomes = {"ok", "badjson"}
    HttpStatuses = {200, 500}
    Bodies = {"", "error", "data"}
    CallTimes = {0, 1}
    SaleTimeout = 3
    InfoOutcomes = {"ok", "bad"}

SPECIFICATION Spec

INVARIANT QueryOnlyWithPaymentDetails
