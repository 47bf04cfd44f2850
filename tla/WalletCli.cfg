\* Every QR-code outcome, every status/body combination, calls of 0 to 2 s
\* and the default 5 s sale timeout: the loop runs one to five times.
CONSTANTS
    QrOutcomes = {"ok", "badjson", "badkey", "missing"}
    HttpStatuses = {200, 202, 500}
    Bodies = {"", "error", "data"}
    CallTimes = {0, 1, 2}
    SaleTimeout = 5
    InfoOutcomes = {"ok", "bad"}

SPECIFICATION FairSpec

PROPERTY WalletTerminates
