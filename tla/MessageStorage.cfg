CONSTANTS
    none = none  malformed = malformed  a = a  b = b  c1 = c1
    None = none
    Malformed = malformed
    max_messages = 3
    Messages <- MCMessages
    Importers = {c1}
    Batches <- MCBatches
    Statuses = {"Delivered"}
    Deliveries = {"Delivered", "Read"}
    Cutoffs = {2}
    Scopes <- MCScopes
    Peers = {a, b}
    Limits = {1, 2}
INIT StorageInit
NEXT StorageNext
INVARIANT TypeOK
PROPERTY StorageRefinesLog
