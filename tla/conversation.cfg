SPECIFICATION Spec
CONSTANTS
    Stores = {TRUE, FALSE}
    Tenants = {"acme"}
    Orderlies = {TRUE, FALSE}
    Emails = {"m@x.br", "m@x"}
    Interests = {"saas", "other"}
    WellFormed = {"m@x.br"}
    ALLOWED_PRIMARY_INTERESTS = {"saas"}
    HISTORY_RECOVERY_LIMIT = 2
    MaxHistory = 2
    MAX_HISTORY_MESSAGES = 3
    HistoryChars = 2
    Sizes = {1}
    MaxSaid = 3
    MaxLeads = 2
INVARIANTS HistoryInOrder
PROPERTIES RecoveryComplete OrderlyLeadKept
