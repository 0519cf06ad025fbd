SPECIFICATION PromptSpec
CONSTANTS
    Order <- MCOrder
    Files <- MCFiles
    CaseIndex <- MCCaseIndex
    Messages <- MCMessages
    Signals <- MCSignals
    PrimaryInterests = {"automacao_atendimento"}
    Removable <- MCRemovable
    TTL = 2
    MaxTenantContext = 10000
    MaxPromptContext = 1200
INVARIANTS FreshEnough OneVertical FailsOnlyWhenGone
PROPERTIES ContextsKept
