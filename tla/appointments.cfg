SPECIFICATION FairSpec
CONSTANTS
    Users = {"ana"}
    Verticals = {"saas"}
    Weekday = 4
    DaysAhead = 4
    StartHour = 9
    EndHour = 11
    Outside <- MCOutside
    Configs <- MCConfigs
    MaxDeliveries = 2
    MaxEvents = 2
    MaxAppointments = 2
    Answers = {"ok", "error", "lost"}
INVARIANTS OfferedIsFree BookedAsChosen EventsAccountedFor
PROPERTY CompletionHandled
