SPECIFICATION FunnelFairSpec
CONSTANTS
    Leads <- MCLeads
    Patches <- MCPatches
    Texts <- MCTexts
    Forms <- MCForms
INVARIANTS NeverRunsDry MeetingHoursHonoured
PROPERTIES NeverAsksKnown AckIsFounded QuestionsEnd
