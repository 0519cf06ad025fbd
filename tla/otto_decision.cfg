SPECIFICATION Spec
CONSTANTS
    Texts <- MCTexts
    Reviewers = {"none", "stub", "model"}
INVARIANTS ApprovedIsAccepted RulesEnforced QuestionKeepsOpen LaterHandoffHappens
