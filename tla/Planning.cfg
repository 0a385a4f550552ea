\* One task planned to its end; planning stops there.
SPECIFICATION Spec
CONSTANTS
    Templates <- MCTemplates
    Contexts <- MCContexts
    Stores <- MCStores
    TaskPurpose = "review"
    MaxChanges = 1
INVARIANTS
    ParseDecides
    CompileDecides
    SignedWasAllowed
CHECK_DEADLOCK FALSE
