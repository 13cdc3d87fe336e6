SPECIFICATION HouseholdSpec
CONSTANTS
    phone = phone
    laptop = laptop
    s1 = s1
    s2 = s2
    None = None
    Gone = Gone
    Topics = {"replica"}
    MaxEdits = 1
    MaxStops = 2
    Person = {"ann", "bob"}
    Household = {"h1", "h2", "h3"}
    Role = {"owner", "editor"}
    Founder <- MCFounder
    Invited <- MCInvited
    Attempts = 2
    MaxBreaks = 1
    Device = {phone, laptop}
    MaxWrites = 2
    MaxLosses = 0
    MaxResyncs = 1
    MaxCrashes = 1
    Slot = {s1, s2}
    MaxCalls = 3
    Documents <- MCDocuments
    Drafts <- MCDrafts
    Patches <- MCPatches
    Budgets <- MCBudgets
    Months = {1, 2}
    MaxEntered = 2
INVARIANT
    NothingIsLeftUnseen
