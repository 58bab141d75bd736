\* The same, with the claim that a reset starts from the beginning.
CONSTANTS
    Pages <- FewPages
    Starts = {0, 2}
    PageSize = 3
    MaxFaults = 2
SPECIFICATION Spec
INVARIANTS
    ResetStartsFromTheBeginning
