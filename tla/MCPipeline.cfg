\* Three rows, pages of two, every plan.
CONSTANTS
    Rows = {1, 2, 3}
    Plans <- AllPlans
    ValuesFor <- SmallValues
    Undefined = Undefined
    PageSize = 2
SPECIFICATION Spec
CHECK_DEADLOCK FALSE
INVARIANTS
    OutputIsTheAnswer
    NoMoreMeansAllGiven
    ChargesAddUp
PROPERTIES
    LoopsEnd
