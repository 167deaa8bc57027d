CONSTANTS
    Geometry <- Geometries
    Reserve = 40
    Overhead = 10
    Text <- Texts
    Question = {9, 24, 25, 60}
    Turn <- Turns
    MaxTurns = 3
    MaxTokens = {1, 16, 60}
SPECIFICATION Spec
INVARIANTS BudgetHolds KeptIsLongest ClampedAlone AdmittedIsAnswerable
