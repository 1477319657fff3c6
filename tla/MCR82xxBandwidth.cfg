CONSTANTS
    Step = 50000
    Top = 170
    Requests <- MCRequests
SPECIFICATION Spec
INVARIANTS
    FilterFits
    CentredInFilter
