CONSTANTS
    Tokens = {t1, t2}
    NoToken = NoToken
    MaxRequests = 2
    Parts = {fields, tables}
    ListParts = {tables}
    Values = {blank, x, xy}
    Empty = blank
    WithComma = {xy}
    Pieces = x
    NoConfig = NoConfig
SPECIFICATION FormSpec
SYMMETRY TokenSymmetry
INVARIANTS
    ConfigFormTypeOK
    ConnectedHasToken
    SavedIsStored
PROPERTIES
    UntouchedPartsSurvive
    OnlyDeniedReadsEndSessions
