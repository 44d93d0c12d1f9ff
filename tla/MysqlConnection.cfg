CONSTANTS
    Thread = {t1, t2}
    NoThread = NoThread
    RowCount = 2
    MaxOutages = 4
SPECIFICATION Spec
INVARIANTS
    TypeOK
    RowsAreOneResult
    OldOutageIsHealed
PROPERTIES
    CallsReturn
    KeepsContract
