\* Two tasks, a scan cursor and a cursor of SQL fields, three and two pages.
SPECIFICATION Spec
CONSTANTS
    a = a  b = b  scan = scan  fields = fields
    Task <- TwoTasks
    Cursor <- TwoCursors
    Fields <- OneFields
    Objects <- OneFields
    Size <- Sizes
    PageSize = 2
    MaxId = 2
    MaxLosses = 1
    None = None
SYMMETRY Symmetric
INVARIANTS
    OwnRows
    RowsOnce
    EndIsComplete
PROPERTIES
    NothingLeftOpen
