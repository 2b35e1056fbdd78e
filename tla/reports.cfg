SPECIFICATION Spec
CONSTANTS
    MaxLines = 3
    Campaigns = {c1}
    Shown = c1
    MethodOf <- MethodOfDef
    Bookings <- BookingsDef
    BookedTo <- BookedToDef
    MaxAmount = 2
    Limit = 1
    ExportLimit = 2
    MaxChanges = 2
    None = None
INVARIANTS
    TypeOK
    FiguresDrift
    LaterIsMore
    PagesLoseFew
