SPECIFICATION Spec
CONSTANTS
    Symbol = {s1}
    MaxSession = 5
    MaxPrice = 3
    Candle <- TwoCandles
    Level = {2}
    Quote = {2}
    HORIZONS = {1, 2}
    WINDOW = 2
    STOCK_RETENTION_SESSIONS = 3
    MINIMUM_SCANNER_HISTORY_SESSIONS = 2
    RepairOverlaps = FALSE
    Null = Null
INVARIANTS
    TypeOK
    ForwardOnly
    MatureStaysFull
    MatureBreakoutAgrees
PROPERTIES
    MatureLabelsAdvance
