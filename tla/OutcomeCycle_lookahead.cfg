SPECIFICATION Spec
CONSTANTS
    Symbol = {s1}
    MaxSession = 3
    MaxPrice = 3
    Candle <- TwoCandles
    Level = {2}
    Quote = {2}
    HORIZONS = {1, 2}
    WINDOW = 2
    STOCK_RETENTION_SESSIONS = 2
    MINIMUM_SCANNER_HISTORY_SESSIONS = 2
    RepairOverlaps = TRUE
    Null = Null
INVARIANTS
    ForwardOnly
