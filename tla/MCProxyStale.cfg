SPECIFICATION Spec
CONSTANTS
    Threads = {t1, t2}
    Domains = {d1}
    Keys = {k1, k2, kOdd}
    Undecodable = {kOdd}
    Absent = Absent
    NoTx = NoTx
    LegacyFallback = TRUE
    AutoScrape = TRUE
    Log = FALSE
SYMMETRY Symmetry
INVARIANT RefusalMeansOutOfDate
