SPECIFICATION Spec
CONSTANTS
    BlkSize = 345
    Base = 8
    Runs = {"VALIDATION_RUN", "PERFORMANCE_RUN", "PROFILE_RUN"}
    Iterations = 2
    Vals = {0, 64, 127}
INVARIANTS TypeOK ListWhole SortOrders ListRestored BlocksRestored ScanStops
PROPERTIES Finishes
CHECK_DEADLOCK FALSE
