SPECIFICATION EntriesSpec
SYMMETRY Alike
CONSTANTS
    Entries = {e1, e2, e3}
    Flows = {f1, f2}
    Addresses = {a1, a2}
    Units = {1, 2}
    DEFAULT_UNIT_ID = 1
    Intervals = {15, 300}
    DEFAULT_SCAN_INTERVAL = 15
    None = None
INVARIANTS
    EntriesTypeOK
    OneEntryPerCharger
    UniqueIdNamesCharger
