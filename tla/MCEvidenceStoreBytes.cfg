CONSTANTS
    Calls = {c1, c2, c3}
    Regulated = {c3}
    NoBytes = NoBytes
    TornBytes = TornBytes
SPECIFICATION StoreSpec
SYMMETRY Symmetry
INVARIANT AvailableFileHasBytes
