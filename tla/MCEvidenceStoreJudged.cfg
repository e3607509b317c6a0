CONSTANTS
    Calls = {c1, c2, c3, c4}
    Regulated = {}
    NoBytes = NoBytes
    TornBytes = TornBytes
SPECIFICATION StoreSpec
SYMMETRY Symmetry
INVARIANT JudgedFilesWereChecked
