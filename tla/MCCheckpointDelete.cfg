SPECIFICATION Spec
CONSTANTS
    Procs = {p1, p2}
    Configs = {a, b}
    Cursors <- MCCursors
    NoRow = NoRow
    Nobody = Nobody
PROPERTIES
    DeletesOwn
