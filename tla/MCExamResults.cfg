SPECIFICATION Spec
CONSTANTS
    Student = {s1, s2}
    Paper = {m1, m2}
    Totals = {1, 2}
    Entries <- MCEntries
    Saver = {v1, v2}
SYMMETRY Symmetry
INVARIANTS
    FinalRestsOnMarks
PROPERTIES
    NeverRescaled
    MarksStand
