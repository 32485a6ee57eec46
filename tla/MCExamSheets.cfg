SPECIFICATION Spec
CONSTANTS
    Exam = {e1, e2}
    Subject = {m1}
    Slot = {t1}
    Teacher = {u1, u2}
    Admin = {a}
    Unset = Unset
    InFlight = 2
SYMMETRY Symmetry
INVARIANTS
    PublishedWhole
PROPERTIES
    ReviewBinds
