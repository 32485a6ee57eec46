SPECIFICATION MCSpec
CONSTANTS
    admin1 = admin1
    admin2 = admin2
    a = a
    b = b
    mon = mon
    tue = tue
    t1 = t1
    t2 = t2
    r1 = r1
    p1 = p1
    p2 = p2
    p3 = p3
    e1 = e1
    e2 = e2
    e3 = e3
    Admin = {admin1}
    Section = {a, b}
    Day = {mon, tue}
    Qualified <- MCQualified
    Rooms <- MCRooms
    Free = Free
    NoRoom = NoRoom
    Inherited = Inherited
    Homes <- MCHomes
    MaxRetimed = 1
    Grids <- MCGrids
    SchoolDay <- MCSchoolDay
    PeriodIds = {p1, p2, p3}
    EntryIds = {e1, e2, e3}
SYMMETRY Symmetric
INVARIANTS
    ClassesStand
PROPERTIES
    EditsHoldBack
