SPECIFICATION MCSpec
CONSTANTS
    Student = {s1}
    Year = {y1, y2}
    Section = {fiveA, fiveB, sixA}
    ClassOf <- MCClassOf
    Offering = {chemA, chemB}
    SectionOf <- MCSectionOf
    SubjectOf <- MCSubjectOf
    Admin = {admin1, admin2}
    MaxRows = 2
    Statuses = {"ACTIVE", "COMPLETED"}
    Off = Off None = None NoRow = NoRow Gone = Gone NoChoice = NoChoice
    s1 = s1 s2 = s2 y1 = y1 y2 = y2
    fiveA = fiveA fiveB = fiveB sixA = sixA artA = artA chemA = chemA chemB = chemB grade5 = grade5 grade6 = grade6
    ea = ea eb = eb art = art chem = chem lab = lab
    Attendee = {s1, s2} Form = {fiveA, fiveB} FormClass <- MCFormClass
    Lesson = {artA, chemA, chemB} LessonForm <- MCLessonForm LessonSubject <- MCLessonSubject
    Instructor = {"ann", "bob"} Lessons <- MCLessons Day = {"autumn", "summer"} CoveredBy <- MCCoveredBy
    Hour = {1} Rolls <- MCRolls
    Pupil = {"ann"} Guardian = {"gil", "guy"} School = {"one", "two"} Desk = {"d1", "d2"}
SYMMETRY Symmetry
INVARIANTS
    PicksHeld
    RostersOfOneMind
    RegistersAgree
    CardsOfOneMind
    FamiliesWhole
    RefusedOnlyByRivals
    HoursStand
PROPERTIES
    PlacesKept
CHECK_DEADLOCK FALSE
