SPECIFICATION MCSpec
CONSTANTS
    Sweep = {x1, x2}
    Due <- MCDue
    Window = 1
    Instants = 2
    LastDay = 3
    Saves = 1
    Off = Off None = None Keep = Keep s1 = s1 s2 = s2 y1 = y1 y2 = y2 a = a b = b
    artA = artA chemA = chemA chemB = chemB t1 = t1 t2 = t2 t3 = t3 q1 = q1 q2 = q2
    u1 = u1 u2 = u2 u3 = u3 bill1 = bill1 bill2 = bill2 essay = essay
    Student = {s1, s2} Year = {y1, y2} Section = {a, b} Offering = {artA, chemA, chemB}
    ClassOf <- MCClassOf SectionOf <- MCSectionOf SubjectOf <- MCSubjectOf
    Author = {"author"} QuizTab <- MCQuizTab QuestionIds = {q1, q2} Points = {1, 2}
    Options = {{}, {"a", "b"}, {"a", "c"}} QuizSection = a
    Subject = {"art", "chem", "physics"} NoSubject = "none" QuizRoster <- MCQuizRoster
    Teacher = {"teacher"} WorkTab = {t1, t2, t3} Owner <- MCOwner Offered = {artA, chemA}
    ThisYear = y1 WorkRoster <- MCWorkRoster MaxScore = 1 MaxKeys = 3
    Talker = {"stu", "adm", "tea"} TalkerRole <- MCTalkerRole
    Screen = {"s1", "a1", "t1"} ScreenOf <- MCScreenOf MaxMessages = 2 MaxClock = 4
    Writer = {"sup", "adm", "tea", "par", "stu", "sib", "adm2", "par2"}
    WriterRole <- MCWriterRole WriterSchool <- MCWriterSchool NoSchool = "none"
    Classmates = {"stu", "sib"} Lecturers = {"tea"} Request = {"front", "back"}
    Pupil = {"pupil"} Guardian = {"guardian"} Instructor = {"teacher"} Admin = {"admin"}
    Room = {a, b} RoomClass <- MCRoomClass Cron = {"first", "second"} Editor = {"one", "two"} MaxTargets = 2 MaxTime = 2
SYMMETRY Symmetry
INVARIANTS
    RemindedUnderOneStamp
    WorkStands
    QuizOpen
    AudiencesAgree
    ToldOnce
    ThreadsKept
CHECK_DEADLOCK FALSE
