------------------------- MODULE SchoolYearProofs -------------------------
(***************************************************************************)
(* The roster of a school of any size.  That the registers, the sheets,    *)
(* the grid, the doors and the notices are one relation is a fact about    *)
(* the functions of subject-takers.ts: it holds of every set of placements *)
(* and picks, and needs no more of the roster than its types.  That a pick *)
(* has a place behind it and no subject is picked twice depends on what a  *)
(* request has read being still so when it writes: RosterInvariant.        *)
(* The families of the school have an invariant that likewise says what a  *)
(* request between its checks and its write may rely on:                   *)
(* FamiliesInvariant.  The last section is about the registers: a sheet    *)
(* and a save derive the same session, and marks are counted by sets that  *)
(* share none of them.                                                     *)
(***************************************************************************)
EXTENDS MCSchoolYear, Money, FunctionTheorems, FiniteSetTheorems, TLAPS

\* Rows that are placed are placements.
LEMMA PlacedRows ==
    ASSUME TypeOK
    PROVE  /\ Placed(rows) \subseteq Placement
           /\ \A r \in Live(rows) : rows[r] \in Placement /\ rows[r] \in Placed(rows)
BY DEF TypeOK, Placed, Live

-----------------------------------------------------------------------------
(* One relation *)

\* A pick is the only row of its student, session and offering.
LEMMA PickedIs ==
    ASSUME NEW K, K \subseteq Pick, NEW s, NEW y, NEW o
    PROVE  Picked(K, s, y, o) <=>
            \E k \in K : k.student = s /\ k.year = y /\ k.offering = o
<1>1. ASSUME NEW k \in K, k.student = s, k.year = y, k.offering = o
      PROVE  Picked(K, s, y, o)
    BY <1>1 DEF Picked, Pick
<1> QED BY <1>1 DEF Picked

\* A student takes an offering from an open place: because it is for everybody who sits
\* in its section, or because it was picked in its class.
TakesFrom(K, s, o, y, p) ==
    /\ p.student = s /\ p.year = y /\ p.status = "ACTIVE"
    /\ \/ o \notin electives /\ p.section = SectionOf[o]
       \/ Picked(K, s, y, o) /\ ClassOf[p.section] = ClassFor(o)

\* OwnSubjects, with the picks as they are or as they are about to be.
OwnOf(K, s, y) == UNION {SubjectsOf(K, electives, s, x, y) : x \in ActiveSection(s, y)}

LEMMA OwnIs ==
    ASSUME NEW K \in SUBSET Pick, NEW s, NEW y
    PROVE  /\ OwnOf(K, s, y) \subseteq Offering
           /\ \A o \in Offering : o \in OwnOf(K, s, y) <=> \E p \in Placed(rows) : TakesFrom(K, s, o, y, p)
<1>1. OwnOf(K, s, y) \subseteq Offering
    BY DEF OwnOf, SubjectsOf, PicksOf, Pick
<1>2. ASSUME NEW o \in Offering, NEW x
      PROVE  o \in SubjectsOf(K, electives, s, x, y) <=>
                \/ o \notin electives /\ SectionOf[o] = x
                \/ Picked(K, s, y, o) /\ ClassFor(o) = ClassOf[x]
    <2>1. o \in {k.offering : k \in PicksOf(K, s, y, ClassOf[x])} <=>
            Picked(K, s, y, o) /\ ClassFor(o) = ClassOf[x]
        BY PickedIs DEF PicksOf
    <2>2. o \in {q \in Offering \ electives : SectionOf[q] = x} <=> o \notin electives /\ SectionOf[o] = x
        OBVIOUS
    <2> HIDE DEF Picked, ClassFor, PicksOf
    <2> QED BY <2>1, <2>2, Zenon DEF SubjectsOf
<1>3. ASSUME NEW o \in Offering
      PROVE  o \in OwnOf(K, s, y) <=>
                \E p \in Placed(rows) : /\ p.student = s /\ p.year = y /\ p.status = "ACTIVE"
                                        /\ o \in SubjectsOf(K, electives, s, p.section, y)
    BY DEF OwnOf, ActiveSection, Of
<1> QED BY <1>1, <1>2, <1>3 DEF TakesFrom

LEMMA TakingIs ==
    ASSUME TypeOK, NEW s, NEW o \in Offering, NEW y
    PROVE  Taking(s, o, y) <=> \E p \in Placed(rows) : TakesFrom(picks, s, o, y, p)
<1>1. Taking(s, o, y) <=> o \in OwnOf(picks, s, y)
    BY DEF Taking, OwnSubjects, OwnOf
<1>2. picks \in SUBSET Pick
    BY DEF TypeOK
<1> QED BY <1>1, <1>2, OwnIs

\* Who takes one of some offerings from a place outside its section.
LEMMA CrossIs ==
    ASSUME NEW s \in Student, NEW P, NEW K, NEW offerings, NEW y, NEW statuses
    PROVE  s \in CrossSectionTakers(P, K, offerings, y, statuses) <=>
            \E o \in offerings :
                /\ Picked(K, s, y, o)
                /\ ~\E p \in P : /\ p.student = s /\ p.year = y
                                 /\ p.status = "ACTIVE" /\ p.section = SectionOf[o]
                /\ \E p \in P : /\ p.student = s /\ p.year = y
                                /\ p.status \in statuses /\ ClassOf[p.section] = ClassFor(o)
BY DEF CrossSectionTakers, Of

LEMMA CrossAreStudents ==
    ASSUME NEW P, NEW K, NEW offerings, NEW y, NEW statuses
    PROVE  CrossSectionTakers(P, K, offerings, y, statuses) \subseteq Student
BY DEF CrossSectionTakers

\* Who sits in a section.
SitsIn(s, section, y) ==
    \E p \in Placed(rows) : /\ p.student = s /\ p.year = y
                            /\ p.status = "ACTIVE" /\ p.section = section

LEMMA ListedIs ==
    ASSUME TypeOK, NEW o \in Offering, NEW y \in Year, OneSession(SectionOf[o], y), NEW s \in Student
    PROVE  /\ s \in {p.student : p \in ActiveIn(Placed(rows), SectionOf[o])} <=> SitsIn(s, SectionOf[o], y)
           /\ s \in Register(Placed(rows), picks, electives, o, y) <=>
                \/ SitsIn(s, SectionOf[o], y) /\ (o \in electives => Picked(picks, s, y, o))
                \/ s \in CrossSectionTakers(Placed(rows), picks, {o}, y, {"ACTIVE"})
<1> DEFINE placed == {p.student : p \in ActiveIn(Placed(rows), SectionOf[o])}
<1>1. s \in placed <=> SitsIn(s, SectionOf[o], y)
    BY DEF OneSession, SitsIn, ActiveIn
<1>2. o \in electives =>
        (s \in TakersOf(Placed(rows), picks, electives, o, placed, y) <=>
            s \in placed /\ Picked(picks, s, y, o))
    BY DEF TakersOf
<1> HIDE DEF placed
<1>3. s \in Register(Placed(rows), picks, electives, o, y) <=>
        \/ s \in (IF o \in electives THEN TakersOf(Placed(rows), picks, electives, o, placed, y) ELSE placed)
        \/ s \in CrossSectionTakers(Placed(rows), picks, {o}, y, {"ACTIVE"})
    BY DEF Register, placed
<1> QED BY <1>1, <1>2, <1>3 DEF placed

LEMMA RegisterAndTaking ==
    ASSUME TypeOK, NEW o \in Offering, NEW y \in Year, OneSession(SectionOf[o], y), NEW s \in Student
    PROVE  s \in Register(Placed(rows), picks, electives, o, y) <=> Taking(s, o, y)
<1>1. s \in CrossSectionTakers(Placed(rows), picks, {o}, y, {"ACTIVE"}) <=>
        /\ Picked(picks, s, y, o) /\ ~SitsIn(s, SectionOf[o], y)
        /\ \E p \in Placed(rows) : /\ p.student = s /\ p.year = y
                                   /\ p.status = "ACTIVE" /\ ClassOf[p.section] = ClassFor(o)
    BY CrossIs DEF SitsIn
<1>2. SitsIn(s, SectionOf[o], y) =>
        \E p \in Placed(rows) : /\ p.student = s /\ p.year = y /\ p.status = "ACTIVE"
                                /\ p.section = SectionOf[o] /\ ClassOf[p.section] = ClassFor(o)
    BY DEF SitsIn, ClassFor
<1> QED BY <1>1, <1>2, ListedIs, TakingIs DEF TakesFrom, SitsIn

LEMMA RegisterIsSheet ==
    ASSUME TypeOK
    PROVE  RegisterAgrees
<1> SUFFICES ASSUME NEW o \in Offering, NEW y \in Year, OneSession(SectionOf[o], y)
             PROVE  Register(Placed(rows), picks, electives, o, y) = {s \in Student : Taking(s, o, y)}
    BY DEF RegisterAgrees
<1>1. {p.student : p \in ActiveIn(Placed(rows), SectionOf[o])} \subseteq Student
    BY PlacedRows DEF ActiveIn, Placement
<1>2. Register(Placed(rows), picks, electives, o, y) \subseteq Student
    BY <1>1, CrossAreStudents DEF Register, TakersOf
<1> QED BY <1>2, RegisterAndTaking

\* A student whose places are all open is down for the papers of a section if they sit
\* there, or take one of them from a sibling.
LEMMA RosterIs ==
    ASSUME NEW s \in Student, NEW x, NEW y, NEW papers,
           \A p \in Of(Placed(rows), s, y) : p.status = "ACTIVE"
    PROVE  s \in ExamRoster(Placed(rows), picks, x, papers, y) <=>
                SitsIn(s, x, y) \/ s \in CrossSectionTakers(Placed(rows), picks, papers, y, History)
<1> DEFINE here == {p \in Placed(rows) : p.section = x /\ p.year = y /\ p.status \in History}
           active == {p.student : p \in {q \in here : q.status = "ACTIVE"}}
           movedOut == {t \in Student : \E p \in Of(Placed(rows), t, y) :
                            p.status = "ACTIVE" /\ p.section # x}
<1>1. s \in active <=> SitsIn(s, x, y)
    BY DEF SitsIn, History
<1>2. s \in {p.student : p \in here} => SitsIn(s, x, y)
    BY DEF SitsIn, Of
<1>3. ExamRoster(Placed(rows), picks, x, papers, y) =
        active \union ({p.student : p \in here} \ movedOut)
            \union CrossSectionTakers(Placed(rows), picks, papers, y, History)
    BY DEF ExamRoster
<1> HIDE DEF active, here, movedOut
<1> QED BY <1>1, <1>2, <1>3

LEMMA SheetsAgree ==
    ASSUME TypeOK
    PROVE  SheetAgrees
<1> SUFFICES ASSUME NEW o \in Offering, NEW y \in Year, NEW s \in Student,
                    \A p \in Of(Placed(rows), s, y) : p.status = "ACTIVE"
             PROVE  s \in SitsPaper(Placed(rows), picks, electives, SectionOf[o],
                                    {p \in Offering : SectionOf[p] = SectionOf[o]}, o, y)
                        <=> Taking(s, o, y)
    BY DEF SheetAgrees
<1> DEFINE x == SectionOf[o]
           papers == {p \in Offering : SectionOf[p] = x}
           inClass == \E p \in Placed(rows) : /\ p.student = s /\ p.year = y
                                              /\ ClassOf[p.section] = ClassOf[x]
           examRoster == ExamRoster(Placed(rows), picks, x, papers, y)
           pick == Picked(picks, s, y, o)
           common == o \notin electives
           inSibling == \E p \in Of(Placed(rows), s, y) :
                /\ p.section # SectionOf[o] /\ ClassOf[p.section] = ClassFor(o)
                /\ p.status # "INACTIVE"
           placedHere == \E p \in Of(Placed(rows), s, y) : p.section = SectionOf[o]
<1>1. s \in examRoster <=> SitsIn(s, x, y) \/ s \in CrossSectionTakers(Placed(rows), picks, papers, y, History)
    BY RosterIs
<1>2. s \in CrossSectionTakers(Placed(rows), picks, papers, y, History) => inClass
    BY CrossIs DEF ClassFor
<1>3. SitsIn(s, x, y) => inClass /\ placedHere
    BY DEF SitsIn, Of
<1>4. pick /\ inClass => SitsIn(s, x, y) \/ s \in CrossSectionTakers(Placed(rows), picks, papers, y, History)
    <2> SUFFICES ASSUME pick, inClass, ~SitsIn(s, x, y)
                 PROVE  s \in CrossSectionTakers(Placed(rows), picks, papers, y, History)
        OBVIOUS
    <2>1. \E p \in Placed(rows) : /\ p.student = s /\ p.year = y
                                  /\ p.status \in History /\ ClassOf[p.section] = ClassFor(o)
        BY DEF Of, ClassFor, History
    <2>2. ~\E p \in Placed(rows) : /\ p.student = s /\ p.year = y
                                   /\ p.status = "ACTIVE" /\ p.section = SectionOf[o]
        BY DEF SitsIn
    <2>3. o \in papers
        OBVIOUS
    <2> HIDE DEF papers, inClass, x
    <2> QED BY <2>1, <2>2, <2>3, CrossIs DEF pick
<1>5. placedHere => SitsIn(s, x, y)
    BY DEF SitsIn, Of
<1>6. inClass /\ ~inSibling => placedHere
    BY DEF Of, ClassFor
<1>7. s \in SitsPaper(Placed(rows), picks, electives, x, papers, o, y) <=>
        s \in examRoster /\ (pick \/ (common /\ (placedHere \/ ~inSibling)))
    BY DEF SitsPaper, TakersOf
<1>8. Taking(s, o, y) <=> (common /\ SitsIn(s, x, y)) \/ (pick /\ inClass)
    <2>1. inClass <=> \E p \in Placed(rows) : /\ p.student = s /\ p.year = y /\ p.status = "ACTIVE"
                                              /\ ClassOf[p.section] = ClassFor(o)
        BY DEF Of, ClassFor
    <2> HIDE DEF inClass
    <2> QED BY <2>1, TakingIs DEF TakesFrom, SitsIn
<1> HIDE DEF inClass, examRoster, pick, common, inSibling, placedHere, papers, x
<1>9. s \in SitsPaper(Placed(rows), picks, electives, x, papers, o, y) <=> Taking(s, o, y)
    BY <1>1, <1>2, <1>3, <1>4, <1>5, <1>6, <1>7, <1>8
<1> QED BY <1>9 DEF x, papers

\* The sections whose posts, papers and hours are a student's own.
LEMMA ReachedIs ==
    ASSUME NEW K, NEW P, NEW s, NEW y, NEW statuses, NEW x
    PROVE  x \in SectionsReached(P, K, s, y, statuses) <=>
            \/ \E p \in P : /\ p.student = s /\ p.year = y
                            /\ p.status \in statuses /\ p.section = x
            \/ \E k \in K : /\ k.student = s /\ k.year = y /\ SectionOf[k.offering] = x
                            /\ \E p \in P : /\ p.student = s /\ p.year = y /\ p.status \in statuses
                                            /\ ClassOf[p.section] = ClassFor(k.offering)
<1> DEFINE placed == {p \in Of(P, s, y) : p.status \in statuses}
           chosen == UNION {PicksOf(K, s, y, ClassOf[p.section]) : p \in placed}
<1>1. x \in {p.section : p \in placed} <=>
        \E p \in P : p.student = s /\ p.year = y /\ p.status \in statuses /\ p.section = x
    BY DEF Of
<1>2. ASSUME NEW k
      PROVE  k \in chosen <=>
                /\ k \in K /\ k.student = s /\ k.year = y
                /\ \E p \in P : /\ p.student = s /\ p.year = y /\ p.status \in statuses
                                /\ ClassOf[p.section] = ClassFor(k.offering)
    BY DEF PicksOf, Of
<1>3. SectionsReached(P, K, s, y, statuses) =
        {p.section : p \in placed} \union {SectionOf[k.offering] : k \in chosen}
    BY DEF SectionsReached
<1> HIDE DEF placed, chosen
<1>4. x \in {SectionOf[k.offering] : k \in chosen} <=> \E k \in chosen : SectionOf[k.offering] = x
    OBVIOUS
<1> QED BY <1>1, <1>2, <1>3, <1>4

LEMMA DoorsAgree ==
    ASSUME TypeOK
    PROVE  AccessAgrees
<1> SUFFICES ASSUME NEW s \in Student, NEW o \in Offering, NEW y \in Year
             PROVE  LET reached == SectionsReached(Placed(rows), picks, s, y, {"ACTIVE"})
                    IN  /\ Taking(s, o, y) => SectionOf[o] \in reached
                        /\ PicksFromSibling(Placed(rows), picks, s, o, y, {"ACTIVE"}) =>
                                Taking(s, o, y) /\ SectionOf[o] \in reached
    BY DEF AccessAgrees
<1>1. picks \subseteq Pick
    BY DEF TypeOK
<1>2. Taking(s, o, y) => SectionOf[o] \in SectionsReached(Placed(rows), picks, s, y, {"ACTIVE"})
    BY <1>1, TakingIs, ReachedIs, PickedIs DEF TakesFrom
<1>3. PicksFromSibling(Placed(rows), picks, s, o, y, {"ACTIVE"}) => Taking(s, o, y)
    BY TakingIs DEF PicksFromSibling, Of, TakesFrom
<1> QED BY <1>2, <1>3

LEMMA GridIs ==
    ASSUME TypeOK, NEW section \in Section, NEW y \in Year, OneSession(section, y)
    PROVE  LET grid == Matrix(section, y)
               own == {p.student : p \in ActiveIn(Placed(rows), section)}
               siblings == CrossSectionTakers(Placed(rows), picks, OfferedIn(section), y, {"ACTIVE"})
           IN  /\ DOMAIN grid = own \union siblings
               /\ \A s \in own \union siblings, o \in OfferedIn(section) :
                    o \in grid[s] <=> Picked(picks, s, y, o) /\ (s \in own => o \in electives)
<1> DEFINE own == {p.student : p \in {q \in ActiveIn(Placed(rows), section) : q.year = y}}
           siblings == CrossSectionTakers(Placed(rows), picks, OfferedIn(section), y, {"ACTIVE"})
           chosen(s) == {o \in OfferedIn(section) : Picked(picks, s, y, o)}
<1>1. own = {p.student : p \in ActiveIn(Placed(rows), section)}
    BY DEF OneSession
<1>2. Matrix(section, y) =
        [s \in own \union siblings |-> IF s \in own THEN chosen(s) \intersect electives ELSE chosen(s)]
    BY DEF Matrix
<1> HIDE DEF own, siblings
<1> QED BY <1>1, <1>2 DEF siblings

LEMMA GridsAgree ==
    ASSUME TypeOK
    PROVE  GridAgrees
<1> SUFFICES ASSUME NEW section \in Section, NEW y \in Year, OneSession(section, y)
             PROVE  LET grid == Matrix(section, y)
                        own == {p.student : p \in ActiveIn(Placed(rows), section)}
                        listed(o) == Register(Placed(rows), picks, electives, o, y)
                        ticked(o) == {s \in DOMAIN grid : o \in grid[s]}
                    IN  /\ DOMAIN grid = own \union UNION {listed(o) : o \in OfferedIn(section)}
                        /\ \A o \in OfferedIn(section) :
                            listed(o) = IF o \in electives THEN ticked(o) ELSE own \union ticked(o)
    BY DEF GridAgrees
<1> DEFINE grid == Matrix(section, y)
           own == {p.student : p \in ActiveIn(Placed(rows), section)}
           siblings == CrossSectionTakers(Placed(rows), picks, OfferedIn(section), y, {"ACTIVE"})
           listed(o) == Register(Placed(rows), picks, electives, o, y)
           ticked(o) == {s \in DOMAIN grid : o \in grid[s]}
           cross(o) == CrossSectionTakers(Placed(rows), picks, {o}, y, {"ACTIVE"})
<1>1. own \subseteq Student
    BY PlacedRows DEF ActiveIn, Placement
<1>2. siblings \subseteq Student /\ \A o : cross(o) \subseteq Student
    BY CrossAreStudents
<1>3. /\ DOMAIN grid = own \union siblings
      /\ \A s \in own \union siblings, o \in OfferedIn(section) :
            o \in grid[s] <=> Picked(picks, s, y, o) /\ (s \in own => o \in electives)
    BY GridIs
<1>4. ASSUME NEW s \in Student
      PROVE  s \in siblings <=> \E o \in OfferedIn(section) : s \in cross(o)
    <2> DEFINE takes(o) ==
            /\ Picked(picks, s, y, o)
            /\ ~\E p \in Placed(rows) : /\ p.student = s /\ p.year = y
                                        /\ p.status = "ACTIVE" /\ p.section = SectionOf[o]
            /\ \E p \in Placed(rows) : /\ p.student = s /\ p.year = y
                                       /\ p.status \in {"ACTIVE"} /\ ClassOf[p.section] = ClassFor(o)
    <2>1. s \in siblings <=> \E o \in OfferedIn(section) : takes(o)
        BY CrossIs
    <2>2. ASSUME NEW o PROVE s \in cross(o) <=> takes(o)
        <3>1. s \in cross(o) <=> \E q \in {o} : takes(q)
            BY CrossIs
        <3> QED BY <3>1
    <2> HIDE DEF siblings, cross, takes
    <2> QED BY <2>1, <2>2
<1>5. ASSUME NEW s \in Student, NEW o \in OfferedIn(section)
      PROVE  /\ s \in cross(o) => Picked(picks, s, y, o) /\ s \notin own
             /\ Picked(picks, s, y, o) /\ s \in siblings /\ s \notin own => s \in cross(o)
    <2>1. o \in Offering /\ SectionOf[o] = section
        BY DEF OfferedIn
    <2>2. s \in own <=> SitsIn(s, section, y)
        BY <2>1, ListedIs
    <2>3. s \in cross(o) <=>
            /\ Picked(picks, s, y, o) /\ s \notin own
            /\ \E p \in Placed(rows) : /\ p.student = s /\ p.year = y /\ p.status \in {"ACTIVE"}
                                       /\ ClassOf[p.section] = ClassOf[section]
        <3> HIDE DEF own
        <3> QED BY <2>1, <2>2, CrossIs DEF SitsIn, ClassFor
    <2>4. s \in siblings =>
            \E p \in Placed(rows) : /\ p.student = s /\ p.year = y /\ p.status \in {"ACTIVE"}
                                    /\ ClassOf[p.section] = ClassOf[section]
        BY CrossIs DEF ClassFor, OfferedIn
    <2> HIDE DEF own, siblings, cross
    <2> QED BY <2>3, <2>4
<1>6. ASSUME NEW o \in OfferedIn(section)
      PROVE  listed(o) = (IF o \in electives THEN {s \in own : Picked(picks, s, y, o)} ELSE own)
                            \union cross(o)
    <2>1. o \in Offering /\ SectionOf[o] = section
        BY DEF OfferedIn
    <2>2. ASSUME NEW s \in Student
          PROVE  s \in listed(o) <=> (s \in own /\ (o \in electives => Picked(picks, s, y, o))) \/ s \in cross(o)
        BY <2>1, ListedIs
    <2>3. listed(o) \subseteq Student
        BY <2>1, <1>1, <1>2 DEF Register, TakersOf
    <2> HIDE DEF listed, own, cross
    <2> QED BY <1>1, <1>2, <2>2, <2>3
<1> HIDE DEF grid, own, siblings, listed, cross
<1>7. DOMAIN grid = own \union UNION {listed(o) : o \in OfferedIn(section)}
    BY <1>1, <1>2, <1>3, <1>4, <1>6
<1>8. ASSUME NEW o \in OfferedIn(section)
      PROVE  listed(o) = IF o \in electives THEN ticked(o) ELSE own \union ticked(o)
    <2>1. ASSUME NEW s \in Student
          PROVE  s \in ticked(o) <=> \/ s \in own /\ o \in electives /\ Picked(picks, s, y, o)
                                     \/ s \in cross(o)
        BY <1>3, <1>4, <1>5, <2>1
    <2>2. ticked(o) \subseteq Student
        BY <1>1, <1>2, <1>3
    <2> HIDE DEF ticked
    <2> QED BY <1>1, <1>2, <1>6, <2>1, <2>2
<1>9. DOMAIN grid = own \union UNION {listed(o) : o \in OfferedIn(section)} /\
      \A o \in OfferedIn(section) :
          listed(o) = IF o \in electives THEN ticked(o) ELSE own \union ticked(o)
    BY <1>7, <1>8
<1> QED BY <1>9 DEF grid, own, listed

LEMMA NoticesReachAll ==
    ASSUME TypeOK
    PROVE  NoticesReach
<1> SUFFICES ASSUME NEW section \in Section, NEW y \in Year
             PROVE  /\ ExamTold(section, OfferedIn(section), y) \subseteq ExamAudience(section, y)
                    /\ \A o \in OfferedIn(section) : {s \in Student : Taking(s, o, y)} \subseteq
                            ExamTold(section, {o}, y) \intersect TimetableTold(section, y)
    BY DEF NoticesReach
<1>1. picks \subseteq Pick
    BY DEF TypeOK
<1>2. ASSUME NEW s \in Student, NEW papers
      PROVE  s \in ExamTold(section, papers, y) <=>
                \/ SitsIn(s, section, y)
                \/ s \in CrossSectionTakers(Placed(rows), picks, papers, y, {"ACTIVE"})
    BY DEF ExamTold, SitsIn, ActiveIn
<1>3. ASSUME NEW s \in Student
      PROVE  (\/ SitsIn(s, section, y)
              \/ s \in CrossSectionTakers(Placed(rows), picks, OfferedIn(section), y, {"ACTIVE"}))
             => s \in TimetableTold(section, y)
    BY DEF TimetableTold, SitsIn, ActiveIn
<1>4. \A papers : ExamTold(section, papers, y) \subseteq Student
    BY PlacedRows, CrossAreStudents DEF ExamTold, ActiveIn, Placement
<1>5. ASSUME NEW s \in Student, s \in ExamTold(section, OfferedIn(section), y)
      PROVE  s \in ExamAudience(section, y)
    <2>1. CASE SitsIn(s, section, y)
        BY <2>1, ReachedIs DEF SitsIn, ExamAudience, History
    <2>2. CASE s \in CrossSectionTakers(Placed(rows), picks, OfferedIn(section), y, {"ACTIVE"})
        <3>1. PICK o \in OfferedIn(section) :
                /\ Picked(picks, s, y, o)
                /\ \E p \in Placed(rows) : /\ p.student = s /\ p.year = y
                                           /\ p.status \in {"ACTIVE"} /\ ClassOf[p.section] = ClassFor(o)
            BY <2>2, CrossIs
        <3>2. \E k \in picks : k.student = s /\ k.year = y /\ k.offering = o
            BY <1>1, <3>1, PickedIs
        <3> QED BY <3>1, <3>2, ReachedIs DEF ExamAudience, History, OfferedIn
    <2> QED BY <1>2, <1>5, <2>1, <2>2
<1>6. ASSUME NEW o \in OfferedIn(section), NEW s \in Student, Taking(s, o, y)
      PROVE  s \in ExamTold(section, {o}, y) /\ s \in TimetableTold(section, y)
    <2>1. o \in Offering /\ SectionOf[o] = section
        BY DEF OfferedIn
    <2>2. \/ SitsIn(s, section, y)
          \/ s \in CrossSectionTakers(Placed(rows), picks, {o}, y, {"ACTIVE"})
        BY <1>6, <2>1, TakingIs, CrossIs DEF TakesFrom, SitsIn
    <2>3. s \in CrossSectionTakers(Placed(rows), picks, {o}, y, {"ACTIVE"}) =>
            s \in CrossSectionTakers(Placed(rows), picks, OfferedIn(section), y, {"ACTIVE"})
        BY CrossIs
    <2> QED BY <1>2, <1>3, <2>2, <2>3
<1> QED BY <1>4, <1>5, <1>6

LEMMA PreviewIsPlan == PreviewHolds
BY DEF PreviewHolds, Listed, AlreadyPlaced, Movable, SourcePlace, HeldIn, ActivePlaces

-----------------------------------------------------------------------------
(* Picks: every one has a place behind it, and no subject is picked twice *)

BackedBy(P, K) == \A k \in K : \E p \in P : Backs(p, k.student, k.year, k.offering)

OnceIn(K) == \A k, h \in K :
    /\ k.student = h.student /\ k.year = h.year
    /\ ClassFor(k.offering) = ClassFor(h.offering)
    /\ SubjectOf[k.offering] = SubjectOf[h.offering]
    => k = h

\* Every place of one roster has one of the same student in the same class in another.
Covers(P, Q) == \A q \in Q : \E p \in P : SameClass(q, p)

LEMMA CoverBacks ==
    ASSUME NEW P, NEW Q, NEW K, Covers(P, Q), BackedBy(Q, K)
    PROVE  BackedBy(P, K)
BY DEF Covers, BackedBy, Backs, SameClass

LEMMA OncePart ==
    ASSUME NEW K, NEW H \in SUBSET K, OnceIn(K)
    PROVE  OnceIn(H)
BY DEF OnceIn

\* Ticking every elective of a section for those who were placed there.
LEMMA TickingAll ==
    ASSUME StructureAssumption, NEW P, NEW K \in SUBSET Pick, NEW E \in SUBSET Offering,
           NEW opened
    PROVE  LET ticked == SelectAllElectives(P, K, E, opened) IN
           /\ ticked \subseteq Pick
           /\ BackedBy(P, K) /\ Covers(P, opened) => BackedBy(P, ticked)
           /\ OnceIn(K) /\ (\A p, q \in opened : p.student = q.student /\ p.year = q.year
                                => p.section = q.section)
                => OnceIn(ticked)
<1> DEFINE ticked == SelectAllElectives(P, K, E, opened)
           restarting == {p \in opened : \E e \in Of(P, p.student, p.year) :
                e.section # p.section /\ ClassOf[e.section] = ClassOf[p.section]}
           keeping == {k \in K : ~\E p \in restarting :
                k \in PicksOf(K, p.student, p.year, ClassOf[p.section])}
           holds(p) == \E k \in keeping : /\ k.student = p.student /\ k.year = p.year
                                          /\ k.offering \in E
                                          /\ SectionOf[k.offering] = p.section
           fromSibling(p, o) ==
                \E k \in PicksOf(keeping, p.student, p.year, ClassOf[p.section]) :
                    SubjectOf[k.offering] = SubjectOf[o] /\ SectionOf[k.offering] # p.section
           new == {k \in Pick : \E p \in opened :
                /\ k.student = p.student /\ k.year = p.year
                /\ k.offering \in E /\ SectionOf[k.offering] = p.section
                /\ p \in restarting \/ ~holds(p)
                /\ ~fromSibling(p, k.offering)}
<1>1. ticked = keeping \union new
    BY DEF SelectAllElectives
<1>2. keeping \subseteq K /\ new \subseteq Pick
    OBVIOUS
<1>3. ASSUME NEW k \in new
      PROVE  \E p \in opened : /\ k.student = p.student /\ k.year = p.year
                               /\ SectionOf[k.offering] = p.section /\ ~fromSibling(p, k.offering)
    OBVIOUS
<1>4. ASSUME NEW k \in new, NEW h \in keeping, k.student = h.student, k.year = h.year,
             ClassFor(k.offering) = ClassFor(h.offering), SubjectOf[k.offering] = SubjectOf[h.offering]
      PROVE  SectionOf[k.offering] = SectionOf[h.offering]
    <2>1. PICK p \in opened : /\ k.student = p.student /\ k.year = p.year
                              /\ SectionOf[k.offering] = p.section /\ ~fromSibling(p, k.offering)
        BY <1>3
    <2>2. h \in PicksOf(keeping, p.student, p.year, ClassOf[p.section])
        BY <1>4, <2>1 DEF PicksOf, ClassFor
    <2> HIDE DEF keeping, new
    <2> QED BY <1>4, <2>1, <2>2
<1> HIDE DEF ticked, restarting, keeping, holds, fromSibling, new
<1>5. ASSUME BackedBy(P, K), Covers(P, opened)
      PROVE  BackedBy(P, ticked)
    <2> SUFFICES ASSUME NEW k \in new
                 PROVE  \E p \in P : Backs(p, k.student, k.year, k.offering)
        BY <1>1, <1>2, <1>5 DEF BackedBy
    <2> QED BY <1>3, <1>5 DEF Covers, SameClass, Backs, ClassFor
<1>6. ASSUME OnceIn(K), \A p, q \in opened : p.student = q.student /\ p.year = q.year => p.section = q.section
      PROVE  OnceIn(ticked)
    <2> SUFFICES ASSUME NEW k \in ticked, NEW h \in ticked, k.student = h.student, k.year = h.year,
                        ClassFor(k.offering) = ClassFor(h.offering),
                        SubjectOf[k.offering] = SubjectOf[h.offering]
                 PROVE  k = h
        BY DEF OnceIn
    <2>1. k \in Pick /\ h \in Pick
        BY <1>1, <1>2
    <2>2. SectionOf[k.offering] = SectionOf[h.offering] => k = h
        BY <2>1 DEF StructureAssumption, Pick
    <2>3. CASE k \in keeping /\ h \in keeping
        BY <1>2, <1>6, <2>3 DEF OnceIn
    <2>4. CASE k \in new /\ h \in keeping
        BY <1>4, <2>2, <2>4
    <2>5. CASE k \in keeping /\ h \in new
        BY <1>4, <2>2, <2>5
    <2>6. CASE k \in new /\ h \in new
        BY <1>3, <1>6, <2>2, <2>6
    <2> QED BY <1>1, <2>3, <2>4, <2>5, <2>6
<1>7. ticked \subseteq Pick
    BY <1>1, <1>2
<1> QED BY <1>5, <1>6, <1>7 DEF ticked

\* Ticking one offering that is newly open.
LEMMA TickingOne ==
    ASSUME NEW P, NEW K \in SUBSET Pick, NEW o \in Offering,
           BackedBy(P, K), OnceIn(K)
    PROVE  LET ticked == SelectNewElective(K, o, ActiveIn(P, SectionOf[o])) IN
           BackedBy(P, ticked) /\ OnceIn(ticked)
<1> DEFINE ticked == SelectNewElective(K, o, ActiveIn(P, SectionOf[o]))
           new == {k \in Pick :
                /\ k.offering = o
                /\ \E p \in ActiveIn(P, SectionOf[o]) : k.student = p.student /\ k.year = p.year
                /\ ~\E h \in PicksOf(K, k.student, k.year, ClassFor(o)) :
                    SubjectOf[h.offering] = SubjectOf[o] /\ h.offering # o}
<1>1. ticked = K \union new
    BY DEF SelectNewElective
<1>2. \A k \in new : \E p \in P : Backs(p, k.student, k.year, k.offering)
    BY DEF ActiveIn, Backs, ClassFor
<1>3. ASSUME NEW k \in new, NEW h \in K, k.student = h.student, k.year = h.year,
             ClassFor(k.offering) = ClassFor(h.offering), SubjectOf[k.offering] = SubjectOf[h.offering]
      PROVE  k = h
    <2>1. h \in PicksOf(K, k.student, k.year, ClassFor(o))
        BY <1>3 DEF PicksOf
    <2>2. k.offering = h.offering
        BY <1>3, <2>1
    <2> QED BY <1>3, <2>2 DEF Pick
<1>4. \A k, h \in new : k.student = h.student /\ k.year = h.year => k = h
    BY DEF Pick
<1> HIDE DEF ticked, new
<1>5. BackedBy(P, ticked)
    BY <1>1, <1>2 DEF BackedBy
<1>6. OnceIn(ticked)
    BY <1>1, <1>3, <1>4 DEF OnceIn
<1> QED BY <1>5, <1>6 DEF ticked

\* Replacing what a student takes in a class.
LEMMA Replacing ==
    ASSUME NEW P, NEW K \in SUBSET Pick, NEW p \in Placement, NEW choice \in SUBSET Offering
    PROVE  /\ Replaced(K, p, choice) \subseteq Pick
           /\ (\A o \in choice : ClassFor(o) = ClassOf[p.section])
                => /\ BackedBy(P, K) /\ Covers(P, {p}) => BackedBy(P, Replaced(K, p, choice))
                   /\ OnceIn(K) /\ Apart(choice) => OnceIn(Replaced(K, p, choice))
<1> DEFINE new == {[student |-> p.student, year |-> p.year, offering |-> o] : o \in choice}
           keeping == Cleared(K, p)
<1>1. Replaced(K, p, choice) = keeping \union new
    BY DEF Replaced
<1>2. keeping = K \ PicksOf(K, p.student, p.year, ClassOf[p.section])
    BY DEF Cleared
<1>3. new \subseteq Pick
    BY DEF Pick, Placement
<1>4. \A k \in new : k.student = p.student /\ k.year = p.year /\ k.offering \in choice
    OBVIOUS
<1> HIDE DEF new, keeping
<1>5. ASSUME \A o \in choice : ClassFor(o) = ClassOf[p.section], BackedBy(P, K), Covers(P, {p})
      PROVE  BackedBy(P, keeping \union new)
    BY <1>2, <1>4, <1>5 DEF BackedBy, Covers, SameClass, Backs
<1>6. ASSUME \A o \in choice : ClassFor(o) = ClassOf[p.section], OnceIn(K), Apart(choice)
      PROVE  OnceIn(keeping \union new)
    <2>1. ASSUME NEW k \in new, NEW h \in keeping, k.student = h.student, k.year = h.year
          PROVE  ClassFor(k.offering) # ClassFor(h.offering)
        BY <1>2, <1>4, <1>6, <2>1 DEF PicksOf
    <2>2. ASSUME NEW k \in new, NEW h \in new, SubjectOf[k.offering] = SubjectOf[h.offering]
          PROVE  k = h
        <3>1. k.offering = h.offering
            BY <1>4, <1>6, <2>2 DEF Apart
        <3> QED BY <1>3, <1>4, <3>1 DEF Pick
    <2>3. keeping \subseteq K
        BY <1>2
    <2> QED BY <1>6, <2>1, <2>2, <2>3 DEF OnceIn
<1>7. keeping \union new \subseteq Pick
    BY <1>2, <1>3
<1> QED BY <1>1, <1>5, <1>6, <1>7

\* Giving students subjects of the grid: each of them has a place behind each, and takes
\* none of them otherwise.
Grantable(P, K, students, y, add) ==
    /\ Apart(add)
    /\ \A s \in students, o \in add :
        /\ \E p \in P : Backs(p, s, y, o)
        /\ \A k \in PicksOf(K, s, y, ClassFor(o)) :
              SubjectOf[k.offering] = SubjectOf[o] => k.offering = o

LEMMA Granting ==
    ASSUME NEW P, NEW K \in SUBSET Pick, NEW students, NEW y, NEW add,
           BackedBy(P, K), OnceIn(K), Grantable(P, K, students, y, add)
    PROVE  LET granted == {k \in Pick : k.student \in students /\ k.year = y /\ k.offering \in add} IN
           BackedBy(P, K \union granted) /\ OnceIn(K \union granted)
<1> DEFINE granted == {k \in Pick : k.student \in students /\ k.year = y /\ k.offering \in add}
<1>1. BackedBy(P, K \union granted)
    BY DEF BackedBy, Grantable
<1>2. ASSUME NEW k \in granted, NEW h \in K, k.student = h.student, k.year = h.year,
             ClassFor(k.offering) = ClassFor(h.offering), SubjectOf[k.offering] = SubjectOf[h.offering]
      PROVE  k = h
    <2>1. h \in PicksOf(K, k.student, y, ClassFor(k.offering))
        BY <1>2 DEF PicksOf
    <2>2. k.offering = h.offering
        BY <1>2, <2>1 DEF Grantable
    <2> QED BY <1>2, <2>2 DEF Pick
<1>3. ASSUME NEW k \in granted, NEW h \in granted, k.student = h.student,
             SubjectOf[k.offering] = SubjectOf[h.offering]
      PROVE  k = h
    BY <1>3 DEF Grantable, Apart, Pick
<1> HIDE DEF granted
<1>4. OnceIn(K \union granted)
    BY <1>2, <1>3 DEF OnceIn
<1> QED BY <1>1, <1>4 DEF granted

-----------------------------------------------------------------------------
(* Rows *)

Rows == [RowId -> Placement \union {NoRow, Gone}]

LEMMA RowIsFinite ==
    ASSUME RosterAssumption
    PROVE  IsFiniteSet(RowId)
BY FS_Interval DEF RosterAssumption, RowId

\* Where there is room, every new row finds an id of its own and no other row changes.
LEMMA Inserting ==
    ASSUME RosterAssumption, NEW rs \in Rows, NEW new \in SUBSET Placement,
           IsFiniteSet(new), Fits(rs, Cardinality(new))
    PROVE  /\ Insert(rs, new) \in Rows
           /\ \A r \in Live(rs) : r \in Live(Insert(rs, new)) /\ Insert(rs, new)[r] = rs[r]
           /\ \A r \in RowId : rs[r] # NoRow => Insert(rs, new)[r] # NoRow
           /\ \A p \in new : \E r \in Live(Insert(rs, new)) \ Live(rs) : Insert(rs, new)[r] = p
           /\ \A r \in Live(Insert(rs, new)) \ Live(rs) : Insert(rs, new)[r] \in new
           /\ \A r, q \in Live(Insert(rs, new)) \ Live(rs) :
                Insert(rs, new)[r] = Insert(rs, new)[q] => r = q
<1> DEFINE at == CHOOSE f \in Injection(new, Unused(rs)) : TRUE
           n == Cardinality(new)
           m == Cardinality(Unused(rs))
<1>1. IsFiniteSet(Unused(rs))
    BY RowIsFinite, FS_Subset DEF Unused
<1>2. n \in Nat /\ m \in Nat /\ n <= m
    BY <1>1, FS_CardinalityType DEF Fits
<1>3. ExistsInjection(1..n, 1..m)
    BY <1>2, Fun_NatInjLeq
<1>4. ExistsInjection(new, 1..n) /\ ExistsInjection(1..m, Unused(rs))
    <2>1. ExistsBijection(1..n, new) /\ ExistsBijection(1..m, Unused(rs))
        BY <1>1, FS_CardinalityType
    <2> QED BY <2>1, Fun_ExistsBijEquiv
<1>5. ExistsInjection(new, Unused(rs))
    BY <1>3, <1>4, Fun_ExistsInjTransitive
<1>6. Injection(new, Unused(rs)) # {}
    BY <1>5, Fun_ExistsInj
<1>7. at \in Injection(new, Unused(rs))
    BY <1>6
<1>8. at \in [new -> Unused(rs)] /\ \A p, q \in new : at[p] = at[q] => p = q
    BY <1>7, Fun_InjectionProperties
<1>9. Insert(rs, new) = [r \in RowId |-> IF \E p \in new : at[p] = r
                                         THEN CHOOSE p \in new : at[p] = r ELSE rs[r]]
    BY DEF Insert
<1> HIDE DEF at
<1>10. ASSUME NEW p \in new
       PROVE  /\ at[p] \in RowId /\ rs[at[p]] = NoRow
              /\ Insert(rs, new)[at[p]] = p
    BY <1>8, <1>9 DEF Unused
<1>11. ASSUME NEW r \in RowId, \A p \in new : at[p] # r
       PROVE  Insert(rs, new)[r] = rs[r]
    BY <1>9, <1>11
<1>12. ASSUME NEW r \in RowId
       PROVE  \/ Insert(rs, new)[r] = rs[r] /\ \A p \in new : at[p] # r
              \/ \E p \in new : at[p] = r /\ Insert(rs, new)[r] = p
    BY <1>10, <1>11
<1>13. Insert(rs, new) \in Rows
    <2>1. \A r \in RowId : Insert(rs, new)[r] \in Placement \union {NoRow, Gone}
        BY <1>12 DEF Rows
    <2> QED BY <2>1, <1>9 DEF Rows
<1>14. ASSUME NEW r \in Live(rs)
       PROVE  r \in Live(Insert(rs, new)) /\ Insert(rs, new)[r] = rs[r]
    <2>1. r \in RowId /\ \A p \in new : at[p] # r
        BY <1>10 DEF Live
    <2>2. Insert(rs, new)[r] = rs[r]
        BY <1>11, <2>1
    <2> QED BY <2>1, <2>2 DEF Live
<1>15. ASSUME NEW p \in new
       PROVE  at[p] \in Live(Insert(rs, new)) \ Live(rs) /\ Insert(rs, new)[at[p]] = p
    BY <1>10 DEF Live, RosterAssumption
<1>16. ASSUME NEW r \in Live(Insert(rs, new)) \ Live(rs)
       PROVE  \E p \in new : at[p] = r /\ Insert(rs, new)[r] = p
    BY <1>12 DEF Live
<1>17. ASSUME NEW r \in RowId, rs[r] # NoRow
       PROVE  Insert(rs, new)[r] # NoRow
    BY <1>10, <1>11, <1>17
<1> QED BY <1>13, <1>14, <1>15, <1>16, <1>17

LEMMA PlacedIn ==
    ASSUME RosterAssumption, NEW rs \in Rows
    PROVE  /\ Placed(rs) \subseteq Placement
           /\ \A r \in Live(rs) : r \in RowId /\ rs[r] \in Placement /\ rs[r] \in Placed(rs)
           /\ \A p \in Placed(rs) : \E r \in Live(rs) : rs[r] = p
           /\ \A r \in RowId : rs[r] \in Placement => r \in Live(rs)
BY DEF Rows, Placed, Live, RosterAssumption

\* Rows that stay where they are are covered, and so are those that are added.
LEMMA Covering ==
    ASSUME RosterAssumption, NEW rs \in Rows, NEW old \in Rows,
           \A r \in Live(old) : r \in Live(rs) /\ SameClass(old[r], rs[r])
    PROVE  Covers(Placed(rs), Placed(old))
BY PlacedIn DEF Covers

\* One for each student is finitely many.
LEMMA FinitelyMany ==
    ASSUME RosterAssumption, NEW places \in SUBSET Placement, OneEach(places)
    PROVE  IsFiniteSet(places)
<1> DEFINE f == [p \in places |-> p.student]
<1>1. f \in [places -> Student] /\ \A p, q \in places : f[p] = f[q] => p = q
    BY DEF OneEach, Placement
<1> HIDE DEF f
<1>2. f \in Injection(places, Student)
    BY <1>1, Fun_IsInj
<1> QED BY <1>2, FS_Injection DEF RosterAssumption

-----------------------------------------------------------------------------
(* A request begins, and ends *)

LEMMA HeldIs ==
    ASSUME RosterInvariant, ~overlapped
    PROVE  BackedBy(Placed(rows), picks) /\ OnceIn(picks)
BY DEF RosterInvariant, PicksBacked, PickedOnce, BackedBy, OnceIn, Backs, Of

LEMMA RowsTyped ==
    ASSUME RosterInvariant
    PROVE  rows \in Rows
BY DEF RosterInvariant, TypeOK, Rows

\* No id is handed out again.
KeepsIds == \A r \in RowId : rows[r] # NoRow => rows'[r] # NoRow

\* A request that has read what it needs.
Begins(a) == \E c :
    /\ Ask(a, c) /\ CallTyped(c) /\ CallSound(c) /\ RowsKnown(c)
    /\ c.op \in {"create", "batch", "update", "remove", "choose", "open", "close", "mark", "promote"}

LEMMA Begun ==
    ASSUME RosterInvariant, NEW a \in Admin, Begins(a)
    PROVE  RosterInvariant'
<1>0. PICK c :
        /\ Ask(a, c) /\ CallTyped(c) /\ CallSound(c) /\ RowsKnown(c)
        /\ c.op \in {"create", "batch", "update", "remove", "choose", "open", "close", "mark", "promote"}
    BY DEF Begins
<1>1. UNCHANGED <<rows, electives, picks, records, staffed>> /\ call' = [call EXCEPT ![a] = c]
      /\ overlapped' = (overlapped \/ \E b \in Admin \ {a} : call[b] # Idle)
    BY <1>0 DEF Ask
<1>2. DOMAIN call' = Admin /\ call'[a] = c /\ \A b \in Admin : b # a => call'[b] = call[b]
    BY <1>1 DEF RosterInvariant
<1>3. TypeOK'
    BY <1>0, <1>1, <1>2 DEF RosterInvariant, TypeOK
<1>4. \A b \in Admin : CallTyped(call'[b]) /\ RowsKnown(call[b])'
    BY <1>0, <1>1, <1>2 DEF RosterInvariant, RowsKnown
<1>5. PicksBacked' /\ PickedOnce'
    <2>1. ~overlapped' => ~overlapped
        BY <1>1
    <2> QED BY <1>1, <2>1 DEF RosterInvariant, PicksBacked, PickedOnce
<1>6. ASSUME ~overlapped'
      PROVE  /\ \A b, d \in Admin : InFlight(b)' /\ InFlight(d)' => b = d
             /\ \A b \in Admin : CallSound(call[b])'
    <2>1. \A b \in Admin : b # a => call'[b] = Idle
        BY <1>1, <1>2, <1>6
    <2>2. \A b \in Admin : b # a => call'[b].op = "idle"
        BY <2>1 DEF Idle
    <2>3. CallSound(call[a])'
        BY <1>0, <1>1, <1>2 DEF CallSound
    <2>4. ASSUME NEW b \in Admin, b # a
          PROVE  CallSound(call[b])'
        BY <2>2, <2>4 DEF CallSound
    <2> QED BY <2>2, <2>3, <2>4 DEF InFlight
<1>7. IndexesHold(rows')
    BY <1>1 DEF RosterInvariant
<1> QED BY <1>2, <1>3, <1>4, <1>5, <1>6, <1>7 DEF RosterInvariant, CallTyped

LEMMA Ended ==
    ASSUME RosterInvariant, NEW a \in Admin, InFlight(a), Answer(a),
           rows' \in Rows, KeepsIds, IndexesHold(rows'), picks' \in SUBSET Pick,
           electives' \in SUBSET Offering, records' \in SUBSET Pick, staffed' \in SUBSET Section,
           ~overlapped => BackedBy(Placed(rows'), picks') /\ OnceIn(picks')
    PROVE  RosterInvariant'
<1>1. call' = [call EXCEPT ![a] = Idle] /\ overlapped' = overlapped
    BY DEF Answer
<1>2. DOMAIN call' = Admin /\ call'[a] = Idle /\ \A b \in Admin : b # a => call'[b] = call[b]
    BY <1>1 DEF RosterInvariant
<1>3. call'[a].op = "idle"
    BY <1>2 DEF Idle
<1>4. TypeOK'
    BY <1>2, <1>3 DEF RosterInvariant, TypeOK, Rows
<1>5. \A b \in Admin : CallTyped(call'[b])
    <2>1. CallTyped(call'[a])
        BY <1>2, <1>3 DEF CallTyped
    <2> QED BY <1>2, <2>1 DEF RosterInvariant
<1>8. ASSUME NEW b \in Admin
      PROVE  RowsKnown(call[b])'
    <2>1. CASE b = a
        BY <1>2, <1>3, <2>1 DEF RowsKnown
    <2>2. CASE b # a
        <3>1. CallTyped(call[b]) /\ RowsKnown(call[b])
            BY DEF RosterInvariant
        <3> QED BY <1>2, <2>2, <3>1 DEF RowsKnown, CallTyped, KeepsIds
    <2> QED BY <2>1, <2>2
<1>6. PicksBacked' /\ PickedOnce'
    BY <1>1 DEF PicksBacked, PickedOnce, BackedBy, OnceIn, Backs, Of
<1>7. ASSUME ~overlapped'
      PROVE  /\ \A b, d \in Admin : InFlight(b)' /\ InFlight(d)' => b = d
             /\ \A b \in Admin : CallSound(call[b])'
    <2>1. \A b \in Admin : b # a => call[b].op = "idle"
        BY <1>1, <1>7 DEF RosterInvariant, InFlight
    <2>2. \A b \in Admin : call'[b].op = "idle"
        BY <1>2, <1>3, <2>1
    <2>3. ASSUME NEW b \in Admin
          PROVE  CallSound(call[b])'
        BY <2>2 DEF CallSound
    <2> QED BY <2>2, <2>3 DEF InFlight
<1> QED BY <1>2, <1>4, <1>5, <1>6, <1>7, <1>8 DEF RosterInvariant, CallTyped

LEMMA SoundIs ==
    ASSUME RosterInvariant, ~overlapped, NEW a \in Admin
    PROVE  CallSound(call[a])
BY DEF RosterInvariant

LEMMA TypedIs ==
    ASSUME RosterInvariant, NEW a \in Admin
    PROVE  CallTyped(call[a])
BY DEF RosterInvariant

LEMMA CreateStep ==
    ASSUME StructureAssumption, RosterAssumption, RosterInvariant, NEW a \in Admin, Create(a)
    PROVE  RosterInvariant'
<1> DEFINE p == call[a].place
           choice == call[a].choice
           previous == Keyed(rows, p.student, p.section, p.year)
           reopened == [r \in RowId |-> IF r \in previous THEN p ELSE rows[r]]
<1>1. /\ call[a].op = "create" /\ Answer(a) /\ UNCHANGED <<electives, records, staffed>>
      /\ rows' = IF p.status = "ACTIVE" /\ previous # {} THEN reopened
                 ELSE IF Fits(rows, 1) THEN Insert(rows, {p}) ELSE rows
      /\ Keyed(rows', p.student, p.section, p.year) # {}
      /\ IndexesHold(rows')
      /\ picks' = IF choice # NoChoice THEN Replaced(picks, p, choice)
                  ELSE IF p.status = "ACTIVE"
                       THEN SelectAllElectives(Placed(rows'), picks, electives, {p})
                       ELSE picks
    BY DEF Create
<1>2. /\ rows \in Rows /\ picks \in SUBSET Pick /\ electives \in SUBSET Offering
      /\ p \in Placement /\ (choice # NoChoice => choice \in SUBSET Offering)
      /\ records \in SUBSET Pick /\ staffed \in SUBSET Section /\ InFlight(a)
    BY <1>1, TypedIs, RowsTyped DEF CallTyped, RosterInvariant, TypeOK, InFlight
<1> HIDE DEF p, choice
<1>3. /\ rows' \in Rows /\ KeepsIds
      /\ \A r \in Live(rows) : r \in Live(rows') /\ SameClass(rows[r], rows'[r])
    <2>1. CASE p.status = "ACTIVE" /\ previous # {}
        <3>1. rows' = reopened
            BY <1>1, <2>1
        <3>2. rows' \in Rows
            BY <1>2, <3>1 DEF Rows
        <3>3. ASSUME NEW r \in Live(rows)
              PROVE  r \in RowId /\ rows'[r] = IF r \in previous THEN p ELSE rows[r]
            BY <3>1 DEF Live
        <3>4. KeepsIds
            BY <1>2, <3>1 DEF KeepsIds, RosterAssumption
        <3> QED BY <1>2, <3>2, <3>3, <3>4 DEF Keyed, Live, SameClass, RosterAssumption
    <2>2. CASE ~(p.status = "ACTIVE" /\ previous # {}) /\ Fits(rows, 1)
        <3>1. IsFiniteSet({p}) /\ Cardinality({p}) = 1
            BY FS_Singleton
        <3>2. rows' = Insert(rows, {p})
            BY <1>1, <2>2
        <3>3. {p} \in SUBSET Placement /\ Fits(rows, Cardinality({p}))
            BY <1>2, <2>2, <3>1
        <3> HIDE DEF previous, reopened
        <3>4. /\ rows' \in Rows /\ \A r \in Live(rows) : r \in Live(rows') /\ rows'[r] = rows[r]
              /\ \A r \in RowId : rows[r] # NoRow => rows'[r] # NoRow
            BY <1>2, <3>1, <3>2, <3>3, Inserting
        <3> QED BY <3>4 DEF SameClass, KeepsIds
    <2>3. CASE ~(p.status = "ACTIVE" /\ previous # {}) /\ ~Fits(rows, 1)
        BY <1>1, <1>2, <2>3 DEF SameClass, KeepsIds
    <2> QED BY <2>1, <2>2, <2>3
<1>4. Covers(Placed(rows'), Placed(rows))
    BY <1>2, <1>3, Covering
<1>5. Covers(Placed(rows'), {p})
    <2>1. PICK r \in Live(rows') : /\ rows'[r].student = p.student /\ rows'[r].section = p.section
                                   /\ rows'[r].year = p.year
        BY <1>1 DEF Keyed
    <2>2. rows'[r] \in Placed(rows') /\ SameClass(p, rows'[r])
        BY <2>1 DEF Placed, SameClass
    <2> QED BY <2>2 DEF Covers
<1>6. picks' \in SUBSET Pick
    BY <1>1, <1>2, Replacing, TickingAll
<1>7. ASSUME ~overlapped
      PROVE  BackedBy(Placed(rows'), picks') /\ OnceIn(picks')
    <2>1. BackedBy(Placed(rows'), picks) /\ OnceIn(picks)
        BY <1>4, <1>7, HeldIs, CoverBacks
    <2>2. choice # NoChoice => Apart(choice) /\ \A o \in choice : ClassFor(o) = ClassOf[p.section]
        BY <1>1, <1>7, SoundIs DEF CallSound, p, choice
    <2>3. CASE choice # NoChoice
        BY <1>1, <1>2, <1>5, <2>1, <2>2, <2>3, Replacing
    <2>4. CASE choice = NoChoice /\ p.status = "ACTIVE"
        BY <1>1, <1>2, <1>5, <2>1, <2>4, TickingAll
    <2>5. CASE choice = NoChoice /\ p.status # "ACTIVE"
        BY <1>1, <2>1, <2>5
    <2> QED BY <2>3, <2>4, <2>5
<1> QED BY <1>1, <1>2, <1>3, <1>6, <1>7, Ended

LEMMA BatchStep ==
    ASSUME StructureAssumption, RosterAssumption, RosterInvariant, NEW a \in Admin, Batch(a)
    PROVE  RosterInvariant'
<1> DEFINE places == call[a].places
           opened == {p \in call[a].fresh : p.status = "ACTIVE"}
           reopened == [r \in RowId |->
                IF r \in Live(rows) /\ \E p \in places : /\ p.status = "ACTIVE"
                                                         /\ r \in Keyed(rows, p.student, p.section, p.year)
                THEN [rows[r] EXCEPT !.status = "ACTIVE"] ELSE rows[r]]
           inserted == {p \in places :
                /\ Keyed(reopened, p.student, p.section, p.year) = {}
                /\ p.status = "ACTIVE" => ActivePlaces(reopened, p.student, p.year) = {}}
<1>1. /\ call[a].op = "batch" /\ Answer(a) /\ UNCHANGED <<electives, records, staffed>>
      /\ IndexesHold(reopened)
      /\ Fits(rows, Cardinality(inserted))
      /\ rows' = Insert(reopened, inserted)
      /\ picks' = SelectAllElectives(Placed(rows'), picks, electives, opened)
    BY DEF Batch
<1>2. /\ rows \in Rows /\ picks \in SUBSET Pick /\ electives \in SUBSET Offering
      /\ places \subseteq Placement /\ opened \subseteq places /\ OneEach(places)
      /\ records \in SUBSET Pick /\ staffed \in SUBSET Section /\ InFlight(a)
    BY <1>1, TypedIs, RowsTyped DEF CallTyped, RosterInvariant, TypeOK, InFlight
<1> HIDE DEF places, opened
<1>3. ASSUME NEW r \in RowId
      PROVE  reopened[r] = rows[r] \/ (r \in Live(rows) /\ reopened[r] = [rows[r] EXCEPT !.status = "ACTIVE"])
    OBVIOUS
<1>4. ASSUME NEW r \in RowId
      PROVE  /\ reopened[r] \in Placement \union {NoRow, Gone}
             /\ r \in Live(reopened) <=> r \in Live(rows)
             /\ reopened[r] = NoRow <=> rows[r] = NoRow
             /\ r \in Live(rows) => SameClass(rows[r], reopened[r]) /\ reopened[r].section = rows[r].section
    <2>1. CASE reopened[r] = rows[r]
        BY <1>2, <2>1 DEF Rows, Live, SameClass
    <2>2. CASE r \in Live(rows) /\ reopened[r] = [rows[r] EXCEPT !.status = "ACTIVE"]
        <3>1. rows[r] \in Placement
            BY <1>2, <2>2, PlacedIn
        <3>2. reopened[r] \in Placement /\ reopened[r].student = rows[r].student
              /\ reopened[r].year = rows[r].year /\ reopened[r].section = rows[r].section
            BY <2>2, <3>1 DEF Placement, Status
        <3> QED BY <2>2, <3>2 DEF Live, SameClass, RosterAssumption
    <2> QED BY <1>3, <2>1, <2>2
<1>5. reopened \in Rows /\ Live(reopened) = Live(rows) /\ Unused(reopened) = Unused(rows)
    BY <1>4 DEF Rows, Live, Unused
<1>6. inserted \in SUBSET Placement /\ IsFiniteSet(inserted) /\ OneEach(inserted)
    <2>1. OneEach(inserted)
        BY <1>2 DEF OneEach
    <2> QED BY <1>2, <2>1, FinitelyMany
<1> HIDE DEF reopened
<1>7. Fits(reopened, Cardinality(inserted))
    BY <1>1, <1>5 DEF Fits
<1>8. \A p \in inserted : /\ Keyed(reopened, p.student, p.section, p.year) = {}
                          /\ p.status = "ACTIVE" => ActivePlaces(reopened, p.student, p.year) = {}
    OBVIOUS
<1>9. \A p \in places \ inserted :
        \/ Keyed(reopened, p.student, p.section, p.year) # {}
        \/ p.status = "ACTIVE" /\ ActivePlaces(reopened, p.student, p.year) # {}
    OBVIOUS
<1>10. inserted \subseteq places
    OBVIOUS
<1> HIDE DEF inserted
<1>11. /\ rows' \in Rows /\ \A r \in RowId : reopened[r] # NoRow => rows'[r] # NoRow
       /\ \A r \in Live(reopened) : r \in Live(rows') /\ rows'[r] = reopened[r]
       /\ \A p \in inserted : \E r \in Live(rows') : rows'[r] = p
       /\ \A r \in Live(rows') \ Live(reopened) : rows'[r] \in inserted
       /\ \A r, q \in Live(rows') \ Live(reopened) : rows'[r] = rows'[q] => r = q
    BY <1>1, <1>5, <1>6, <1>7, Inserting
<1>12. IndexesHold(rows')
    <2> SUFFICES ASSUME NEW r \in Live(rows'), NEW q \in Live(rows'), r # q,
                        rows'[r].student = rows'[q].student, rows'[r].year = rows'[q].year
                 PROVE  /\ rows'[r].section # rows'[q].section
                        /\ ~(rows'[r].status = "ACTIVE" /\ rows'[q].status = "ACTIVE")
        BY DEF IndexesHold
    <2>1. CASE r \in Live(reopened) /\ q \in Live(reopened)
        BY <1>1, <1>11, <2>1 DEF IndexesHold
    <2>2. ASSUME NEW x \in Live(reopened), NEW z \in Live(rows') \ Live(reopened),
                 rows'[x].student = rows'[z].student, rows'[x].year = rows'[z].year
          PROVE  /\ rows'[x].section # rows'[z].section
                 /\ ~(rows'[x].status = "ACTIVE" /\ rows'[z].status = "ACTIVE")
        BY <1>8, <1>11, <2>2 DEF Keyed, ActivePlaces
    <2>3. CASE r \notin Live(reopened) /\ q \notin Live(reopened)
        BY <1>6, <1>11, <2>3 DEF OneEach
    <2> QED BY <2>1, <2>2, <2>3
<1>13. Covers(Placed(rows'), Placed(rows))
    <2>1. \A r \in Live(rows) : r \in Live(rows') /\ SameClass(rows[r], rows'[r])
        BY <1>4, <1>5, <1>11 DEF Live
    <2> QED BY <1>2, <1>11, <2>1, Covering
<1>14. picks' \in SUBSET Pick
    BY <1>1, <1>2, TickingAll
<1>15. ASSUME ~overlapped
       PROVE  BackedBy(Placed(rows'), picks') /\ OnceIn(picks')
    <2>1. BackedBy(Placed(rows'), picks) /\ OnceIn(picks)
        BY <1>13, <1>15, HeldIs, CoverBacks
    <2>2. \A p \in opened : ActivePlaces(rows, p.student, p.year) = {}
        BY <1>1, <1>15, SoundIs DEF CallSound, opened
    <2>3. ASSUME NEW p \in opened
          PROVE  \E q \in Placed(rows') : SameClass(p, q)
        <3>1. CASE p \in inserted
            BY <1>11, <3>1 DEF Placed, SameClass
        <3>2. CASE Keyed(reopened, p.student, p.section, p.year) # {}
            BY <1>11, <3>2 DEF Keyed, Placed, SameClass
        <3>3. CASE ActivePlaces(reopened, p.student, p.year) # {}
            <4>1. PICK r \in Live(reopened) :
                    reopened[r].student = p.student /\ reopened[r].year = p.year /\ reopened[r].status = "ACTIVE"
                BY <3>3 DEF ActivePlaces
            <4>2. r \in Live(rows) /\ SameClass(rows[r], reopened[r])
                BY <1>4, <1>5, <4>1 DEF Live
            <4>3. rows[r].status # "ACTIVE"
                BY <2>2, <4>1, <4>2 DEF ActivePlaces, SameClass
            <4>4. \E t \in places : t.status = "ACTIVE" /\ r \in Keyed(rows, t.student, t.section, t.year)
                BY <4>1, <4>2, <4>3 DEF reopened, Live
            <4>5. PICK t \in places : r \in Keyed(rows, t.student, t.section, t.year)
                BY <4>4
            <4>6. t = p
                BY <1>2, <4>1, <4>2, <4>5 DEF Keyed, SameClass, OneEach
            <4> QED BY <1>11, <4>1, <4>2, <4>5, <4>6 DEF Keyed, Placed, SameClass
        <3> QED BY <1>2, <1>9, <3>1, <3>2, <3>3
    <2>4. Covers(Placed(rows'), opened)
        BY <2>3 DEF Covers
    <2>5. \A p, q \in opened : p.student = q.student => p = q
        BY <1>2 DEF OneEach
    <2> QED BY <1>1, <1>2, <2>1, <2>4, <2>5, TickingAll
<1>16. KeepsIds
    BY <1>4, <1>11 DEF KeepsIds
<1> QED BY <1>1, <1>2, <1>11, <1>12, <1>14, <1>15, <1>16, Ended

\* When one row changes, the picks that had no other place behind them must go.
LEMMA LeavesBacked ==
    ASSUME RosterAssumption, NEW rs \in Rows, NEW old \in Rows, NEW id \in Live(old),
           \A r \in Live(old) \ {id} : r \in Live(rs) /\ rs[r] = old[r],
           NEW K \in SUBSET Pick, BackedBy(Placed(old), K)
    PROVE  BackedBy(Placed(rs), Cleared(K, old[id]))
<1> SUFFICES ASSUME NEW k \in K, k \notin PicksOf(K, old[id].student, old[id].year, ClassOf[old[id].section])
             PROVE  \E q \in Placed(rs) : Backs(q, k.student, k.year, k.offering)
    BY DEF BackedBy, Cleared
<1>1. PICK q \in Placed(old) : Backs(q, k.student, k.year, k.offering)
    BY DEF BackedBy
<1>2. PICK r \in Live(old) : old[r] = q
    BY <1>1, PlacedIn
<1>3. r # id
    BY <1>1, <1>2 DEF Backs, PicksOf
<1>4. r \in Live(rs) /\ rs[r] = q
    BY <1>2, <1>3
<1> QED BY <1>1, <1>4 DEF Placed

LEMMA UpdateStep ==
    ASSUME StructureAssumption, RosterAssumption, RosterInvariant, NEW a \in Admin, Update(a)
    PROVE  RosterInvariant'
<1> DEFINE c == call[a]
           left == IF c.clears THEN Cleared(picks, c.was) ELSE picks
           p == IF c.keepsStatus THEN [c.place EXCEPT !.status = rows[c.id].status] ELSE c.place
<1>1. /\ c.op = "update" /\ Answer(a) /\ UNCHANGED <<electives, records, staffed>>
      /\ c.id \in Live(rows)
      /\ rows' = [rows EXCEPT ![c.id] = p]
      /\ IndexesHold(rows')
      /\ picks' = IF c.choice # NoChoice THEN Replaced(left, p, c.choice)
                  ELSE IF p.status = "ACTIVE" /\ c.defaults
                       THEN SelectAllElectives(Placed(rows'), left, electives, {p})
                       ELSE left
    BY DEF Update
<1>2. /\ rows \in Rows /\ picks \in SUBSET Pick /\ electives \in SUBSET Offering
      /\ c.place \in Placement /\ (c.choice # NoChoice => c.choice \in SUBSET Offering)
      /\ c.was \in Placement
      /\ records \in SUBSET Pick /\ staffed \in SUBSET Section /\ InFlight(a)
    BY <1>1, TypedIs, RowsTyped DEF CallTyped, RosterInvariant, TypeOK, InFlight
<1>3. /\ p \in Placement /\ p.student = c.place.student /\ p.year = c.place.year
      /\ p.section = c.place.section
    <2>1. rows[c.id] \in Placement
        BY <1>1, <1>2, PlacedIn
    <2> QED BY <1>2, <2>1 DEF Placement
<1>4. left \in SUBSET Pick
    BY <1>2 DEF Cleared
<1>5. ~overlapped => /\ rows[c.id] = c.was
                     /\ ~c.clears => SameClass(c.place, c.was)
                     /\ c.choice # NoChoice =>
                            Apart(c.choice) /\ \A o \in c.choice : ClassFor(o) = ClassOf[c.place.section]
    BY <1>1, SoundIs DEF CallSound
<1> HIDE DEF p
<1>6. /\ rows' \in Rows /\ KeepsIds
      /\ c.id \in Live(rows') /\ rows'[c.id] = p
      /\ \A r \in Live(rows) \ {c.id} : r \in Live(rows') /\ rows'[r] = rows[r]
    BY <1>1, <1>2, <1>3 DEF Rows, Live, KeepsIds, RosterAssumption
<1>7. picks' \in SUBSET Pick
    BY <1>1, <1>2, <1>3, <1>4, Replacing, TickingAll
<1>8. Covers(Placed(rows'), {p})
    BY <1>6 DEF Covers, SameClass, Placed
<1>9. ASSUME ~overlapped
      PROVE  BackedBy(Placed(rows'), picks') /\ OnceIn(picks')
    <2>1. BackedBy(Placed(rows'), left)
        <3>1. CASE c.clears
            <4>1. BackedBy(Placed(rows'), Cleared(picks, rows[c.id]))
                BY <1>1, <1>2, <1>6, <1>9, HeldIs, LeavesBacked
            <4> QED BY <1>5, <1>9, <3>1, <4>1
        <3>2. CASE ~c.clears
            <4>1. \A r \in Live(rows) : r \in Live(rows') /\ SameClass(rows[r], rows'[r])
                BY <1>3, <1>5, <1>6, <1>9, <3>2 DEF SameClass
            <4>2. Covers(Placed(rows'), Placed(rows))
                BY <1>2, <1>6, <4>1, Covering
            <4> QED BY <1>9, <3>2, <4>2, HeldIs, CoverBacks
        <3> QED BY <3>1, <3>2
    <2>2. OnceIn(left)
        <3>1. left \in SUBSET picks
            BY DEF Cleared
        <3> QED BY <1>9, <3>1, HeldIs, OncePart
    <2> HIDE DEF left
    <2>3. CASE c.choice # NoChoice
        <3>1. \A o \in c.choice : ClassFor(o) = ClassOf[p.section]
            BY <1>3, <1>5, <1>9, <2>3
        <3> QED BY <1>1, <1>2, <1>3, <1>4, <1>5, <1>8, <1>9, <2>1, <2>2, <2>3, <3>1, Replacing
    <2>4. CASE c.choice = NoChoice /\ p.status = "ACTIVE" /\ c.defaults
        BY <1>1, <1>2, <1>4, <1>8, <2>1, <2>2, <2>4, TickingAll
    <2>5. CASE c.choice = NoChoice /\ ~(p.status = "ACTIVE" /\ c.defaults)
        BY <1>1, <2>1, <2>2, <2>5
    <2> QED BY <2>3, <2>4, <2>5
<1> QED BY <1>1, <1>2, <1>6, <1>7, <1>9, Ended

LEMMA RemoveStep ==
    ASSUME RosterAssumption, RosterInvariant, NEW a \in Admin, Remove(a)
    PROVE  RosterInvariant'
<1> DEFINE c == call[a]
<1>1. /\ c.op = "remove" /\ Answer(a) /\ UNCHANGED <<electives, records, staffed>>
      /\ c.id \in Live(rows)
      /\ rows' = [rows EXCEPT ![c.id] = Gone]
      /\ picks' = IF c.last THEN Cleared(picks, c.was) ELSE picks
    BY DEF Remove
<1>2. /\ rows \in Rows /\ picks \in SUBSET Pick /\ electives \in SUBSET Offering
      /\ records \in SUBSET Pick /\ staffed \in SUBSET Section /\ InFlight(a)
    BY <1>1, RowsTyped DEF RosterInvariant, TypeOK, InFlight
<1>3. ~overlapped => /\ rows[c.id] = c.was
                     /\ ~c.last => \E r \in Live(rows) \ {c.id} : SameClass(rows[r], c.was)
    BY <1>1, SoundIs DEF CallSound
<1> HIDE DEF c
<1>4. /\ rows' \in Rows /\ KeepsIds
      /\ Live(rows') = Live(rows) \ {c.id}
      /\ \A r \in Live(rows') : rows'[r] = rows[r]
    BY <1>1, <1>2 DEF Rows, Live, KeepsIds, RosterAssumption
<1>5. IndexesHold(rows')
    BY <1>4 DEF RosterInvariant, IndexesHold
<1>6. picks' \in SUBSET picks
    BY <1>1 DEF Cleared
<1>7. ASSUME ~overlapped
      PROVE  BackedBy(Placed(rows'), picks')
    <2>1. CASE c.last
        <3>1. BackedBy(Placed(rows'), Cleared(picks, rows[c.id]))
            BY <1>1, <1>2, <1>4, <1>7, HeldIs, LeavesBacked
        <3> QED BY <1>1, <1>3, <1>7, <2>1, <3>1
    <2>2. CASE ~c.last
        <3>1. PICK other \in Live(rows') : SameClass(rows[other], c.was)
            BY <1>3, <1>4, <1>7, <2>2
        <3>2. ASSUME NEW q \in Placed(rows)
              PROVE  \E p \in Placed(rows') : SameClass(q, p)
            <4>1. PICK r \in Live(rows) : rows[r] = q
                BY <1>2, PlacedIn
            <4>2. CASE r = c.id
                BY <1>3, <1>4, <1>7, <3>1, <4>1, <4>2 DEF SameClass, Placed
            <4>3. CASE r # c.id
                BY <1>4, <4>1, <4>3 DEF SameClass, Placed
            <4> QED BY <4>2, <4>3
        <3>3. Covers(Placed(rows'), Placed(rows))
            BY <3>2 DEF Covers
        <3> QED BY <1>1, <1>7, <2>2, <3>3, HeldIs, CoverBacks
    <2> QED BY <2>1, <2>2
<1>8. ~overlapped => OnceIn(picks')
    BY <1>6, HeldIs, OncePart
<1> QED BY <1>1, <1>2, <1>4, <1>5, <1>6, <1>7, <1>8, Ended

\* What a promotion makes of the rows: nobody's row is lost, the rows to close are closed
\* unless they are reopened, and what was not there before is what it creates.
Promoted(c) ==
    /\ rows' \in Rows /\ KeepsIds /\ IndexesHold(rows')
    /\ \A r \in Live(rows) : r \in Live(rows') /\
          rows'[r] = IF r \in c.revives THEN [rows[r] EXCEPT !.status = "ACTIVE"]
                     ELSE IF r \in c.closes THEN [rows[r] EXCEPT !.status = "COMPLETED"] ELSE rows[r]
    /\ \A p \in c.creates : \E r \in Live(rows') \ Live(rows) : rows'[r] = p
    /\ \A r \in Live(rows') \ Live(rows) : rows'[r] \in c.creates

LEMMA Promoting ==
    ASSUME RosterAssumption, RosterInvariant, NEW a \in Admin, Promote(a)
    PROVE  Promoted(call[a])
<1> DEFINE c == call[a]
           closed == [r \in RowId |-> IF r \in c.closes \intersect Live(rows)
                                      THEN [rows[r] EXCEPT !.status = "COMPLETED"] ELSE rows[r]]
           revived == [r \in RowId |-> IF r \in c.revives \intersect Live(rows)
                                       THEN [rows[r] EXCEPT !.status = "ACTIVE"] ELSE closed[r]]
<1>1. /\ c.op = "promote"
      /\ Fits(rows, Cardinality(c.creates))
      /\ rows' = Insert(revived, c.creates)
      /\ IndexesHold(rows')
    BY DEF Promote
<1>2. rows \in Rows /\ c.creates \in SUBSET Placement /\ OneEach(c.creates)
    BY <1>1, TypedIs, RowsTyped DEF CallTyped
<1> HIDE DEF c
<1>3. ASSUME NEW r \in RowId
      PROVE  /\ r \notin Live(rows) => revived[r] = rows[r]
             /\ r \in Live(rows) => revived[r] =
                    IF r \in c.revives THEN [rows[r] EXCEPT !.status = "ACTIVE"]
                    ELSE IF r \in c.closes THEN [rows[r] EXCEPT !.status = "COMPLETED"] ELSE rows[r]
    OBVIOUS
<1> HIDE DEF revived
<1>4. ASSUME NEW r \in RowId
      PROVE  /\ revived[r] \in Placement \union {NoRow, Gone}
             /\ r \in Live(revived) <=> r \in Live(rows)
             /\ revived[r] = NoRow <=> rows[r] = NoRow
    <2>1. CASE r \notin Live(rows)
        BY <1>2, <1>3, <2>1 DEF Rows, Live
    <2>2. CASE r \in Live(rows)
        <3>1. rows[r] \in Placement
            BY <1>2, <2>2, PlacedIn
        <3>2. revived[r] \in Placement
            BY <1>3, <2>2, <3>1 DEF Placement, Status
        <3> QED BY <2>2, <3>2 DEF Live, RosterAssumption
    <2> QED BY <2>1, <2>2
<1>5. revived \in Rows /\ Live(revived) = Live(rows) /\ Unused(revived) = Unused(rows)
    <2>1. revived = [r \in RowId |-> revived[r]]
        BY DEF revived
    <2> QED BY <1>4, <2>1 DEF Rows, Live, Unused
<1>6. IsFiniteSet(c.creates) /\ Fits(revived, Cardinality(c.creates))
    BY <1>1, <1>2, <1>5, FinitelyMany DEF Fits
<1>7. /\ rows' \in Rows /\ \A r \in RowId : revived[r] # NoRow => rows'[r] # NoRow
      /\ \A r \in Live(revived) : r \in Live(rows') /\ rows'[r] = revived[r]
      /\ \A p \in c.creates : \E r \in Live(rows') \ Live(revived) : rows'[r] = p
      /\ \A r \in Live(rows') \ Live(revived) : rows'[r] \in c.creates
    BY <1>1, <1>2, <1>5, <1>6, Inserting
<1>8. KeepsIds
    BY <1>4, <1>7 DEF KeepsIds
<1>9. \A r \in Live(rows) : r \in RowId
    BY DEF Live
<1> QED BY <1>1, <1>3, <1>5, <1>7, <1>8, <1>9 DEF Promoted, c

LEMMA PromoteStep ==
    ASSUME StructureAssumption, RosterAssumption, RosterInvariant, NEW a \in Admin, Promote(a)
    PROVE  RosterInvariant'
<1> DEFINE c == call[a]
           opened == c.creates \union {rows'[r] : r \in c.revives \intersect Live(rows')}
<1>1. /\ c.op = "promote" /\ Answer(a) /\ UNCHANGED <<electives, records>>
      /\ picks' = SelectAllElectives(Placed(rows'), picks, electives, opened)
      /\ staffed' \subseteq staffed
    BY DEF Promote
<1>2. /\ rows \in Rows /\ picks \in SUBSET Pick /\ electives \in SUBSET Offering
      /\ records \in SUBSET Pick /\ staffed \in SUBSET Section /\ InFlight(a)
      /\ \A p \in c.creates : p.section = c.section /\ p.year = c.year
    <2>1. \A p \in c.creates : p.section = c.section /\ p.year = c.year
        BY <1>1, TypedIs DEF CallTyped
    <2> QED BY <1>1, <2>1, RowsTyped DEF RosterInvariant, TypeOK, InFlight
<1>3. Promoted(c)
    BY Promoting
<1> HIDE DEF c
<1>4. ASSUME NEW r \in Live(rows)
      PROVE  r \in Live(rows') /\ SameClass(rows[r], rows'[r]) /\ rows'[r].section = rows[r].section
    <2>1. rows[r] \in Placement
        BY <1>2, PlacedIn
    <2>2. rows'[r] \in {rows[r], [rows[r] EXCEPT !.status = "ACTIVE"], [rows[r] EXCEPT !.status = "COMPLETED"]}
        BY <1>3 DEF Promoted
    <2> QED BY <1>3, <2>1, <2>2 DEF Promoted, SameClass, Placement
<1>5. Covers(Placed(rows'), Placed(rows))
    BY <1>2, <1>3, <1>4, Covering DEF Promoted
<1>6. picks' \in SUBSET Pick
    BY <1>1, <1>2, TickingAll
<1>7. ASSUME ~overlapped
      PROVE  BackedBy(Placed(rows'), picks') /\ OnceIn(picks')
    <2>1. BackedBy(Placed(rows'), picks) /\ OnceIn(picks)
        BY <1>5, <1>7, HeldIs, CoverBacks
    <2>2. opened \subseteq Placed(rows')
        BY <1>3 DEF Promoted, Placed
    <2>3. Covers(Placed(rows'), opened)
        BY <2>2 DEF Covers, SameClass
    <2>4. \A r \in c.revives : r \in Live(rows) /\ rows[r].section = c.section /\ rows[r].year = c.year
        BY <1>1, <1>7, SoundIs DEF CallSound, c
    <2>5. \A p \in opened : p.section = c.section
        BY <1>2, <1>4, <2>4
    <2> HIDE DEF opened
    <2> QED BY <1>1, <1>2, <2>1, <2>3, <2>5, TickingAll
<1> QED BY <1>1, <1>2, <1>3, <1>6, <1>7, Ended DEF Promoted

LEMMA ChooseStep ==
    ASSUME RosterInvariant, NEW a \in Admin, Choose(a)
    PROVE  RosterInvariant'
<1> DEFINE c == call[a]
           granted == {k \in Pick : k.student \in c.students /\ k.year = c.year /\ k.offering \in c.add}
           withdrawn == {k \in Pick : k.student \in c.students /\ k.year = c.year /\ k.offering \in c.drop}
<1>1. /\ c.op = "choose" /\ Answer(a) /\ UNCHANGED <<rows, electives, records, staffed>>
      /\ picks' = (picks \union granted) \ withdrawn
    BY DEF Choose
<1>2. /\ rows \in Rows /\ picks \in SUBSET Pick /\ electives \in SUBSET Offering
      /\ records \in SUBSET Pick /\ staffed \in SUBSET Section /\ InFlight(a) /\ IndexesHold(rows)
    BY <1>1, RowsTyped DEF RosterInvariant, TypeOK, InFlight
<1>3. picks' \in SUBSET (picks \union granted)
    BY <1>1
<1>4. ASSUME ~overlapped
      PROVE  BackedBy(Placed(rows'), picks') /\ OnceIn(picks')
    <2>1. BackedBy(Placed(rows), picks) /\ OnceIn(picks)
        BY <1>4, HeldIs
    <2>2. Grantable(Placed(rows), picks, c.students, c.year, c.add)
        BY <1>1, <1>4, SoundIs DEF CallSound, Grantable, Backs, ClassFor
    <2> HIDE DEF c
    <2>3. BackedBy(Placed(rows), picks \union granted) /\ OnceIn(picks \union granted)
        BY <1>2, <2>1, <2>2, Granting
    <2> HIDE DEF granted
    <2> QED BY <1>1, <1>3, <2>3, OncePart DEF BackedBy
<1>5. picks' \in SUBSET Pick
    BY <1>2, <1>3
<1> QED BY <1>1, <1>2, <1>4, <1>5, Ended DEF KeepsIds

LEMMA OpenStep ==
    ASSUME RosterInvariant, NEW a \in Admin, Open(a)
    PROVE  RosterInvariant'
<1> DEFINE o == call[a].offering
<1>1. /\ call[a].op = "open" /\ Answer(a) /\ UNCHANGED <<rows, records, staffed>>
      /\ electives' = electives \union {o}
      /\ picks' = SelectNewElective(picks, o, ActiveIn(Placed(rows), SectionOf[o]))
    BY DEF Open
<1>2. /\ rows \in Rows /\ picks \in SUBSET Pick /\ electives' \in SUBSET Offering /\ o \in Offering
      /\ records \in SUBSET Pick /\ staffed \in SUBSET Section /\ InFlight(a) /\ IndexesHold(rows)
    BY <1>1, TypedIs, RowsTyped DEF CallTyped, RosterInvariant, TypeOK, InFlight
<1> HIDE DEF o
<1>3. picks' \in SUBSET Pick
    BY <1>1, <1>2 DEF SelectNewElective
<1>4. ~overlapped => BackedBy(Placed(rows'), picks') /\ OnceIn(picks')
    BY <1>1, <1>2, HeldIs, TickingOne
<1> QED BY <1>1, <1>2, <1>3, <1>4, Ended DEF KeepsIds

LEMMA CloseStep ==
    ASSUME RosterInvariant, NEW a \in Admin, Close(a)
    PROVE  RosterInvariant'
<1>1. /\ InFlight(a) /\ Answer(a) /\ UNCHANGED <<rows, records, staffed>>
      /\ electives' \in SUBSET electives /\ picks' \in SUBSET picks
    BY DEF Close, InFlight
<1>2. /\ rows \in Rows /\ picks \in SUBSET Pick /\ electives \in SUBSET Offering
      /\ records \in SUBSET Pick /\ staffed \in SUBSET Section /\ IndexesHold(rows)
    BY RowsTyped DEF RosterInvariant, TypeOK
<1>3. ~overlapped => BackedBy(Placed(rows'), picks') /\ OnceIn(picks')
    BY <1>1, HeldIs, OncePart DEF BackedBy
<1> QED BY <1>1, <1>2, <1>3, Ended DEF KeepsIds

LEMMA OtherStep ==
    ASSUME RosterInvariant, NEW a \in Admin, Mark(a) \/ RolledBack(a)
    PROVE  RosterInvariant'
<1>1. /\ InFlight(a) /\ Answer(a) /\ UNCHANGED <<rows, electives, picks, staffed>>
      /\ records' \in SUBSET Pick
    <2>1. CASE Mark(a)
        BY <2>1, TypedIs DEF Mark, InFlight, CallTyped, RosterInvariant, TypeOK
    <2>2. CASE RolledBack(a)
        <3>1. call[a] # Idle => InFlight(a)
            BY TypedIs DEF CallTyped, InFlight
        <3> QED BY <2>2, <3>1 DEF RolledBack, RosterInvariant, TypeOK
    <2> QED BY <2>1, <2>2
<1>2. /\ rows \in Rows /\ picks \in SUBSET Pick /\ electives \in SUBSET Offering
      /\ staffed \in SUBSET Section /\ IndexesHold(rows)
    BY RowsTyped DEF RosterInvariant, TypeOK
<1>3. ~overlapped => BackedBy(Placed(rows'), picks') /\ OnceIn(picks')
    BY <1>1, HeldIs
<1> QED BY <1>1, <1>2, <1>3, Ended DEF KeepsIds

LEMMA StillStep ==
    ASSUME RosterInvariant, UNCHANGED <<rows, electives, picks, records, call, overlapped>>,
           staffed' \in SUBSET Section
    PROVE  RosterInvariant'
BY DEF RosterInvariant, TypeOK, PicksBacked, PickedOnce, InFlight, CallSound, RowsKnown

-----------------------------------------------------------------------------
(* What a request has read *)

LEMMA ChoicesAreSound ==
    ASSUME NEW section, NEW st, NEW choice \in Choices(section, st), choice # NoChoice
    PROVE  /\ choice \subseteq Offering /\ Apart(choice)
           /\ \A o \in choice : ClassFor(o) = ClassOf[section]
BY DEF Choices, Resolved, Choosable, Apart

LEMMA SelectableIsSound ==
    ASSUME StructureAssumption, electives \subseteq Offering, NEW section,
           NEW chosen, chosen \subseteq Selectable(section)
    PROVE  /\ chosen \subseteq Offering /\ Apart(chosen)
           /\ \A o \in chosen : SectionOf[o] = section /\ ClassFor(o) = ClassOf[section]
BY DEF StructureAssumption, Selectable, Apart, ClassFor

LEMMA AskCreateStep ==
    ASSUME StructureAssumption, RosterAssumption, RosterInvariant, NEW a \in Admin, AskCreate(a)
    PROVE  Begins(a)
<1>0. PICK p \in Placement : \E choice \in Choices(p.section, p.status) :
        Ask(a, [op |-> "create", place |-> p, choice |-> choice])
    BY DEF AskCreate
<1>1. PICK choice \in Choices(p.section, p.status) :
        Ask(a, [op |-> "create", place |-> p, choice |-> choice])
    BY <1>0
<1> DEFINE c == [op |-> "create", place |-> p, choice |-> choice]
<1>2. c.op = "create" /\ c.place = p /\ c.choice = choice
    OBVIOUS
<1> HIDE DEF c
<1>3. CallTyped(c)
    BY <1>2, ChoicesAreSound DEF CallTyped
<1>4. CallSound(c) /\ RowsKnown(c)
    BY <1>2, ChoicesAreSound DEF CallSound, RowsKnown
<1>5. Ask(a, c)
    BY <1>1 DEF c
<1> QED BY <1>2, <1>3, <1>4, <1>5 DEF Begins

LEMMA AskBatchStep ==
    ASSUME StructureAssumption, RosterAssumption, RosterInvariant, NEW a \in Admin, AskBatch(a)
    PROVE  Begins(a)
<1>1. PICK students \in SUBSET Student, section \in Section, y \in Year, st \in Statuses :
        LET placed == {s \in students : st = "ACTIVE" /\ ActivePlaces(rows, s, y) # {}}
            blocked == {s \in placed : \E r \in ActivePlaces(rows, s, y) :
                            rows[r].section # section}
            place(s) == [student |-> s, section |-> section, year |-> y, status |-> st]
        IN  Ask(a, [op |-> "batch",
                    places |-> {place(s) : s \in students \ blocked},
                    fresh |-> {place(s) : s \in students \ placed}])
    BY DEF AskBatch
<1> DEFINE placed == {s \in students : st = "ACTIVE" /\ ActivePlaces(rows, s, y) # {}}
           blocked == {s \in placed : \E r \in ActivePlaces(rows, s, y) : rows[r].section # section}
           place(s) == [student |-> s, section |-> section, year |-> y, status |-> st]
           places == {place(s) : s \in students \ blocked}
           fresh == {place(s) : s \in students \ placed}
           c == [op |-> "batch", places |-> places, fresh |-> fresh]
<1>2. c.op = "batch" /\ c.places = places /\ c.fresh = fresh
    OBVIOUS
<1>3. st \in Status
    BY DEF RosterAssumption
<1>4. places \subseteq Placement /\ fresh \subseteq places /\ OneEach(places)
    BY <1>3 DEF Placement, OneEach
<1>5. \A p \in fresh : p.status = "ACTIVE" => ActivePlaces(rows, p.student, p.year) = {}
    OBVIOUS
<1>6. Ask(a, c)
    BY <1>1
<1> HIDE DEF c, places, fresh
<1>7. CallTyped(c)
    BY <1>2, <1>4 DEF CallTyped
<1>8. CallSound(c) /\ RowsKnown(c)
    BY <1>2, <1>5 DEF CallSound, RowsKnown
<1> QED BY <1>2, <1>6, <1>7, <1>8 DEF Begins

LEMMA AskUpdateStep ==
    ASSUME StructureAssumption, RosterAssumption, RosterInvariant, NEW a \in Admin, AskUpdate(a)
    PROVE  Begins(a)
<1>0. PICK id \in Live(rows), p \in Placement : \E chosen \in Choices(p.section, p.status) :
        LET was == rows[id]
            shifted == [p EXCEPT !.status = was.status] # was
            withinClass == /\ p.student = was.student /\ p.year = was.year
                           /\ ClassOf[p.section] = ClassOf[was.section]
            choice == IF chosen # NoChoice THEN chosen
                      ELSE IF shifted /\ withinClass /\ p.status = "ACTIVE"
                      THEN Selectable(p.section) ELSE NoChoice
        IN  /\ p.status \in Statuses \union {was.status}
            /\ p.status = "ACTIVE" => Elsewhere(rows, id, p) = {}
            /\ Ask(a, [op |-> "update", id |-> id, was |-> was, place |-> p,
                       choice |-> choice, keepsStatus |-> p.status = was.status,
                       clears |-> shifted /\ ~(choice # NoChoice /\ withinClass),
                       defaults |-> shifted \/ was.status # "ACTIVE"])
    BY Zenon DEF AskUpdate
<1>1. PICK chosen \in Choices(p.section, p.status) :
        LET was == rows[id]
            shifted == [p EXCEPT !.status = was.status] # was
            withinClass == /\ p.student = was.student /\ p.year = was.year
                           /\ ClassOf[p.section] = ClassOf[was.section]
            choice == IF chosen # NoChoice THEN chosen
                      ELSE IF shifted /\ withinClass /\ p.status = "ACTIVE"
                      THEN Selectable(p.section) ELSE NoChoice
        IN  /\ p.status \in Statuses \union {was.status}
            /\ p.status = "ACTIVE" => Elsewhere(rows, id, p) = {}
            /\ Ask(a, [op |-> "update", id |-> id, was |-> was, place |-> p,
                       choice |-> choice, keepsStatus |-> p.status = was.status,
                       clears |-> shifted /\ ~(choice # NoChoice /\ withinClass),
                       defaults |-> shifted \/ was.status # "ACTIVE"])
    BY <1>0, Zenon
<1> DEFINE was == rows[id]
           shifted == [p EXCEPT !.status = was.status] # was
           withinClass == /\ p.student = was.student /\ p.year = was.year
                          /\ ClassOf[p.section] = ClassOf[was.section]
           choice == IF chosen # NoChoice THEN chosen
                     ELSE IF shifted /\ withinClass /\ p.status = "ACTIVE"
                     THEN Selectable(p.section) ELSE NoChoice
           clears == shifted /\ ~(choice # NoChoice /\ withinClass)
           defaults == shifted \/ was.status # "ACTIVE"
           keeps == p.status = was.status
           c == [op |-> "update", id |-> id, was |-> was, place |-> p,
                 choice |-> choice, keepsStatus |-> keeps,
                 clears |-> clears, defaults |-> defaults]
<1>2. /\ c.op = "update" /\ c.id = id /\ c.was = was /\ c.place = p /\ c.choice = choice
      /\ c.clears = clears /\ c.keepsStatus = keeps /\ c.defaults = defaults
    OBVIOUS
<1>3. Ask(a, c)
    BY <1>1
<1>4. was \in Placement /\ id \in RowId
    BY RowsTyped, PlacedIn
<1>5. choice # NoChoice => /\ choice \subseteq Offering /\ Apart(choice)
                           /\ \A o \in choice : ClassFor(o) = ClassOf[p.section]
    <2>1. electives \subseteq Offering
        BY DEF RosterInvariant, TypeOK
    <2>2. CASE chosen # NoChoice
        BY <2>2, ChoicesAreSound
    <2>3. CASE chosen = NoChoice
        <3>1. /\ Selectable(p.section) \subseteq Offering /\ Apart(Selectable(p.section))
              /\ \A o \in Selectable(p.section) : ClassFor(o) = ClassOf[p.section]
            BY <2>1, Zenon DEF StructureAssumption, Selectable, Apart, ClassFor
        <3>2. choice \in {NoChoice, Selectable(p.section)}
            BY <2>3
        <3> HIDE DEF choice
        <3> QED BY <3>1, <3>2
    <2> QED BY <2>2, <2>3
<1>6. ~clears => SameClass(p, was)
    <2>1. ~shifted => p.student = was.student /\ p.year = was.year /\ p.section = was.section
        BY <1>4 DEF Placement
    <2> HIDE DEF shifted
    <2> QED BY <2>1 DEF SameClass
<1>7. choice # NoChoice => p.status = "ACTIVE"
    <2>1. chosen # NoChoice => p.status = "ACTIVE"
        BY DEF Choices
    <2> QED BY <2>1
<1>8. choice = NoChoice /\ ~clears /\ defaults => was.status # "ACTIVE"
    <2> HIDE DEF shifted
    <2> QED OBVIOUS
<1>9. keeps => p.status = was.status
    OBVIOUS
<1> HIDE DEF c, was, choice, clears, keeps, defaults
<1>10. CallTyped(c)
    BY <1>2, <1>4, <1>5 DEF CallTyped
<1>11. CallSound(c) /\ RowsKnown(c)
    BY <1>2, <1>5, <1>6, <1>7, <1>8, <1>9 DEF CallSound, RowsKnown, was
<1> QED BY <1>2, <1>3, <1>10, <1>11 DEF Begins

LEMMA AskRemoveStep ==
    ASSUME StructureAssumption, RosterAssumption, RosterInvariant, NEW a \in Admin, AskRemove(a)
    PROVE  Begins(a)
<1>1. PICK id \in Live(rows) :
        LET others == {r \in Live(rows) \ {id} :
                /\ rows[r].student = rows[id].student /\ rows[r].year = rows[id].year
                /\ ClassOf[rows[r].section] = ClassOf[rows[id].section]}
        IN  Ask(a, [op |-> "remove", id |-> id, was |-> rows[id], last |-> others = {}])
    BY DEF AskRemove
<1> DEFINE others == {r \in Live(rows) \ {id} :
                /\ rows[r].student = rows[id].student /\ rows[r].year = rows[id].year
                /\ ClassOf[rows[r].section] = ClassOf[rows[id].section]}
           c == [op |-> "remove", id |-> id, was |-> rows[id], last |-> others = {}]
<1>2. c.op = "remove" /\ c.id = id /\ c.was = rows[id] /\ (c.last <=> others = {})
    OBVIOUS
<1>3. Ask(a, c)
    BY <1>1
<1>4. rows[id] \in Placement /\ id \in RowId
    BY RowsTyped, PlacedIn
<1>5. others # {} => \E r \in Live(rows) \ {id} : SameClass(rows[r], rows[id])
    BY DEF SameClass
<1> HIDE DEF c, others
<1>6. CallTyped(c)
    BY <1>2, <1>4 DEF CallTyped
<1>7. CallSound(c) /\ RowsKnown(c)
    BY <1>2, <1>5 DEF CallSound, RowsKnown
<1> QED BY <1>2, <1>3, <1>6, <1>7 DEF Begins

LEMMA AskPromoteStep ==
    ASSUME StructureAssumption, RosterAssumption, RosterInvariant, NEW a \in Admin, AskPromote(a)
    PROVE  Begins(a)
<1>1. PICK students \in SUBSET Student, class \in {ClassOf[x] : x \in Section},
           from \in Year, to \in Year, section \in Section :
        LET movable == {s \in students : Movable(s, class, from, to, section)}
            dormant(s) == {r \in HeldIn(s, class, from, to) : rows[r].section = section}
        IN  /\ movable # {}
            /\ Ask(a, [op |-> "promote", students |-> movable, section |-> section,
                       year |-> to, from |-> from,
                       closes |-> UNION {SourcePlace(s, class, from) : s \in movable},
                       revives |-> UNION {dormant(s) : s \in movable},
                       creates |-> {[student |-> s, section |-> section, year |-> to,
                                     status |-> "ACTIVE"] :
                                    s \in {t \in movable : dormant(t) = {}}},
                       leaves |-> {rows[r].section :
                                    r \in UNION {SourcePlace(s, class, from) : s \in movable}}])
    BY Zenon DEF AskPromote
<1> DEFINE movable == {s \in students : Movable(s, class, from, to, section)}
           dormant(s) == {r \in HeldIn(s, class, from, to) : rows[r].section = section}
           closes == UNION {SourcePlace(s, class, from) : s \in movable}
           revives == UNION {dormant(s) : s \in movable}
           creates == {[student |-> s, section |-> section, year |-> to, status |-> "ACTIVE"] :
                           s \in {t \in movable : dormant(t) = {}}}
           c == [op |-> "promote", students |-> movable, section |-> section,
                 year |-> to, from |-> from, closes |-> closes, revives |-> revives,
                 creates |-> creates,
                 leaves |-> {rows[r].section :
                                r \in UNION {SourcePlace(s, class, from) : s \in movable}}]
<1>2. /\ c.op = "promote" /\ c.students = movable /\ c.section = section /\ c.year = to
      /\ c.closes = closes /\ c.revives = revives /\ c.creates = creates
    OBVIOUS
<1>3. Ask(a, c)
    BY <1>1
<1>4. movable \subseteq Student
    OBVIOUS
<1>0. ASSUME NEW s \in movable
      PROVE  /\ \A r \in SourcePlace(s, class, from) :
                    ~(rows[r].section = section /\ rows[r].year = to)
             /\ \A r \in ActivePlaces(rows, s, to) : rows[r].section # section
    BY DEF Movable, SourcePlace, ActivePlaces, HeldIn
<1>5. ASSUME NEW s
      PROVE  /\ \A r \in SourcePlace(s, class, from) : r \in Live(rows) /\ rows[r].student = s
             /\ \A r \in dormant(s) : /\ r \in Live(rows) /\ r \notin SourcePlace(s, class, from)
                                      /\ rows[r].student = s /\ rows[r].year = to /\ rows[r].section = section
    BY DEF SourcePlace, ActivePlaces, HeldIn
<1> HIDE DEF movable, dormant
<1>6. closes \subseteq RowId /\ revives \subseteq RowId \ closes
    BY <1>5 DEF Live
<1>7. /\ creates \subseteq {p \in Placement : /\ p.student \in movable /\ p.section = section
                                              /\ p.year = to /\ p.status = "ACTIVE"}
      /\ OneEach(creates)
    BY <1>4 DEF Placement, Status, OneEach
<1>8. {p.student : p \in creates} = {t \in movable : dormant(t) = {}}
    <2>1. \A t \in {u \in movable : dormant(u) = {}} :
            [student |-> t, section |-> section, year |-> to, status |-> "ACTIVE"] \in creates
        OBVIOUS
    <2>2. \A p \in creates : p.student \in {u \in movable : dormant(u) = {}}
        OBVIOUS
    <2> HIDE DEF creates
    <2>3. \A t \in {u \in movable : dormant(u) = {}} : \E p \in creates : p.student = t
        BY <2>1
    <2> QED BY <2>2, <2>3
<1>9. ExistsBijection(revives, movable \ {p.student : p \in creates})
    <2> DEFINE f == [r \in revives |-> rows[r].student]
               T == movable \ {p.student : p \in creates}
    <2>1. T = {t \in movable : dormant(t) # {}}
        BY <1>8
    <2>2. f \in [revives -> T]
        BY <1>5, <2>1
    <2>3. \A r, q \in revives : f[r] = f[q] => r = q
        BY <1>5 DEF RosterInvariant, IndexesHold
    <2>4. \A t \in T : \E r \in revives : f[r] = t
        BY <1>5, <2>1
    <2> HIDE DEF f, T
    <2>5. f \in Bijection(revives, T)
        BY <2>2, <2>3, <2>4, Fun_IsBij
    <2>6. ExistsBijection(revives, T)
        BY <2>5, Fun_ExistsBij
    <2> QED BY <2>6 DEF T
<1>10. /\ \A r \in revives : /\ r \in Live(rows) /\ rows[r].student \in movable
                               /\ rows[r].section = section /\ rows[r].year = to
       /\ \A r \in closes : r \in Live(rows) /\ ~(rows[r].section = section /\ rows[r].year = to)
    BY <1>0, <1>5
<1>13. \A r \in closes : rows[r] # NoRow
    BY <1>10 DEF Live
<1> HIDE DEF c, closes, revives, creates
<1>11. CallTyped(c)
    BY <1>2, <1>4, <1>6, <1>7, <1>9 DEF CallTyped
<1>12. CallSound(c) /\ RowsKnown(c)
    BY <1>2, <1>0, <1>10, <1>13 DEF CallSound, RowsKnown
<1> QED BY <1>2, <1>3, <1>11, <1>12 DEF Begins

LEMMA AskChooseStep ==
    ASSUME StructureAssumption, RosterAssumption, RosterInvariant, NEW a \in Admin, AskChoose(a)
    PROVE  Begins(a)
<1>0. electives \subseteq Offering
    BY DEF RosterInvariant, TypeOK
<1>1. PICK section \in Section, y \in Year, students \in (SUBSET Student) \ {{}} :
        \E add, drop \in SUBSET Selectable(section) :
            LET seated == Seated(students, section, y)
                candidates == seated \ WithRecords(seated, y, drop)
                eligible == candidates \ TakenElsewhere(candidates, section, y, add)
            IN  /\ add \union drop # {} /\ add \intersect drop = {}
                /\ eligible # {}
                /\ Ask(a, [op |-> "choose", year |-> y, add |-> add, drop |-> drop, students |-> eligible])
    BY Zenon DEF AskChoose
<1>2. PICK add \in SUBSET Selectable(section), drop \in SUBSET Selectable(section) :
        LET seated == Seated(students, section, y)
            candidates == seated \ WithRecords(seated, y, drop)
            eligible == candidates \ TakenElsewhere(candidates, section, y, add)
        IN  /\ add \union drop # {} /\ add \intersect drop = {}
            /\ eligible # {}
            /\ Ask(a, [op |-> "choose", year |-> y, add |-> add, drop |-> drop, students |-> eligible])
    BY <1>1, Zenon
<1> DEFINE seated == Seated(students, section, y)
           candidates == seated \ WithRecords(seated, y, drop)
           eligible == candidates \ TakenElsewhere(candidates, section, y, add)
           c == [op |-> "choose", year |-> y, add |-> add, drop |-> drop, students |-> eligible]
<1>11. /\ c.op = "choose" /\ c.year = y /\ c.add = add /\ c.drop = drop /\ c.students = eligible
    OBVIOUS
<1>3. Ask(a, c)
    BY <1>2
<1>4. eligible \subseteq Student
    BY DEF Seated
<1>5. /\ add \subseteq Offering /\ Apart(add)
      /\ \A o \in add : SectionOf[o] = section /\ ClassFor(o) = ClassOf[section]
    BY <1>0, SelectableIsSound
<1>6. ASSUME NEW s \in eligible
      PROVE  /\ RecordedSubjects(records, s, y, drop) = {}
             /\ \A o \in add \union drop :
                  /\ o \in electives
                  /\ \E p \in Placed(rows) : /\ p.student = s /\ p.year = y
                                             /\ p.status = "ACTIVE" /\ p.section = SectionOf[o]
    <2>1. \A o \in add \union drop : o \in electives /\ SectionOf[o] = section
        BY DEF Selectable
    <2>2. /\ RecordedSubjects(records, s, y, drop) = {}
          /\ \E p \in Placed(rows) : /\ p.student = s /\ p.year = y
                                     /\ p.status = "ACTIVE" /\ p.section = section
        BY DEF Seated, WithRecords, ActiveIn
    <2> QED BY <2>1, <2>2
<1>7. ASSUME NEW s \in eligible, NEW o \in add, NEW k \in PicksOf(picks, s, y, ClassFor(o)),
             SubjectOf[k.offering] = SubjectOf[o]
      PROVE  k.offering = o
    <2>1. SectionOf[k.offering] = section
        BY <1>5, <1>7 DEF TakenElsewhere
    <2>2. k.offering \in Offering /\ o \in Offering
        BY <1>5 DEF PicksOf, RosterInvariant, TypeOK, Pick
    <2> QED BY <1>5, <1>7, <2>1, <2>2 DEF StructureAssumption
<1>10. add \intersect drop = {}
    BY <1>2
<1> HIDE DEF c, eligible
<1>8. CallTyped(c)
    BY <1>11, <1>4, <1>5 DEF CallTyped
<1>9. CallSound(c) /\ RowsKnown(c)
    BY <1>11, <1>5, <1>6, <1>7, <1>10 DEF CallSound, RowsKnown
<1> QED BY <1>11, <1>3, <1>8, <1>9 DEF Begins

LEMMA AskOtherStep ==
    ASSUME StructureAssumption, RosterAssumption, RosterInvariant, NEW a \in Admin,
           AskOpen(a) \/ AskClose(a) \/ AskMark(a)
    PROVE  Begins(a)
<1>1. ASSUME NEW o \in Offering, NEW op \in {"open", "close"}, Ask(a, [op |-> op, offering |-> o])
      PROVE  Begins(a)
    <2>1. CallTyped([op |-> op, offering |-> o]) /\ CallSound([op |-> op, offering |-> o])
          /\ RowsKnown([op |-> op, offering |-> o])
        BY <1>1 DEF CallTyped, CallSound, RowsKnown
    <2> QED BY <1>1, <2>1 DEF Begins
<1>2. ASSUME NEW k \in Pick, Ask(a, [op |-> "mark", pick |-> k])
      PROVE  Begins(a)
    <2>1. CallTyped([op |-> "mark", pick |-> k]) /\ CallSound([op |-> "mark", pick |-> k])
          /\ RowsKnown([op |-> "mark", pick |-> k])
        BY DEF CallTyped, CallSound, RowsKnown
    <2> QED BY <1>2, <2>1 DEF Begins
<1>3. CASE AskOpen(a)
    BY <1>1, <1>3 DEF AskOpen
<1>4. CASE AskClose(a)
    BY <1>1, <1>4 DEF AskClose, RosterInvariant, TypeOK
<1>5. CASE AskMark(a)
    <2>0. PICK o \in Offering, y \in Year :
            /\ OneSession(SectionOf[o], y)
            /\ \E s \in Register(Placed(rows), picks, electives, o, y) :
                 Ask(a, [op |-> "mark", pick |-> [student |-> s, year |-> y, offering |-> o]])
        BY <1>5 DEF AskMark
    <2>1. PICK s \in Register(Placed(rows), picks, electives, o, y) :
            Ask(a, [op |-> "mark", pick |-> [student |-> s, year |-> y, offering |-> o]])
        BY <2>0
    <2>2. s \in Student
        BY <2>0, <2>1, RegisterIsSheet DEF RegisterAgrees, RosterInvariant
    <2>3. [student |-> s, year |-> y, offering |-> o] \in Pick
        BY <2>2 DEF Pick
    <2> QED BY <1>2, <2>1, <2>3
<1> QED BY <1>3, <1>4, <1>5

LEMMA AskingBegins ==
    ASSUME StructureAssumption, RosterAssumption, RosterInvariant, NEW a \in Admin, Asked(a)
    PROVE  Begins(a)
BY AskCreateStep, AskBatchStep, AskUpdateStep, AskRemoveStep, AskPromoteStep, AskChooseStep, AskOtherStep
DEF Asked

-----------------------------------------------------------------------------
(* What a request may not do *)

\* Only a request's own transaction, or its failure, ends it.
LEMMA Ends ==
    ASSUME StructureAssumption, RosterAssumption, RosterInvariant, [Next]_vars, NEW a \in Admin, InFlight(a), call'[a] = Idle
    PROVE  /\ overlapped' = overlapped
           /\ \/ Committed(a)
              \/ UNCHANGED <<rows, electives, picks, records, staffed>>
<1>1. DOMAIN call = Admin /\ Idle.op = "idle"
    BY DEF RosterInvariant, Idle
<1>2. call[a] # Idle
    BY <1>1 DEF InFlight
<1>3. ASSUME NEW b \in Admin, NEW c, call' = [call EXCEPT ![b] = c], b # a
      PROVE  FALSE
    BY <1>1, <1>2, <1>3
<1>4. ASSUME NEW b \in Admin, Asked(b) PROVE FALSE
    <2>1. b # a
        BY <1>2, <1>4 DEF Asked
    <2>2. \E c : call' = [call EXCEPT ![b] = c]
        BY <1>4, AskingBegins DEF Begins, Ask
    <2> QED BY <1>3, <2>1, <2>2
<1>5. ASSUME NEW b \in Admin, Answer(b)
      PROVE  b = a /\ overlapped' = overlapped
    BY <1>3, <1>5 DEF Answer
<1>6. ASSUME NEW b \in Admin, Committed(b) PROVE Answer(b)
    BY <1>6, Zenon DEF Committed, Create, Batch, Update, Remove, Promote, Choose, Open, Close, Mark
<1>7. ASSUME NEW b \in Admin, RolledBack(b)
      PROVE  Answer(b) /\ UNCHANGED <<rows, electives, picks, records, staffed>>
    BY <1>7 DEF RolledBack
<1>8. ~UNCHANGED call
    BY <1>2
<1>9. \A x \in Section : ~Staff(x)
    BY <1>8 DEF Staff
<1> QED BY <1>4, <1>5, <1>6, <1>7, <1>8, <1>9, Zenon DEF Next, vars

LEMMA EndsAs ==
    ASSUME StructureAssumption, RosterAssumption, RosterInvariant, [Next]_vars, NEW a \in Admin, NEW op, Committing(a, op),
           op \in {"update", "choose", "promote"}
    PROVE  /\ overlapped' = overlapped /\ call[a].op = op
           /\ \/ op = "update" /\ Update(a)
              \/ op = "choose" /\ Choose(a)
              \/ op = "promote" /\ Promote(a)
              \/ UNCHANGED <<rows, electives, picks, records, staffed>>
<1>1. call[a].op = op /\ call'[a] = Idle /\ InFlight(a)
    BY DEF Committing, InFlight
<1>2. /\ Create(a) => call[a].op = "create"
      /\ Batch(a) => call[a].op = "batch"
      /\ Update(a) => call[a].op = "update"
      /\ Remove(a) => call[a].op = "remove"
      /\ Promote(a) => call[a].op = "promote"
      /\ Choose(a) => call[a].op = "choose"
      /\ Open(a) => call[a].op = "open"
      /\ Close(a) => call[a].op = "close"
      /\ Mark(a) => call[a].op = "mark"
    BY Zenon DEF Create, Batch, Update, Remove, Promote, Choose, Open, Close, Mark
<1> QED BY <1>1, <1>2, Ends DEF Committed

\* No section loses its teachers that a student still reaches.
LEMMA StaffStays ==
    ASSUME StructureAssumption, RosterAssumption, RosterInvariant, RosterInvariant', [Next]_vars
    PROVE  StaffStep
<1> SUFFICES ASSUME NEW a \in Admin, Committing(a, "promote"),
                    NEW s \in Student, NEW y \in {call[a].from, call[a].year},
                    NEW x \in staffed \ staffed',
                    x \in SectionsReached(Placed(rows'), picks', s, y, {"ACTIVE"})
             PROVE  FALSE
    BY DEF StaffStep
<1>1. staffed' = staffed \ Emptied(rows', picks', call[a].leaves, {call[a].from, call[a].year})
    <2>1. Promote(a)
        BY EndsAs
    <2> QED BY <2>1, Zenon DEF Promote
<1>2. /\ ActiveIn(Placed(rows'), x) = {}
      /\ s \notin CrossSectionTakers(Placed(rows'), picks', {o \in Offering : SectionOf[o] = x}, y, {"ACTIVE"})
    BY <1>1 DEF Emptied
<1>3. ~\E p \in Placed(rows') : p.status = "ACTIVE" /\ p.section = x
    BY <1>2 DEF ActiveIn
<1>4. picks' \subseteq Pick
    BY DEF RosterInvariant, TypeOK
<1>5. PICK k \in picks' :
        /\ k.student = s /\ k.year = y /\ SectionOf[k.offering] = x
        /\ \E p \in Placed(rows') : /\ p.student = s /\ p.year = y /\ p.status \in {"ACTIVE"}
                                    /\ ClassOf[p.section] = ClassFor(k.offering)
    BY <1>3, ReachedIs
<1>6. Picked(picks', s, y, k.offering)
    BY <1>4, <1>5, PickedIs
<1>7. k.offering \in {o \in Offering : SectionOf[o] = x}
    BY <1>4, <1>5 DEF Pick
<1>8. s \in CrossSectionTakers(Placed(rows'), picks', {o \in Offering : SectionOf[o] = x}, y, {"ACTIVE"})
    BY <1>3, <1>5, <1>6, <1>7, CrossIs
<1> QED BY <1>2, <1>8

\* A subject with marks or attendance is not dropped.
LEMMA RecordedStays ==
    ASSUME StructureAssumption, RosterAssumption, RosterInvariant, RosterInvariant', [Next]_vars
    PROVE  RecordedStep
<1> SUFFICES ASSUME ~overlapped', NEW a \in Admin,
                    Committing(a, "choose") \/ (Committing(a, "update") /\ ~call[a].clears),
                    NEW k \in picks \intersect records,
                    NEW p \in Placed(rows) \intersect Placed(rows'),
                    p.status = "ACTIVE", k \in PicksOf(picks, p.student, p.year, ClassOf[p.section]),
                    ~\E q \in Of(Placed(rows), k.student, k.year) :
                        q.status # "ACTIVE" /\ q.section = SectionOf[k.offering]
             PROVE  k.offering \in SubjectsOf(picks', electives', k.student, p.section, k.year)
    BY DEF RecordedStep
<1>1. k \in Pick /\ rows \in Rows /\ rows' \in Rows
    BY RowsTyped DEF RosterInvariant, TypeOK, Rows
<1>2. k.student = p.student /\ k.year = p.year /\ ClassFor(k.offering) = ClassOf[p.section]
    BY DEF PicksOf
<1>3. k \in picks' => k.offering \in SubjectsOf(picks', electives', k.student, p.section, k.year)
    BY <1>2 DEF PicksOf, SubjectsOf
<1>4. CASE UNCHANGED <<rows, electives, picks, records, staffed>>
    BY <1>3, <1>4
<1>5. ~overlapped /\ CallSound(call[a])
    BY EndsAs, SoundIs
<1>6. CASE call[a].op = "choose" /\ Choose(a)
    <2>1. picks' = (picks \union {h \in Pick : h.student \in call[a].students /\ h.year = call[a].year
                                                  /\ h.offering \in call[a].add})
                    \ {h \in Pick : h.student \in call[a].students /\ h.year = call[a].year
                                                  /\ h.offering \in call[a].drop}
        BY <1>6 DEF Choose
    <2>2. CASE k.student \in call[a].students /\ k.year = call[a].year /\ k.offering \in call[a].drop
        <3>1. Picked(records, k.student, k.year, k.offering)
            BY <1>1 DEF Picked, Pick
        <3> QED BY <1>5, <1>6, <2>2, <3>1 DEF CallSound, RecordedSubjects
    <2>3. CASE ~(k.student \in call[a].students /\ k.year = call[a].year /\ k.offering \in call[a].drop)
        BY <1>3, <2>1, <2>3
    <2> QED BY <2>2, <2>3
<1>7. CASE call[a].op = "update" /\ ~call[a].clears /\ Update(a)
    <2> DEFINE c == call[a]
               n == IF c.keepsStatus THEN [c.place EXCEPT !.status = rows[c.id].status] ELSE c.place
    <2>1. /\ c.id \in Live(rows) /\ rows' = [rows EXCEPT ![c.id] = n] /\ electives' = electives
          /\ c.choice # NoChoice => /\ MayReplace(rows', c.id, c.choice)
                                    /\ picks' = Replaced(picks, n, c.choice)
          /\ c.choice = NoChoice =>
                picks' = IF n.status = "ACTIVE" /\ c.defaults
                         THEN SelectAllElectives(Placed(rows'), picks, electives, {n}) ELSE picks
        BY <1>7 DEF Update
    <2>2. /\ rows[c.id] = c.was
          /\ c.choice # NoChoice => c.place.status = "ACTIVE"
          /\ c.keepsStatus => c.place.status = c.was.status
          /\ c.choice = NoChoice /\ c.defaults => c.was.status # "ACTIVE"
        BY <1>5, <1>7 DEF CallSound
    <2>3. c.place \in Placement /\ c.was \in Placement
        BY <1>7, TypedIs DEF CallTyped
    <2>4. n \in Placement /\ (c.choice # NoChoice => n.status = "ACTIVE")
        BY <2>2, <2>3 DEF Placement
    <2> HIDE DEF c, n
    <2>5. /\ c.id \in Live(rows') /\ rows'[c.id] = n
          /\ \A r \in Live(rows) \ {c.id} : r \in Live(rows') /\ rows'[r] = rows[r]
          /\ \A r \in Live(rows') \ {c.id} : r \in Live(rows) /\ rows'[r] = rows[r]
        BY <1>1, <2>1, <2>4 DEF Rows, Live, RosterAssumption
    <2>6. n.status = "ACTIVE" /\ n.student = p.student /\ n.year = p.year => p = n
        <3>1. PICK r \in Live(rows') : rows'[r] = p
            BY DEF Placed
        <3> QED BY <2>5, <3>1 DEF RosterInvariant, IndexesHold
    <2> SUFFICES ASSUME k \notin picks'
                 PROVE  k.offering \in SubjectsOf(picks', electives', k.student, p.section, k.year)
        BY <1>3
    <2>7. CASE c.choice # NoChoice
        <3>1. k \in PicksOf(picks, n.student, n.year, ClassOf[n.section]) /\ k.offering \notin c.choice
            BY <1>1, <2>1, <2>7 DEF Replaced, Cleared, PicksOf, Pick
        <3>2. k.student = n.student /\ k.year = n.year /\ p = n
            BY <1>2, <2>4, <2>6, <2>7, <3>1 DEF PicksOf
        <3>3. k \notin Lost(rows', n, c.id, c.choice)
            <4>1. Picked(records, k.student, k.year, k.offering)
                BY <1>1 DEF Picked, Pick
            <4> QED BY <2>1, <2>5, <2>7, <3>2, <4>1 DEF MayReplace, RecordedSubjects
        <3>4. ~\E r \in Live(rows') \ {c.id} : /\ rows'[r].student = n.student /\ rows'[r].year = n.year
                                               /\ rows'[r].status # "ACTIVE"
                                               /\ rows'[r].section = SectionOf[k.offering]
            BY <2>5, <3>2 DEF Placed, Of
        <3>5. k.offering \notin electives /\ SectionOf[k.offering] = n.section
            BY <3>1, <3>3, <3>4 DEF Lost
        <3> QED BY <1>1, <2>1, <3>2, <3>5 DEF SubjectsOf, Pick
    <2>8. CASE c.choice = NoChoice
        <3>1. n.status = "ACTIVE" /\ c.defaults
            BY <2>1, <2>8
        <3>2. k \in PicksOf(picks, n.student, n.year, ClassOf[n.section])
            BY <2>1, <2>8, <3>1 DEF SelectAllElectives
        <3>3. p = n
            BY <1>2, <2>6, <3>1, <3>2 DEF PicksOf
        <3>4. PICK r \in Live(rows) : rows[r] = p
            BY DEF Placed
        <3>5. r = c.id
            BY <2>5, <3>4, <3>1, <3>3 DEF RosterInvariant, IndexesHold
        <3> QED BY <2>2, <2>8, <3>1, <3>4, <3>5
    <2> QED BY <2>7, <2>8
<1> QED BY <1>4, <1>6, <1>7, EndsAs

\* A change of the grid is told to exactly whom it changes.
LEMMA ToldStays ==
    ASSUME StructureAssumption, RosterAssumption, RosterInvariant, RosterInvariant', [Next]_vars
    PROVE  ToldStep
<1> SUFFICES ASSUME ~overlapped', NEW a \in Admin, Committing(a, "choose"), picks' # picks,
                    NEW s \in Student, NEW y \in Year
             PROVE  (s \in Changed(call[a]) /\ y = call[a].year)
                        <=> OwnSubjects(s, y)' # OwnSubjects(s, y)
    BY DEF ToldStep
<1> DEFINE c == call[a]
           takes(K, o) == \E p \in Placed(rows) : TakesFrom(K, s, o, y, p)
           granted == {k \in Pick : k.student \in c.students /\ k.year = c.year /\ k.offering \in c.add}
           withdrawn == {k \in Pick : k.student \in c.students /\ k.year = c.year /\ k.offering \in c.drop}
<1>1. /\ c.op = "choose" /\ UNCHANGED <<rows, electives>>
      /\ picks' = (picks \union granted) \ withdrawn
    BY EndsAs DEF Choose
<1>2. picks \in SUBSET Pick /\ picks' \in SUBSET Pick /\ electives \subseteq Offering
    BY DEF RosterInvariant, TypeOK
<1>3. /\ c.add \intersect c.drop = {}
      /\ \A t \in c.students, o \in c.add \union c.drop :
            /\ o \in electives
            /\ \E p \in Placed(rows) : /\ p.student = t /\ p.year = c.year
                                       /\ p.status = "ACTIVE" /\ p.section = SectionOf[o]
    BY <1>1, EndsAs, SoundIs DEF CallSound
<1> HIDE DEF c
<1>4. OwnSubjects(s, y) = OwnOf(picks, s, y)
    BY DEF OwnSubjects, OwnOf
<1>5. OwnSubjects(s, y)' = OwnOf(picks', s, y)
    BY <1>1 DEF OwnSubjects, OwnOf, ActiveSection
<1>6. OwnOf(picks', s, y) # OwnOf(picks, s, y) <=>
        \E o \in Offering : ~(takes(picks', o) <=> takes(picks, o))
    <2>1. /\ OwnOf(picks', s, y) \subseteq Offering
          /\ \A o \in Offering : o \in OwnOf(picks', s, y) <=> takes(picks', o)
        BY <1>2, OwnIs
    <2>2. /\ OwnOf(picks, s, y) \subseteq Offering
          /\ \A o \in Offering : o \in OwnOf(picks, s, y) <=> takes(picks, o)
        BY <1>2, OwnIs
    <2> QED BY <2>1, <2>2
<1>7. ASSUME NEW o \in Offering
      PROVE  /\ Picked(granted, s, y, o) <=> s \in c.students /\ y = c.year /\ o \in c.add
             /\ Picked(withdrawn, s, y, o) <=> s \in c.students /\ y = c.year /\ o \in c.drop
             /\ Picked(picks', s, y, o) <=>
                    (Picked(picks, s, y, o) \/ Picked(granted, s, y, o)) /\ ~Picked(withdrawn, s, y, o)
    <2>1. [student |-> s, year |-> y, offering |-> o] \in Pick
        BY DEF Pick
    <2> QED BY <1>1, <2>1 DEF Picked
<1>8. ASSUME NEW o \in Offering
      PROVE  (takes(picks', o) <=> takes(picks, o))
                <=> (Picked(picks', s, y, o) <=> Picked(picks, s, y, o))
    <2>1. ASSUME ~(Picked(picks', s, y, o) <=> Picked(picks, s, y, o))
          PROVE  /\ o \in electives
                 /\ \E p \in Placed(rows) : /\ p.student = s /\ p.year = y /\ p.status = "ACTIVE"
                                            /\ ClassOf[p.section] = ClassFor(o)
        <3>1. s \in c.students /\ y = c.year /\ o \in c.add \union c.drop
            BY <1>7, <2>1
        <3> QED BY <1>3, <3>1 DEF ClassFor
    <2> QED BY <2>1 DEF TakesFrom
<1>9. s \in Changed(c) /\ y = c.year <=>
        \E o \in Offering : ~(Picked(picks', s, y, o) <=> Picked(picks, s, y, o))
    <2>1. s \in c.students => c.add \union c.drop \subseteq Offering
        BY <1>2, <1>3
    <2>2. s \in Changed(c) <=> /\ s \in c.students
                               /\ \/ \E o \in c.add : ~Picked(picks, s, c.year, o)
                                  \/ \E o \in c.drop : Picked(picks, s, c.year, o)
        BY DEF Changed
    <2>3. ASSUME s \in Changed(c), y = c.year
          PROVE  \E o \in Offering : ~(Picked(picks', s, y, o) <=> Picked(picks, s, y, o))
        BY <1>3, <1>7, <2>1, <2>2, <2>3
    <2>4. ASSUME NEW o \in Offering, ~(Picked(picks', s, y, o) <=> Picked(picks, s, y, o))
          PROVE  s \in Changed(c) /\ y = c.year
        BY <1>7, <2>2, <2>4
    <2> QED BY <2>3, <2>4
<1> QED BY <1>4, <1>5, <1>6, <1>8, <1>9 DEF c

\* A promotion that finds the rows it is to reopen gives everybody it names a place in the
\* section it promotes them to.
LEMMA EverybodyPlaced ==
    ASSUME RosterAssumption, RosterInvariant, NEW a \in Admin, call[a].op = "promote", Promoted(call[a]),
           \A r \in call[a].revives : /\ r \in Live(rows)
                                      /\ rows[r].section = call[a].section /\ rows[r].year = call[a].year
                                      /\ rows[r].student \in call[a].students,
           NEW s \in call[a].students
    PROVE  \E r \in ActivePlaces(rows', s, call[a].year) : rows'[r].section = call[a].section
<1> DEFINE c == call[a]
           created == {p.student : p \in c.creates}
           T == c.students \ created
           f == [r \in c.revives |-> rows[r].student]
<1>1. /\ c.students \subseteq Student /\ ExistsBijection(c.revives, T)
      /\ \A p \in c.creates : /\ p.section = c.section /\ p.year = c.year /\ p.status = "ACTIVE"
    BY TypedIs DEF CallTyped
<1>2. rows \in Rows /\ IndexesHold(rows) /\ IndexesHold(rows')
    BY RowsTyped DEF RosterInvariant, Promoted
<1> HIDE DEF c
<1>3. Promoted(c) /\ \A r \in c.revives : /\ r \in Live(rows) /\ rows[r].student \in c.students
                                          /\ rows[r].section = c.section /\ rows[r].year = c.year
    BY DEF c
<1>4. ASSUME NEW r \in c.revives
      PROVE  /\ r \in Live(rows') /\ rows'[r].status = "ACTIVE" /\ rows'[r].student = rows[r].student
             /\ rows'[r].section = c.section /\ rows'[r].year = c.year
    <2>1. rows[r] \in Placement
        BY <1>2, <1>3, PlacedIn
    <2>2. r \in Live(rows') /\ rows'[r] = [rows[r] EXCEPT !.status = "ACTIVE"]
        BY <1>3 DEF Promoted
    <2> QED BY <1>3, <2>1, <2>2 DEF Placement
<1>5. CASE s \in created
    <2>1. PICK p \in c.creates : p.student = s
        BY <1>5
    <2>2. PICK r \in Live(rows') : rows'[r] = p
        BY <1>3 DEF Promoted
    <2> QED BY <1>1, <2>1, <2>2 DEF ActivePlaces, c
<1>6. CASE s \notin created
    <2>1. ASSUME NEW r \in c.revives PROVE rows[r].student \notin created
        <3> SUFFICES ASSUME NEW p \in c.creates, p.student = rows[r].student PROVE FALSE
            OBVIOUS
        <3>1. PICK q \in Live(rows') \ Live(rows) : rows'[q] = p
            BY <1>3 DEF Promoted
        <3>2. q # r
            BY <1>3, <3>1
        <3> QED BY <1>1, <1>2, <1>4, <3>1, <3>2 DEF IndexesHold
    <2>2. f \in [c.revives -> T]
        BY <1>3, <2>1
    <2>3. \A r, q \in c.revives : f[r] = f[q] => r = q
        BY <1>2, <1>3 DEF IndexesHold
    <2>4. IsFiniteSet(T)
        BY <1>1, FS_Subset DEF RosterAssumption
    <2>5. \A r \in c.revives : f[r] = rows[r].student
        OBVIOUS
    <2> HIDE DEF f, T
    <2>6. f \in Injection(c.revives, T)
        BY <2>2, <2>3, Fun_IsInj
    <2>7. IsFiniteSet(c.revives) /\ Cardinality(c.revives) = Cardinality(T)
        <3>1. ExistsBijection(T, c.revives)
            BY <1>1, Fun_ExistsBijSymmetric
        <3> QED BY <2>4, <3>1, FS_Bijection
    <2>8. f \in Surjection(c.revives, T)
        BY <2>4, <2>6, <2>7, FS_Injection
    <2>9. s \in T
        BY <1>6 DEF T, c
    <2>10. PICK r \in c.revives : f[r] = s
        BY <2>8, <2>9, Fun_SurjectionProperties
    <2> QED BY <1>4, <2>5, <2>10 DEF ActivePlaces, c
<1> QED BY <1>5, <1>6

\* A promotion leaves everybody it names in one place.
LEMMA PromotedStays ==
    ASSUME StructureAssumption, RosterAssumption, RosterInvariant, RosterInvariant', [Next]_vars
    PROVE  PromotedStep
<1> SUFFICES ASSUME NEW a \in Admin, Committing(a, "promote"), rows' # rows,
                    \A r \in call[a].revives :
                        /\ r \in Live(rows)
                        /\ rows[r].section = call[a].section /\ rows[r].year = call[a].year
                        /\ rows[r].student \in call[a].students,
                    NEW s \in call[a].students
             PROVE  /\ Cardinality(ActivePlaces(rows', s, call[a].year)) = 1
                    /\ \E r \in ActivePlaces(rows', s, call[a].year) : rows'[r].section = call[a].section
                    /\ \A r \in call[a].closes : rows[r] # Gone => rows'[r].status # "ACTIVE"
    BY DEF PromotedStep
<1>1. call[a].op = "promote" /\ Promoted(call[a])
    BY EndsAs, Promoting
<1>2. PICK r \in ActivePlaces(rows', s, call[a].year) : rows'[r].section = call[a].section
    BY <1>1, EverybodyPlaced
<1>3. ActivePlaces(rows', s, call[a].year) = {r}
    BY <1>1 DEF Promoted, IndexesHold, ActivePlaces
<1>4. Cardinality(ActivePlaces(rows', s, call[a].year)) = 1
    BY <1>3, FS_Singleton
<1>5. ASSUME NEW q \in call[a].closes, rows[q] # Gone
      PROVE  rows'[q].status # "ACTIVE"
    <2>1. rows[q] # NoRow /\ q \in RowId /\ q \notin call[a].revives
        BY <1>1, TypedIs DEF CallTyped, RosterInvariant, RowsKnown
    <2>2. q \in Live(rows)
        BY <1>5, <2>1 DEF Live
    <2>3. rows'[q] = [rows[q] EXCEPT !.status = "COMPLETED"] /\ rows[q] \in Placement
        BY <1>1, <2>1, <2>2, RowsTyped, PlacedIn DEF Promoted
    <2> QED BY <2>3 DEF Placement
<1> QED BY <1>2, <1>4, <1>5

\* As many seats are taken as a promotion says.
LEMMA SeatsStay ==
    ASSUME StructureAssumption, RosterAssumption, RosterInvariant, RosterInvariant', [Next]_vars
    PROVE  SeatsStep
<1> SUFFICES ASSUME ~overlapped', NEW a \in Admin, Committing(a, "promote"), rows' # rows
             PROVE  Seats(rows', call[a].section, call[a].year) =
                        Seats(rows, call[a].section, call[a].year) + Cardinality(call[a].students)
    BY DEF SeatsStep
<1> DEFINE c == call[a]
           place(s) == [student |-> s, section |-> c.section, year |-> c.year, status |-> "ACTIVE"]
           N == {place(s) : s \in c.students}
           A(rs) == {p \in ActiveIn(Placed(rs), c.section) : p.year = c.year}
<1>1. c.op = "promote" /\ Promoted(c) /\ ~overlapped
    BY EndsAs, Promoting
<1>2. /\ \A r \in c.revives : /\ r \in Live(rows) /\ rows[r].student \in c.students
                              /\ rows[r].section = c.section /\ rows[r].year = c.year
      /\ \A r \in c.closes : r \in Live(rows) /\ ~(rows[r].section = c.section /\ rows[r].year = c.year)
      /\ \A s \in c.students : \A r \in ActivePlaces(rows, s, c.year) : rows[r].section # c.section
    BY <1>1, SoundIs DEF CallSound
<1>3. /\ c.students \subseteq Student
      /\ c.creates \subseteq {p \in Placement : /\ p.student \in c.students /\ p.section = c.section
                                                /\ p.year = c.year /\ p.status = "ACTIVE"}
    BY <1>1, TypedIs DEF CallTyped
<1>4. rows \in Rows /\ rows' \in Rows /\ IndexesHold(rows) /\ IndexesHold(rows')
    BY <1>1, RowsTyped DEF RosterInvariant, Promoted
<1>5. \A s \in c.students : \E r \in ActivePlaces(rows', s, c.year) : rows'[r].section = c.section
    BY <1>1, <1>2, EverybodyPlaced
<1> HIDE DEF c
<1>6. ASSUME NEW rs \in Rows, IndexesHold(rs)
      PROVE  /\ IsFiniteSet(A(rs)) /\ A(rs) \subseteq Placement
             /\ \A p : p \in A(rs) <=> \E r \in Live(rs) : /\ rs[r] = p /\ p.section = c.section
                                                           /\ p.year = c.year /\ p.status = "ACTIVE"
    <2>1. A(rs) \subseteq Placement
        BY PlacedIn DEF ActiveIn
    <2>2. \A p : p \in A(rs) <=> \E r \in Live(rs) : /\ rs[r] = p /\ p.section = c.section
                                                     /\ p.year = c.year /\ p.status = "ACTIVE"
        BY DEF ActiveIn, Placed
    <2>3. OneEach(A(rs))
        BY <1>6, <2>2 DEF OneEach, IndexesHold
    <2> HIDE DEF A
    <2> QED BY <2>1, <2>2, <2>3, FinitelyMany
<1>7. ASSUME NEW p \in Placement
      PROVE  p \in N <=> /\ p.student \in c.students /\ p.section = c.section
                         /\ p.year = c.year /\ p.status = "ACTIVE"
    BY DEF Placement
<1> HIDE DEF A
<1>8. N \subseteq A(rows')
    <2> SUFFICES ASSUME NEW s \in c.students PROVE place(s) \in A(rows')
        OBVIOUS
    <2>1. PICK r \in Live(rows') : /\ rows'[r].student = s /\ rows'[r].year = c.year
                                   /\ rows'[r].status = "ACTIVE" /\ rows'[r].section = c.section
        BY <1>5 DEF ActivePlaces
    <2>2. rows'[r] \in Placement
        BY <1>4, <2>1, PlacedIn
    <2>3. rows'[r] = place(s)
        BY <2>1, <2>2 DEF Placement
    <2> QED BY <1>4, <1>6, <2>1, <2>3
<1>9. N \subseteq Placement /\ \A p \in N : p.student \in c.students
    BY <1>4, <1>6, <1>8
<1> HIDE DEF N
<1>10. A(rows) \subseteq A(rows')
    <2> SUFFICES ASSUME NEW p \in A(rows) PROVE p \in A(rows')
        OBVIOUS
    <2>1. PICK r \in Live(rows) : /\ rows[r] = p /\ p.section = c.section
                                  /\ p.year = c.year /\ p.status = "ACTIVE"
        BY <1>4, <1>6
    <2>2. r \notin c.closes
        BY <1>2, <2>1
    <2>3. p \in Placement
        BY <1>4, <1>6
    <2>4. [p EXCEPT !.status = "ACTIVE"] = p
        BY <2>1, <2>3 DEF Placement
    <2>5. r \in Live(rows') /\ rows'[r] = p
        BY <1>1, <2>1, <2>2, <2>4 DEF Promoted
    <2> QED BY <1>4, <1>6, <2>1, <2>5
<1>11. A(rows') \subseteq A(rows) \union N
    <2> SUFFICES ASSUME NEW p \in A(rows'), p \notin N PROVE p \in A(rows)
        OBVIOUS
    <2>1. PICK r \in Live(rows') : /\ rows'[r] = p /\ p.section = c.section
                                   /\ p.year = c.year /\ p.status = "ACTIVE"
        BY <1>4, <1>6
    <2>2. p \in Placement /\ p.student \notin c.students
        BY <1>4, <1>6, <1>7, <2>1
    <2>3. r \in Live(rows)
        BY <1>1, <1>3, <2>1, <2>2 DEF Promoted
    <2>4. rows[r] \in Placement
        BY <1>4, <2>3, PlacedIn
    <2>5. r \notin c.revives
        <3> SUFFICES ASSUME r \in c.revives PROVE FALSE
            OBVIOUS
        <3>1. rows'[r] = [rows[r] EXCEPT !.status = "ACTIVE"]
            BY <1>1, <2>3 DEF Promoted
        <3> QED BY <1>2, <2>1, <2>2, <2>4, <3>1 DEF Placement
    <2>6. r \notin c.closes
        <3> SUFFICES ASSUME r \in c.closes PROVE FALSE
            OBVIOUS
        <3>1. rows'[r] = [rows[r] EXCEPT !.status = "COMPLETED"]
            BY <1>1, <2>3, <2>5 DEF Promoted
        <3> QED BY <2>1, <2>4, <3>1 DEF Placement
    <2>7. rows[r] = p
        BY <1>1, <2>1, <2>3, <2>5, <2>6 DEF Promoted
    <2> QED BY <1>4, <1>6, <2>1, <2>3, <2>7
<1>12. A(rows) \intersect N = {}
    <2> SUFFICES ASSUME NEW p \in A(rows), p \in N PROVE FALSE
        OBVIOUS
    <2>1. PICK r \in Live(rows) : /\ rows[r] = p /\ p.section = c.section
                                  /\ p.year = c.year /\ p.status = "ACTIVE"
        BY <1>4, <1>6
    <2> QED BY <1>2, <1>9, <2>1 DEF ActivePlaces
<1>13. IsFiniteSet(N) /\ Cardinality(N) = Cardinality(c.students)
    <2> DEFINE f == [s \in c.students |-> place(s)]
    <2>1. f \in [c.students -> N] /\ \A s, t \in c.students : f[s] = f[t] => s = t
        BY DEF N
    <2>2. \A p \in N : \E s \in c.students : f[s] = p
        BY DEF N
    <2> HIDE DEF f
    <2>3. f \in Bijection(c.students, N)
        BY <2>1, <2>2, Fun_IsBij
    <2>4. ExistsBijection(c.students, N)
        BY <2>3, Fun_ExistsBij
    <2>5. IsFiniteSet(c.students)
        BY <1>3, FS_Subset DEF RosterAssumption
    <2> QED BY <2>4, <2>5, FS_Bijection
<1>14. A(rows') = A(rows) \union N
    BY <1>8, <1>10, <1>11
<1>15. Cardinality(A(rows')) = Cardinality(A(rows)) + Cardinality(N)
    <2>1. IsFiniteSet(A(rows)) /\ Cardinality(A(rows)) \in Nat /\ Cardinality(N) \in Nat
        BY <1>4, <1>6, <1>13, FS_CardinalityType
    <2>2. Cardinality(A(rows) \union N) = Cardinality(A(rows)) + Cardinality(N) - Cardinality({})
        BY <1>12, <1>13, <2>1, FS_Union
    <2>3. Cardinality({}) = 0
        BY FS_EmptySet
    <2> QED BY <1>14, <2>1, <2>2, <2>3
<1> QED BY <1>13, <1>15 DEF Seats, A, c

-----------------------------------------------------------------------------
(* The theorems *)

\* What a request has found is still so when it writes, unless another one came between.
THEOREM RosterIsInvariant ==
    ASSUME StructureAssumption, RosterAssumption
    PROVE  Spec => []RosterInvariant
<1>1. Init => RosterInvariant
    <2> SUFFICES ASSUME Init PROVE RosterInvariant
        OBVIOUS
    <2>1. TypeOK /\ DOMAIN call = Admin
        BY DEF Init, TypeOK, Idle
    <2>2. \A a \in Admin : call[a] = Idle /\ call[a].op = "idle"
        BY DEF Init, Idle
    <2>3. \A a \in Admin : CallTyped(call[a]) /\ CallSound(call[a]) /\ RowsKnown(call[a]) /\ ~InFlight(a)
        BY <2>2 DEF CallTyped, CallSound, RowsKnown, InFlight
    <2>4. Live(rows) = {} /\ picks = {}
        BY DEF Init, Live
    <2> QED BY <2>1, <2>3, <2>4 DEF RosterInvariant, IndexesHold, PicksBacked, PickedOnce
<1>2. ASSUME RosterInvariant, [Next]_vars PROVE RosterInvariant'
    <2>1. ASSUME NEW a \in Admin, Asked(a) PROVE RosterInvariant'
        BY <1>2, <2>1, AskingBegins, Begun
    <2>2. ASSUME NEW a \in Admin, Committed(a) PROVE RosterInvariant'
        BY <1>2, <2>2, CreateStep, BatchStep, UpdateStep, RemoveStep, PromoteStep, ChooseStep,
           OpenStep, CloseStep, OtherStep DEF Committed
    <2>3. ASSUME NEW a \in Admin, RolledBack(a) PROVE RosterInvariant'
        BY <1>2, <2>3, OtherStep
    <2>4. ASSUME NEW x \in Section, Staff(x) PROVE RosterInvariant'
        <3>1. staffed' \in SUBSET Section
            BY <1>2, <2>4 DEF Staff, RosterInvariant, TypeOK
        <3> QED BY <1>2, <2>4, <3>1, StillStep DEF Staff
    <2>5. CASE UNCHANGED vars
        <3>1. staffed' \in SUBSET Section
            BY <1>2, <2>5 DEF vars, RosterInvariant, TypeOK
        <3> QED BY <1>2, <2>5, <3>1, StillStep DEF vars
    <2> QED BY <1>2, <2>1, <2>2, <2>3, <2>4, <2>5 DEF Next
<1> QED BY <1>1, <1>2, PTL DEF Spec

\* Every pick has a place of its student in the class that teaches it, and nobody takes a
\* subject from two sections, until two requests overlap (enrollments.service.ts,
\* student-subjects.service.ts).
THEOREM PicksAreHeld ==
    ASSUME StructureAssumption, RosterAssumption
    PROVE  Spec => []PicksHeld
<1>1. RosterInvariant => PicksHeld
    BY DEF RosterInvariant, PicksHeld
<1> QED BY <1>1, RosterIsInvariant, PTL

\* In every reachable state, whatever requests overlap, the registers, the sheets of marks,
\* the grid, the doors, the notices and the student's own subjects are one relation, and
\* the promotion dialog lists whom the plan moves.
THEOREM RostersAreOfOneMind ==
    ASSUME StructureAssumption, RosterAssumption
    PROVE  Spec => []RostersOfOneMind
<1>1. RosterInvariant => RostersOfOneMind
    BY RegisterIsSheet, SheetsAgree, GridsAgree, DoorsAgree, NoticesReachAll, PreviewIsPlan
    DEF RosterInvariant, RostersOfOneMind, RostersAgree
<1> QED BY <1>1, RosterIsInvariant, PTL

\* No edit drops a subject with marks, a change of subjects is told to whom it changes, and
\* a promotion leaves everybody it names in one place, takes as many seats as it says and
\* leaves no student without their teachers.
THEOREM PlacesAreKept ==
    ASSUME StructureAssumption, RosterAssumption
    PROVE  Spec => PlacesKept
<1>1. RosterInvariant /\ RosterInvariant' /\ [Next]_vars => [PlacesStep]_vars
    BY RecordedStays, ToldStays, PromotedStays, SeatsStay, StaffStays DEF PlacesStep
<1> QED BY <1>1, RosterIsInvariant, PTL DEF Spec, PlacesKept

-----------------------------------------------------------------------------
(* Families *)

There(p) == Families!There(p)

\* Somebody whose id has been handed out: such an id is not handed out again.
Known(p) == There(p) \/ p \in gone

\* An account that did not move is where the request has seen it.
Neighbours(g, p) == There(g) /\ There(p) /\ moved \intersect {g, p} = {} =>
    account[g].school = account[p].school

\* What a request has checked and still relies upon: the guardian it has found is of the
\* school, unless moved; and the link it removes is not the last, unless another request
\* took one in between.
Relies(c) ==
    \/ c = Families!Idle
    \/ /\ c.op = "create"
       /\ c.pupil \in Pupil /\ c.guardian \in Guardian /\ c.school \in School
       /\ c.new \in BOOLEAN
       /\ ~c.new => Known(c.guardian)
       /\ ~c.new /\ There(c.guardian) /\ c.guardian \notin moved =>
            account[c.guardian].school = c.school
    \/ /\ c.op = "link"
       /\ c.guardian \in Guardian /\ c.pupil \in Pupil
       /\ Known(c.guardian) /\ Known(c.pupil) /\ Neighbours(c.guardian, c.pupil)
    \/ /\ c.op = "unlink"
       /\ c.guardian \in Guardian /\ c.pupil \in Pupil /\ Known(c.pupil)
       /\ There(c.pupil) /\ c.pupil \notin bereft =>
            \E g, h \in Families!GuardiansOf(c.pupil) : g # h
    \/ c.op = "remove" /\ c.person \in Families!Person

\* Links join accounts that are there, nobody comes back, and every request in flight can
\* rely on what it has checked.
FamiliesInvariant ==
    /\ Families!TypeOK
    /\ gone \subseteq Families!Person /\ \A p \in gone : ~There(p)
    /\ \A p \in moved : There(p)
    /\ \A l \in links : There(l[1]) /\ There(l[2])
    /\ Families!GuardianKept /\ Families!LinkedWithinSchool
    /\ DOMAIN request = Desk /\ \A x \in Desk : Relies(request[x])

\* The sizes of the families are sizes of sets.
LEMMA SameCardinality == \A S : Families!Cardinality(S) = Cardinality(S)
BY DEF Families!Cardinality, Families!IsFiniteSet, Cardinality, IsFiniteSet

\* More than one guardian is two of them.
LEMMA TwoGuardians ==
    ASSUME NEW s, Families!Cardinality(Families!GuardiansOf(s)) > 1
    PROVE  \E g, h \in Families!GuardiansOf(s) : g # h
<1> DEFINE G == Families!GuardiansOf(s)
<1>1. SUFFICES ASSUME \A g, h \in G : g = h PROVE FALSE
    OBVIOUS
<1>2. CASE G = {}
    BY <1>2, FS_EmptySet, SameCardinality
<1>3. ASSUME NEW g \in G PROVE FALSE
    <2>1. G = {g}
        BY <1>1, <1>3
    <2> HIDE DEF G
    <2>2. Cardinality(G) = 1
        BY <2>1, FS_Singleton
    <2> QED BY <2>2, SameCardinality DEF G
<1> QED BY <1>2, <1>3

\* What a request relies on outlasts a step after which nobody has come back, who has not
\* moved is where they were, and the pupil it takes a guardian from has lost none.
LEMMA StillRelied ==
    ASSUME NEW c, Relies(c),
           gone \subseteq gone',
           \A p \in Families!Person : There(p) => There(p)' \/ p \in gone',
           \A p \in Families!Person : Known(p) /\ There(p)' => There(p),
           \A p \in Families!Person : There(p) /\ There(p)' /\ p \notin moved' =>
                p \notin moved /\ account'[p].school = account[p].school,
           c.op = "unlink" /\ There(c.pupil)' /\ c.pupil \notin bereft' =>
                c.pupil \notin bereft
                /\ Families!GuardiansOf(c.pupil) \subseteq Families!GuardiansOf(c.pupil)'
    PROVE  Relies(c)'
<1>1. \A p \in Families!Person : Known(p) => Known(p)'
    BY DEF Known
<1> USE DEF Families!Person
<1>2. CASE c = Families!Idle
    BY <1>2 DEF Relies, Families!Idle
<1>3. CASE c.op = "create" /\ Relies(c)
    BY <1>3, <1>1 DEF Relies, Families!Idle
<1>4. CASE c.op = "link" /\ Relies(c)
    BY <1>4, <1>1 DEF Relies, Neighbours, Families!Idle
<1>5. CASE c.op = "unlink" /\ Relies(c)
    BY <1>5, <1>1 DEF Relies, Families!Idle
<1>6. CASE c.op = "remove"
    BY <1>6 DEF Relies, Families!Idle
<1> QED BY <1>2, <1>3, <1>4, <1>5, <1>6 DEF Relies


\* A request is made, or refused: nothing else changes.
LEMMA OnlyRequest ==
    ASSUME FamiliesInvariant, NEW x \in Desk, NEW c, Relies(c),
           request' = [request EXCEPT ![x] = c],
           UNCHANGED <<gone, account, links, kept, moved, bereft>>
    PROVE  FamiliesInvariant'
<1>1. \A y : Relies(y) => Relies(y)'
    BY DEF Relies, Known, Neighbours, There, Families!There, Families!GuardiansOf
<1>2. DOMAIN request' = Desk /\ \A y \in Desk : request'[y] = IF y = x THEN c ELSE request[y]
    BY DEF FamiliesInvariant
<1>3. \A y \in Desk : Relies(request[y])'
    <2>1. \A y \in Desk : Relies(IF y = x THEN c ELSE request[y])
        BY DEF FamiliesInvariant
    <2> QED BY <1>2, <2>1 DEF Relies, Known, Neighbours, There, Families!There, Families!GuardiansOf
<1>4. Families!TypeOK' /\ Families!GuardianKept' /\ Families!LinkedWithinSchool'
    BY DEF FamiliesInvariant, Families!TypeOK, Families!GuardianKept, Families!There,
           Families!GuardiansOf, Families!LinkedWithinSchool
<1> QED BY <1>2, <1>3, <1>4 DEF FamiliesInvariant, There, Families!There

LEMMA FamilyRequests ==
    ASSUME FamiliesInvariant, NEW x \in Desk
    PROVE  /\ \A s \in Pupil, school \in School : Families!AskCreate(x, s, school) => FamiliesInvariant'
           /\ \A g \in Guardian, s \in Pupil :
                Families!AskLink(x, g, s) \/ Families!AskUnlink(x, g, s) => FamiliesInvariant'
           /\ \A p \in Families!Person : Families!AskRemove(x, p) => FamiliesInvariant'
           /\ Families!Refused(x) => FamiliesInvariant'
<1> USE DEF Families!Ask
<1>1. ASSUME NEW s \in Pupil, NEW school \in School, Families!AskCreate(x, s, school)
      PROVE  FamiliesInvariant'
    <2>1. PICK g \in Guardian \ gone :
            /\ Families!There(g) => account[g].school = school
            /\ Families!Ask(x, [op |-> "create", pupil |-> s, guardian |-> g, school |-> school,
                                new |-> ~Families!There(g)])
        BY <1>1 DEF Families!AskCreate
    <2>2. Families!There(g) \in BOOLEAN
        BY DEF Families!There
    <2>3. Relies([op |-> "create", pupil |-> s, guardian |-> g, school |-> school,
                  new |-> ~Families!There(g)])
        BY <2>1, <2>2 DEF Relies, Known, There
    <2> QED BY <2>1, <2>3, OnlyRequest
<1>2. ASSUME NEW g \in Guardian, NEW s \in Pupil, Families!AskLink(x, g, s)
      PROVE  FamiliesInvariant'
    <2>1. Relies([op |-> "link", guardian |-> g, pupil |-> s])
        BY <1>2 DEF Relies, Families!AskLink, Known, There, Neighbours
    <2> QED BY <1>2, <2>1, OnlyRequest DEF Families!AskLink
<1>3. ASSUME NEW g \in Guardian, NEW s \in Pupil, Families!AskUnlink(x, g, s)
      PROVE  FamiliesInvariant'
    <2>1. There(s)
        BY <1>3 DEF Families!AskUnlink, FamiliesInvariant
    <2>2. Relies([op |-> "unlink", guardian |-> g, pupil |-> s])
        BY <1>3, <2>1, TwoGuardians DEF Relies, Families!AskUnlink, Known
    <2> QED BY <1>3, <2>2, OnlyRequest DEF Families!AskUnlink
<1>4. ASSUME NEW p \in Families!Person, Families!AskRemove(x, p) PROVE FamiliesInvariant'
    <2>1. Relies([op |-> "remove", person |-> p])
        BY DEF Relies
    <2> QED BY <1>4, <2>1, OnlyRequest DEF Families!AskRemove
<1>5. ASSUME Families!Refused(x) PROVE FamiliesInvariant'
    BY <1>5, OnlyRequest DEF Families!Refused, Families!Done, Relies
<1> QED BY <1>1, <1>2, <1>3, <1>4, <1>5


\* What is left to show of a step, once nobody has come back and who has not moved is
\* where they were: the links there are now, and the request that made the step.
LEMMA FamiliesStep ==
    ASSUME FamiliesInvariant, Families!TypeOK',
           gone \subseteq gone', gone' \subseteq Families!Person,
           \A p \in Families!Person : There(p)' => p \notin gone',
           \A p \in Families!Person : There(p) => There(p)' \/ p \in gone',
           \A p \in Families!Person : There(p) /\ There(p)' /\ p \notin moved' =>
                p \notin moved /\ account'[p].school = account[p].school,
           \A p \in moved' : There(p)',
           \A l \in links' : There(l[1])' /\ There(l[2])',
           Families!GuardianKept', Families!LinkedWithinSchool',
           NEW rest \in SUBSET Desk, DOMAIN request' = Desk,
           \A x \in Desk : request'[x] = IF x \in rest THEN request[x] ELSE Families!Idle,
           \A x \in rest : LET c == request[x] IN
                c.op = "unlink" /\ There(c.pupil)' /\ c.pupil \notin bereft' =>
                    c.pupil \notin bereft
                    /\ Families!GuardiansOf(c.pupil) \subseteq Families!GuardiansOf(c.pupil)'
    PROVE  FamiliesInvariant'
<1>1. \A p \in Families!Person : Known(p) /\ There(p)' => There(p)
    BY DEF Known
<1>2. ASSUME NEW x \in rest PROVE Relies(request[x])' /\ request'[x] = request[x]
    <2>1. Relies(request[x])
        BY DEF FamiliesInvariant
    <2> DEFINE c == request[x]
    <2>2. c.op = "unlink" /\ There(c.pupil)' /\ c.pupil \notin bereft' =>
            c.pupil \notin bereft
            /\ Families!GuardiansOf(c.pupil) \subseteq Families!GuardiansOf(c.pupil)'
        BY DEF Families!GuardiansOf
    <2>3. request'[x] = c
        OBVIOUS
    <2> HIDE DEF c
    <2>4. ASSUME NEW y, y = c PROVE Relies(y)'
        BY <1>1, <2>1, <2>2, <2>4, StillRelied DEF c
    <2> QED BY <2>3, <2>4 DEF c
<1>3. \A x \in Desk : Relies(request[x])'
    BY <1>2 DEF Relies
<1> QED BY <1>3 DEF FamiliesInvariant


\* Accounts made for people who have none change nothing for those who have.
LEMMA NewcomersFit ==
    ASSUME Families!FamilyAssumption, FamiliesInvariant,
           NEW born \in SUBSET Families!Person, NEW school \in School,
           \A p \in born : ~There(p) /\ p \notin gone,
           account' = [p \in Families!Person |-> IF p \in born THEN Families!New(school) ELSE account[p]]
    PROVE  /\ account' \in [Families!Person -> {None} \union [school : School, profile : School]]
           /\ \A p \in Families!Person :
                /\ There(p)' <=> There(p) \/ p \in born
                /\ p \in born => account'[p].school = school /\ ~Known(p)
                /\ p \notin born => account'[p] = account[p]
<1>1. Families!New(school) \in [school : School, profile : School]
    BY DEF Families!New
<1>2. Families!New(school).school = school /\ Families!New(school) # None
    BY <1>1 DEF Families!New, Families!FamilyAssumption
<1> QED BY <1>1, <1>2 DEF FamiliesInvariant, Families!TypeOK, There, Families!There, Known

LEMMA GuardianCreated ==
    ASSUME Families!FamilyAssumption, FamiliesInvariant,
           NEW g \in Guardian, NEW school \in School, Families!CreateGuardian(g, school)
    PROVE  FamiliesInvariant'
<1>1. /\ ~There(g) /\ g \notin gone /\ account' = [account EXCEPT ![g] = Families!New(school)]
      /\ UNCHANGED <<gone, links, kept, request, moved, bereft>>
    BY DEF Families!CreateGuardian, There
<1>2. account' = [p \in Families!Person |-> IF p \in {g} THEN Families!New(school) ELSE account[p]]
    BY <1>1 DEF FamiliesInvariant, Families!TypeOK
<1>3. {g} \in SUBSET Families!Person
    BY DEF Families!Person
<1>4. /\ account' \in [Families!Person -> {None} \union [school : School, profile : School]]
      /\ \A p \in Families!Person :
            /\ There(p)' <=> There(p) \/ p = g
            /\ p # g => account'[p] = account[p]
    <2> DEFINE born == {g}
    <2>1. /\ born \in SUBSET Families!Person /\ \A p \in born : ~There(p) /\ p \notin gone
          /\ account' = [p \in Families!Person |->
                            IF p \in born THEN Families!New(school) ELSE account[p]]
        BY <1>1, <1>2, <1>3
    <2>2. \A p : p \in born <=> p = g
        OBVIOUS
    <2> HIDE DEF born
    <2> QED BY <2>1, <2>2, NewcomersFit
<1>5. Families!TypeOK'
    BY <1>1, <1>4 DEF FamiliesInvariant, Families!TypeOK
<1>6. \A l \in links : /\ l[1] \in Families!Person /\ l[2] \in Families!Person
                       /\ l[1] # g /\ l[2] # g /\ There(l[1]) /\ There(l[2])
    BY <1>1 DEF FamiliesInvariant, Families!TypeOK, Families!Person
<1>7. Families!GuardianKept'
    \* The new account is no pupil's.
    BY <1>1, <1>4 DEF FamiliesInvariant, Families!GuardianKept, Families!GuardiansOf,
                      Families!FamilyAssumption, There, Families!Person
<1>8. Families!LinkedWithinSchool'
    BY <1>1, <1>4, <1>6 DEF FamiliesInvariant, Families!LinkedWithinSchool
<1>9. \A p \in Families!Person : /\ There(p)' => p \notin gone'
                                 /\ There(p) => There(p)'
                                 /\ There(p) => account'[p].school = account[p].school
    BY <1>1, <1>4 DEF FamiliesInvariant
<1>10. /\ \A p \in moved' : There(p)'
       /\ \A l \in links' : There(l[1])' /\ There(l[2])'
    BY <1>1, <1>4, <1>6 DEF FamiliesInvariant, Families!TypeOK
<1> QED BY <1>1, <1>5, <1>7, <1>8, <1>9, <1>10, FamiliesStep DEF FamiliesInvariant, Families!GuardiansOf


LEMMA AccountMoved ==
    ASSUME Families!FamilyAssumption, FamiliesInvariant,
           NEW p \in Families!Person, NEW school \in School, Families!Move(p, school)
    PROVE  FamiliesInvariant'
<1>1. /\ There(p) /\ account' = [account EXCEPT ![p].school = school]
      /\ moved' = moved \union {p}
      /\ UNCHANGED <<gone, links, kept, request, bereft>>
    BY DEF Families!Move, There
<1>2. account[p] \in [school : School, profile : School]
    BY <1>1 DEF There, Families!There, FamiliesInvariant, Families!TypeOK
<1>3. /\ account' \in [Families!Person -> {None} \union [school : School, profile : School]]
      /\ \A q \in Families!Person : /\ There(q)' <=> There(q)
                                    /\ q # p => account'[q] = account[q]
    <2>1. [account[p] EXCEPT !.school = school] \in [school : School, profile : School]
        BY <1>2
    <2>2. \A q \in Families!Person :
            account'[q] = IF q = p THEN [account[p] EXCEPT !.school = school] ELSE account[q]
        BY <1>1 DEF FamiliesInvariant, Families!TypeOK
    <2>3. [account[p] EXCEPT !.school = school] # None
        BY <2>1 DEF Families!FamilyAssumption
    <2>4. DOMAIN account' = Families!Person /\ account' = [q \in Families!Person |-> account'[q]]
        BY <1>1 DEF FamiliesInvariant, Families!TypeOK
    <2>5. \A q \in Families!Person : account[q] \in {None} \union [school : School, profile : School]
        BY DEF FamiliesInvariant, Families!TypeOK
    <2>6. \A q \in Families!Person : account'[q] \in {None} \union [school : School, profile : School]
        BY <2>1, <2>2, <2>5
    <2> QED BY <1>1, <2>2, <2>3, <2>4, <2>6 DEF There, Families!There
<1>4. Families!TypeOK'
    BY <1>1, <1>3 DEF FamiliesInvariant, Families!TypeOK
<1>5. Families!GuardianKept'
    BY <1>1, <1>3 DEF FamiliesInvariant, Families!GuardianKept, Families!GuardiansOf, There,
                      Families!Person
<1>6. \A l \in links : l[1] \in Families!Person /\ l[2] \in Families!Person
                       /\ There(l[1]) /\ There(l[2])
    BY DEF FamiliesInvariant, Families!TypeOK, Families!Person
<1>7. Families!LinkedWithinSchool'
    BY <1>1, <1>3, <1>6 DEF FamiliesInvariant, Families!LinkedWithinSchool
<1>8. \A q \in Families!Person :
        /\ There(q)' => q \notin gone'
        /\ There(q) => There(q)'
        /\ q \notin moved' => q \notin moved /\ account'[q].school = account[q].school
    BY <1>1, <1>3 DEF FamiliesInvariant
<1>9. /\ \A q \in moved' : There(q)'
      /\ \A l \in links' : There(l[1])' /\ There(l[2])'
    BY <1>1, <1>3, <1>6 DEF FamiliesInvariant, Families!TypeOK
<1> QED BY <1>1, <1>4, <1>5, <1>7, <1>8, <1>9, FamiliesStep DEF FamiliesInvariant, Families!GuardiansOf

LEMMA BillWritten ==
    ASSUME FamiliesInvariant, NEW s \in Pupil, Families!Record(s)
    PROVE  FamiliesInvariant'
<1>1. kept' = kept \union {s} /\ UNCHANGED <<gone, account, links, request, moved, bereft>>
    BY DEF Families!Record
<1>2. Families!TypeOK' /\ Families!GuardianKept' /\ Families!LinkedWithinSchool'
    BY <1>1 DEF FamiliesInvariant, Families!TypeOK, Families!GuardianKept, Families!There,
                Families!GuardiansOf, Families!LinkedWithinSchool
<1>3. \A x \in Desk : Relies(request[x])'
    <2>1. \A x \in Desk : Relies(request[x])
        BY DEF FamiliesInvariant
    <2> QED BY <1>1, <2>1 DEF There, Families!There, Families!GuardiansOf, Relies, Known, Neighbours
<1> QED BY <1>1, <1>2, <1>3 DEF FamiliesInvariant, There, Families!There


\* The request x is over, the others are as they were.
LEMMA Over ==
    ASSUME FamiliesInvariant, NEW x \in Desk, Families!Done(x)
    PROVE  /\ DOMAIN request' = Desk
           /\ \A y \in Desk : request'[y] =
                IF y \in Desk \ {x} THEN request[y] ELSE Families!Idle
BY DEF FamiliesInvariant, Families!Done

\* Who links join is somebody who is there.
LEMMA LinkedAreThere ==
    ASSUME FamiliesInvariant, NEW l \in links
    PROVE  /\ l = <<l[1], l[2]>> /\ l[1] \in Guardian /\ l[2] \in Pupil
           /\ There(l[1]) /\ There(l[2]) /\ l[1] \notin gone /\ l[2] \notin gone
           /\ l[1] \in Families!Person /\ l[2] \in Families!Person
BY DEF FamiliesInvariant, Families!TypeOK, Families!Person

LEMMA PupilAdmitted ==
    ASSUME Families!FamilyAssumption, FamiliesInvariant, NEW x \in Desk, Families!Create(x)
    PROVE  FamiliesInvariant'
<1> SUFFICES ASSUME NEW c, c = request[x] PROVE FamiliesInvariant'
    OBVIOUS
<1> DEFINE refused == \/ There(c.pupil) \/ c.new = There(c.guardian)
                      \/ {c.pupil, c.guardian} \intersect gone # {}
           born == {c.pupil} \union (IF c.new THEN {c.guardian} ELSE {})
<1>1. c.op = "create" /\ Relies(c)
    BY DEF Families!Create, FamiliesInvariant
<1>2. /\ c.pupil \in Pupil /\ c.guardian \in Guardian /\ c.school \in School /\ c.new \in BOOLEAN
      /\ ~c.new /\ There(c.guardian) /\ c.guardian \notin moved =>
            account[c.guardian].school = c.school
    BY <1>1 DEF Relies, Families!Idle
<1>3. CASE refused
    <2>1. Families!Refused(x)
        BY <1>3 DEF Families!Create, There
    <2> QED BY <2>1, FamilyRequests
<1>4. CASE ~refused
    <2>1. /\ account' = [p \in Families!Person |->
                IF p = c.pupil \/ (c.new /\ p = c.guardian) THEN Families!New(c.school)
                ELSE account[p]]
          /\ links' = links \union {<<c.guardian, c.pupil>>}
          /\ Families!Done(x) /\ UNCHANGED <<gone, kept, moved, bereft>>
        BY <1>4 DEF Families!Create, There
    <2>2. /\ ~There(c.pupil) /\ c.pupil \notin gone /\ c.guardian \notin gone
          /\ c.new <=> ~There(c.guardian)
        BY <1>2, <1>4 DEF There, Families!There
    <2>3. \A p : p \in born <=> p = c.pupil \/ (c.new /\ p = c.guardian)
        OBVIOUS
    <2> HIDE DEF refused, born
    <2>4. born \in SUBSET Families!Person /\ \A p \in born : ~There(p) /\ p \notin gone
        BY <1>2, <2>2, <2>3 DEF Families!Person
    <2>5. account' = [p \in Families!Person |-> IF p \in born THEN Families!New(c.school) ELSE account[p]]
        BY <2>1, <2>3
    <2>6. /\ account' \in [Families!Person -> {None} \union [school : School, profile : School]]
          /\ \A p \in Families!Person :
                /\ There(p)' <=> There(p) \/ p \in born
                /\ p \in born => account'[p].school = c.school /\ ~Known(p)
                /\ p \notin born => account'[p] = account[p]
        BY <1>2, <2>4, <2>5, NewcomersFit
    <2>7. /\ c.pupil \in Families!Person /\ c.guardian \in Families!Person
          /\ There(c.pupil)' /\ There(c.guardian)'
        <3>1. c.pupil \in Families!Person /\ c.guardian \in Families!Person
            BY <1>2 DEF Families!Person
        <3>2. c.pupil \in born /\ (c.guardian \in born \/ There(c.guardian))
            BY <2>2, <2>3
        <3> QED BY <2>6, <3>1, <3>2
    <2>8. Families!TypeOK'
        BY <1>2, <2>1, <2>6 DEF FamiliesInvariant, Families!TypeOK
    <2>9. Families!GuardianKept'
        \* The pupil has the guardian they came with, and the others have theirs.
        <3>1. ASSUME NEW s \in Pupil, There(s)', s \notin bereft'
              PROVE  Families!GuardiansOf(s)' # {}
            <4>1. CASE s = c.pupil
                BY <1>2, <2>1, <4>1 DEF Families!GuardiansOf
            <4>2. CASE s # c.pupil
                <5>1. There(s)
                    BY <1>2, <2>3, <2>6, <3>1, <4>2
                       DEF Families!Person, Families!FamilyAssumption
                <5> QED BY <2>1, <3>1, <5>1
                        DEF FamiliesInvariant, Families!GuardianKept, Families!GuardiansOf, There
            <4> QED BY <4>1, <4>2
        <3> QED BY <3>1 DEF Families!GuardianKept, There
    <2>10. ASSUME NEW l \in links
           PROVE  /\ There(l[1])' /\ There(l[2])'
                  /\ account'[l[1]] = account[l[1]] /\ account'[l[2]] = account[l[2]]
        BY <2>4, <2>6, LinkedAreThere
    <2>11. Families!LinkedWithinSchool'
        <3>1. c.new => account'[c.guardian].school = c.school
            BY <2>3, <2>6, <2>7
        <3>2. ~c.new => account'[c.guardian] = account[c.guardian]
            BY <1>2, <2>3, <2>6, <2>7, <2>2
        <3>3. account'[c.pupil].school = c.school
            BY <2>3, <2>6, <2>7
        <3>4. c.guardian \notin moved => account'[c.guardian].school = account'[c.pupil].school
            BY <1>2, <2>2, <3>1, <3>2, <3>3
        <3> QED BY <2>1, <2>10, <3>4 DEF FamiliesInvariant, Families!LinkedWithinSchool
    <2>12. \A p \in Families!Person :
            /\ There(p)' => p \notin gone'
            /\ There(p) => There(p)' /\ account'[p] = account[p]
        BY <2>1, <2>4, <2>6 DEF FamiliesInvariant
    <2>13. \A p \in moved' : There(p)'
        BY <2>1, <2>12 DEF FamiliesInvariant, Families!TypeOK
    <2>14. \A l \in links' : There(l[1])' /\ There(l[2])'
        <3>1. ASSUME NEW l \in links', l \notin links PROVE l[1] = c.guardian /\ l[2] = c.pupil
            BY <2>1, <3>1
        <3> QED BY <2>7, <2>10, <3>1
    <2>15. \A s : Families!GuardiansOf(s) \subseteq Families!GuardiansOf(s)'
        BY <2>1 DEF Families!GuardiansOf
    <2>16. gone \subseteq gone' /\ gone' \subseteq Families!Person
        BY <2>1 DEF FamiliesInvariant
    <2> DEFINE rest == Desk \ {x}
    <2>17. /\ DOMAIN request' = Desk
           /\ \A y \in Desk : request'[y] = IF y \in rest THEN request[y] ELSE Families!Idle
        BY <2>1, Over
    <2>18. rest \in SUBSET Desk
        OBVIOUS
    <2> HIDE DEF rest
    <2> QED BY <2>1, <2>8, <2>9, <2>11, <2>12, <2>13, <2>14, <2>15, <2>16, <2>17, <2>18,
               FamiliesStep
<1> QED BY <1>3, <1>4


LEMMA LinkMade ==
    ASSUME FamiliesInvariant, NEW x \in Desk, Families!Link(x)
    PROVE  FamiliesInvariant'
<1> SUFFICES ASSUME NEW c, c = request[x] PROVE FamiliesInvariant'
    OBVIOUS
<1>1. /\ c.op = "link" /\ c.guardian \in Guardian /\ c.pupil \in Pupil
      /\ Neighbours(c.guardian, c.pupil)
    BY DEF Families!Link, FamiliesInvariant, Relies, Families!Idle
<1>2. CASE ~(There(c.guardian) /\ There(c.pupil))
    <2>1. Families!Refused(x)
        BY <1>2 DEF Families!Link, There
    <2> QED BY <2>1, FamilyRequests
<1>3. CASE There(c.guardian) /\ There(c.pupil)
    <2>1. /\ links' = links \union {<<c.guardian, c.pupil>>}
          /\ Families!Done(x) /\ UNCHANGED <<gone, account, kept, moved, bereft>>
        BY <1>3 DEF Families!Link, There
    <2>2. \A p : There(p)' <=> There(p)
        BY <2>1 DEF There, Families!There
    <2>3. Families!TypeOK'
        BY <1>1, <2>1 DEF FamiliesInvariant, Families!TypeOK
    <2>4. \A s : Families!GuardiansOf(s) \subseteq Families!GuardiansOf(s)'
        BY <2>1 DEF Families!GuardiansOf
    <2>5. Families!GuardianKept'
        BY <2>1, <2>2, <2>4 DEF FamiliesInvariant, Families!GuardianKept, There
    <2>6. Families!LinkedWithinSchool'
        \* The school was checked when the request was made, and nobody moved since.
        BY <1>1, <1>3, <2>1 DEF FamiliesInvariant, Families!LinkedWithinSchool, Neighbours
    <2>7. \A l \in links' : There(l[1])' /\ There(l[2])'
        <3>1. ASSUME NEW l \in links', l \notin links PROVE l[1] = c.guardian /\ l[2] = c.pupil
            BY <2>1, <3>1
        <3> QED BY <1>3, <2>2, <3>1 DEF FamiliesInvariant
    <2>8. /\ gone \subseteq gone' /\ gone' \subseteq Families!Person
          /\ \A p \in Families!Person : There(p)' => p \notin gone'
          /\ \A p \in moved' : There(p)'
        BY <2>1, <2>2 DEF FamiliesInvariant
    <2> DEFINE rest == Desk \ {x}
    <2>9. /\ DOMAIN request' = Desk
          /\ \A y \in Desk : request'[y] = IF y \in rest THEN request[y] ELSE Families!Idle
        BY <2>1, Over
    <2>10. rest \in SUBSET Desk
        OBVIOUS
    <2> HIDE DEF rest
    <2> QED BY <2>1, <2>2, <2>3, <2>4, <2>5, <2>6, <2>7, <2>8, <2>9, <2>10, FamiliesStep
<1> QED BY <1>2, <1>3

LEMMA LinkRemoved ==
    ASSUME FamiliesInvariant, NEW x \in Desk, Families!Unlink(x)
    PROVE  FamiliesInvariant'
<1> SUFFICES ASSUME NEW c, c = request[x] PROVE FamiliesInvariant'
    OBVIOUS
<1>1. /\ c.op = "unlink" /\ c.guardian \in Guardian /\ c.pupil \in Pupil
      /\ There(c.pupil) /\ c.pupil \notin bereft =>
            \E g, h \in Families!GuardiansOf(c.pupil) : g # h
    BY DEF Families!Unlink, FamiliesInvariant, Relies, Families!Idle
<1>2. /\ links' = links \ {<<c.guardian, c.pupil>>}
      /\ Families!Done(x) /\ UNCHANGED <<gone, account, kept, moved>>
    BY DEF Families!Unlink
<1>3. /\ bereft \subseteq bereft' /\ bereft' \subseteq bereft \union {c.pupil}
      /\ \A y \in Desk \ {x} : request[y].op = "unlink" /\ request[y].pupil = c.pupil
            => c.pupil \in bereft'
    BY DEF Families!Unlink, Families!Unlinking
<1>4. \A p : There(p)' <=> There(p)
    BY <1>2 DEF There, Families!There
<1>5. Families!TypeOK'
    BY <1>1, <1>2, <1>3 DEF FamiliesInvariant, Families!TypeOK
<1>6. \A s : s # c.pupil => Families!GuardiansOf(s)' = Families!GuardiansOf(s)
    BY <1>2 DEF Families!GuardiansOf
<1>7. Families!GuardianKept'
    <2>1. ASSUME NEW s \in Pupil, There(s), s \notin bereft'
          PROVE  Families!GuardiansOf(s)' # {}
        <3>1. CASE s # c.pupil
            BY <1>3, <1>6, <2>1, <3>1 DEF FamiliesInvariant, Families!GuardianKept, There
        <3>2. CASE s = c.pupil
            \* Of the two there were, one is left.
            <4>1. PICK g \in Families!GuardiansOf(s) : g # c.guardian
                BY <1>1, <1>3, <2>1, <3>2
            <4> QED BY <1>2, <4>1 DEF Families!GuardiansOf
        <3> QED BY <3>1, <3>2
    <2> QED BY <1>4, <2>1 DEF Families!GuardianKept, There
<1>8. Families!LinkedWithinSchool'
    BY <1>2 DEF FamiliesInvariant, Families!LinkedWithinSchool
<1>9. /\ gone \subseteq gone' /\ gone' \subseteq Families!Person
      /\ \A p \in Families!Person : There(p)' => p \notin gone'
      /\ \A p \in moved' : There(p)'
      /\ \A l \in links' : There(l[1])' /\ There(l[2])'
    BY <1>2, <1>4 DEF FamiliesInvariant
<1> DEFINE rest == Desk \ {x}
<1>10. /\ DOMAIN request' = Desk
       /\ \A y \in Desk : request'[y] = IF y \in rest THEN request[y] ELSE Families!Idle
    BY <1>2, Over
<1>11. rest \in SUBSET Desk
    OBVIOUS
<1>12. ASSUME NEW y \in rest
       PROVE  LET d == request[y] IN
              d.op = "unlink" /\ There(d.pupil)' /\ d.pupil \notin bereft' =>
                d.pupil \notin bereft
                /\ Families!GuardiansOf(d.pupil) \subseteq Families!GuardiansOf(d.pupil)'
    <2>1. request'[y] = request[y]
        BY <1>10
    <2>2. ASSUME NEW d, d = request[y], d.op = "unlink", d.pupil \notin bereft'
          PROVE  d.pupil \notin bereft
                 /\ Families!GuardiansOf(d.pupil) \subseteq Families!GuardiansOf(d.pupil)'
        BY <1>3, <1>6, <2>2
    <2> QED BY <2>1, <2>2
<1> HIDE DEF rest
<1> QED BY <1>2, <1>4, <1>5, <1>7, <1>8, <1>9, <1>10, <1>11, <1>12, FamiliesStep


LEMMA AccountRemoved ==
    ASSUME FamiliesInvariant, NEW x \in Desk, Families!Remove(x)
    PROVE  FamiliesInvariant'
<1> SUFFICES ASSUME NEW c, c = request[x] PROVE FamiliesInvariant'
    OBVIOUS
<1>1. c.op = "remove" /\ c.person \in Families!Person
    BY DEF Families!Remove, FamiliesInvariant, Relies, Families!Idle
<1> SUFFICES ASSUME NEW p \in Families!Person, p = c.person PROVE FamiliesInvariant'
    BY <1>1
<1>2. CASE ~There(p) \/ p \in kept
    <2>1. Families!Refused(x)
        BY <1>2 DEF Families!Remove, There
    <2> QED BY <2>1, FamilyRequests
<1>3. CASE There(p) /\ p \notin kept
    <2>1. /\ account' = [account EXCEPT ![p] = None]
          /\ links' = {l \in links : p \notin {l[1], l[2]}}
          /\ moved' = moved \ {p}
          /\ bereft' = (bereft \union {s \in Pupil : <<p, s>> \in links}) \ {p}
          /\ gone' = gone \union {p}
          /\ Families!Done(x) /\ kept' = kept
        BY <1>3 DEF Families!Remove, There
    <2>2. \A q \in Families!Person : /\ There(q)' <=> There(q) /\ q # p
                                     /\ q # p => account'[q] = account[q]
        BY <2>1 DEF There, Families!There, FamiliesInvariant, Families!TypeOK
    <2>3. Families!TypeOK'
        BY <2>1 DEF FamiliesInvariant, Families!TypeOK
    <2>4. ASSUME NEW s \in Pupil, s \notin bereft', s # p
          PROVE  s \notin bereft /\ Families!GuardiansOf(s)' = Families!GuardiansOf(s)
        \* Who had p for a guardian is bereft by now.
        BY <2>1, <2>4 DEF Families!GuardiansOf
    <2>5. Families!GuardianKept'
        <3>1. \A s \in Pupil : There(s)' => There(s) /\ s # p
            BY <2>2 DEF Families!Person
        <3> QED BY <2>4, <3>1 DEF FamiliesInvariant, Families!GuardianKept, There
    <2>6. ASSUME NEW l \in links'
          PROVE  /\ l \in links /\ There(l[1])' /\ There(l[2])'
                 /\ account'[l[1]] = account[l[1]] /\ account'[l[2]] = account[l[2]]
                 /\ l[1] # p /\ l[2] # p
        <3>1. l \in links /\ l[1] # p /\ l[2] # p
            BY <2>1
        <3> QED BY <2>2, <3>1, LinkedAreThere
    <2>7. Families!LinkedWithinSchool'
        BY <2>1, <2>6 DEF FamiliesInvariant, Families!LinkedWithinSchool
    <2>8. /\ gone \subseteq gone' /\ gone' \subseteq Families!Person
          /\ \A q \in Families!Person : There(q)' => q \notin gone'
          /\ \A q \in Families!Person : There(q) => There(q)' \/ q \in gone'
        BY <2>1, <2>2 DEF FamiliesInvariant
    <2>9. /\ \A q \in moved' : There(q)'
          /\ \A q \in Families!Person : There(q) /\ There(q)' /\ q \notin moved' =>
                q \notin moved /\ account'[q].school = account[q].school
        BY <2>1, <2>2 DEF FamiliesInvariant, Families!TypeOK
    <2> DEFINE rest == Desk \ {x}
    <2>10. /\ DOMAIN request' = Desk
           /\ \A y \in Desk : request'[y] = IF y \in rest THEN request[y] ELSE Families!Idle
        BY <2>1, Over
    <2>11. rest \in SUBSET Desk
        OBVIOUS
    <2>12. ASSUME NEW y \in rest
           PROVE  LET d == request[y] IN
                  d.op = "unlink" /\ There(d.pupil)' /\ d.pupil \notin bereft' =>
                    d.pupil \notin bereft
                    /\ Families!GuardiansOf(d.pupil) \subseteq Families!GuardiansOf(d.pupil)'
        <3>1. request'[y] = request[y]
            BY <2>10
        <3>2. ASSUME NEW d, d = request[y], d.op = "unlink", There(d.pupil)', d.pupil \notin bereft'
              PROVE  d.pupil \notin bereft
                     /\ Families!GuardiansOf(d.pupil) \subseteq Families!GuardiansOf(d.pupil)'
            <4>1. d.pupil \in Pupil
                BY <3>2 DEF FamiliesInvariant, Relies, Families!Idle
            <4>2. d.pupil # p
                BY <2>2, <3>2, <4>1 DEF Families!Person
            <4> QED BY <2>4, <3>2, <4>1, <4>2
        <3> QED BY <3>1, <3>2
    <2> HIDE DEF rest
    <2> QED BY <2>3, <2>5, <2>6, <2>7, <2>8, <2>9, <2>10, <2>11, <2>12, FamiliesStep
<1> QED BY <1>2, <1>3

LEMMA FamiliesInit == Families!Init => FamiliesInvariant
<1> SUFFICES ASSUME Families!Init PROVE FamiliesInvariant
    OBVIOUS
<1>1. /\ gone = {} /\ links = {} /\ kept = {} /\ moved = {} /\ bereft = {}
      /\ account = [p \in Families!Person |-> None]
      /\ request = [x \in Desk |-> Families!Idle]
    BY DEF Families!Init
<1>2. Families!TypeOK
    BY <1>1 DEF Families!TypeOK
<1>3. Families!GuardianKept /\ Families!LinkedWithinSchool
    BY <1>1 DEF Families!GuardianKept, Families!There, Families!LinkedWithinSchool, Families!Person
<1>4. \A x \in Desk : Relies(request[x])
    BY <1>1 DEF Relies
<1> QED BY <1>1, <1>2, <1>3, <1>4 DEF FamiliesInvariant

LEMMA FamiliesNext ==
    ASSUME Families!FamilyAssumption, FamiliesInvariant, [Families!Next]_Families!vars
    PROVE  FamiliesInvariant'
<1>1. CASE Families!Next
    <2>1. ASSUME NEW g \in Guardian, NEW school \in School, Families!CreateGuardian(g, school)
          PROVE  FamiliesInvariant'
        BY <2>1, GuardianCreated
    <2>2. ASSUME NEW p \in Families!Person, NEW school \in School, Families!Move(p, school)
          PROVE  FamiliesInvariant'
        BY <2>2, AccountMoved
    <2>3. ASSUME NEW s \in Pupil, Families!Record(s) PROVE FamiliesInvariant'
        BY <2>3, BillWritten
    <2>4. ASSUME NEW x \in Desk,
                 \/ \E s \in Pupil, school \in School : Families!AskCreate(x, s, school)
                 \/ \E g \in Guardian, s \in Pupil : Families!AskLink(x, g, s) \/ Families!AskUnlink(x, g, s)
                 \/ \E p \in Families!Person : Families!AskRemove(x, p)
          PROVE  FamiliesInvariant'
        BY <2>4, FamilyRequests
    <2>5. ASSUME NEW x \in Desk, Families!Create(x) PROVE FamiliesInvariant'
        BY <2>5, PupilAdmitted
    <2>6. ASSUME NEW x \in Desk, Families!Link(x) PROVE FamiliesInvariant'
        BY <2>6, LinkMade
    <2>7. ASSUME NEW x \in Desk, Families!Unlink(x) PROVE FamiliesInvariant'
        BY <2>7, LinkRemoved
    <2>8. ASSUME NEW x \in Desk, Families!Remove(x) PROVE FamiliesInvariant'
        BY <2>8, AccountRemoved
    <2> QED BY <1>1, <2>1, <2>2, <2>3, <2>4, <2>5, <2>6, <2>7, <2>8 DEF Families!Next
<1>2. CASE UNCHANGED Families!vars
    <2>1. UNCHANGED <<gone, account, links, kept, moved, bereft, request>>
        BY <1>2 DEF Families!vars
    <2>2. \A x \in Desk : Relies(request[x])'
        <3>1. \A x \in Desk : Relies(request[x])
            BY DEF FamiliesInvariant
        <3> QED BY <2>1, <3>1 DEF There, Families!There, Families!GuardiansOf, Relies, Known, Neighbours
    <2>3. Families!TypeOK' /\ Families!GuardianKept' /\ Families!LinkedWithinSchool'
        BY <2>1 DEF FamiliesInvariant, Families!TypeOK, Families!GuardianKept, Families!There,
                    Families!GuardiansOf, Families!LinkedWithinSchool
    <2> QED BY <2>1, <2>2, <2>3 DEF FamiliesInvariant, There, Families!There
<1> QED BY <1>1, <1>2


\* However requests cross, every pupil keeps a guardian, except one whose guardian's account
\* was deleted or who lost two at once, and guardians and pupils are of one school, unless
\* the super-admin moved the one or the other (users.service.ts: "A student must always keep
\* at least one guardian", "Cross-school linking denied").
THEOREM GuardiansAreKept ==
    ASSUME Families!FamilyAssumption
    PROVE  Families!Spec => [](Families!GuardianKept /\ Families!LinkedWithinSchool)
<1>1. FamiliesInvariant => Families!GuardianKept /\ Families!LinkedWithinSchool
    BY DEF FamiliesInvariant
<1>2. FamiliesInvariant /\ [Families!Next]_(Families!vars) => FamiliesInvariant'
    BY FamiliesNext
<1> QED BY <1>1, <1>2, FamiliesInit, PTL DEF Families!Spec

\* The same of the families beside the roster, the registers and the other parts of the
\* school year (users.service.ts, linkParentStudent and unlinkParentStudent).
THEOREM FamiliesStayWhole ==
    ASSUME Families!FamilyAssumption PROVE MCSpec => []FamiliesWhole
<1> DEFINE Inv == part = "families" => FamiliesInvariant
<1>1. Inv => FamiliesWhole
    BY DEF FamiliesInvariant, FamiliesWhole
<1>2. MCInit => Inv
    BY FamiliesInit DEF MCInit
<1>3. Inv /\ [MCNext]_allVars => Inv'
    <2>1. CASE UNCHANGED allVars
        <3>1. UNCHANGED part /\ UNCHANGED Families!vars
            BY <2>1 DEF allVars, familyVars, Families!vars
        <3> QED BY <3>1, FamiliesNext
    <2>2. CASE MCNext
        <3>1. UNCHANGED part /\ (part = "families" => Families!Next)
            BY <2>2 DEF MCNext, OthersRest, FamilyStep
        <3> QED BY <3>1, FamiliesNext
    <2> QED BY <2>1, <2>2
<1> QED BY <1>1, <1>2, <1>3, PTL DEF MCSpec

-----------------------------------------------------------------------------
(* Sums *)

\* A count of a set numbers each of its members once.
LEMMA CountIs ==
    ASSUME NEW D, NEW T, NEW f \in Bijection(D, T)
    PROVE  /\ \A i \in D : f[i] \in T
           /\ \A i, j \in D : f[i] = f[j] => i = j
           /\ \A m \in T : \E i \in D : f[i] = m
<1>1. f \in [D -> T] /\ IsInjective(f) /\ \A m \in T : \E i \in D : f[i] = m
    BY DEF Bijection, Injection, Surjection
<1> QED BY <1>1 DEF IsInjective

\* Parts that share nothing: the sizes of the parts add up to the size of the whole.
LEMMA PartsAddUp ==
    ASSUME NEW S, NEW share, \A x \in S : IsFiniteSet(share[x]),
           \A x, y \in S : x # y => share[x] \cap share[y] = {},
           IsFiniteSet(UNION {share[x] : x \in S})
    PROVE  Total(S, [x \in S |-> Cardinality(share[x])]) = Cardinality(UNION {share[x] : x \in S})
<1> DEFINE size == [x \in S |-> Cardinality(share[x])]
           whole == UNION {share[x] : x \in S}
<1>1. \A x \in S : \E f : f \in Bijection(1..size[x], share[x])
    BY FS_CardinalityType DEF ExistsBijection
<1> HIDE DEF size
<1>2. PICK count : \A x \in S : count[x] \in Bijection(1..size[x], share[x])
    <2>1. \A x \in S : [y \in S |-> CHOOSE f : f \in Bijection(1..size[y], share[y])][x]
                            \in Bijection(1..size[x], share[x])
        BY <1>1
    <2> QED BY <2>1
<1>3. ASSUME NEW x \in S
      PROVE  /\ \A i \in 1..size[x] : count[x][i] \in share[x]
             /\ \A i, j \in 1..size[x] : count[x][i] = count[x][j] => i = j
             /\ \A m \in share[x] : \E i \in 1..size[x] : count[x][i] = m
    <2>1. count[x] \in Bijection(1..size[x], share[x])
        BY <1>2
    <2> DEFINE D == 1..size[x]
               f == count[x]
               T == share[x]
    <2>2. f \in Bijection(D, T)
        BY <2>1
    <2> HIDE DEF D, f, T
    <2>3. /\ \A i \in D : f[i] \in T
          /\ \A i, j \in D : f[i] = f[j] => i = j
          /\ \A m \in T : \E i \in D : f[i] = m
        BY <2>2, CountIs
    <2> QED BY <2>3 DEF D, f, T
<1> DEFINE into == [u \in Units(S, size) |-> count[u[1]][u[2]]]
<1>4. \A u : u \in Units(S, size) <=> \E x \in S : \E i \in 1..size[x] : u = <<x, i>>
    BY DEF Units, UnitsOf
<1>5. into \in Bijection(Units(S, size), whole)
    <2>1. \A u \in Units(S, size) : into[u] \in whole
        BY <1>3, <1>4
    <2>2. ASSUME NEW u \in Units(S, size), NEW v \in Units(S, size), into[u] = into[v] PROVE u = v
        <3>1. PICK x \in S : \E i \in 1..size[x] : u = <<x, i>>
            BY <1>4
        <3>2. PICK i \in 1..size[x] : u = <<x, i>>
            BY <3>1
        <3>3. PICK y \in S : \E j \in 1..size[y] : v = <<y, j>>
            BY <1>4
        <3>4. PICK j \in 1..size[y] : v = <<y, j>>
            BY <3>3
        <3>5. into[u] = count[x][i] /\ into[v] = count[y][j]
            BY <3>2, <3>4
        <3>6. count[x][i] \in share[x] /\ count[y][j] \in share[y]
            BY <1>3
        <3>7. x = y
            BY <2>2, <3>5, <3>6
        <3> QED BY <1>3, <2>2, <3>2, <3>4, <3>5, <3>7
    <2>3. \A m \in whole : \E u \in Units(S, size) : into[u] = m
        <3> SUFFICES ASSUME NEW x \in S, NEW m \in share[x] PROVE \E u \in Units(S, size) : into[u] = m
            OBVIOUS
        <3>1. PICK i \in 1..size[x] : count[x][i] = m
            BY <1>3
        <3>2. <<x, i>> \in Units(S, size)
            BY <1>4
        <3> QED BY <3>1, <3>2
    <2>4. into \in [Units(S, size) -> whole]
        BY <2>1
    <2> HIDE DEF into, whole
    <2> QED BY <2>2, <2>3, <2>4 DEF Bijection, Injection, Surjection, IsInjective
<1>6. ExistsBijection(whole, Units(S, size))
    BY <1>5, Fun_ExistsBijSymmetric DEF ExistsBijection
<1>7. Cardinality(Units(S, size)) = Cardinality(whole)
    BY <1>6, FS_Bijection
<1> QED BY <1>7 DEF Total, size

-----------------------------------------------------------------------------
(* The registers *)

LEMMA RegisterSizes ==
    /\ \A S : Attendance!Cardinality(S) = Cardinality(S) /\ (Attendance!IsFiniteSet(S) <=> IsFiniteSet(S))
    /\ \A S, amount : Attendance!Total(S, amount) = Total(S, amount)
<1>1. \A S : Attendance!Cardinality(S) = Cardinality(S) /\ (Attendance!IsFiniteSet(S) <=> IsFiniteSet(S))
    BY DEF Attendance!Cardinality, Attendance!IsFiniteSet, Cardinality, IsFiniteSet
<1>2. \A S, amount : Attendance!Units(S, amount) = Units(S, amount)
    BY DEF Attendance!Units, Attendance!UnitsOf, Units, UnitsOf
<1> QED BY <1>1, <1>2 DEF Attendance!Total, Total

\* The session of some placements, by the sessions they are of.
SessionOf(years, date) ==
    IF \E y : years = {y} THEN CHOOSE y \in years : TRUE
    ELSE IF CoveredBy[date] = None \/ (years # {} /\ CoveredBy[date] \notin years) THEN None
    ELSE CoveredBy[date]

LEMMA SessionIs ==
    ASSUME NEW P, IsFiniteSet(P), NEW date
    PROVE  Attendance!SessionFor(P, date) = SessionOf({p.year : p \in P}, date)
<1> DEFINE years == {p.year : p \in P}
<1>1. IsFiniteSet(years)
    <2>1. [p \in P |-> p.year] \in Surjection(P, years)
        BY DEF Surjection
    <2> QED BY <2>1, FS_Surjection
<1>2. Cardinality(years) = 1 <=> \E y : years = {y}
    BY <1>1, FS_Singleton
<1>3. Attendance!Cardinality(years) = Cardinality(years)
    BY RegisterSizes
<1> HIDE DEF years
<1> QED BY <1>2, <1>3 DEF Attendance!SessionFor, SessionOf, years

\* One session more than there was, that of the first answer, and the answer stays.
LEMMA SessionStays ==
    ASSUME NEW years, NEW date, SessionOf(years, date) # None
    PROVE  SessionOf(years \cup {SessionOf(years, date)}, date) = SessionOf(years, date)
<1> DEFINE y == SessionOf(years, date)
<1>1. CASE \E z : years = {z}
    BY <1>1 DEF SessionOf
<1>2. CASE ~\E z : years = {z}
    <2>1. y = CoveredBy[date] /\ (years = {} \/ y \in years)
        BY <1>2 DEF SessionOf
    <2>2. CASE years = {}
        <3>1. years \cup {y} = {y}
            BY <2>2
        <3> HIDE DEF y
        <3>2. SessionOf({y}, date) = y
            BY DEF SessionOf
        <3> QED BY <3>1, <3>2 DEF y
    <2>3. CASE y \in years
        <3>1. years \cup {y} = years
            BY <2>3
        <3> QED BY <3>1
    <2> QED BY <2>1, <2>2, <2>3
<1> QED BY <1>1, <1>2

\* The students and the sessions of the placements, read as mark reads them.
Placements(P) == {[student |-> p.student, year |-> p.year] : p \in P}
Joining(S, y) == {[student |-> s, year |-> y] : s \in S}

\* ... give back the names and sessions they were made of.
LEMMA ReadOff ==
    ASSUME NEW P
    PROVE  /\ {e.student : e \in Placements(P)} = {p.student : p \in P}
           /\ {e.year : e \in Placements(P)} = {p.year : p \in P}
<1>1. ASSUME NEW e \in Placements(P) PROVE \E p \in P : e.student = p.student /\ e.year = p.year
    <2>1. PICK p \in P : e = [student |-> p.student, year |-> p.year]
        BY DEF Placements
    <2>2. e.student = p.student /\ e.year = p.year
        BY <2>1
    <2> QED BY <2>2
<1>2. ASSUME NEW p \in P PROVE \E e \in Placements(P) : e.student = p.student /\ e.year = p.year
    <2> DEFINE e == [student |-> p.student, year |-> p.year]
    <2>1. e \in Placements(P)
        BY DEF Placements
    <2>2. e.student = p.student /\ e.year = p.year
        OBVIOUS
    <2> HIDE DEF e
    <2> QED BY <2>1, <2>2
<1> QED BY <1>1, <1>2

LEMMA JoinedAre ==
    ASSUME NEW S, NEW y
    PROVE  /\ {e.student : e \in Joining(S, y)} = S
           /\ {e.year : e \in Joining(S, y)} = {z \in {y} : S # {}}
<1>1. ASSUME NEW e \in Joining(S, y) PROVE e.student \in S /\ e.year = y
    BY DEF Joining
<1>2. ASSUME NEW s \in S PROVE \E e \in Joining(S, y) : e.student = s /\ e.year = y
    <2> DEFINE e == [student |-> s, year |-> y]
    <2>1. e \in Joining(S, y)
        BY DEF Joining
    <2>2. e.student = s /\ e.year = y
        OBVIOUS
    <2> HIDE DEF e
    <2> QED BY <2>1, <2>2
<1> QED BY <1>1, <1>2

\* Of any of these, the students and the sessions.
Names(E) == {e.student : e \in E}
Years(E) == {e.year : e \in E}

LEMMA NamesOf ==
    ASSUME NEW P, NEW S, NEW y
    PROVE  Names(Placements(P) \union Joining(S, y)) = Names(P) \union S
<1>1. \A A, B : Names(A \union B) = Names(A) \union Names(B)
    BY DEF Names
<1>2. Names(Placements(P)) = Names(P)
    BY ReadOff DEF Names
<1>3. Names(Joining(S, y)) = S
    BY JoinedAre DEF Names
<1> QED BY <1>1, <1>2, <1>3

LEMMA YearsOf ==
    ASSUME NEW P, NEW S, NEW y
    PROVE  Years(Placements(P) \union Joining(S, y)) = Years(P) \union {z \in {y} : S # {}}
<1>1. \A A, B : Years(A \union B) = Years(A) \union Years(B)
    BY DEF Years
<1>2. Years(Placements(P)) = Years(P)
    BY ReadOff DEF Years
<1>3. Years(Joining(S, y)) = {z \in {y} : S # {}}
    BY JoinedAre DEF Years
<1> QED BY <1>1, <1>2, <1>3

\* The sheet and the save derive one session and one list of names.
LEMMA SheetIsAccepted ==
    ASSUME Attendance!AttendanceAssumption, roster \in Rolls, NEW o, NEW date
    PROVE  Attendance!Sheet(o, date, {}) = Attendance!Accepted(o, date)
<1> DEFINE here == Attendance!Here(o)
           years == Years(here)
           y == SessionOf(years, date)
           siblings == Attendance!SiblingTakers(o, date)
           both == Placements(here) \union Joining(siblings, y)
           students == Names(here)
<1>1. IsFiniteSet(here)
    <2>1. IsFiniteSet(roster.rows)
        BY RegisterSizes DEF Attendance!AttendanceAssumption
    <2> QED BY <2>1, FS_Subset DEF Attendance!Here, Attendance!ActiveIn
<1>2. Attendance!SessionFor(here, date) = y
    BY <1>1, SessionIs DEF Years
<1>3. /\ y = None => siblings = {}
      /\ \A s \in siblings : s \in Attendee /\ Attendance!Picked(roster.picks, s, y, o)
    BY <1>2 DEF Attendance!SiblingTakers, Attendance!CrossSectionTakers
<1> HIDE DEF y
<1>4. Names(both) = students \union siblings
    BY NamesOf
<1>5. Years(both) = years \union {z \in {y} : siblings # {}}
    BY YearsOf
<1>6. IsFiniteSet(both)
    <2>1. IsFiniteSet(siblings)
        <3>1. IsFiniteSet(Attendee)
            BY RegisterSizes DEF Attendance!AttendanceAssumption
        <3> QED BY <1>3, <3>1, FS_Subset
    <2>2. [p \in here |-> [student |-> p.student, year |-> p.year]] \in Surjection(here, Placements(here))
        BY DEF Surjection, Placements
    <2>3. [s \in siblings |-> [student |-> s, year |-> y]] \in Surjection(siblings, Joining(siblings, y))
        BY DEF Surjection, Joining
    <2> QED BY <1>1, <2>1, <2>2, <2>3, FS_Surjection, FS_Union
<1> HIDE DEF both
<1>7. Attendance!SessionFor(both, date) = y
    <2>1. Attendance!SessionFor(both, date) = SessionOf(Years(both), date)
        BY <1>6, SessionIs DEF Years
    <2>2. CASE siblings = {}
        <3>1. years \union {z \in {y} : siblings # {}} = years
            BY <2>2
        <3> QED BY <1>5, <2>1, <3>1 DEF y
    <2>3. CASE siblings # {}
        <3>1. years \union {z \in {y} : siblings # {}} = years \union {y}
            BY <2>3
        <3>2. SessionOf(years \union {y}, date) = y
            <4>1. y # None
                BY <1>3, <2>3
            <4> QED BY <4>1, SessionStays DEF y
        <3> QED BY <1>5, <2>1, <3>1, <3>2
    <2> QED BY <2>2, <2>3
<1>8. Attendance!Accepted(o, date) = Attendance!Takers(o, students \union siblings, y)
    BY <1>2, <1>4, <1>7 DEF Attendance!Accepted, both, Placements, Joining, Names
<1>9. Attendance!Sheet(o, date, {}) = Attendance!Takers(o, students, y) \union siblings
    BY <1>2 DEF Attendance!Sheet, Names
<1> HIDE DEF students, siblings, here
<1>10. Attendance!Takers(o, students \union siblings, y) = Attendance!Takers(o, students, y) \union siblings
    BY <1>3 DEF Attendance!Takers, Attendance!TakersOf
<1> QED BY <1>8, <1>9, <1>10

\* The sheet before anybody is marked lists those who take the offering, as the placements
\* and the picks have it.
LEMMA SheetIsTakers ==
    ASSUME Attendance!AttendanceAssumption, roster \in Rolls, NEW o, NEW date
    PROVE  Attendance!Sheet(o, date, {}) = {s \in Attendee : Attendance!Takes(s, o, date)}
<1> DEFINE here == Attendance!Here(o)
           y == Attendance!SessionFor(here, date)
           sitting(s) == \E p \in here : p.student = s
           picked(s) == Attendance!Picked(roster.picks, s, y, o)
           sibling(s) == Attendance!PicksFromSibling(roster.rows, roster.picks, s, o, y, {"ACTIVE"})
           open == o \in roster.electives /\ y # None
<1>1. \A s : Attendance!Takes(s, o, date) <=> (sitting(s) /\ (open => picked(s))) \/ (y # None /\ sibling(s))
    BY DEF Attendance!Takes
<1>2. \A s : sitting(s) => s \in Attendee
    BY DEF Attendance!AttendanceAssumption, Attendance!Here, Attendance!ActiveIn
<1>3. \A s : s \in Attendance!Takers(o, {p.student : p \in here}, y) <=> sitting(s) /\ (open => picked(s))
    BY DEF Attendance!Takers, Attendance!TakersOf
<1>4. \A s : s \in Attendance!SiblingTakers(o, date) <=>
            /\ s \in Attendee /\ y # None /\ sibling(s)
            /\ ~\E p \in here : p.student = s /\ p.year = y
    BY DEF Attendance!SiblingTakers, Attendance!CrossSectionTakers, Attendance!PicksFromSibling,
           Attendance!Of, Attendance!Here, Attendance!ActiveIn
<1>5. \A s : sibling(s) => picked(s)
    BY DEF Attendance!PicksFromSibling
<1>6. Attendance!Sheet(o, date, {}) = Attendance!Takers(o, {p.student : p \in here}, y) \union Attendance!SiblingTakers(o, date)
    BY DEF Attendance!Sheet
<1> HIDE DEF y, here, open, picked, sibling
<1> QED BY <1>1, <1>2, <1>3, <1>4, <1>5, <1>6

\* Whom a save accepts, its teacher may read about.
LEMMA AcceptedAreRead ==
    ASSUME Attendance!AttendanceAssumption, roster \in Rolls,
           NEW t \in Instructor, NEW o \in Lessons[t], NEW date
    PROVE  Attendance!Accepted(o, date) \subseteq Attendance!StudentsOf(t)
<1> DEFINE here == Attendance!Here(o)
           y == Attendance!SessionFor(here, date)
           siblings == Attendance!SiblingTakers(o, date)
           sections == {LessonForm[l] : l \in Lessons[t]}
           offerings == {l \in Lesson : LessonForm[l] \in sections}
<1>1. o \in Lesson /\ LessonForm[o] \in sections /\ o \in offerings
    BY DEF Attendance!AttendanceAssumption
<1>2. {p.student : p \in here} \subseteq Attendance!StudentsOf(t)
    BY <1>1 DEF Attendance!Here, Attendance!StudentsOf
<1>3. siblings \subseteq Attendance!StudentsOf(t)
    <2> SUFFICES ASSUME NEW s \in siblings PROVE s \in Attendance!StudentsOf(t)
        OBVIOUS
    <2>1. s \in Attendance!CrossSectionTakers(roster.rows, roster.picks, {o}, y, {"ACTIVE"})
        BY DEF Attendance!SiblingTakers
    <2>2. y \in Attendance!Running(sections)
        BY <1>1, <2>1 DEF Attendance!CrossSectionTakers, Attendance!Running, Attendance!Of, Attendance!ClassFor
    <2>3. s \in Attendance!CrossSectionTakers(roster.rows, roster.picks, offerings, y, {"ACTIVE"})
        BY <1>1, <2>1 DEF Attendance!CrossSectionTakers
    <2> DEFINE Found(z) == Attendance!CrossSectionTakers(roster.rows, roster.picks, offerings, z, {"ACTIVE"})
               sitting == UNION {{p.student : p \in Attendance!ActiveIn(roster.rows, x)} : x \in sections}
               running == Attendance!Running(sections)
    <2>4. Attendance!StudentsOf(t) = sitting \union UNION {Found(z) : z \in running}
        BY DEF Attendance!StudentsOf
    <2>5. y \in running /\ s \in Found(y)
        BY <2>2, <2>3
    <2> HIDE DEF y, sections, offerings, Found, sitting, running
    <2> QED BY <2>4, <2>5
<1>4. Attendance!Accepted(o, date) \subseteq {p.student : p \in here} \union siblings
    BY DEF Attendance!Accepted, Attendance!Takers, Attendance!TakersOf
<1> QED BY <1>2, <1>3, <1>4

LEMMA RegisterMarkable ==
    ASSUME Attendance!AttendanceAssumption, roster \in Rolls PROVE Attendance!RegisterIsMarkable
<1> SUFFICES ASSUME NEW t \in Instructor, NEW o \in Lessons[t], NEW date \in Day, NEW period \in Hour
             PROVE  LET takers == {s \in Attendee : Attendance!Takes(s, o, date)}
                        marked == {c[1] : c \in Attendance!Marked(Attendee \X {o} \X {date} \X {period})}
                    IN  /\ Attendance!Sheet(o, date, marked) = takers \union marked
                        /\ Attendance!Accepted(o, date) = takers
                        /\ takers \subseteq Attendance!StudentsOf(t)
    BY Zenon DEF Attendance!RegisterIsMarkable
<1> DEFINE takers == {s \in Attendee : Attendance!Takes(s, o, date)}
           marked == {c[1] : c \in Attendance!Marked(Attendee \X {o} \X {date} \X {period})}
<1>1. Attendance!Sheet(o, date, marked) = Attendance!Sheet(o, date, {}) \union marked
    <2> HIDE DEF marked
    <2> QED BY DEF Attendance!Sheet
<1>2. Attendance!Sheet(o, date, {}) = takers
    BY SheetIsTakers
<1>3. Attendance!Sheet(o, date, {}) = Attendance!Accepted(o, date)
    BY SheetIsAccepted
<1>4. Attendance!Accepted(o, date) \subseteq Attendance!StudentsOf(t)
    BY AcceptedAreRead
<1> HIDE DEF takers, marked
<1>5. /\ Attendance!Sheet(o, date, marked) = takers \union marked
      /\ Attendance!Accepted(o, date) = takers
      /\ takers \subseteq Attendance!StudentsOf(t)
    BY <1>1, <1>2, <1>3, <1>4
<1> QED BY <1>5 DEF takers, marked

\* Windows that share no mark and hold all the marks of another: their figures add up to its.
LEMMA FiguresAddUp ==
    ASSUME NEW S, NEW windows, NEW whole, IsFiniteSet(whole),
           \A x \in S : windows[x] \subseteq whole,
           \A x, y \in S : x # y => windows[x] \cap windows[y] = {},
           \A c \in whole : \E x \in S : c \in windows[x]
    PROVE  Attendance!Add([x \in S |-> Attendance!Tally(windows[x])]) = Attendance!Tally(whole)
<1> DEFINE tallies == [x \in S |-> Attendance!Tally(windows[x])]
           of(cells, st) == {c \in cells : marks[c] = st}
<1>1. \A cells : Attendance!Tally(cells) = [st \in Attendance!MarkStatus |-> Cardinality(of(cells, st))]
    BY RegisterSizes DEF Attendance!Tally
<1>2. ASSUME NEW st \in Attendance!MarkStatus
      PROVE  Total(S, [x \in S |-> tallies[x][st]]) = Cardinality(of(whole, st))
    <2> DEFINE share == [x \in S |-> of(windows[x], st)]
               parts == UNION {share[x] : x \in S}
    <2>1. \A x \in S : tallies[x][st] = Cardinality(share[x])
        <3> SUFFICES ASSUME NEW x \in S PROVE tallies[x][st] = Cardinality(share[x])
            OBVIOUS
        <3>1. tallies[x] = Attendance!Tally(windows[x]) /\ share[x] = of(windows[x], st)
            OBVIOUS
        <3> HIDE DEF tallies, share, of
        <3> QED BY <1>1, <3>1
    <2>2. parts = of(whole, st)
        OBVIOUS
    <2>3. IsFiniteSet(parts) /\ \A x \in S : IsFiniteSet(share[x])
        <3>1. of(whole, st) \subseteq whole /\ \A x \in S : share[x] \subseteq whole
            OBVIOUS
        <3> HIDE DEF share, parts, of
        <3> QED BY <2>2, <3>1, FS_Subset
    <2>4. \A x, y \in S : x # y => share[x] \cap share[y] = {}
        OBVIOUS
    <2> HIDE DEF share, tallies, of
    <2>5. Total(S, [x \in S |-> Cardinality(share[x])]) = Cardinality(parts)
        BY <2>3, <2>4, PartsAddUp
    <2>6. [x \in S |-> tallies[x][st]] = [x \in S |-> Cardinality(share[x])]
        BY <2>1
    <2> QED BY <2>2, <2>5, <2>6
<1>3. Attendance!Add(tallies) =
        [st \in Attendance!MarkStatus |-> Total(S, [x \in S |-> tallies[x][st]])]
    <2>1. DOMAIN tallies = S
        OBVIOUS
    <2> HIDE DEF tallies
    <2> QED BY <2>1, RegisterSizes DEF Attendance!Add
<1> HIDE DEF tallies, of
<1> QED BY <1>1, <1>2, <1>3 DEF tallies

\* There are finitely many marks to count.
LEMMA CellsAreFew ==
    ASSUME Attendance!AttendanceAssumption,
           NEW S \in SUBSET Attendee, NEW O \in SUBSET Lesson, NEW D \in SUBSET Day
    PROVE  IsFiniteSet(Attendance!Window(S, O, D))
<1>1. IsFiniteSet(S) /\ IsFiniteSet(O) /\ IsFiniteSet(D) /\ IsFiniteSet(Hour)
    BY RegisterSizes, FS_Subset DEF Attendance!AttendanceAssumption
<1> DEFINE nested == (S \X O) \X (D \X Hour)
<1>2. IsFiniteSet(nested)
    BY <1>1, FS_Product
<1>3. [n \in nested |-> <<n[1][1], n[1][2], n[2][1], n[2][2]>>] \in Surjection(nested, S \X O \X D \X Hour)
    <2> DEFINE flat == [n \in nested |-> <<n[1][1], n[1][2], n[2][1], n[2][2]>>]
    <2>1. \A n \in nested : flat[n] \in S \X O \X D \X Hour
        OBVIOUS
    <2>2. ASSUME NEW c \in S \X O \X D \X Hour PROVE \E n \in nested : flat[n] = c
        <3>1. <<<<c[1], c[2]>>, <<c[3], c[4]>>>> \in nested
            OBVIOUS
        <3>2. flat[<<<<c[1], c[2]>>, <<c[3], c[4]>>>>] = c
            BY <3>1
        <3> QED BY <3>1, <3>2
    <2>3. flat \in [nested -> S \X O \X D \X Hour]
        BY <2>1
    <2> HIDE DEF flat, nested
    <2> QED BY <2>2, <2>3 DEF Surjection, flat
<1>4. IsFiniteSet(S \X O \X D \X Hour)
    BY <1>2, <1>3, FS_Surjection
<1>5. Attendance!Window(S, O, D) \subseteq S \X O \X D \X Hour
    BY DEF Attendance!Window, Attendance!Marked
<1> QED BY <1>4, <1>5, FS_Subset

\* A marked cell of a window, by its parts.
LEMMA InWindow ==
    ASSUME NEW S, NEW O, NEW D, NEW c
    PROVE  c \in Attendance!Window(S, O, D) <=>
                /\ c = <<c[1], c[2], c[3], c[4]>> /\ marks[c] # None
                /\ c[1] \in S /\ c[2] \in O /\ c[3] \in D /\ c[4] \in Hour
BY DEF Attendance!Window, Attendance!Marked

LEMMA SheetIsOfStudents ==
    ASSUME Attendance!AttendanceAssumption, roster \in Rolls,
           NEW o, NEW date, NEW marked \in SUBSET Attendee
    PROVE  Attendance!Sheet(o, date, marked) \subseteq Attendee /\ marked \subseteq Attendance!Sheet(o, date, marked)
<1>1. \A p \in roster.rows : p.student \in Attendee
    BY DEF Attendance!AttendanceAssumption
<1>2. {p.student : p \in Attendance!Here(o)} \subseteq Attendee
    BY <1>1 DEF Attendance!Here, Attendance!ActiveIn
<1>3. \A students, y : Attendance!Takers(o, students, y) \subseteq students
    BY DEF Attendance!Takers, Attendance!TakersOf
<1>4. Attendance!SiblingTakers(o, date) \subseteq Attendee
    BY DEF Attendance!SiblingTakers, Attendance!CrossSectionTakers
<1> QED BY <1>2, <1>3, <1>4 DEF Attendance!Sheet

LEMMA ClassFiguresAgree ==
    ASSUME Attendance!AttendanceAssumption, roster \in Rolls,
           NEW dates \in SUBSET Day, NEW o \in Lesson, NEW asOf
    PROVE  Attendance!Add(Attendance!Summary(o, dates, asOf)) = Attendance!TeacherStats(o, dates)
<1> DEFINE whole == Attendance!Window(Attendee, {o}, dates)
           S == Attendance!Sheet(o, asOf, {c[1] : c \in whole})
           windows == [s \in S |-> Attendance!Window({s}, {o}, dates)]
<1>1. {c[1] : c \in whole} \in SUBSET Attendee
    BY InWindow
<1>2. S \subseteq Attendee /\ {c[1] : c \in whole} \subseteq S
    <2> HIDE DEF whole
    <2> QED BY <1>1, SheetIsOfStudents
<1> HIDE DEF S
<1>3. IsFiniteSet(whole)
    BY CellsAreFew
<1>4. \A x \in S : windows[x] \subseteq whole
    BY <1>2, InWindow
<1>5. \A x, y \in S : x # y => windows[x] \cap windows[y] = {}
    BY InWindow
<1>6. \A c \in whole : \E x \in S : c \in windows[x]
    <2> SUFFICES ASSUME NEW c \in whole PROVE c[1] \in S /\ c \in windows[c[1]]
        OBVIOUS
    <2>1. c[1] \in S
        BY <1>2
    <2> QED BY <2>1, InWindow
<1> HIDE DEF windows, whole
<1>7. Attendance!Add([x \in S |-> Attendance!Tally(windows[x])]) = Attendance!Tally(whole)
    BY <1>3, <1>4, <1>5, <1>6, FiguresAddUp
<1>8. [x \in S |-> Attendance!Tally(windows[x])] = Attendance!Summary(o, dates, asOf)
    <2>1. \A x \in S : windows[x] = Attendance!Window({x}, {o}, dates)
        BY DEF windows
    <2> QED BY <2>1 DEF Attendance!Summary, S, whole
<1> QED BY <1>7, <1>8 DEF Attendance!TeacherStats, whole

\* A student's figures over the dates, taken day by day, are those of the dates.
LEMMA StudentFigures ==
    ASSUME Attendance!AttendanceAssumption, NEW dates \in SUBSET Day, NEW S \in SUBSET Attendee
    PROVE  Attendance!Add([d \in dates |-> Attendance!Tally(Attendance!Window(S, Lesson, {d}))]) =
                Attendance!Tally(Attendance!Window(S, Lesson, dates))
<1> DEFINE whole == Attendance!Window(S, Lesson, dates)
           windows == [d \in dates |-> Attendance!Window(S, Lesson, {d})]
<1>1. IsFiniteSet(whole)
    BY CellsAreFew
<1>2. \A d \in dates : windows[d] \subseteq whole
    BY InWindow
<1>3. \A d, e \in dates : d # e => windows[d] \cap windows[e] = {}
    BY InWindow
<1>4. \A c \in whole : \E d \in dates : c \in windows[d]
    <2> SUFFICES ASSUME NEW c \in whole PROVE c[3] \in dates /\ c \in windows[c[3]]
        OBVIOUS
    <2>1. c[3] \in dates
        BY InWindow
    <2> QED BY <2>1, InWindow
<1>5. \A d \in dates : windows[d] = Attendance!Window(S, Lesson, {d})
    OBVIOUS
<1> HIDE DEF windows, whole
<1>6. Attendance!Add([d \in dates |-> Attendance!Tally(windows[d])]) = Attendance!Tally(whole)
    BY <1>1, <1>2, <1>3, <1>4, FiguresAddUp
<1>7. [d \in dates |-> Attendance!Tally(windows[d])] =
        [d \in dates |-> Attendance!Tally(Attendance!Window(S, Lesson, {d}))]
    BY <1>5
<1> QED BY <1>6, <1>7 DEF whole

LEMMA SchoolFiguresAgree ==
    ASSUME Attendance!AttendanceAssumption, NEW dates \in SUBSET Day
    PROVE  Attendance!Add([s \in Attendee |-> Attendance!StudentStats(s, dates)]) = Attendance!SchoolSummary(dates)
<1> DEFINE whole == Attendance!Window(Attendee, Lesson, dates)
           windows == [s \in Attendee |-> Attendance!Window({s}, Lesson, dates)]
<1>1. IsFiniteSet(whole)
    BY CellsAreFew
<1>2. \A s \in Attendee : windows[s] \subseteq whole
    BY InWindow
<1>3. \A s, r \in Attendee : s # r => windows[s] \cap windows[r] = {}
    BY InWindow
<1>4. \A c \in whole : \E s \in Attendee : c \in windows[s]
    <2> SUFFICES ASSUME NEW c \in whole PROVE c[1] \in Attendee /\ c \in windows[c[1]]
        OBVIOUS
    <2>1. c[1] \in Attendee
        BY InWindow
    <2> QED BY <2>1, InWindow
<1>5. \A s \in Attendee : windows[s] = Attendance!Window({s}, Lesson, dates)
    OBVIOUS
<1>6. \A s \in Attendee :
        Attendance!StudentStats(s, dates) = Attendance!Tally(Attendance!Window({s}, Lesson, dates))
    <2> SUFFICES ASSUME NEW s \in Attendee
                 PROVE  Attendance!StudentStats(s, dates) = Attendance!Tally(Attendance!Window({s}, Lesson, dates))
        OBVIOUS
    <2>1. {s} \in SUBSET Attendee
        OBVIOUS
    <2> QED BY <2>1, StudentFigures DEF Attendance!StudentStats
<1> HIDE DEF windows, whole
<1>7. Attendance!Add([s \in Attendee |-> Attendance!Tally(windows[s])]) = Attendance!Tally(whole)
    BY <1>1, <1>2, <1>3, <1>4, FiguresAddUp
<1>8. [s \in Attendee |-> Attendance!Tally(windows[s])] =
        [s \in Attendee |-> Attendance!StudentStats(s, dates)]
    BY <1>5, <1>6
<1>9. Attendance!SchoolSummary(dates) = Attendance!Tally(whole)
    BY StudentFigures DEF Attendance!SchoolSummary, whole
<1> QED BY <1>7, <1>8, <1>9

LEMMA RegisterFigures ==
    ASSUME Attendance!AttendanceAssumption, roster \in Rolls PROVE Attendance!FiguresAgree
BY ClassFiguresAgree, SchoolFiguresAgree DEF Attendance!FiguresAgree

\* The roster and the marks are typed, and so is what a save has checked and not yet written.
RegisterInvariant ==
    /\ Attendance!TypeOK
    /\ DOMAIN request = Instructor
    /\ \A t \in Instructor : request[t] # None =>
        \A s \in DOMAIN request[t].status : request[t].status[s] \in Attendance!MarkStatus

LEMMA RegisterInit == Attendance!Init => RegisterInvariant
BY DEF Attendance!Init, RegisterInvariant, Attendance!TypeOK

LEMMA RegisterNext ==
    ASSUME RegisterInvariant, [Attendance!Next]_(Attendance!vars) PROVE RegisterInvariant'
<1>1. CASE UNCHANGED Attendance!vars
    BY <1>1 DEF RegisterInvariant, Attendance!TypeOK, Attendance!vars
<1>2. CASE Attendance!RosterChanges
    BY <1>2 DEF RegisterInvariant, Attendance!TypeOK, Attendance!RosterChanges
<1>3. ASSUME NEW t \in Instructor, NEW o, NEW date, NEW period, Attendance!AskMark(t, o, date, period)
      PROVE  RegisterInvariant'
    <2>1. PICK entries :
            /\ \A s \in DOMAIN entries : entries[s] \in Attendance!MarkStatus
            /\ request' = [request EXCEPT ![t] = [offering |-> o, date |-> date, period |-> period, status |-> entries]]
        BY <1>3 DEF Attendance!AskMark
    <2>2. DOMAIN request' = Instructor /\ \A u \in Instructor \ {t} : request'[u] = request[u]
        BY <2>1 DEF RegisterInvariant
    <2>3. request'[t].status = entries
        BY <2>1 DEF RegisterInvariant
    <2>4. Attendance!TypeOK'
        BY <1>3 DEF RegisterInvariant, Attendance!TypeOK, Attendance!AskMark
    <2> QED BY <2>1, <2>2, <2>3, <2>4 DEF RegisterInvariant
<1>4. ASSUME NEW t \in Instructor, Attendance!Mark(t) PROVE RegisterInvariant'
    <2>1. marks' = [c \in Attendance!Cell |->
            IF c[1] \in DOMAIN request[t].status /\ <<c[2], c[3], c[4]>> =
                    <<request[t].offering, request[t].date, request[t].period>>
            THEN request[t].status[c[1]] ELSE marks[c]]
        BY <1>4 DEF Attendance!Mark
    <2>2. \A s \in DOMAIN request[t].status : request[t].status[s] \in Attendance!MarkStatus
        BY <1>4 DEF RegisterInvariant, Attendance!Mark
    <2>3. Attendance!TypeOK'
        <3> HIDE DEF Attendance!Cell, Attendance!MarkStatus
        <3> QED BY <1>4, <2>1, <2>2 DEF RegisterInvariant, Attendance!TypeOK, Attendance!Mark
    <2>4. request' = [request EXCEPT ![t] = None]
        BY <1>4 DEF Attendance!Mark
    <2> QED BY <2>3, <2>4 DEF RegisterInvariant
<1> QED BY <1>1, <1>2, <1>3, <1>4 DEF Attendance!Next

LEMMA RegisterKept ==
    ASSUME Attendance!AttendanceAssumption, RegisterInvariant
    PROVE  Attendance!TypeOK /\ Attendance!RegisterIsMarkable /\ Attendance!FiguresAgree
BY RegisterMarkable, RegisterFigures DEF RegisterInvariant, Attendance!TypeOK

\* For any placements, picks, calendar and marks, the sheet a teacher opens lists who takes
\* the subject and who is marked in it; a save accepts the former only, so one that names a
\* marked student who has moved since is refused whole; the teacher may read about all who
\* take it; and the rows of a class add up to its teacher's figures and the students' to the
\* school's, whoever has moved since
\* (attendance.service.ts: rosterFor, mark, resolveTeacherStudentIds, getSectionSubjectSummary).
THEOREM RegistersAreOfOneMind ==
    ASSUME Attendance!AttendanceAssumption
    PROVE  Attendance!Spec => [](Attendance!RegisterIsMarkable /\ Attendance!FiguresAgree)
<1>1. RegisterInvariant => Attendance!RegisterIsMarkable /\ Attendance!FiguresAgree
    BY RegisterKept
<1>2. RegisterInvariant /\ [Attendance!Next]_(Attendance!vars) => RegisterInvariant'
    BY RegisterNext
<1> QED BY <1>1, <1>2, RegisterInit, PTL DEF Attendance!Spec

\* The same of the registers beside the roster, the families and the other parts of the
\* school year (attendance.service.ts).
THEOREM RegistersAlwaysAgree ==
    ASSUME Attendance!AttendanceAssumption PROVE MCSpec => []RegistersAgree
<1> DEFINE Inv == part = "registers" => RegisterInvariant
<1>1. Inv => RegistersAgree
    BY RegisterKept DEF RegistersAgree
<1>2. MCInit => Inv
    BY RegisterInit DEF MCInit
<1>3. Inv /\ [MCNext]_allVars => Inv'
    <2>1. CASE UNCHANGED allVars
        <3>1. UNCHANGED part /\ UNCHANGED Attendance!vars
            BY <2>1 DEF allVars, Attendance!vars
        <3> QED BY <3>1, RegisterNext
    <2>2. CASE MCNext
        <3>1. UNCHANGED part /\ (part = "registers" => Attendance!Next)
            BY <2>2 DEF MCNext, OthersRest, RegisterStep
        <3> QED BY <3>1, RegisterNext
    <2> QED BY <2>1, <2>2
<1> QED BY <1>1, <1>2, <1>3, PTL DEF MCSpec

=============================================================================
