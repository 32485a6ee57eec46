--------------------------- MODULE MCExamResults ---------------------------
EXTENDS ExamResults, TLC

\* A blank and a score that is above the smaller total.
MCEntries == {Blank, 2}

Symmetry == Permutations(Student) \cup Permutations(Paper) \cup Permutations(Saver)
=============================================================================
