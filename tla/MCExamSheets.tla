---------------------------- MODULE MCExamSheets ----------------------------
EXTENDS ExamSheets, TLC

Symmetry == Permutations(Exam) \cup Permutations(Subject) \cup Permutations(Teacher)
=============================================================================
