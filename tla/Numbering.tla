------------------------------ MODULE Numbering ------------------------------
(***************************************************************************)
(* The numbers a new account is given when its form leaves them empty      *)
(* (users.service.ts): the admission number follows the last one in text   *)
(* order, the roll number and the staff code follow the greatest one.      *)
(* Each is unique in the school; two forms saved at once may be given the  *)
(* same number, and the one that is refused is given another.  A number is *)
(* its text after the fixed prefix: digits, padded to a width, and in one  *)
(* that somebody typed possibly a letter.                                  *)
(***************************************************************************)
EXTENDS Integers, Sequences, FiniteSets

CONSTANTS
    Clerk,
    Scheme,         \* "roll" (and staff codes), or "admission"
    Base, Width,    \* ten digits and four places in the code
    Typed,          \* the texts that are typed in
    MaxRetries,     \* 5
    None

VARIABLES
    used,       \* the texts in the table
    call,       \* by clerk: None, or the text chosen, the attempts and the rivals met
    refusals    \* history: how many rivals had been saved since each refused form was sent

vars == <<used, call, refusals>>

Digits == 0..(Base - 1)
Power[n \in 0..8] == IF n = 0 THEN 1 ELSE Base * Power[n - 1]

\* String(n).padStart(Width, '0')
Text(n) ==
    LET size == CHOOSE k \in Width..8 : n < Power[k] /\ (k = Width \/ n >= Power[k - 1])
    IN  [i \in 1..size |-> (n \div Power[size - i]) % Base]

Leading(t) == {k \in 0..Len(t) : \A i \in 1..k : t[i] \in Digits}
NumberUpTo(t, k) == LET value[i \in 0..k] == IF i = 0 THEN 0 ELSE value[i - 1] * Base + t[i] IN value[k]

\* parseInt: the leading digits, or nothing.
Parsed(t) ==
    LET k == CHOOSE k \in Leading(t) : \A j \in Leading(t) : j <= k
    IN  IF k = 0 THEN None ELSE NumberUpTo(t, k)

\* Text order.
Before(t, u) ==
    \E k \in 0..Len(t) :
        /\ k <= Len(u) /\ \A i \in 1..k : t[i] = u[i]
        /\ IF k = Len(t) THEN k < Len(u) ELSE k < Len(u) /\ t[k + 1] < u[k + 1]

\* generateAdmissionNo: after the last in text order.
NextAdmission ==
    IF used = {} THEN Text(1)
    ELSE LET latest == CHOOSE t \in used : \A u \in used : u = t \/ Before(u, t)
         IN  IF Parsed(latest) = None THEN Text(1) ELSE Text(Parsed(latest) + 1)

\* Mutant of NextRoll: it too follows the last in text order.
NextRollLatest == NextAdmission

\* generateRollNo, generateUserCode: after the greatest that is all digits.
NextRoll ==
    LET values == {NumberUpTo(t, Len(t)) : t \in {u \in used : Len(u) \in Leading(u)}} \union {0}
    IN  Text((CHOOSE n \in values : \A m \in values : m <= n) + 1)

NextNumber == IF Scheme = "admission" THEN NextAdmission ELSE NextRoll

-----------------------------------------------------------------------------
Init == used = {} /\ call = [c \in Clerk |-> None] /\ refusals = {}

\* One more form is saved beside those in flight; counted as far as it matters.
Saved(t, others) ==
    /\ used' = used \union {t}
    /\ call' = [c \in Clerk |->
            IF call[c] = None \/ c \notin others THEN None
            ELSE [call[c] EXCEPT !.rivals = IF @ > MaxRetries THEN @ ELSE @ + 1]]

\* create, with the number typed: a duplicate is refused.
SaveTyped(t) == t \notin used /\ Saved(t, Clerk) /\ UNCHANGED refusals

\* create, with the number left empty.
Choose(c) ==
    /\ call[c] = None
    /\ call' = [call EXCEPT ![c] = [text |-> NextNumber, attempt |-> 0, rivals |-> 0]]
    /\ UNCHANGED <<used, refusals>>

Insert(c) ==
    /\ call[c] # None /\ call[c].text \notin used
    /\ Saved(call[c].text, Clerk \ {c})
    /\ UNCHANGED refusals

\* The unique index refuses the number: another one is chosen, a few times.
Collide(c) ==
    /\ call[c] # None /\ call[c].text \in used
    /\ IF call[c].attempt < MaxRetries
       THEN /\ call' = [call EXCEPT ![c].text = NextNumber, ![c].attempt = @ + 1]
            /\ UNCHANGED refusals
       ELSE /\ call' = [call EXCEPT ![c] = None]
            /\ refusals' = refusals \union {call[c].rivals}
    /\ UNCHANGED used

\* remove, and an edit that clears the number or types another.
Free(t) == t \in used /\ used' = used \ {t} /\ UNCHANGED <<call, refusals>>

Next ==
    \/ \E t \in Typed : SaveTyped(t)
    \/ \E c \in Clerk : Choose(c) \/ Insert(c) \/ Collide(c)
    \/ \E t \in used : Free(t)

Spec == Init /\ [][Next]_vars

-----------------------------------------------------------------------------
\* "Auto-generated numbers can collide under a concurrent create (unique constraint) -
\* retry a few times": a form whose number was left empty is refused only after as
\* many rivals as attempts were saved beside it, whatever was typed or deleted before.
RefusedOnlyByRivals == \A n \in refusals : n > MaxRetries
=============================================================================
