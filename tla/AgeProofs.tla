------------------------------ MODULE AgeProofs ------------------------------
(***************************************************************************)
(* Age proofs derived from a stored date of birth (pkg/vc/zkp.go,          *)
(* api/zkp.go), on a calendar that is small but has what the code's        *)
(* comparison of year, month and day must survive: months of different     *)
(* lengths and a leap day.  Days pass one at a time; the reference counts  *)
(* the birthdays that have passed.                                         *)
(***************************************************************************)
EXTENDS Integers, FiniteSets

CONSTANTS
    MaxYear,     \* bound on the calendar
    Threshold,   \* age thresholds asked for
    maxThreshold, \* the largest threshold the handler accepts
    None

VARIABLES
    day,         \* today
    dob,         \* claims of the stored DOB credential, or None
    birthdays,   \* history: birthdays that have passed
    proof        \* the AgeProofResult issued last, or None

vars == <<day, dob, birthdays, proof>>

-----------------------------------------------------------------------------
(* The calendar: month 2 has a third day in even years. *)

Months == 1 .. 3
MonthLength(y, m) == IF m = 2 /\ y % 2 = 0 THEN 3 ELSE 2
Date == {d \in [y : 0 .. MaxYear, m : Months, d : 1 .. 3] : d.d <= MonthLength(d.y, d.m)}

NextDay(t) ==
    IF t.d < MonthLength(t.y, t.m) THEN [t EXCEPT !.d = @ + 1]
    ELSE IF t.m < 3 THEN [t EXCEPT !.m = @ + 1, !.d = 1]
    ELSE [y |-> t.y + 1, m |-> 1, d |-> 1]

(* A birthday on the leap day passes on the day after it in other years. *)
Anniversary(b, t) ==
    /\ t.y > b.y
    /\ \/ t.m = b.m /\ t.d = b.d
       \/ b.m = 2 /\ b.d = 3 /\ t.y % 2 # 0 /\ t.m = 3 /\ t.d = 1

-----------------------------------------------------------------------------
(* The code *)

(* parseDOB: a full date in either layout, or a year alone, which is read *)
(* as its first day.                                                      *)
parseDOB(claim) ==
    IF claim.layout = "year" THEN [y |-> claim.born.y, m |-> 1, d |-> 1] ELSE claim.born

\* Fault variant: on the birthday itself the year does not count yet.
ageFromDOBLate(b, now) ==
    LET years == now.y - b.y
    IN  IF now.m < b.m \/ (now.m = b.m /\ now.d <= b.d)
        THEN (IF years < 1 THEN 0 ELSE years - 1) ELSE (IF years < 0 THEN 0 ELSE years)

ageFromDOB(b, now) ==
    LET before == now.m < b.m \/ (now.m = b.m /\ now.d < b.d)
        years == now.y - b.y - (IF before THEN 1 ELSE 0)
    IN  IF years < 0 THEN 0 ELSE years

Init ==
    /\ day = [y |-> 0, m |-> 1, d |-> 1]
    /\ dob = None
    /\ birthdays = 0
    /\ proof = None

(* The credential is issued to someone born today; a newborn has passed   *)
(* no birthday.                                                           *)
StoreDOB(layout) ==
    /\ dob = None
    /\ dob' = [layout |-> layout, born |-> day]
    /\ birthdays' = 0
    /\ UNCHANGED <<day, proof>>

DayPasses ==
    /\ NextDay(day) \in Date
    /\ day' = NextDay(day)
    /\ birthdays' = IF dob # None /\ Anniversary(dob.born, NextDay(day))
                    THEN birthdays + 1 ELSE birthdays
    /\ UNCHANGED <<dob, proof>>

(* IssueAgeProof: the claims of the derived credential *)
IssueAgeProof(claim, threshold) ==
    [age_over |-> threshold, result |-> ageFromDOB(parseDOB(claim), day) >= threshold]

(* The DOB credential is stored, and is the subject's. *)
handleIssueAgeProof(threshold) ==
    /\ threshold > 0 /\ threshold <= maxThreshold
    /\ dob # None
    /\ proof' = [claims |-> IssueAgeProof(dob, threshold), truth |-> birthdays >= threshold]
    /\ UNCHANGED <<day, dob, birthdays>>

Next ==
    \/ \E layout \in {"date", "year"} : StoreDOB(layout)
    \/ DayPasses
    \/ \E threshold \in Threshold : handleIssueAgeProof(threshold)

Spec == Init /\ [][Next]_vars

-----------------------------------------------------------------------------

\* Every variable has its type.
TypeOK ==
    /\ day \in Date
    /\ dob # None => dob.born \in Date /\ dob.layout \in {"date", "year"}
    /\ birthdays \in 0 .. MaxYear
    /\ proof # None => proof.claims.age_over \in Threshold /\ proof.claims.result \in BOOLEAN

\* From a full date of birth the derived "age-over-N" (IssueAgeProof,
\* zkp.go:44, with ageFromDOB, zkp.go:130) is the truth on every day of the
\* calendar: on the birthday, the day before it, for a birthday on the leap
\* day and across the turn of the year.  A proof from a year alone never
\* understates the age.
AgeProofExact ==
    proof # None /\ dob # None =>
        /\ dob.layout = "date" => (proof.claims.result <=> proof.truth)
        /\ proof.truth => proof.claims.result

=============================================================================
