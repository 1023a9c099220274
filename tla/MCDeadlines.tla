---------------------------- MODULE MCDeadlines ----------------------------
(* The days around a leap day and its anniversary, the retention before it, *)
(* and the dates on which the high-risk rules of the AI Act apply.           *)
EXTENDS Deadlines, TLC

Date(y, m, d) == [year |-> y, month |-> m, day |-> d]

MCStart == [high_risk  |-> {Date(2026, 8, 2), Date(2027, 8, 2)},
            prohibited |-> {Date(2025, 2, 2)}]
MCCategories == DOMAIN MCStart
MCAsOfDates == {Date(2024, 2, 29), Date(2026, 8, 2)}
MCDays == {Date(2024, 2, 29), Date(2024, 11, 30), Date(2025, 2, 28), Date(2025, 3, 1), Date(2026, 8, 2)}
MCIncidents == {"harm", "outage"}
MCSeverity == [harm |-> "fundamental_rights_infringement", outage |-> "critical_infrastructure_disruption"]
MCDetected == [harm |-> Date(2025, 2, 14), outage |-> Date(2025, 2, 26)]
Symmetry == Permutations(Systems)
=============================================================================
