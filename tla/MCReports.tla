----------------------------- MODULE MCReports -----------------------------
\* A line of every method, and one that belongs to no campaign.  The campaign's group is not in
\* shillings.
EXTENDS Reports

MethodOfDef == [i \in Lines |-> IF i = 1 THEN "M-Pesa" ELSE IF i = 2 THEN "Cash" ELSE "Till"]

BookingsDef == {<<Shown, "other">>, <<None, "KES">>}

BookedToDef == [i \in Lines |-> IF i = 3 THEN <<None, "KES">> ELSE <<Shown, "other">>]

=============================================================================
