-------------------------- MODULE MCOutageReminders --------------------------
(* Instances of OutageReminders for TLC.                                    *)
EXTENDS OutageReminders

\* Days of two hours: without power and without for the first half, doubtful and
\* without for the second half, which may join what the next day begins with.
TwoHourDays == {<<"no", "first">>, <<"maybe", "second">>}
DaysOfTwo   == {[h \in 0..1 |-> day[h + 1]] : day \in TwoHourDays}

\* One is told early, and of possible outages too, one late and of certain ones.
EarlyAndLate == {"early", "late"}
LeadOf       == [u \in EarlyAndLate |-> IF u = "early" THEN 3 ELSE 1]
PossibleFor  == [u \in EarlyAndLate |-> u = "early"]

RemindersSpec == InitReminders /\ [][RemindersNext]_reminderVars
==============================================================================
