--------------------------- MODULE MCOutageChecks ----------------------------
(***************************************************************************)
(* A house on two groups and one not on the site; days of two slots; pages *)
(* whose outages cross midnight, differ between the groups, move, end and  *)
(* leave a day out.                                                        *)
(***************************************************************************)
EXTENDS OutageChecks

MCAddresses == {"home", "unlisted"}
MCGroups    == {"g1", "g2"}
MCGroupsOf  == [home |-> {"g1", "g2"}, unlisted |-> None]
MCStatuses  == {"OFF", "POSSIBLE"}

Without(hours)  == {<<h, "OFF">> : h \in hours}
Doubtful(hours) == {<<h, "POSSIBLE">> : h \in hours}
Day(s1, s2)     == [g1 |-> s1, g2 |-> s2]
Page(d0, d1, w, x) ==
    [days |-> [d \in 0..1 |-> IF d = 0 THEN d0 ELSE d1], weekly |-> w, repair |-> x]
NoDay           == Day(None, None)

\* Over midnight; today cancelled for one group, with a repair; tomorrow alone.
MCPages ==
    {Page(Day(Without({1}), None), Day(Without({2}), Doubtful({3})), "w1", None),
     Page(Day(Without({}), Doubtful({0, 1})), NoDay, "w2", <<1, 3>>),
     Page(NoDay, Day(Without({3}), Without({2})), "w2", <<2, 4>>)}
=============================================================================
