----------------------------- MODULE MCInverter ------------------------------
(***************************************************************************)
(* The link to a logger and the loops that poll through it.  Polling meets *)
(* a link only by its address and whether it answers, so a run takes one   *)
(* of the two, picked by the initial state, and the other rests.           *)
(***************************************************************************)
EXTENDS Polling, LoggerLink, TLC

VARIABLE part

InverterInit ==
    /\ part \in {"link", "polling"}
    /\ PollingInit /\ (part # "polling" => everPaired = {})
    /\ Init

InverterNext ==
    /\ UNCHANGED part
    /\ \/ part = "link" /\ Next /\ UNCHANGED pollingVars
       \/ part = "polling" /\ PollingNext /\ UNCHANGED vars

InverterSpec == InverterInit /\ [][InverterNext]_<<part, pollingVars, vars>>

\* Requests, profiles, addresses and jobs are interchangeable, and so are the
\* tasks of the link.
InverterSymmetry ==
    Permutations(Callers) \cup Permutations(Profiles) \cup Permutations(Addresses)
        \cup Permutations(JobIds) \cup Permutations(Tasks)
==============================================================================
