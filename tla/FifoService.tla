---------------------------- MODULE FifoService -----------------------------
(***************************************************************************)
(* What a Logger link promises its callers, whatever the device does: the  *)
(* calls it accepts are served one at a time, in the order they were made, *)
(* and each is answered once.                                              *)
(***************************************************************************)
EXTENDS Integers

CONSTANT Tasks

VARIABLES
    place,    \* the position each accepted call was given, 0 before that
    phase     \* "new", "waiting", "active" or "answered"

fifoVars == <<place, phase>>

FifoInit ==
    /\ place = [t \in Tasks |-> 0]
    /\ phase = [t \in Tasks |-> "new"]

\* A call is accepted behind every call accepted before it.
Accept(t) ==
    /\ phase[t] = "new"
    /\ phase' = [phase EXCEPT ![t] = "waiting"]
    /\ place'[t] > 0
    /\ \A u \in Tasks : place[u] < place'[t]
    /\ place' = [place EXCEPT ![t] = place'[t]]

\* A call whose arguments are wrong is answered without being accepted.
Reject(t) ==
    /\ phase[t] = "new"
    /\ phase' = [phase EXCEPT ![t] = "answered"]
    /\ UNCHANGED place

\* Every call with an earlier place has been answered.
First(t) ==
    \A u \in Tasks :
        0 < place[u] /\ place[u] < place[t] => phase[u] = "answered"

Begin(t) ==
    /\ phase[t] = "waiting" /\ First(t)
    /\ phase' = [phase EXCEPT ![t] = "active"]
    /\ UNCHANGED place

\* The call is answered, perhaps without the device having been tried.
Answer(t) ==
    /\ \/ phase[t] = "active"
       \/ phase[t] = "waiting" /\ First(t)
    /\ phase' = [phase EXCEPT ![t] = "answered"]
    /\ UNCHANGED place

FifoNext ==
    \E t \in Tasks : Accept(t) \/ Reject(t) \/ Begin(t) \/ Answer(t)

FifoSpec == FifoInit /\ [][FifoNext]_fifoVars
=============================================================================
