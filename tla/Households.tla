------------------------------ MODULE Households ------------------------------
(***************************************************************************)
(* Households: members and their roles, single-use invites, accounts, and  *)
(* the inverters a household owns.  A request checks what its caller may   *)
(* do, then runs a transaction of isolation READ COMMITTED: each of its    *)
(* reads is a step of its own and sees what is committed then; its writes, *)
(* which lock the rows they touch until the commit, are one step with it.  *)
(* A request that is refused, fails or meets a stop of the server changes  *)
(* nothing, as one that takes no more steps.                               *)
(***************************************************************************)
EXTENDS Integers, FiniteSets

CONSTANTS
    Users, Houses, Invites, Inverters, None,
    Requests,           \* the requests handled at the same time
    MaxCalls,           \* bound of the requests made
    RegistrationOpen    \* ALLOW_REGISTRATION

ASSUME HouseholdConstants ==
    /\ None \notin Users \cup Houses \cup Invites \cup Inverters
    /\ Users \cap Houses = {}
    /\ IsFiniteSet(Users) /\ IsFiniteSet(Houses)
    /\ MaxCalls \in Nat /\ RegistrationOpen \in BOOLEAN

VARIABLES
    users,      \* User rows
    owned,      \* there is a ServerOwner row
    houses,     \* Household rows
    member,     \* Membership rows: the role of a user in a household, and id
    invite,     \* HouseholdInvite rows, with what became of them
    inverter,   \* InverterProfile rows: the household of each
    born,       \* households and inverters ever created: ids are not reused
    req,        \* the requests in progress
    calls,      \* requests made so far
    joined,     \* history: per invite, who joined by it
    lost,       \* history: inverters deleted with their household
    stale       \* history: a transaction wrote after another had changed
                \* what it read

rows == <<users, owned, houses, member, invite, inverter, born>>
past == <<joined, lost, stale>>
vars == <<rows, req, calls, past>>

Roles    == {"ADMIN", "READER"}
NoMember == [role |-> "NONE", id |-> 0]
NoInvite == [at |-> "none", house |-> None, role |-> "READER"]
Free     == [pc |-> "free"]

IsMember(u, h) == member[u][h].role # "NONE"
IsAdmin(u, h)  == member[u][h].role = "ADMIN"
Admins(h)      == {u \in Users : IsAdmin(u, h)}
AdminOf(u)     == {h \in Houses : IsAdmin(u, h)}
Busy(h)        == \E p \in Inverters : inverter[p] = h

\* Any state requests made one after the other lead to.
Init ==
    /\ users \in SUBSET Users /\ houses \in SUBSET Houses
    /\ owned = (users # {})
    /\ \E role \in [Users -> [Houses -> Roles \cup {"NONE"}]] :
         /\ \A u \in Users, h \in Houses :
              role[u][h] # "NONE" => u \in users /\ h \in houses
         /\ \A h \in houses : \E u \in users : role[u][h] = "ADMIN"
         /\ \A u \in users : Cardinality({h \in houses : role[u][h] = "ADMIN"}) <= 1
         /\ member = [u \in Users |-> [h \in Houses |->
                         [role |-> role[u][h],
                          id |-> IF role[u][h] = "NONE" THEN 0 ELSE 1]]]
    /\ inverter \in [Inverters -> houses \cup {None}]
    /\ invite \in [Invites -> [at : {"open"}, house : houses, role : Roles]
                              \cup {NoInvite}]
    /\ born = houses \cup {p \in Inverters : inverter[p] # None}
    /\ req = [q \in Requests |-> Free] /\ calls = 0
    /\ joined = [i \in Invites |-> {}] /\ lost = {} /\ stale = FALSE

-----------------------------------------------------------------------------
(* A request begins with a check of what its caller may do.                *)

Begin(q, r) ==
    /\ req[q].pc = "free" /\ calls < MaxCalls
    /\ req' = [req EXCEPT ![q] = r]
    /\ calls' = calls + 1
    /\ UNCHANGED <<rows, past>>

\* changeRole and remove; "role" is what the target is to become.
AskRole(q, by, h, t, role) ==
    /\ IsAdmin(by, h) \/ (role = "NONE" /\ by = t /\ IsMember(by, h))
    /\ Begin(q, [pc |-> "target", house |-> h, user |-> t, role |-> role,
                 id |-> 0, touched |-> {}])

AskInvite(q, by, h, role) ==
    /\ IsAdmin(by, h)
    /\ Begin(q, [pc |-> "invite", house |-> h, role |-> role, touched |-> {}])

AskRevoke(q, by, i) ==
    /\ invite[i].at # "none" /\ IsAdmin(by, invite[i].house)
    /\ Begin(q, [pc |-> "revoke", invite |-> i, touched |-> {}])

\* redeem, and register with a code: the invite is read, open and in time.
AskRedeem(q, u, i) ==
    /\ invite[i].at = "open"
    /\ Begin(q, [pc |-> IF u \in users THEN "memberships" ELSE "claim",
                 user |-> u, invite |-> i, new |-> u \notin users,
                 own |-> None, touched |-> {}])

\* register without a code, where sign-up is open or for the first account
AskRegister(q, u) ==
    /\ u \notin users /\ (RegistrationOpen \/ users = {})
    /\ Begin(q, [pc |-> "register", user |-> u, touched |-> {}])

\* InverterController.setup: the household the user runs is looked up.
AskPair(q, u, p) ==
    /\ p \notin born
    /\ \E h \in AdminOf(u) :
         Begin(q, [pc |-> "pair", house |-> h, inverter |-> p, touched |-> {}])

AskUnpair(q, u, p) ==
    /\ \E h \in AdminOf(u) : inverter[p] = h
    /\ Begin(q, [pc |-> "unpair", inverter |-> p, touched |-> {}])

-----------------------------------------------------------------------------
(* The reads of a transaction.                                             *)

Proceed(q, r) ==
    /\ req' = [req EXCEPT ![q] = r]
    /\ UNCHANGED <<rows, calls, past>>

\* Which count is made depends on the target's role now and then.
ReadTarget(q) ==
    /\ req[q].pc = "target"
    /\ LET r == req[q]
           m == member[r.user][r.house]
           at(pc) == [r EXCEPT !.pc = pc, !.id = m.id, !.touched = {}]
       IN  Proceed(q,
             CASE m.role = "NONE" -> Free
               [] m.role = "ADMIN" /\ r.role # "ADMIN" -> at("admins")
               [] m.role = "READER" /\ r.role = "ADMIN" -> at("elsewhere")
               [] OTHER -> at("write"))

\* A plausible bug: the last admin may go, only no admin may not.
CountAdminsNone(q) ==
    /\ req[q].pc = "admins"
    /\ Proceed(q, IF Admins(req[q].house) = {} THEN Free
                  ELSE [req[q] EXCEPT !.pc = "write"])

CountAdmins(q) ==
    /\ req[q].pc = "admins"
    /\ Proceed(q, IF Cardinality(Admins(req[q].house)) = 1 THEN Free
                  ELSE [req[q] EXCEPT !.pc = "write"])

CountElsewhere(q) ==
    /\ req[q].pc = "elsewhere"
    /\ Proceed(q, IF AdminOf(req[q].user) \ {req[q].house} # {} THEN Free
                  ELSE [req[q] EXCEPT !.pc = "write"])

\* redeemIn: a household of one's own is given up when it has no inverters; with
\* some, its admin may only join another as a reader.
ReadMemberships(q) ==
    /\ req[q].pc = "memberships"
    /\ LET r == req[q]
           i == invite[r.invite]
           own == AdminOf(r.user)
           claim(h) == [r EXCEPT !.pc = "claim", !.own = h, !.touched = {}]
       IN  \/ /\ IsMember(r.user, i.house)
              /\ Proceed(q, Free)
           \/ /\ ~IsMember(r.user, i.house) /\ own = {}
              /\ Proceed(q, claim(None))
           \/ /\ ~IsMember(r.user, i.house)
              /\ \E h \in own :
                   Proceed(q, IF ~Busy(h) THEN claim(h)
                              ELSE IF i.role = "ADMIN" THEN Free
                              ELSE claim(None))

-----------------------------------------------------------------------------
(* The writes of a transaction, and its commit.                            *)

\* A request ends; the households and users in `what` changed under the others.
End(q, what) ==
    req' = [r \in Requests |->
              IF r = q THEN Free
              ELSE IF req[r].pc = "free" THEN req[r]
              ELSE [req[r] EXCEPT !.touched = @ \cup what]]

Refuse(q) == End(q, {}) /\ UNCHANGED <<rows, calls, past>>

\* The membership is updated or deleted by its id.
WriteRole(q) ==
    /\ req[q].pc = "write"
    /\ LET r == req[q]
           m == member[r.user][r.house]
       IN  IF m.role # "NONE" /\ m.id = r.id
           THEN /\ member' = [member EXCEPT ![r.user][r.house].role = r.role]
                /\ stale' = (stale \/ r.house \in r.touched \/ r.user \in r.touched)
                /\ End(q, {r.user, r.house})
                /\ UNCHANGED <<users, owned, houses, invite, inverter, born, calls,
                               joined, lost>>
           ELSE Refuse(q)

CreateInvite(q) ==
    /\ req[q].pc = "invite"
    /\ IF req[q].house \notin houses THEN Refuse(q)
       ELSE /\ \E i \in Invites :
                 /\ invite[i].at = "none"
                 /\ invite' = [invite EXCEPT ![i] =
                       [at |-> "open", house |-> req[q].house, role |-> req[q].role]]
            /\ End(q, {})
            /\ UNCHANGED <<users, owned, houses, member, inverter, born, calls, past>>

\* The row is deleted, used or not.
Revoke(q) ==
    /\ req[q].pc = "revoke"
    /\ invite' = [invite EXCEPT ![req[q].invite].at = "deleted"]
    /\ End(q, {})
    /\ UNCHANGED <<users, owned, houses, member, inverter, born, calls, past>>

Expire(i) ==
    /\ invite[i].at = "open"
    /\ invite' = [invite EXCEPT ![i].at = "expired"]
    /\ UNCHANGED <<users, owned, houses, member, inverter, born, req, calls, past>>

\* A plausible bug: the invite is marked used whether it was or not.
UnusedAny(i) == invite[i].at # "deleted"

\* The conditional update of redeemIn finds the row, unused.
Unused(i) == invite[i].at \in {"open", "expired"}

\* A user's place in a household begins, with a new id.
Join(m, u, h, role) == [m EXCEPT ![u][h] = [role |-> role, id |-> @.id + 1]]

\* The household given up goes with all that is its; the invite is claimed; the
\* membership, and for register the account, is created.
Claim(q) ==
    /\ req[q].pc = "claim"
    /\ LET r == req[q]
           i == invite[r.invite]
           left == Join(member, r.user, i.house, i.role)
       IN  IF /\ Unused(r.invite) /\ i.house \in houses
              /\ r.own # None => r.own \in houses
              /\ ~IsMember(r.user, i.house) /\ r.new = (r.user \notin users)
           THEN /\ houses' = houses \ {r.own}
                /\ users' = users \cup {r.user} /\ owned' = (owned \/ r.new)
                /\ member' = [u \in Users |-> [h \in Houses |->
                                 IF h = r.own THEN [left[u][h] EXCEPT !.role = "NONE"]
                                 ELSE left[u][h]]]
                /\ invite' = [j \in Invites |->
                                 IF j = r.invite THEN [invite[j] EXCEPT !.at = "used"]
                                 ELSE IF invite[j].house = r.own /\ r.own # None
                                 THEN [invite[j] EXCEPT !.at = "deleted"]
                                 ELSE invite[j]]
                /\ lost' = lost \cup {p \in Inverters : inverter[p] = r.own /\ r.own # None}
                /\ inverter' = [p \in Inverters |->
                                   IF inverter[p] = r.own THEN None ELSE inverter[p]]
                /\ joined' = [joined EXCEPT ![r.invite] = @ \cup {r.user}]
                /\ stale' = (stale \/ r.user \in r.touched \/ r.own \in r.touched)
                /\ End(q, ({r.user, i.house, r.own} \ {None}) \cup
                          {u \in Users : r.own # None /\ IsMember(u, r.own)})
                /\ UNCHANGED <<born, calls>>
           ELSE Refuse(q)

\* A plausible bug: nobody becomes the server's owner.
CreateAccountUnowned(q) ==
    /\ req[q].pc = "register"
    /\ LET u == req[q].user IN
       IF u \in users THEN Refuse(q)
       ELSE \E h \in Houses \ born :
              /\ users' = users \cup {u} /\ houses' = houses \cup {h}
              /\ born' = born \cup {h}
              /\ member' = Join(member, u, h, "ADMIN")
              /\ End(q, {u, h})
              /\ UNCHANGED <<owned, invite, inverter, calls, past>>

\* The account, its own household and, for the first, the server's ownership.
CreateAccount(q) ==
    /\ req[q].pc = "register"
    /\ LET u == req[q].user IN
       IF u \in users THEN Refuse(q)
       ELSE \E h \in Houses \ born :
              /\ users' = users \cup {u} /\ houses' = houses \cup {h}
              /\ born' = born \cup {h}
              /\ member' = Join(member, u, h, "ADMIN")
              /\ owned' = TRUE
              /\ End(q, {u, h})
              /\ UNCHANGED <<invite, inverter, calls, past>>

Pair(q) ==
    /\ req[q].pc = "pair"
    /\ LET r == req[q] IN
       IF r.house \notin houses \/ r.inverter \in born THEN Refuse(q)
       ELSE /\ inverter' = [inverter EXCEPT ![r.inverter] = r.house]
            /\ born' = born \cup {r.inverter}
            /\ End(q, {r.house})
            /\ UNCHANGED <<users, owned, houses, member, invite, calls, past>>

Unpair(q) ==
    /\ req[q].pc = "unpair"
    /\ inverter' = [inverter EXCEPT ![req[q].inverter] = None]
    /\ End(q, {})
    /\ UNCHANGED <<users, owned, houses, member, invite, born, calls, past>>

-----------------------------------------------------------------------------

Ask(q) ==
    \E u \in Users :
        \/ \E h \in Houses :
             \/ \E t \in Users, role \in Roles \cup {"NONE"} : AskRole(q, u, h, t, role)
             \/ \E role \in Roles : AskInvite(q, u, h, role)
        \/ \E i \in Invites : AskRevoke(q, u, i) \/ AskRedeem(q, u, i)
        \/ \E p \in Inverters : AskPair(q, u, p) \/ AskUnpair(q, u, p)
        \/ AskRegister(q, u)

Read(q)  == ReadTarget(q) \/ CountAdmins(q) \/ CountElsewhere(q) \/ ReadMemberships(q)
Write(q) == WriteRole(q) \/ CreateInvite(q) \/ Revoke(q) \/ Claim(q)
            \/ CreateAccount(q) \/ Pair(q) \/ Unpair(q)

Next ==
    \/ \E q \in Requests : Ask(q) \/ Read(q) \/ Write(q)
    \/ \E i \in Invites : Expire(i)

Spec == Init /\ [][Next]_vars

-----------------------------------------------------------------------------
(* Properties.                                                             *)

Changed == SUBSET (Users \cup Houses)

\* The requests for a change of role, with an invite, and the others.
RoleRequest   == [pc : {"target", "admins", "elsewhere", "write"}, house : Houses,
                  user : Users, role : Roles \cup {"NONE"}, id : Nat, touched : Changed]
ClaimRequest  == [pc : {"memberships", "claim"}, user : Users, invite : Invites,
                  new : BOOLEAN, own : Houses \cup {None}, touched : Changed]
OtherRequest  == [pc : {"invite"}, house : Houses, role : Roles, touched : Changed]
                 \cup [pc : {"revoke"}, invite : Invites, touched : Changed]
                 \cup [pc : {"register"}, user : Users, touched : Changed]
                 \cup [pc : {"pair"}, house : Houses, inverter : Inverters,
                       touched : Changed]
                 \cup [pc : {"unpair"}, inverter : Inverters, touched : Changed]
Membership == [role : Roles \cup {"NONE"}, id : Nat]
Invite     == [at : {"none", "open", "expired", "used", "deleted"},
               house : Houses \cup {None}, role : Roles]

\* Every variable has its type, every row refers to rows that exist, and the
\* server has an owner from the first account on.
TypeOK ==
    /\ users \subseteq Users /\ houses \subseteq Houses /\ owned = (users # {})
    /\ member \in [Users -> [Houses -> Membership]]
    /\ \A u \in Users, h \in Houses : IsMember(u, h) => u \in users /\ h \in houses
    /\ invite \in [Invites -> Invite]
    /\ \A i \in Invites :
         invite[i].at \in {"open", "expired"} => invite[i].house \in houses
    /\ inverter \in [Inverters -> houses \cup {None}]
    /\ req \in [Requests -> {Free} \cup RoleRequest \cup ClaimRequest \cup OtherRequest]
    /\ joined \in [Invites -> SUBSET Users] /\ lost \subseteq Inverters
    /\ stale \in BOOLEAN /\ calls \in Nat

\* invites.service.ts:31-32 "a single-use code": however many redeem one code,
\* sign up with it or revoke it at once, one person at most joins by it, and
\* none by one that is still open.
SingleUse ==
    \A i \in Invites :
        /\ \A u, v \in joined[i] : u = v
        /\ joined[i] # {} => invite[i].at \in {"used", "deleted"}

\* members.service.ts:48 and invites.service.ts:82-85: as long as nobody acts on
\* what another request has changed, every household keeps an admin, nobody runs
\* two, and no inverter goes with a household, through any series of requests.
KeptInTurn ==
    ~stale =>
        /\ \A h \in houses : Admins(h) # {}
        /\ \A u \in users : Cardinality(AdminOf(u)) <= 1
        /\ lost = {}

\* README.md:98 "A household always keeps at least one admin."
AlwaysAnAdmin == \A h \in houses : Admins(h) # {}
=============================================================================
