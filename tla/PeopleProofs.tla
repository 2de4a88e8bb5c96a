----------------------------- MODULE PeopleProofs -----------------------------
(***************************************************************************)
(* Proofs about the parts of MCPeople: the households, for every set of     *)
(* users, households, invites and requests, and any number of calls; the    *)
(* sessions, for every set of tabs and browsers and any number of refresh   *)
(* tokens and calls; the pages of the web app, for every set of keys and    *)
(* standings; and the notification choices, for every set of alerts and     *)
(* leads.                                                                   *)
(***************************************************************************)
EXTENDS MCPeople, FiniteSetTheorems, TLAPS

-----------------------------------------------------------------------------
(* The households.                                                         *)
USE HouseholdConstants

AnyRequest == {Free} \cup RoleRequest \cup ClaimRequest \cup OtherRequest

\* SingleUse says what is needed of an invite not yet used: nobody has joined by
\* it; it and the types of the rows are kept by every step.
HouseholdInv == TypeOK /\ SingleUse

-----------------------------------------------------------------------------
(* Facts about requests.                                                   *)

\* What a request is doing tells what it consists of.
LEMMA RequestKinds ==
    ASSUME NEW r \in AnyRequest
    PROVE  /\ r.pc \in {"target", "admins", "elsewhere", "write"} => r \in RoleRequest
           /\ r.pc \in {"memberships", "claim"} => r \in ClaimRequest
           /\ r.pc = "invite" => r.house \in Houses /\ r.role \in Roles
           /\ r.pc = "revoke" => r.invite \in Invites
           /\ r.pc = "register" => r.user \in Users
           /\ r.pc = "pair" => r.house \in Houses /\ r.inverter \in Inverters
           /\ r.pc = "unpair" => r.inverter \in Inverters
BY DEF AnyRequest, RoleRequest, ClaimRequest, OtherRequest, Free

\* A request remains one when more rows have changed under it.
LEMMA TouchedType ==
    ASSUME NEW r \in AnyRequest, r.pc # "free", NEW what \in Changed
    PROVE  [r EXCEPT !.touched = @ \cup what] \in AnyRequest
<1>1. CASE r \in RoleRequest
  <2>1. [r EXCEPT !.touched = @ \cup what] \in RoleRequest
    BY <1>1 DEF RoleRequest, Changed
  <2> QED BY <2>1 DEF AnyRequest
<1>2. CASE r \in ClaimRequest
  <2>1. [r EXCEPT !.touched = @ \cup what] \in ClaimRequest
    BY <1>2 DEF ClaimRequest, Changed
  <2> QED BY <2>1 DEF AnyRequest
<1>3. CASE r \in OtherRequest
  <2>1. [r EXCEPT !.touched = @ \cup what] \in OtherRequest
    BY <1>3 DEF OtherRequest, Changed
  <2> QED BY <2>1 DEF AnyRequest
<1> QED BY <1>1, <1>2, <1>3 DEF AnyRequest, Free

LEMMA EndType ==
    ASSUME TypeOK, NEW q \in Requests, NEW what \in Changed, End(q, what)
    PROVE  req' \in [Requests -> AnyRequest]
<1>1. ASSUME NEW r \in Requests
      PROVE  (IF r = q THEN Free
              ELSE IF req[r].pc = "free" THEN req[r]
              ELSE [req[r] EXCEPT !.touched = @ \cup what]) \in AnyRequest
  <2>1. req[r] \in AnyRequest
    BY DEF TypeOK, AnyRequest
  <2> QED BY <2>1, TouchedType DEF AnyRequest
<1> QED BY <1>1 DEF End

-----------------------------------------------------------------------------
(* The invariant.                                                          *)

LEMMA Initial == Init => HouseholdInv
<1> SUFFICES ASSUME Init PROVE HouseholdInv
  OBVIOUS
<1> USE DEF Init
<1>1. member \in [Users -> [Houses -> Membership]]
  BY DEF Membership, Roles
<1>2. \A u \in Users, h \in Houses : IsMember(u, h) => u \in users /\ h \in houses
  BY DEF IsMember
<1>3. invite \in [Invites -> Invite]
  BY DEF Invite, NoInvite, Roles
<1>4. \A i \in Invites :
        invite[i].at \in {"open", "expired"} => invite[i].house \in houses
  BY DEF NoInvite
<1>5. SingleUse
  BY DEF SingleUse
<1> QED BY <1>1, <1>2, <1>3, <1>4, <1>5 DEF HouseholdInv, TypeOK

\* A request that only begins or reads leaves every row alone.
LEMMA RowsKept ==
    ASSUME HouseholdInv, UNCHANGED <<rows, past>>, req' \in [Requests -> AnyRequest],
           calls' \in Nat
    PROVE  HouseholdInv'
BY DEF HouseholdInv, TypeOK, SingleUse, IsMember, rows, past, AnyRequest

LEMMA AskStep ==
    ASSUME HouseholdInv, NEW q \in Requests, Ask(q)
    PROVE  HouseholdInv'
<1> USE DEF HouseholdInv, TypeOK
<1>1. ASSUME NEW r \in AnyRequest, Begin(q, r)
      PROVE  HouseholdInv'
  BY <1>1, RowsKept DEF Begin, AnyRequest
<1>2. {} \in Changed
  BY DEF Changed
<1>3. PICK u \in Users :
        \/ \E h \in Houses :
             \/ \E t \in Users, role \in Roles \cup {"NONE"} : AskRole(q, u, h, t, role)
             \/ \E role \in Roles : AskInvite(q, u, h, role)
        \/ \E i \in Invites : AskRevoke(q, u, i) \/ AskRedeem(q, u, i)
        \/ \E p \in Inverters : AskPair(q, u, p) \/ AskUnpair(q, u, p)
        \/ AskRegister(q, u)
  BY DEF Ask
<1>4. ASSUME NEW h \in Houses, NEW t \in Users, NEW role \in Roles \cup {"NONE"},
             AskRole(q, u, h, t, role)
      PROVE  HouseholdInv'
  BY <1>1, <1>2, <1>4 DEF AskRole, AnyRequest, RoleRequest
<1>5. ASSUME NEW h \in Houses, NEW role \in Roles, AskInvite(q, u, h, role)
      PROVE  HouseholdInv'
  BY <1>1, <1>2, <1>5 DEF AskInvite, AnyRequest, OtherRequest
<1>6. ASSUME NEW i \in Invites, AskRevoke(q, u, i)
      PROVE  HouseholdInv'
  BY <1>1, <1>2, <1>6 DEF AskRevoke, AnyRequest, OtherRequest
<1>7. ASSUME NEW i \in Invites, AskRedeem(q, u, i)
      PROVE  HouseholdInv'
  BY <1>1, <1>2, <1>7 DEF AskRedeem, AnyRequest, ClaimRequest
<1>8. ASSUME NEW p \in Inverters, AskPair(q, u, p)
      PROVE  HouseholdInv'
  BY <1>1, <1>2, <1>8 DEF AskPair, AdminOf, AnyRequest, OtherRequest
<1>9. ASSUME NEW p \in Inverters, AskUnpair(q, u, p)
      PROVE  HouseholdInv'
  BY <1>1, <1>2, <1>9 DEF AskUnpair, AnyRequest, OtherRequest
<1>10. ASSUME AskRegister(q, u)
       PROVE  HouseholdInv'
  BY <1>1, <1>2, <1>10 DEF AskRegister, AnyRequest, OtherRequest
<1> QED BY <1>3, <1>4, <1>5, <1>6, <1>7, <1>8, <1>9, <1>10

LEMMA ReadStep ==
    ASSUME HouseholdInv, NEW q \in Requests, Read(q)
    PROVE  HouseholdInv'
<1> DEFINE r == req[q]
<1>0. r \in AnyRequest /\ Free \in AnyRequest /\ {} \in Changed
  BY DEF HouseholdInv, TypeOK, AnyRequest, Changed
<1>1. ASSUME NEW s \in AnyRequest, Proceed(q, s)
      PROVE  HouseholdInv'
  BY <1>1, RowsKept DEF Proceed, HouseholdInv, TypeOK, AnyRequest
<1>2. ASSUME r \in RoleRequest,
             NEW pc \in {"target", "admins", "elsewhere", "write"}, NEW id \in Nat
      PROVE  /\ [r EXCEPT !.pc = pc] \in AnyRequest
             /\ [r EXCEPT !.pc = pc, !.id = id, !.touched = {}] \in AnyRequest
  <2>1. /\ [r EXCEPT !.pc = pc] \in RoleRequest
        /\ [r EXCEPT !.pc = pc, !.id = id, !.touched = {}] \in RoleRequest
    BY <1>0, <1>2 DEF RoleRequest
  <2> QED BY <2>1 DEF AnyRequest
<1>3. ASSUME r \in ClaimRequest, NEW h \in Houses \cup {None}
      PROVE  [r EXCEPT !.pc = "claim", !.own = h, !.touched = {}] \in AnyRequest
  <2>1. [r EXCEPT !.pc = "claim", !.own = h, !.touched = {}] \in ClaimRequest
    BY <1>0, <1>3 DEF ClaimRequest
  <2> QED BY <2>1 DEF AnyRequest
<1>4. CASE ReadTarget(q)
  <2>1. r \in RoleRequest
    BY <1>0, <1>4, RequestKinds DEF ReadTarget
  <2>2. member[r.user][r.house].id \in Nat
    BY <2>1 DEF RoleRequest, HouseholdInv, TypeOK, Membership
  <2> QED BY <1>0, <1>1, <1>2, <1>4, <2>1, <2>2 DEF ReadTarget
<1>5. CASE CountAdmins(q)
  <2>1. r \in RoleRequest
    BY <1>0, <1>5, RequestKinds DEF CountAdmins
  <2> QED BY <1>0, <1>1, <1>2, <1>5, <2>1 DEF CountAdmins
<1>6. CASE CountElsewhere(q)
  <2>1. r \in RoleRequest
    BY <1>0, <1>6, RequestKinds DEF CountElsewhere
  <2> QED BY <1>0, <1>1, <1>2, <1>6, <2>1 DEF CountElsewhere
<1>7. CASE ReadMemberships(q)
  <2>1. r \in ClaimRequest
    BY <1>0, <1>7, RequestKinds DEF ReadMemberships
  <2> QED BY <1>0, <1>1, <1>3, <1>7, <2>1 DEF ReadMemberships, AdminOf
<1> QED BY <1>4, <1>5, <1>6, <1>7 DEF Read

-----------------------------------------------------------------------------
(* The writes.                                                             *)

LEMMA RefuseStep ==
    ASSUME HouseholdInv, NEW q \in Requests, Refuse(q)
    PROVE  HouseholdInv'
<1>1. {} \in Changed
  BY DEF Changed
<1>2. req' \in [Requests -> AnyRequest]
  BY <1>1, EndType DEF Refuse, HouseholdInv
<1> QED BY <1>2, RowsKept DEF Refuse, HouseholdInv, TypeOK

LEMMA WriteRoleStep ==
    ASSUME HouseholdInv, NEW q \in Requests, WriteRole(q)
    PROVE  HouseholdInv'
<1> DEFINE r == req[q]
<1>1. r \in RoleRequest
  BY RequestKinds DEF WriteRole, HouseholdInv, TypeOK, AnyRequest
<1>2. CASE Refuse(q)
  BY <1>2, RefuseStep
<1>3. CASE ~Refuse(q)
  <2>1. /\ IsMember(r.user, r.house)
        /\ member' = [member EXCEPT ![r.user][r.house].role = r.role]
        /\ stale' \in BOOLEAN
        /\ End(q, {r.user, r.house})
        /\ UNCHANGED <<users, owned, houses, invite, inverter, born, calls,
                       joined, lost>>
    BY <1>3 DEF WriteRole, IsMember
  <2>2. {r.user, r.house} \in Changed
    BY <1>1 DEF RoleRequest, Changed
  <2>3. req' \in [Requests -> AnyRequest]
    BY <2>1, <2>2, EndType DEF HouseholdInv
  <2>4. member' \in [Users -> [Houses -> Membership]]
    <3>1. [member[r.user][r.house] EXCEPT !.role = r.role] \in Membership
      BY <1>1 DEF HouseholdInv, TypeOK, Membership, RoleRequest
    <3>2. member[r.user] \in [Houses -> Membership]
      BY <1>1 DEF HouseholdInv, TypeOK, RoleRequest
    <3>3. [member[r.user] EXCEPT ![r.house].role = r.role]
             \in [Houses -> Membership]
      BY <3>1, <3>2
    <3> QED BY <2>1, <3>3 DEF HouseholdInv, TypeOK
  <2>5. \A u \in Users, h \in Houses :
          IsMember(u, h)' => u \in users /\ h \in houses
    BY <1>1, <2>1 DEF HouseholdInv, TypeOK, Membership, RoleRequest, IsMember
  <2> QED
    BY <2>1, <2>3, <2>4, <2>5 DEF HouseholdInv, TypeOK, SingleUse, AnyRequest
<1> QED BY <1>2, <1>3

LEMMA CreateInviteStep ==
    ASSUME HouseholdInv, NEW q \in Requests, CreateInvite(q)
    PROVE  HouseholdInv'
<1> DEFINE r == req[q]
<1>1. r.house \in Houses /\ r.role \in Roles
  BY RequestKinds DEF CreateInvite, HouseholdInv, TypeOK, AnyRequest
<1>2. CASE Refuse(q)
  BY <1>2, RefuseStep
<1>3. CASE ~Refuse(q)
  <2>1. PICK i \in Invites :
          /\ invite[i].at = "none"
          /\ invite' = [invite EXCEPT ![i] =
                           [at |-> "open", house |-> r.house, role |-> r.role]]
    BY <1>3 DEF CreateInvite
  <2>2. /\ r.house \in houses
        /\ End(q, {})
        /\ UNCHANGED <<users, owned, houses, member, inverter, born, calls, past>>
    BY <1>3 DEF CreateInvite
  <2>3. req' \in [Requests -> AnyRequest]
    BY <2>2, EndType DEF HouseholdInv, Changed
  <2>4. /\ invite' \in [Invites -> Invite]
        /\ \A j \in Invites :
             invite'[j].at \in {"open", "expired"} => invite'[j].house \in houses
    BY <1>1, <2>1, <2>2 DEF HouseholdInv, TypeOK, Invite
  <2>5. SingleUse'
    BY <2>1, <2>2 DEF HouseholdInv, TypeOK, SingleUse, past, Invite
  <2> QED
    BY <2>2, <2>3, <2>4, <2>5 DEF HouseholdInv, TypeOK, IsMember, AnyRequest, past
<1> QED BY <1>2, <1>3

\* Deleting or expiring an unused invite brings nobody in.
LEMMA InviteEnds ==
    ASSUME HouseholdInv, NEW i \in Invites, NEW at \in {"expired", "deleted"},
           at = "expired" => invite[i].at = "open",
           invite' = [invite EXCEPT ![i].at = at],
           UNCHANGED <<users, owned, houses, member, inverter, past>>,
           req' \in [Requests -> AnyRequest], calls' = calls
    PROVE  HouseholdInv'
<1>0. [invite[i] EXCEPT !.at = at] \in Invite
  <2>1. invite[i] \in Invite
    BY DEF HouseholdInv, TypeOK
  <2> QED BY <2>1 DEF Invite
<1>1. /\ invite' \in [Invites -> Invite]
      /\ \A j \in Invites :
           invite'[j].at \in {"open", "expired"} => invite'[j].house \in houses
  BY <1>0 DEF HouseholdInv, TypeOK, Invite
<1>2. SingleUse'
  BY <1>0 DEF HouseholdInv, TypeOK, SingleUse, past, Invite
<1> QED BY <1>1, <1>2 DEF HouseholdInv, TypeOK, IsMember, AnyRequest, past

LEMMA RevokeStep ==
    ASSUME HouseholdInv, NEW q \in Requests, Revoke(q)
    PROVE  HouseholdInv'
<1>1. req[q].invite \in Invites
  BY RequestKinds DEF Revoke, HouseholdInv, TypeOK, AnyRequest
<1>2. req' \in [Requests -> AnyRequest]
  BY EndType DEF Revoke, HouseholdInv, Changed
<1> QED BY <1>1, <1>2, InviteEnds DEF Revoke

\* Redeeming finds the invite unused, so nobody has joined by it; the household
\* given up takes its memberships, its invites and its inverters with it.
LEMMA ClaimStep ==
    ASSUME HouseholdInv, NEW q \in Requests, Claim(q)
    PROVE  HouseholdInv'
<1> DEFINE r == req[q]
           i == invite[r.invite]
           left == Join(member, r.user, i.house, i.role)
<1>1. r \in ClaimRequest
  BY RequestKinds DEF Claim, HouseholdInv, TypeOK, AnyRequest
<1>2. /\ r.user \in Users /\ r.invite \in Invites /\ r.new \in BOOLEAN
      /\ r.own \in Houses \cup {None}
      /\ i \in Invite
  BY <1>1 DEF ClaimRequest, HouseholdInv, TypeOK
<1>3. CASE Refuse(q)
  BY <1>3, RefuseStep
<1>4. CASE ~Refuse(q)
  <2>1. /\ Unused(r.invite) /\ i.house \in houses
        /\ r.new = (r.user \notin users)
    BY <1>4 DEF Claim
  <2>2. /\ houses' = houses \ {r.own}
        /\ users' = users \cup {r.user} /\ owned' = (owned \/ r.new)
        /\ inverter' = [p \in Inverters |->
                           IF inverter[p] = r.own THEN None ELSE inverter[p]]
        /\ joined' = [joined EXCEPT ![r.invite] = @ \cup {r.user}]
        /\ lost' \subseteq Inverters /\ stale' \in BOOLEAN
        /\ UNCHANGED <<born, calls>>
    BY <1>4 DEF Claim, HouseholdInv, TypeOK
  <2>3. member' = [u \in Users |-> [h \in Houses |->
                      IF h = r.own THEN [left[u][h] EXCEPT !.role = "NONE"]
                      ELSE left[u][h]]]
    BY <1>4 DEF Claim
  <2>4. invite' = [j \in Invites |->
                      IF j = r.invite THEN [invite[j] EXCEPT !.at = "used"]
                      ELSE IF invite[j].house = r.own /\ r.own # None
                      THEN [invite[j] EXCEPT !.at = "deleted"]
                      ELSE invite[j]]
    BY <1>4 DEF Claim
  <2>5. req' \in [Requests -> AnyRequest]
    <3>1. PICK what \in Changed : End(q, what)
      <4>1. ({r.user, i.house, r.own} \ {None}) \cup
              {u \in Users : r.own # None /\ IsMember(u, r.own)} \in Changed
        BY <1>2, <2>1 DEF Changed, HouseholdInv, TypeOK
      <4> QED BY <1>4, <4>1 DEF Claim
    <3> QED BY <3>1, EndType DEF HouseholdInv
  <2>6. /\ left \in [Users -> [Houses -> Membership]]
        /\ \A u \in Users, h \in Houses :
             left[u][h].role # "NONE" => u \in users' /\ h \in houses
    <3> DEFINE n == [role |-> i.role, id |-> member[r.user][i.house].id + 1]
    <3>1. r.user \in Users /\ i.house \in Houses /\ member \in [Users -> [Houses -> Membership]]
      BY <1>2, <2>1 DEF HouseholdInv, TypeOK
    <3>2. n \in Membership
      BY <1>2, <3>1 DEF Membership, Invite
    <3>3. left = [member EXCEPT ![r.user][i.house] = n]
      BY DEF Join
    <3>4. left \in [Users -> [Houses -> Membership]]
      <4> HIDE DEF n
      <4> QED BY <3>1, <3>2, <3>3
    <3>5. \A u \in Users, h \in Houses :
            left[u][h] = IF u = r.user /\ h = i.house THEN n ELSE member[u][h]
      <4> HIDE DEF n
      <4> QED BY <3>1, <3>3
    <3>6. ASSUME NEW u \in Users, NEW h \in Houses, left[u][h].role # "NONE"
          PROVE  u \in users' /\ h \in houses
      <4>1. CASE u = r.user /\ h = i.house
        BY <2>1, <2>2, <4>1
      <4>2. CASE ~(u = r.user /\ h = i.house)
        <5>1. member[u][h].role # "NONE"
          <6> HIDE DEF n
          <6> QED BY <3>5, <3>6, <4>2
        <5> QED BY <2>2, <5>1 DEF HouseholdInv, TypeOK, IsMember
      <4> QED BY <4>1, <4>2
    <3> QED BY <3>4, <3>6
  <2>7. /\ member' \in [Users -> [Houses -> Membership]]
        /\ \A u \in Users, h \in Houses :
             IsMember(u, h)' => u \in users' /\ h \in houses'
    <3> HIDE DEF left
    <3>1. \A m \in Membership :
            /\ [m EXCEPT !.role = "NONE"] \in Membership
            /\ [m EXCEPT !.role = "NONE"].role = "NONE"
      BY DEF Membership
    <3>2. \A u \in Users, h \in Houses :
            member'[u][h] = IF h = r.own THEN [left[u][h] EXCEPT !.role = "NONE"]
                            ELSE left[u][h]
      BY <2>3
    <3>3. ASSUME NEW u \in Users, NEW h \in Houses
          PROVE  /\ member'[u][h] \in Membership
                 /\ h = r.own => member'[u][h].role = "NONE"
      <4>1. left[u][h] \in Membership
        BY <2>6
      <4>2. CASE h = r.own
        <5>1. member'[u][h] = [left[u][h] EXCEPT !.role = "NONE"]
          BY <3>2, <4>2
        <5> QED BY <3>1, <4>1, <5>1
      <4>3. CASE h # r.own
        BY <3>2, <4>1, <4>3
      <4> QED BY <4>2, <4>3
    <3>4. member' \in [Users -> [Houses -> Membership]]
      BY <2>3, <3>2, <3>3
    <3>5. ASSUME NEW u \in Users, NEW h \in Houses, member'[u][h].role # "NONE"
          PROVE  u \in users' /\ h \in houses'
      <4>1. h # r.own
        BY <3>3, <3>5
      <4> QED BY <2>2, <2>6, <3>2, <3>5, <4>1
    <3> QED BY <3>4, <3>5 DEF IsMember
  <2>8. \A j \in Invites :
          /\ invite'[j] \in Invite
          /\ invite'[j].house = invite[j].house
          /\ invite'[j].at \in {invite[j].at, "used", "deleted"}
          /\ j = r.invite => invite'[j].at = "used"
          /\ j # r.invite /\ invite[j].house = r.own /\ r.own # None
             => invite'[j].at = "deleted"
    <3>1. \A v \in Invite, at \in {"used", "deleted"} :
            /\ [v EXCEPT !.at = at] \in Invite
            /\ [v EXCEPT !.at = at].house = v.house
            /\ [v EXCEPT !.at = at].at = at
      BY DEF Invite
    <3> QED BY <2>4, <3>1 DEF HouseholdInv, TypeOK
  <2>9. /\ invite' \in [Invites -> Invite]
        /\ \A j \in Invites :
             invite'[j].at \in {"open", "expired"} => invite'[j].house \in houses'
    <3>1. None \notin houses
      BY DEF HouseholdInv, TypeOK
    <3>2. invite' \in [Invites -> Invite]
      <4>1. DOMAIN invite' = Invites /\ invite' = [j \in Invites |-> invite'[j]]
        BY <2>4
      <4> QED BY <2>8, <4>1
    <3>3. ASSUME NEW j \in Invites, invite'[j].at \in {"open", "expired"}
          PROVE  invite'[j].house \in houses'
      <4>1. /\ invite'[j].house = invite[j].house
            /\ invite[j].at \in {"open", "expired"}
            /\ ~(invite[j].house = r.own /\ r.own # None)
        BY <2>8, <3>3
      <4>2. invite[j].house \in houses
        BY <4>1 DEF HouseholdInv, TypeOK
      <4> QED BY <2>2, <3>1, <4>1, <4>2
    <3> QED BY <3>2, <3>3
  <2>10. inverter' \in [Inverters -> houses' \cup {None}]
    BY <2>2 DEF HouseholdInv, TypeOK
  <2>11. SingleUse'
    <3>1. joined[r.invite] = {}
      BY <1>2, <2>1 DEF HouseholdInv, SingleUse, Unused
    <3> QED BY <1>2, <2>2, <2>8, <3>1 DEF HouseholdInv, TypeOK, SingleUse
  <2>12. users' \subseteq Users /\ houses' \subseteq Houses
         /\ owned' = (users' # {})
    BY <1>2, <2>1, <2>2 DEF HouseholdInv, TypeOK
  <2>13. joined' \in [Invites -> SUBSET Users] /\ calls' \in Nat
    BY <1>2, <2>2 DEF HouseholdInv, TypeOK
  <2> QED BY <2>2, <2>5, <2>7, <2>9, <2>10, <2>11, <2>12, <2>13
          DEF HouseholdInv, TypeOK, AnyRequest
<1> QED BY <1>3, <1>4

LEMMA CreateAccountStep ==
    ASSUME HouseholdInv, NEW q \in Requests, CreateAccount(q)
    PROVE  HouseholdInv'
<1> DEFINE u == req[q].user
<1>1. u \in Users
  BY RequestKinds DEF CreateAccount, HouseholdInv, TypeOK, AnyRequest
<1>2. CASE Refuse(q)
  BY <1>2, RefuseStep
<1>3. CASE ~Refuse(q)
  <2>1. PICK h \in Houses \ born :
          /\ users' = users \cup {u} /\ houses' = houses \cup {h}
          /\ member' = Join(member, u, h, "ADMIN")
          /\ owned' = TRUE
          /\ End(q, {u, h})
          /\ UNCHANGED <<invite, inverter, calls, past>>
    BY <1>3 DEF CreateAccount
  <2>2. req' \in [Requests -> AnyRequest]
    BY <1>1, <2>1, EndType DEF HouseholdInv, Changed
  <2>3. [role |-> "ADMIN", id |-> member[u][h].id + 1] \in Membership
    BY <1>1 DEF HouseholdInv, TypeOK, Membership, Roles
  <2>4. member' = [member EXCEPT ![u][h] =
                      [role |-> "ADMIN", id |-> member[u][h].id + 1]]
    BY <2>1 DEF Join
  <2>5. member' \in [Users -> [Houses -> Membership]]
    BY <1>1, <2>3, <2>4 DEF HouseholdInv, TypeOK
  <2>6. \A v \in Users, g \in Houses : IsMember(v, g)' => v \in users' /\ g \in houses'
    BY <1>1, <2>1, <2>4, <2>5 DEF HouseholdInv, TypeOK, IsMember
  <2>7. inverter' \in [Inverters -> houses' \cup {None}]
    BY <2>1 DEF HouseholdInv, TypeOK
  <2>8. SingleUse'
    BY <2>1 DEF HouseholdInv, SingleUse, past
  <2> QED BY <1>1, <2>1, <2>2, <2>5, <2>6, <2>7, <2>8
          DEF HouseholdInv, TypeOK, AnyRequest, past
<1> QED BY <1>2, <1>3

LEMMA InverterSteps ==
    ASSUME HouseholdInv, NEW q \in Requests, Pair(q) \/ Unpair(q)
    PROVE  HouseholdInv'
<1> DEFINE r == req[q]
<1>1. CASE Refuse(q)
  BY <1>1, RefuseStep
<1>2. CASE Pair(q) /\ ~Refuse(q)
  <2>1. /\ r.house \in houses /\ r.inverter \in Inverters
        /\ inverter' = [inverter EXCEPT ![r.inverter] = r.house]
        /\ End(q, {r.house})
        /\ UNCHANGED <<users, owned, houses, member, invite, calls, past>>
    BY <1>2, RequestKinds DEF Pair, HouseholdInv, TypeOK, AnyRequest
  <2>2. req' \in [Requests -> AnyRequest]
    BY <2>1, EndType DEF HouseholdInv, TypeOK, Changed
  <2> QED BY <2>1, <2>2 DEF HouseholdInv, TypeOK, SingleUse, IsMember, AnyRequest, past
<1>3. CASE Unpair(q)
  <2>1. r.inverter \in Inverters
    BY <1>3, RequestKinds DEF Unpair, HouseholdInv, TypeOK, AnyRequest
  <2>2. req' \in [Requests -> AnyRequest]
    BY <1>3, EndType DEF Unpair, HouseholdInv, Changed
  <2> QED BY <1>3, <2>1, <2>2
          DEF Unpair, HouseholdInv, TypeOK, SingleUse, IsMember, AnyRequest, past
<1> QED BY <1>1, <1>2, <1>3

LEMMA ExpireStep ==
    ASSUME HouseholdInv, NEW i \in Invites, Expire(i)
    PROVE  HouseholdInv'
<1>1. req' \in [Requests -> AnyRequest]
  BY DEF Expire, HouseholdInv, TypeOK, AnyRequest
<1> QED BY <1>1, InviteEnds DEF Expire, past

LEMMA NextStep == HouseholdInv /\ [Next]_vars => HouseholdInv'
<1> SUFFICES ASSUME HouseholdInv, [Next]_vars PROVE HouseholdInv'
  OBVIOUS
<1>1. ASSUME NEW q \in Requests, Write(q)
      PROVE  HouseholdInv'
  BY <1>1, WriteRoleStep, CreateInviteStep, RevokeStep, ClaimStep,
     CreateAccountStep, InverterSteps DEF Write
<1>2. CASE UNCHANGED vars
  BY <1>2, RowsKept DEF vars, rows, past, HouseholdInv, TypeOK, AnyRequest
<1> QED BY <1>1, <1>2, AskStep, ReadStep, ExpireStep DEF Next

-----------------------------------------------------------------------------
(* What a request has read still holds while nobody changes what it is of. *)

\* A change of role goes on to its write only where the household has another
\* admin, or the new admin no other household to run.
RoleRead(q) ==
    LET r == req[q] IN
    /\ r.pc = "admins" => r.role # "ADMIN"
    /\ r.pc = "elsewhere" => r.role = "ADMIN"
    /\ r.pc = "write" /\ r.house \notin r.touched /\ r.user \notin r.touched =>
         IF r.role = "ADMIN"
         THEN IsAdmin(r.user, r.house) \/ AdminOf(r.user) \subseteq {r.house}
         ELSE IsAdmin(r.user, r.house) => \E v \in Users \ {r.user} : IsAdmin(v, r.house)

\* Someone who joins gives up a household that is theirs and has no inverter, or
\* runs none, or becomes a reader.
ClaimRead(q) ==
    LET r == req[q] IN
    /\ r.pc \in {"memberships", "claim"} => invite[r.invite].at # "none"
    /\ r.pc = "claim" /\ r.user \notin r.touched /\ r.own \notin r.touched =>
         IF r.own = None
         THEN r.new \/ AdminOf(r.user) = {} \/ invite[r.invite].role # "ADMIN"
         ELSE IsAdmin(r.user, r.own) /\ ~Busy(r.own)

Kept ==
    /\ \A h \in houses : Admins(h) # {}
    /\ \A u \in Users : \A g, h \in AdminOf(u) : g = h
    /\ lost = {}

\* KeptInTurn needs to know what the requests under way have read.
AllRead == \A q \in Requests : RoleRead(q) /\ ClaimRead(q)
KeptInv == AllRead /\ (~stale => Kept)

LEMMA CountsOfOne ==
    ASSUME NEW S, IsFiniteSet(S)
    PROVE  /\ (Cardinality(S) <= 1) <=> (\A x, y \in S : x = y)
           /\ Cardinality(S) # 1 => \A x \in S : S \ {x} # {}
<1>1. Cardinality(S) \in Nat
  BY FS_CardinalityType
<1>2. (Cardinality(S) = 0) <=> (S = {})
  BY FS_EmptySet
<1>3. (Cardinality(S) = 1) <=> (\E x : S = {x})
  BY FS_Singleton
<1>4. ASSUME NEW x \in S, S \ {x} = {}
      PROVE  S = {x}
  BY <1>4
<1>5. ASSUME \A x, y \in S : x = y, S # {}
      PROVE  \E x : S = {x}
  BY <1>5
<1> QED BY <1>1, <1>2, <1>3, <1>4, <1>5

LEMMA AdminSets ==
    /\ \A h \in Houses : IsFiniteSet(Admins(h))
    /\ \A u \in Users : IsFiniteSet(AdminOf(u))
BY FS_Subset DEF Admins, AdminOf

LEMMA InitialKept == Init => KeptInv
<1> SUFFICES ASSUME Init PROVE KeptInv
  OBVIOUS
<1>1. PICK role \in [Users -> [Houses -> Roles \cup {"NONE"}]] :
        /\ \A u \in Users, h \in Houses :
             role[u][h] # "NONE" => u \in users /\ h \in houses
        /\ \A h \in houses : \E u \in users : role[u][h] = "ADMIN"
        /\ \A u \in users : Cardinality({h \in houses : role[u][h] = "ADMIN"}) <= 1
        /\ member = [u \in Users |-> [h \in Houses |->
                        [role |-> role[u][h],
                         id |-> IF role[u][h] = "NONE" THEN 0 ELSE 1]]]
  BY DEF Init
<1>2. \A u \in Users, h \in Houses : IsAdmin(u, h) <=> role[u][h] = "ADMIN"
  BY <1>1 DEF IsAdmin
<1>3. users \subseteq Users /\ houses \subseteq Houses /\ lost = {}
  BY DEF Init
<1>4. ASSUME NEW h \in houses
      PROVE  Admins(h) # {}
  BY <1>1, <1>2, <1>3 DEF Admins
<1>5. ASSUME NEW u \in Users, NEW g \in AdminOf(u), NEW h \in AdminOf(u)
      PROVE  g = h
  <2>1. u \in users /\ AdminOf(u) = {k \in houses : role[u][k] = "ADMIN"}
    BY <1>1, <1>2, <1>3 DEF AdminOf
  <2>2. IsFiniteSet(AdminOf(u)) /\ Cardinality(AdminOf(u)) <= 1
    BY <1>1, <2>1, AdminSets
  <2>3. \A x, y \in AdminOf(u) : x = y
    BY <2>2, CountsOfOne
  <2> QED BY <1>5, <2>3
<1>6. AllRead
  BY DEF Init, AllRead, RoleRead, ClaimRead, Free
<1> QED BY <1>3, <1>4, <1>5, <1>6 DEF KeptInv, Kept

\* A step leaves the roles and the inverters of what it does not name as they
\* were, and an invite that was made the role it is for.
ChangesOnly(what) ==
    /\ \A u \in Users, h \in Houses :
         u \notin what \/ h \notin what => (IsAdmin(u, h)' <=> IsAdmin(u, h))
    /\ \A h \in Houses \ what : Busy(h)' => Busy(h)
    /\ \A i \in Invites :
         invite[i].at # "none" =>
           invite'[i].at # "none" /\ invite'[i].role = invite[i].role

LEMMA UntouchedRows ==
    ASSUME NEW what, ChangesOnly(what), NEW h \in Houses, NEW u \in Users
    PROVE  /\ h \notin what =>
                /\ \A v \in Users :
                     (member'[v][h].role = "ADMIN") <=> (member[v][h].role = "ADMIN")
                /\ (\E i \in Inverters : inverter'[i] = h) =>
                     (\E i \in Inverters : inverter[i] = h)
           /\ u \notin what =>
                \A g \in Houses :
                  (member'[u][g].role = "ADMIN") <=> (member[u][g].role = "ADMIN")
BY DEF ChangesOnly, IsAdmin, Busy

LEMMA OthersRead ==
    ASSUME TypeOK, AllRead, NEW q \in Requests, NEW what \in Changed, End(q, what),
           ChangesOnly(what)
    PROVE  AllRead'
<1> SUFFICES ASSUME NEW p \in Requests PROVE (RoleRead(p) /\ ClaimRead(p))'
  BY DEF AllRead
<1>1. RoleRead(p) /\ ClaimRead(p) /\ req[p] \in AnyRequest
  BY DEF AllRead, TypeOK, AnyRequest
<1> DEFINE r == req[p]
           s == req'[p]
<1>2. CASE p = q \/ r.pc = "free"
  <2>1. s.pc = "free"
    BY <1>2 DEF End, Free
  <2> QED BY <2>1 DEF RoleRead, ClaimRead
<1>3. CASE ~(p = q \/ r.pc = "free")
  <2>1. s = [r EXCEPT !.touched = @ \cup what]
    BY <1>3 DEF End
  <2>2. RoleRead(p)'
    <3>1. CASE r.pc \notin {"admins", "elsewhere", "write"}
      <4>1. s.pc = r.pc
        BY <1>1, <1>3, <2>1 DEF AnyRequest, RoleRequest, ClaimRequest, OtherRequest, Free
      <4> QED BY <3>1, <4>1 DEF RoleRead
    <3>2. CASE r.pc \in {"admins", "elsewhere", "write"}
      <4>1. r \in RoleRequest
        BY <1>1, <3>2, RequestKinds
      <4>2. /\ s.pc = r.pc /\ s.role = r.role /\ s.house = r.house
            /\ s.user = r.user /\ s.touched = r.touched \cup what
            /\ r.house \in Houses /\ r.user \in Users
        BY <2>1, <4>1 DEF RoleRequest
      <4> HIDE DEF r, s
      <4>3. CASE r.house \in s.touched \/ r.user \in s.touched \/ r.pc # "write"
        BY <1>1, <4>2, <4>3 DEF RoleRead, r, s
      <4>4. CASE r.house \notin s.touched /\ r.user \notin s.touched /\ r.pc = "write"
        <5>1. /\ \A v \in Users : (member'[v][r.house].role = "ADMIN")
                                  <=> (member[v][r.house].role = "ADMIN")
              /\ \A g \in Houses : (member'[r.user][g].role = "ADMIN")
                                   <=> (member[r.user][g].role = "ADMIN")
          BY <4>2, <4>4, UntouchedRows
        <5>2. IF r.role = "ADMIN"
              THEN IsAdmin(r.user, r.house) \/ AdminOf(r.user) \subseteq {r.house}
              ELSE IsAdmin(r.user, r.house) =>
                     \E v \in Users \ {r.user} : IsAdmin(v, r.house)
          BY <1>1, <4>2, <4>4 DEF RoleRead, r
        <5> QED BY <4>2, <4>4, <5>1, <5>2 DEF RoleRead, r, s, IsAdmin, AdminOf
      <4> QED BY <4>3, <4>4
    <3> QED BY <3>1, <3>2
  <2>3. ClaimRead(p)'
    <3>1. CASE r.pc \notin {"memberships", "claim"}
      <4>1. s.pc = r.pc
        BY <1>1, <1>3, <2>1 DEF AnyRequest, RoleRequest, ClaimRequest, OtherRequest, Free
      <4> QED BY <3>1, <4>1 DEF ClaimRead
    <3>2. CASE r.pc \in {"memberships", "claim"}
      <4>1. r \in ClaimRequest
        BY <1>1, <3>2, RequestKinds
      <4>2. /\ s.pc = r.pc /\ s.own = r.own /\ s.new = r.new /\ s.invite = r.invite
            /\ s.user = r.user /\ s.touched = r.touched \cup what
            /\ r.own \in Houses \cup {None} /\ r.user \in Users /\ r.invite \in Invites
        BY <2>1, <4>1 DEF ClaimRequest
      <4>3. /\ invite[r.invite].at # "none"
            /\ invite'[r.invite].at # "none"
            /\ invite'[r.invite].role = invite[r.invite].role
        BY <1>1, <3>2, <4>2 DEF ClaimRead, ChangesOnly
      <4> HIDE DEF r, s
      <4>4. CASE r.own \in s.touched \/ r.user \in s.touched \/ r.pc # "claim"
        BY <4>2, <4>3, <4>4 DEF ClaimRead, r, s
      <4>5. CASE r.own \notin s.touched /\ r.user \notin s.touched /\ r.pc = "claim"
        <5>1. /\ \A g \in Houses : (member'[r.user][g].role = "ADMIN")
                                   <=> (member[r.user][g].role = "ADMIN")
              /\ r.own \in Houses =>
                   ((\E i \in Inverters : inverter'[i] = r.own) =>
                      (\E i \in Inverters : inverter[i] = r.own))
          BY <4>2, <4>5, UntouchedRows
        <5>2. IF r.own = None
              THEN r.new \/ AdminOf(r.user) = {} \/ invite[r.invite].role # "ADMIN"
              ELSE IsAdmin(r.user, r.own) /\ ~Busy(r.own)
          BY <1>1, <4>2, <4>5 DEF ClaimRead, r
        <5>3. CASE r.own = None
          <6>1. r.new \/ {h \in Houses : member'[r.user][h].role = "ADMIN"} = {}
                \/ invite'[r.invite].role # "ADMIN"
            BY <4>3, <5>1, <5>2, <5>3 DEF AdminOf, IsAdmin
          <6> QED BY <4>2, <4>3, <4>5, <5>3, <6>1 DEF ClaimRead, r, s, AdminOf, IsAdmin
        <5>4. CASE r.own # None
          <6>1. member'[r.user][r.own].role = "ADMIN"
                /\ ~\E i \in Inverters : inverter'[i] = r.own
            BY <4>2, <5>1, <5>2, <5>4 DEF Busy, IsAdmin
          <6> QED BY <4>2, <4>3, <4>5, <5>4, <6>1 DEF ClaimRead, r, s, Busy, IsAdmin
        <5> QED BY <5>3, <5>4
      <4> QED BY <4>4, <4>5
    <3> QED BY <3>1, <3>2
  <2> QED BY <2>2, <2>3
<1> QED BY <1>2, <1>3

\* A request that begins or reads changes what it knows and no row.
LEMMA OneReads ==
    ASSUME TypeOK, KeptInv, NEW q \in Requests, NEW r,
           req' = [req EXCEPT ![q] = r], UNCHANGED <<rows, past>>,
           (RoleRead(q) /\ ClaimRead(q))'
    PROVE  KeptInv'
<1>1. ASSUME NEW p \in Requests
      PROVE  (RoleRead(p) /\ ClaimRead(p))'
  <2>1. CASE p = q
    BY <2>1
  <2>2. CASE p # q
    <3>1. req'[p] = req[p]
      BY <2>2 DEF TypeOK
    <3>2. UNCHANGED <<member, inverter, invite>>
      BY DEF rows
    <3>3. RoleRead(p) /\ ClaimRead(p)
      BY DEF KeptInv, AllRead
    <3>4. RoleRead(p)'
      <4>1. \A u, h : IsAdmin(u, h)' <=> IsAdmin(u, h)
        BY <3>2 DEF IsAdmin
      <4>2. \A u : AdminOf(u)' = AdminOf(u)
        BY <4>1 DEF AdminOf
      <4> HIDE DEF IsAdmin, AdminOf
      <4> QED BY <3>1, <3>3, <4>1, <4>2 DEF RoleRead
    <3>5. ClaimRead(p)'
      BY <3>1, <3>2, <3>3 DEF ClaimRead, IsAdmin, AdminOf, Busy
    <3> QED BY <3>4, <3>5
  <2> QED BY <2>1, <2>2
<1>2. ~stale' => Kept'
  BY DEF KeptInv, Kept, rows, past, Admins, AdminOf, IsAdmin
<1> QED BY <1>1, <1>2 DEF KeptInv, AllRead

LEMMA AskKept ==
    ASSUME TypeOK, KeptInv, NEW q \in Requests, Ask(q)
    PROVE  KeptInv'
<1>1. ASSUME NEW r, Begin(q, r), r.pc \notin {"admins", "elsewhere", "write"},
             r.pc \notin {"memberships", "claim"} \/
               /\ invite[r.invite].at # "none"
               /\ r.pc = "claim" => r.own = None /\ r.new = TRUE
      PROVE  KeptInv'
  <2>1. req' = [req EXCEPT ![q] = r] /\ UNCHANGED <<rows, past>>
    BY <1>1 DEF Begin
  <2>2. req'[q] = r /\ invite' = invite
    BY <2>1 DEF TypeOK, rows
  <2>3. (RoleRead(q) /\ ClaimRead(q))'
    BY <1>1, <2>2 DEF RoleRead, ClaimRead
  <2> QED BY <2>1, <2>3, OneReads
<1>2. PICK u \in Users :
        \/ \E h \in Houses :
             \/ \E t \in Users, role \in Roles \cup {"NONE"} : AskRole(q, u, h, t, role)
             \/ \E role \in Roles : AskInvite(q, u, h, role)
        \/ \E i \in Invites : AskRevoke(q, u, i) \/ AskRedeem(q, u, i)
        \/ \E p \in Inverters : AskPair(q, u, p) \/ AskUnpair(q, u, p)
        \/ AskRegister(q, u)
  BY DEF Ask
<1>3. ASSUME NEW h \in Houses, NEW t \in Users, NEW role \in Roles \cup {"NONE"},
             AskRole(q, u, h, t, role)
      PROVE  KeptInv'
  BY <1>1, <1>3 DEF AskRole
<1>4. ASSUME NEW h \in Houses, NEW role \in Roles, AskInvite(q, u, h, role)
      PROVE  KeptInv'
  BY <1>1, <1>4 DEF AskInvite
<1>5. ASSUME NEW i \in Invites, AskRevoke(q, u, i)
      PROVE  KeptInv'
  BY <1>1, <1>5 DEF AskRevoke
<1>6. ASSUME NEW i \in Invites, AskRedeem(q, u, i)
      PROVE  KeptInv'
  BY <1>1, <1>6 DEF AskRedeem
<1>7. ASSUME NEW p \in Inverters, AskPair(q, u, p) \/ AskUnpair(q, u, p)
      PROVE  KeptInv'
  BY <1>1, <1>7 DEF AskPair, AskUnpair
<1>8. ASSUME AskRegister(q, u)
      PROVE  KeptInv'
  BY <1>1, <1>8 DEF AskRegister
<1> QED BY <1>2, <1>3, <1>4, <1>5, <1>6, <1>7, <1>8

\* A household of which another is admin than the one who goes keeps an admin;
\* one who runs no other household may become an admin.
LEMMA ReadKept ==
    ASSUME TypeOK, KeptInv, NEW q \in Requests, Read(q)
    PROVE  KeptInv'
<1> DEFINE r == req[q]
<1>0. r \in AnyRequest /\ RoleRead(q) /\ ClaimRead(q)
  BY DEF TypeOK, AnyRequest, KeptInv, AllRead
<1>1. ASSUME NEW s, Proceed(q, s), s.pc = "free"
      PROVE  KeptInv'
  <2>1. req' = [req EXCEPT ![q] = s] /\ UNCHANGED <<rows, past>> /\ req'[q] = s
    BY <1>1 DEF Proceed, TypeOK, past
  <2>2. (RoleRead(q) /\ ClaimRead(q))'
    BY <1>1, <2>1 DEF RoleRead, ClaimRead
  <2> QED BY <2>1, <2>2, OneReads
<1>2. ASSUME NEW s \in RoleRequest, Proceed(q, s),
             s.pc = "admins" => s.role # "ADMIN",
             s.pc = "elsewhere" => s.role = "ADMIN",
             s.pc = "write" =>
               IF s.role = "ADMIN"
               THEN IsAdmin(s.user, s.house) \/ AdminOf(s.user) \subseteq {s.house}
               ELSE IsAdmin(s.user, s.house) =>
                      \E v \in Users \ {s.user} : IsAdmin(v, s.house)
      PROVE  KeptInv'
  <2>1. req' = [req EXCEPT ![q] = s] /\ UNCHANGED <<rows, past>> /\ req'[q] = s
        /\ member' = member
    BY <1>2 DEF Proceed, TypeOK, past, rows
  <2>2. s.pc \notin {"memberships", "claim"}
    BY DEF RoleRequest
  <2>3. (RoleRead(q) /\ ClaimRead(q))'
    BY <1>2, <2>1, <2>2 DEF RoleRead, ClaimRead, IsAdmin, AdminOf
  <2> QED BY <2>1, <2>3, OneReads
<1>3. ASSUME NEW s \in ClaimRequest, Proceed(q, s), s.invite = r.invite,
             r.pc = "memberships",
             s.pc = "claim" =>
               IF s.own = None
               THEN AdminOf(s.user) = {} \/ invite[r.invite].role # "ADMIN"
               ELSE IsAdmin(s.user, s.own) /\ ~Busy(s.own)
      PROVE  KeptInv'
  <2>1. req' = [req EXCEPT ![q] = s] /\ UNCHANGED <<rows, past>> /\ req'[q] = s
        /\ member' = member /\ inverter' = inverter /\ invite' = invite
    BY <1>3 DEF Proceed, TypeOK, past, rows
  <2>2. s.pc \notin {"admins", "elsewhere", "write"}
    BY DEF ClaimRequest
  <2>3. (RoleRead(q) /\ ClaimRead(q))'
    BY <1>0, <1>3, <2>1, <2>2 DEF RoleRead, ClaimRead, IsAdmin, AdminOf, Busy
  <2> QED BY <2>1, <2>3, OneReads
<1>4. ASSUME r \in RoleRequest
      PROVE  \E s \in RoleRequest :
               /\ s = [r EXCEPT !.pc = "write"] /\ s.pc = "write"
               /\ s.role = r.role /\ s.user = r.user /\ s.house = r.house
  <2> DEFINE s == [r EXCEPT !.pc = "write"]
  <2>1. /\ s \in RoleRequest /\ s.pc = "write"
        /\ s.role = r.role /\ s.user = r.user /\ s.house = r.house
    BY <1>4 DEF RoleRequest
  <2> QED BY <2>1
<1>5. CASE ReadTarget(q)
  <2> DEFINE m == member[r.user][r.house]
             at(pc) == [r EXCEPT !.pc = pc, !.id = m.id, !.touched = {}]
  <2>1. r \in RoleRequest
    BY <1>0, <1>5, RequestKinds DEF ReadTarget
  <2>2. m \in Membership /\ m.id \in Nat
    BY <2>1 DEF RoleRequest, TypeOK, Membership
  <2>3. ASSUME NEW pc \in {"admins", "elsewhere", "write"}
        PROVE  /\ at(pc) \in RoleRequest /\ at(pc).pc = pc /\ at(pc).role = r.role
               /\ at(pc).user = r.user /\ at(pc).house = r.house
    BY <2>1, <2>2 DEF RoleRequest, Changed
  <2>4. Proceed(q, CASE m.role = "NONE" -> Free
                     [] m.role = "ADMIN" /\ r.role # "ADMIN" -> at("admins")
                     [] m.role = "READER" /\ r.role = "ADMIN" -> at("elsewhere")
                     [] OTHER -> at("write"))
    BY <1>5 DEF ReadTarget
  <2> HIDE DEF at
  <2>5. CASE m.role = "NONE"
    BY <1>1, <2>4, <2>5 DEF Free
  <2>6. CASE m.role = "ADMIN" /\ r.role # "ADMIN"
    BY <1>2, <2>3, <2>4, <2>6
  <2>7. CASE m.role = "READER" /\ r.role = "ADMIN"
    BY <1>2, <2>3, <2>4, <2>7
  <2>8. CASE m.role # "NONE" /\ ~(m.role = "ADMIN" /\ r.role # "ADMIN")
             /\ ~(m.role = "READER" /\ r.role = "ADMIN")
    <3>1. Proceed(q, at("write"))
      BY <2>4, <2>8
    <3>2. IF r.role = "ADMIN" THEN IsAdmin(r.user, r.house) ELSE ~IsAdmin(r.user, r.house)
      BY <2>2, <2>8 DEF IsAdmin, Membership, Roles
    <3> QED BY <1>2, <2>3, <3>1, <3>2
  <2> QED BY <2>5, <2>6, <2>7, <2>8
<1>6. CASE CountAdmins(q)
  <2>1. r \in RoleRequest /\ r.role # "ADMIN" /\ r.house \in Houses
    BY <1>0, <1>6, RequestKinds DEF CountAdmins, RoleRead, RoleRequest
  <2>2. CASE Cardinality(Admins(r.house)) = 1
    BY <1>1, <1>6, <2>2 DEF CountAdmins, Free
  <2>3. CASE Cardinality(Admins(r.house)) # 1
    <3>1. Proceed(q, [r EXCEPT !.pc = "write"])
      BY <1>6, <2>3 DEF CountAdmins
    <3>2. ASSUME IsAdmin(r.user, r.house)
          PROVE  \E v \in Users \ {r.user} : IsAdmin(v, r.house)
      <4>1. r.user \in Admins(r.house)
        BY <2>1, <3>2 DEF Admins, RoleRequest
      <4>2. Admins(r.house) \ {r.user} # {}
        BY <2>1, <2>3, <4>1, AdminSets, CountsOfOne
      <4> QED BY <4>2 DEF Admins
    <3>3. PICK s \in RoleRequest :
            /\ s = [r EXCEPT !.pc = "write"] /\ s.pc = "write"
            /\ s.role = r.role /\ s.user = r.user /\ s.house = r.house
      BY <1>4, <2>1
    <3> QED BY <1>2, <2>1, <3>1, <3>2, <3>3
  <2> QED BY <2>2, <2>3
<1>7. CASE CountElsewhere(q)
  <2>1. r \in RoleRequest /\ r.role = "ADMIN"
    BY <1>0, <1>7, RequestKinds DEF CountElsewhere, RoleRead
  <2>2. CASE AdminOf(r.user) \ {r.house} # {}
    BY <1>1, <1>7, <2>2 DEF CountElsewhere, Free
  <2>3. CASE AdminOf(r.user) \ {r.house} = {}
    <3>1. Proceed(q, [r EXCEPT !.pc = "write"])
      BY <1>7, <2>3 DEF CountElsewhere
    <3>2. AdminOf(r.user) \subseteq {r.house}
      BY <2>3
    <3>3. PICK s \in RoleRequest :
            /\ s = [r EXCEPT !.pc = "write"] /\ s.pc = "write"
            /\ s.role = r.role /\ s.user = r.user /\ s.house = r.house
      BY <1>4, <2>1
    <3> QED BY <1>2, <2>1, <3>1, <3>2, <3>3
  <2> QED BY <2>2, <2>3
<1>8. CASE ReadMemberships(q)
  <2> DEFINE i == invite[r.invite]
             own == AdminOf(r.user)
             claim(h) == [r EXCEPT !.pc = "claim", !.own = h, !.touched = {}]
  <2>1. r \in ClaimRequest /\ r.pc = "memberships" /\ r.invite \in Invites
        /\ r.user \in Users
    BY <1>0, <1>8, RequestKinds DEF ReadMemberships, ClaimRequest
  <2>2. ASSUME NEW h \in Houses \cup {None}
        PROVE  /\ claim(h) \in ClaimRequest /\ claim(h).pc = "claim"
               /\ claim(h).own = h /\ claim(h).user = r.user
               /\ claim(h).invite = r.invite
    BY <2>1, <2>2 DEF ClaimRequest, Changed
  <2>3. \/ Proceed(q, Free)
        \/ own = {} /\ Proceed(q, claim(None))
        \/ \E h \in own : Proceed(q, IF ~Busy(h) THEN claim(h)
                                     ELSE IF i.role = "ADMIN" THEN Free
                                     ELSE claim(None))
    BY <1>8 DEF ReadMemberships
  <2> HIDE DEF claim
  <2>4. CASE Proceed(q, Free)
    BY <1>1, <2>4 DEF Free
  <2>5. CASE own = {} /\ Proceed(q, claim(None))
    BY <1>3, <2>1, <2>2, <2>5
  <2>6. ASSUME NEW h \in own,
               Proceed(q, IF ~Busy(h) THEN claim(h)
                          ELSE IF i.role = "ADMIN" THEN Free ELSE claim(None))
        PROVE  KeptInv'
    <3>1. h \in Houses /\ IsAdmin(r.user, h) /\ h # None
      BY DEF AdminOf
    <3>2. CASE ~Busy(h)
      BY <1>3, <2>1, <2>2, <2>6, <3>1, <3>2
    <3>3. CASE Busy(h) /\ i.role = "ADMIN"
      BY <1>1, <2>6, <3>3 DEF Free
    <3>4. CASE Busy(h) /\ i.role # "ADMIN"
      BY <1>3, <2>1, <2>2, <2>6, <3>4
    <3> QED BY <3>2, <3>3, <3>4
  <2> QED BY <2>3, <2>4, <2>5, <2>6
<1> QED BY <1>5, <1>6, <1>7, <1>8 DEF Read

-----------------------------------------------------------------------------
(* What a write does to what the others have read, and to the households.  *)

\* A request that ends leaves KeptInTurn true when the households are as they
\* should be, or it had read what another changed.
LEMMA EndKept ==
    ASSUME TypeOK, KeptInv, NEW q \in Requests, NEW what \in Changed, End(q, what),
           ChangesOnly(what), ~stale' => Kept'
    PROVE  KeptInv'
BY OthersRead DEF KeptInv

\* Where no role changes and no inverter comes, the households stay as they are.
LEMMA QuietKept ==
    ASSUME TypeOK, KeptInv, NEW q \in Requests, NEW what \in Changed, End(q, what),
           UNCHANGED <<houses, member, past>>,
           \A h \in Houses \ what : Busy(h)' => Busy(h),
           \A i \in Invites :
             invite[i].at # "none" =>
               invite'[i].at # "none" /\ invite'[i].role = invite[i].role
    PROVE  KeptInv'
<1>1. ChangesOnly(what)
  BY DEF ChangesOnly, IsAdmin
<1>2. ~stale' => Kept'
  BY DEF KeptInv, Kept, past, Admins, AdminOf, IsAdmin
<1> QED BY <1>1, <1>2, EndKept

LEMMA RefuseKept ==
    ASSUME TypeOK, KeptInv, NEW q \in Requests, Refuse(q)
    PROVE  KeptInv'
BY QuietKept DEF Refuse, rows, Busy, Changed

\* The role written is not the last admin's, nor a second household's.
LEMMA WriteRoleKept ==
    ASSUME TypeOK, KeptInv, NEW q \in Requests, WriteRole(q)
    PROVE  KeptInv'
<1> DEFINE r == req[q]
<1>1. r \in RoleRequest /\ r.user \in Users /\ r.house \in Houses
  BY RequestKinds DEF WriteRole, TypeOK, AnyRequest, RoleRequest
<1>2. CASE Refuse(q)
  BY <1>2, RefuseKept
<1>3. CASE ~Refuse(q)
  <2> DEFINE what == {r.user, r.house}
  <2>1. /\ r.pc = "write"
        /\ member' = [member EXCEPT ![r.user][r.house].role = r.role]
        /\ stale' = (stale \/ r.house \in r.touched \/ r.user \in r.touched)
        /\ End(q, what)
        /\ UNCHANGED <<houses, invite, inverter, lost>>
    BY <1>3 DEF WriteRole
  <2>2. what \in Changed
    BY <1>1 DEF Changed
  <2>3. /\ \A u \in Users, h \in Houses :
             u # r.user \/ h # r.house => (member'[u][h].role = member[u][h].role)
        /\ member'[r.user][r.house].role = r.role
    BY <1>1, <2>1 DEF TypeOK, Membership
  <2> HIDE DEF r
  <2>4. ChangesOnly(what)
    BY <2>1, <2>3 DEF ChangesOnly, IsAdmin, Busy
  <2>5. ASSUME ~stale'
        PROVE  Kept'
    <3>1. Kept /\ r.house \notin r.touched /\ r.user \notin r.touched
      BY <2>1, <2>5 DEF KeptInv
    <3>2. IF r.role = "ADMIN"
          THEN IsAdmin(r.user, r.house) \/ AdminOf(r.user) \subseteq {r.house}
          ELSE IsAdmin(r.user, r.house) =>
                 \E v \in Users \ {r.user} : IsAdmin(v, r.house)
      BY <2>1, <3>1 DEF KeptInv, AllRead, RoleRead, r
    <3>3. ASSUME NEW h \in houses
          PROVE  \E v \in Users : member'[v][h].role = "ADMIN"
      <4>1. h \in Houses /\ Admins(h) # {}
        BY <3>1 DEF Kept, TypeOK
      <4>2. PICK v \in Users : IsAdmin(v, h)
        BY <4>1 DEF Admins
      <4>3. CASE h # r.house \/ v # r.user
        BY <2>3, <4>1, <4>2, <4>3 DEF IsAdmin
      <4>4. CASE h = r.house /\ v = r.user
        BY <1>1, <2>3, <3>2, <4>1, <4>2, <4>4 DEF IsAdmin
      <4> QED BY <4>3, <4>4
    <3>4. ASSUME NEW u \in Users, NEW g \in Houses, NEW h \in Houses,
                 member'[u][g].role = "ADMIN", member'[u][h].role = "ADMIN"
          PROVE  g = h
      <4>1. CASE u # r.user \/ r.role # "ADMIN" \/ IsAdmin(r.user, r.house)
        <5>1. IsAdmin(u, g) /\ IsAdmin(u, h)
          BY <1>1, <2>3, <3>4, <4>1 DEF IsAdmin
        <5> QED BY <3>1, <5>1 DEF Kept, AdminOf
      <4>2. CASE u = r.user /\ r.role = "ADMIN" /\ AdminOf(r.user) \subseteq {r.house}
        <5>1. g = r.house \/ IsAdmin(u, g)
          BY <2>3, <3>4 DEF IsAdmin
        <5>2. h = r.house \/ IsAdmin(u, h)
          BY <2>3, <3>4 DEF IsAdmin
        <5> QED BY <4>2, <5>1, <5>2 DEF AdminOf
      <4> QED BY <3>2, <4>1, <4>2
    <3> QED BY <2>1, <3>1, <3>3, <3>4 DEF Kept, Admins, AdminOf, IsAdmin
  <2> QED BY <2>1, <2>2, <2>4, <2>5, EndKept
<1> QED BY <1>2, <1>3

\* A household that is made has its maker for admin, who had none.
LEMMA CreateAccountKept ==
    ASSUME TypeOK, KeptInv, NEW q \in Requests, CreateAccount(q)
    PROVE  KeptInv'
<1> DEFINE u == req[q].user
<1>1. u \in Users
  BY RequestKinds DEF CreateAccount, TypeOK, AnyRequest
<1>2. CASE Refuse(q)
  BY <1>2, RefuseKept
<1>3. CASE ~Refuse(q)
  <2> HIDE DEF u
  <2>1. u \notin users
    BY <1>3 DEF CreateAccount, u
  <2>2. PICK h \in Houses \ born :
          /\ houses' = houses \cup {h}
          /\ member' = Join(member, u, h, "ADMIN")
          /\ End(q, {u, h})
          /\ UNCHANGED <<invite, inverter, calls, past>>
    BY <1>3 DEF CreateAccount, u
  <2>3. /\ \A v \in Users, g \in Houses :
             v # u \/ g # h => member'[v][g].role = member[v][g].role
        /\ member'[u][h].role = "ADMIN"
    BY <1>1, <2>2 DEF TypeOK, Membership, Join
  <2>4. {u, h} \in Changed
    BY <1>1 DEF Changed
  <2>5. ChangesOnly({u, h})
    BY <2>2, <2>3 DEF ChangesOnly, IsAdmin, Busy
  <2>6. ASSUME ~stale'
        PROVE  Kept'
    <3>1. Kept /\ lost' = {}
      BY <2>2, <2>6 DEF KeptInv, Kept, past
    <3>2. ASSUME NEW g \in houses'
          PROVE  \E v \in Users : member'[v][g].role = "ADMIN"
      <4>1. CASE g = h
        BY <1>1, <2>3, <4>1
      <4>2. CASE g # h
        <5>1. g \in houses /\ g \in Houses /\ Admins(g) # {}
          BY <2>2, <3>1, <4>2 DEF Kept, TypeOK
        <5> QED BY <2>3, <4>2, <5>1 DEF Admins, IsAdmin
      <4> QED BY <4>1, <4>2
    <3>3. ASSUME NEW v \in Users, NEW f \in Houses, NEW g \in Houses,
                 member'[v][f].role = "ADMIN", member'[v][g].role = "ADMIN"
          PROVE  f = g
      <4>1. CASE v # u
        BY <2>3, <3>1, <3>3, <4>1 DEF Kept, AdminOf, IsAdmin
      <4>2. CASE v = u
        <5>1. \A k \in Houses : member[u][k].role = "NONE"
          BY <1>1, <2>1 DEF TypeOK, IsMember
        <5> QED BY <2>3, <3>3, <4>2, <5>1
      <4> QED BY <4>1, <4>2
    <3> QED BY <3>1, <3>2, <3>3 DEF Kept, Admins, AdminOf, IsAdmin
  <2> QED BY <2>2, <2>4, <2>5, <2>6, EndKept
<1> QED BY <1>2, <1>3

LEMMA InviteWritesKept ==
    ASSUME TypeOK, KeptInv, NEW q \in Requests, CreateInvite(q) \/ Revoke(q)
    PROVE  KeptInv'
<1>1. {} \in Changed
  BY DEF Changed
<1>2. CASE Refuse(q)
  BY <1>2, RefuseKept
<1>3. CASE CreateInvite(q) /\ ~Refuse(q)
  <2>1. PICK i \in Invites :
          invite[i].at = "none" /\ (\E j : invite' = [invite EXCEPT ![i] = j])
    BY <1>3 DEF CreateInvite
  <2>2. /\ End(q, {})
        /\ UNCHANGED <<houses, member, inverter, past>>
    BY <1>3 DEF CreateInvite
  <2> QED BY <1>1, <2>1, <2>2, QuietKept DEF TypeOK, Busy
<1>4. CASE Revoke(q)
  <2>1. req[q].invite \in Invites
    BY <1>4, RequestKinds DEF Revoke, TypeOK, AnyRequest
  <2>2. \A i \in Invites :
          invite[i].at # "none" =>
            invite'[i].at # "none" /\ invite'[i].role = invite[i].role
    BY <1>4, <2>1 DEF Revoke, TypeOK, Invite
  <2> QED BY <1>1, <1>4, <2>2, QuietKept DEF Revoke, Busy
<1> QED BY <1>2, <1>3, <1>4

LEMMA InverterWritesKept ==
    ASSUME TypeOK, KeptInv, NEW q \in Requests, Pair(q) \/ Unpair(q)
    PROVE  KeptInv'
<1> DEFINE r == req[q]
<1>1. CASE Refuse(q)
  BY <1>1, RefuseKept
<1>2. CASE Pair(q) /\ ~Refuse(q)
  <2>1. /\ r.house \in houses
        /\ inverter' = [inverter EXCEPT ![r.inverter] = r.house]
        /\ End(q, {r.house})
        /\ UNCHANGED <<houses, member, invite, past>>
    BY <1>2 DEF Pair
  <2>2. {r.house} \in Changed
    BY <2>1 DEF Changed, TypeOK
  <2> HIDE DEF r
  <2>3. \A h \in Houses \ {r.house} :
          (\E p \in Inverters : inverter'[p] = h) => \E p \in Inverters : inverter[p] = h
    BY <2>1 DEF TypeOK
  <2> QED BY <2>1, <2>2, <2>3, QuietKept DEF Busy
<1>3. CASE Unpair(q)
  <2>1. req[q].inverter \in Inverters
    BY <1>3, RequestKinds DEF Unpair, TypeOK, AnyRequest
  <2>2. \A h \in Houses :
          (\E p \in Inverters : inverter'[p] = h) => \E p \in Inverters : inverter[p] = h
    BY <1>3, <2>1 DEF Unpair, TypeOK
  <2> QED BY <1>3, <2>2, QuietKept DEF Unpair, Busy, Changed
<1> QED BY <1>1, <1>2, <1>3

\* The household given up has no inverter, and is the only one its admin ran.
LEMMA ClaimKept ==
    ASSUME TypeOK, KeptInv, NEW q \in Requests, Claim(q)
    PROVE  KeptInv'
<1> DEFINE r == req[q]
           i == invite[r.invite]
           left == Join(member, r.user, i.house, i.role)
<1>1. r \in ClaimRequest /\ r.user \in Users /\ r.own \in Houses \cup {None}
      /\ r.invite \in Invites /\ i \in Invite /\ r.pc = "claim"
  BY RequestKinds DEF Claim, TypeOK, AnyRequest, ClaimRequest
<1>2. CASE Refuse(q)
  BY <1>2, RefuseKept
<1>3. CASE ~Refuse(q)
  <2> DEFINE what == ({r.user, i.house, r.own} \ {None}) \cup
                       {u \in Users : r.own # None /\ IsMember(u, r.own)}
  <2>1. /\ i.house \in houses /\ ~IsMember(r.user, i.house)
        /\ r.new = (r.user \notin users)
        /\ houses' = houses \ {r.own}
        /\ inverter' = [p \in Inverters |->
                           IF inverter[p] = r.own THEN None ELSE inverter[p]]
        /\ lost' = lost \cup {p \in Inverters : inverter[p] = r.own /\ r.own # None}
        /\ stale' = (stale \/ r.user \in r.touched \/ r.own \in r.touched)
        /\ End(q, what)
    BY <1>3 DEF Claim
  <2>2. member' = [u \in Users |-> [h \in Houses |->
                      IF h = r.own THEN [left[u][h] EXCEPT !.role = "NONE"]
                      ELSE left[u][h]]]
    BY <1>3 DEF Claim
  <2>3. invite' = [j \in Invites |->
                      IF j = r.invite THEN [invite[j] EXCEPT !.at = "used"]
                      ELSE IF invite[j].house = r.own /\ r.own # None
                      THEN [invite[j] EXCEPT !.at = "deleted"]
                      ELSE invite[j]]
    BY <1>3 DEF Claim
  <2>4. what \in Changed /\ i.house \in Houses /\ i.house # None
    BY <1>1, <2>1 DEF Changed, TypeOK
  <2>5. \A u \in Users, h \in Houses :
          /\ left[u][h] \in Membership
          /\ left[u][h].role = IF u = r.user /\ h = i.house THEN i.role
                               ELSE member[u][h].role
    <3> DEFINE n == [role |-> i.role, id |-> member[r.user][i.house].id + 1]
    <3>1. n \in Membership /\ n.role = i.role
      BY <1>1, <2>4 DEF TypeOK, Membership, Invite
    <3>2. left = [member EXCEPT ![r.user][i.house] = n]
      BY DEF Join
    <3> HIDE DEF n, r, i
    <3> QED BY <1>1, <2>4, <3>1, <3>2 DEF TypeOK
  <2>6. \A m \in Membership : [m EXCEPT !.role = "NONE"].role = "NONE"
    BY DEF Membership
  <2>7. \A u \in Users, h \in Houses :
          member'[u][h].role = IF h = r.own THEN "NONE"
                               ELSE IF u = r.user /\ h = i.house THEN i.role
                               ELSE member[u][h].role
    <3> HIDE DEF left, i, r
    <3> QED BY <2>2, <2>5, <2>6
  <2>8. \A j \in Invites :
          invite[j].at # "none" =>
            invite'[j].at # "none" /\ invite'[j].role = invite[j].role
    <3>1. \A v \in Invite, at \in {"used", "deleted"} :
            [v EXCEPT !.at = at].role = v.role /\ [v EXCEPT !.at = at].at = at
      BY DEF Invite
    <3>2. \A j \in Invites : invite[j] \in Invite
      BY DEF TypeOK
    <3> QED BY <2>3, <3>1, <3>2
  <2> HIDE DEF left
  <2>9. ChangesOnly(what)
    <3>1. ASSUME NEW u \in Users, NEW h \in Houses, u \notin what \/ h \notin what
          PROVE  (member'[u][h].role = "ADMIN") <=> (member[u][h].role = "ADMIN")
      <4>1. CASE h = r.own
        <5>1. u \notin what
          BY <2>4, <3>1, <4>1
        <5>2. member[u][h].role = "NONE"
          BY <4>1, <5>1, <1>1 DEF IsMember
        <5> QED BY <2>7, <4>1, <5>2
      <4>2. CASE h # r.own
        <5>1. ~(u = r.user /\ h = i.house)
          BY <1>1, <2>4, <3>1
        <5> QED BY <2>7, <4>2, <5>1
      <4> QED BY <4>1, <4>2
    <3>2. ASSUME NEW h \in Houses, NEW p \in Inverters, inverter'[p] = h
          PROVE  inverter[p] = h
      BY <2>1, <3>2
    <3> QED BY <2>8, <3>1, <3>2 DEF ChangesOnly, IsAdmin, Busy
  <2>10. ASSUME ~stale'
         PROVE  Kept'
    <3>1. Kept /\ r.user \notin r.touched /\ r.own \notin r.touched
      BY <2>1, <2>10 DEF KeptInv
    <3>2. IF r.own = None
          THEN r.new \/ AdminOf(r.user) = {} \/ i.role # "ADMIN"
          ELSE IsAdmin(r.user, r.own) /\ ~Busy(r.own)
      BY <1>1, <3>1 DEF KeptInv, AllRead, ClaimRead
    <3>3. r.new => AdminOf(r.user) = {}
      <4>1. ASSUME r.new, NEW h \in Houses
            PROVE  member[r.user][h].role # "ADMIN"
        <5>1. r.user \in Users /\ r.user \notin users
          BY <1>1, <2>1, <4>1
        <5>2. member[r.user][h].role = "NONE"
          BY <4>1, <5>1 DEF TypeOK, IsMember
        <5> QED BY <5>2
      <4> QED BY <4>1 DEF AdminOf, IsAdmin
    <3>4. lost' = {}
      BY <2>1, <3>1, <3>2 DEF Kept, Busy
    <3>5. ASSUME NEW h \in houses'
          PROVE  \E v \in Users : member'[v][h].role = "ADMIN"
      <4>1. h \in houses /\ h \in Houses /\ h # r.own
        BY <2>1 DEF TypeOK
      <4>2. PICK v \in Users : member[v][h].role = "ADMIN"
        BY <3>1, <4>1 DEF Kept, Admins, IsAdmin
      <4>3. ~(v = r.user /\ h = i.house)
        BY <2>1, <4>2 DEF IsMember
      <4> QED BY <2>7, <4>1, <4>2, <4>3
    <3>6. ASSUME NEW u \in Users, NEW g \in Houses, NEW h \in Houses,
                 member'[u][g].role = "ADMIN", member'[u][h].role = "ADMIN"
          PROVE  g = h
      <4>1. /\ g # r.own /\ ((u = r.user /\ g = i.house) \/ member[u][g].role = "ADMIN")
            /\ h # r.own /\ ((u = r.user /\ h = i.house) \/ member[u][h].role = "ADMIN")
        BY <2>7, <3>6
      <4>2. \A k, l \in Houses :
              member[u][k].role = "ADMIN" /\ member[u][l].role = "ADMIN" => k = l
        BY <3>1 DEF Kept, AdminOf, IsAdmin
      <4>3. CASE u # r.user
        BY <4>1, <4>2, <4>3
      <4>4. CASE u = r.user /\ i.role # "ADMIN"
        <5>1. member[u][g].role = "ADMIN" /\ member[u][h].role = "ADMIN"
          BY <2>7, <3>6, <4>4
        <5> QED BY <4>2, <5>1
      <4>5. CASE u = r.user /\ i.role = "ADMIN" /\ r.own = None
        <5>1. \A k \in Houses : member[u][k].role # "ADMIN"
          BY <3>2, <3>3, <4>5 DEF AdminOf, IsAdmin
        <5> QED BY <4>1, <5>1
      <4>6. CASE u = r.user /\ r.own # None
        <5>1. \A k \in Houses : member[u][k].role = "ADMIN" => k = r.own
          BY <1>1, <3>2, <4>2, <4>6 DEF IsAdmin
        <5> QED BY <4>1, <5>1
      <4> QED BY <4>3, <4>4, <4>5, <4>6
    <3> QED BY <3>4, <3>5, <3>6 DEF Kept, Admins, AdminOf, IsAdmin
  <2> HIDE DEF what
  <2> QED BY <2>1, <2>4, <2>9, <2>10, EndKept
<1> QED BY <1>2, <1>3

LEMMA ExpireKept ==
    ASSUME TypeOK, KeptInv, NEW i \in Invites, Expire(i)
    PROVE  KeptInv'
<1>1. UNCHANGED <<houses, member, inverter, req, lost, stale>>
  BY DEF Expire, past
<1>2. \A j \in Invites :
        invite[j].at # "none" =>
          invite'[j].at # "none" /\ invite'[j].role = invite[j].role
  BY DEF Expire, TypeOK, Invite
<1>3. ASSUME NEW q \in Requests
      PROVE  (RoleRead(q) /\ ClaimRead(q))'
  <2>1. RoleRead(q) /\ ClaimRead(q) /\ req[q] \in AnyRequest
    BY DEF KeptInv, AllRead, TypeOK, AnyRequest
  <2>2. RoleRead(q)'
    BY <1>1, <2>1 DEF RoleRead, IsAdmin, AdminOf
  <2>3. CASE req[q].pc \in {"memberships", "claim"}
    <3>1. req[q].invite \in Invites
      BY <2>1, <2>3, RequestKinds DEF ClaimRequest
    <3>2. ClaimRead(q)'
      BY <1>1, <1>2, <2>1, <2>3, <3>1 DEF ClaimRead, IsAdmin, AdminOf, Busy
    <3> QED BY <2>2, <3>2
  <2>4. CASE req[q].pc \notin {"memberships", "claim"}
    BY <1>1, <2>2, <2>4 DEF ClaimRead
  <2> QED BY <2>3, <2>4
<1>4. ~stale' => Kept'
  BY <1>1 DEF KeptInv, Kept, Admins, AdminOf, IsAdmin
<1> QED BY <1>3, <1>4 DEF KeptInv, AllRead

LEMMA KeptStep == HouseholdInv /\ KeptInv /\ [Next]_vars => KeptInv'
<1> SUFFICES ASSUME HouseholdInv, KeptInv, [Next]_vars PROVE KeptInv'
  OBVIOUS
<1>1. TypeOK
  BY DEF HouseholdInv
<1>2. ASSUME NEW q \in Requests, Write(q)
      PROVE  KeptInv'
  BY <1>1, <1>2, WriteRoleKept, InviteWritesKept, ClaimKept, CreateAccountKept,
     InverterWritesKept DEF Write
<1>3. ASSUME UNCHANGED vars
      PROVE  KeptInv'
  BY <1>3 DEF vars, rows, past, KeptInv, AllRead, RoleRead, ClaimRead, Kept, Admins,
     AdminOf, IsAdmin, Busy
<1> QED BY <1>1, <1>2, <1>3, AskKept, ReadKept, ExpireKept DEF Next

-----------------------------------------------------------------------------
(* The theorems.                                                           *)

LEMMA Invariance == Spec => []HouseholdInv
BY Initial, NextStep, PTL DEF Spec

\* Whatever requests meet, every membership, invite and inverter refers to a
\* household, and a user, that exists, and the server has an owner from the
\* first account on (the foreign keys and cascades of schema.prisma, and
\* claimIfUnowned in the transaction of register).
THEOREM HouseholdTypes == Spec => []TypeOK
<1>1. HouseholdInv => TypeOK
  BY DEF HouseholdInv
<1> QED BY <1>1, Invariance, PTL

\* However many requests redeem one invite, register with it or revoke it, at
\* once or one after the other, at most one person joins by it (redeemIn).
THEOREM InvitesAreSingleUse == Spec => []SingleUse
<1>1. HouseholdInv => SingleUse
  BY DEF HouseholdInv
<1> QED BY <1>1, Invariance, PTL

\* As long as no request acts on what another has changed since it read it,
\* every household keeps an admin, nobody runs two, and no inverter is deleted
\* with a household that is given up (members.service.ts changeRole and remove,
\* redeemIn of invites.service.ts).
THEOREM HouseholdsAreKept == Spec => []KeptInTurn
<1>1. HouseholdInv /\ KeptInv => KeptInTurn
  <2>1. TypeOK => users \subseteq Users
    BY DEF TypeOK
  <2> QED BY <2>1, AdminSets, CountsOfOne DEF HouseholdInv, KeptInv, Kept, KeptInTurn
<1>2. Init => KeptInv
  BY InitialKept
<1>3. HouseholdInv /\ KeptInv /\ [Next]_vars => KeptInv'
  BY KeptStep
<1> QED BY <1>1, <1>2, <1>3, Invariance, PTL DEF Spec

-----------------------------------------------------------------------------
(* The sessions.                                                           *)
USE SessionsAssumption

Token == [session : 1..MaxTokens, live : BOOLEAN]
RotationRow == [tab : {{}} \cup {{t} : t \in Tabs}, token : Nat,
                at : {"sent", "found", "revoked", "issued", "refused"},
                boots : BOOLEAN]

\* A refresh past its lookup is of a token.
Rows ==
    /\ rotations \subseteq RotationRow
    /\ \A r \in rotations : r.at \in {"found", "revoked", "issued"} => r.token # 0

\* EndedStaysEnded needs to know that the sessions that end are sessions that
\* began, and that none of them has a refresh halfway.
Over ==
    /\ \A i \in DOMAIN tokens : tokens[i].session <= i
    /\ ended \subseteq 1..Len(tokens)
    /\ \A r \in rotations :
         r.at \in {"found", "revoked"} => tokens[r.token].session \notin ended
    /\ EndedStaysEnded

\* WaitersHaveRefresh needs to know that no call waits for the refresh a page
\* makes while it loads.
Single(R) == \A r, x \in R : \A t \in Tabs : r.tab = {t} /\ x.tab = {t} => r = x

Boots ==
    \A r \in rotations : \A t \in Tabs :
        r.boots /\ r.tab = {t} =>
            tab[t].place = "boots" /\ \A k \in Kinds : pending[t][k] = NoCall

Served == \A t \in Tabs : Waiting(t) # {} => \E r \in rotations : r.tab = {t}

Refreshes == Single(rotations) /\ Boots /\ Served

SInv == SessionsTypeOK /\ Rows /\ Over /\ Refreshes

-----------------------------------------------------------------------------
(* Facts about the initial state, the tokens and the calls.                *)

LEMMA WaitersFromSingle == Single(rotations) /\ Served => WaitersHaveRefresh
<1> SUFFICES ASSUME Single(rotations), Served, NEW t \in Tabs
             PROVE  Cardinality({r \in rotations : r.tab = {t}}) <= 1
  BY DEF WaitersHaveRefresh, Served
<1> DEFINE S == {r \in rotations : r.tab = {t}}
<1>1. \A r, x \in S : r = x
  BY DEF Single
<1>2. CASE S = {}
  BY <1>2, FS_EmptySet
<1>3. CASE S # {}
  <2>1. PICK x \in S : TRUE
    BY <1>3
  <2>2. S = {x}
    BY <1>1, <2>1
  <2>3. Cardinality({x}) = 1
    BY FS_Singleton
  <2> HIDE DEF S
  <2>4. Cardinality(S) <= 1
    BY <2>2, <2>3
  <2> QED BY <2>4 DEF S
<1> QED BY <1>2, <1>3

LEMMA InitialSessions == SessionsInit => SInv
<1> SUFFICES ASSUME SessionsInit PROVE SInv
  OBVIOUS
<1>1. Cardinality(Browsers) \in Nat /\ Cardinality(Browsers) <= MaxTokens
  BY FS_CardinalityType
<1>2. PICK home \in [1..Cardinality(Browsers) -> Browsers] :
        /\ \A b \in Browsers : \E i \in DOMAIN home : home[i] = b
        /\ tokens = [i \in DOMAIN home |-> [session |-> i, live |-> TRUE]]
        /\ jar = [b \in Browsers |-> CHOOSE i \in DOMAIN home : home[i] = b]
  BY DEF SessionsInit
<1>3. /\ tokens \in Seq(Token) /\ Len(tokens) = Cardinality(Browsers)
      /\ \A i \in DOMAIN tokens : tokens[i].session <= i
  <2>1. tokens \in [1..Cardinality(Browsers) -> Token]
    BY <1>1, <1>2 DEF Token
  <2>2. tokens \in Seq(Token) /\ Len(tokens) = Cardinality(Browsers)
    BY <1>1, <2>1
  <2>3. \A i \in 1..Cardinality(Browsers) : tokens[i].session = i
    BY <1>1, <1>2
  <2> QED BY <1>1, <2>1, <2>2, <2>3
<1>4. jar \in [Browsers -> 0..Len(tokens)]
  <2>1. ASSUME NEW b \in Browsers
        PROVE  (CHOOSE i \in DOMAIN home : home[i] = b) \in 0..Len(tokens)
    <3>1. (CHOOSE i \in DOMAIN home : home[i] = b) \in DOMAIN home
      BY <1>2
    <3> QED BY <1>1, <1>3, <3>1
  <2> QED BY <1>2, <2>1
<1>5. /\ tab = [t \in Tabs |-> [user |-> TRUE, access |-> "fresh", place |-> "app"]]
      /\ pending = [t \in Tabs |-> [k \in Kinds |-> NoCall]]
      /\ rotations = {} /\ ended = {} /\ sends = 0
  BY DEF SessionsInit
<1>6. SessionsTypeOK
  BY <1>1, <1>3, <1>4, <1>5 DEF SessionsTypeOK, Token, NoCall
<1>7. Rows /\ Over
  BY <1>3, <1>5 DEF Rows, Over, EndedStaysEnded
<1>8. Refreshes
  BY <1>5 DEF Refreshes, Single, Boots, Served, Waiting, NoCall
<1> QED BY <1>6, <1>7, <1>8 DEF SInv

\* Tokens are revoked, none is made.
Revoking ==
    /\ tokens' \in Seq(Token) /\ Len(tokens') = Len(tokens)
    /\ \A i \in 1..Len(tokens) :
         /\ tokens'[i].session = tokens[i].session
         /\ tokens'[i].live => tokens[i].live

\* One is made, of a session that was or one that begins.
Making(s) ==
    /\ tokens' \in Seq(Token) /\ Len(tokens') = Len(tokens) + 1
    /\ \A i \in 1..Len(tokens) : tokens'[i] = tokens[i]
    /\ tokens'[Len(tokens) + 1] = [session |-> s, live |-> TRUE]

LEMMA RevokedToken ==
    \A v \in Token :
        /\ [v EXCEPT !.live = FALSE] \in Token
        /\ [v EXCEPT !.live = FALSE].session = v.session
        /\ [v EXCEPT !.live = FALSE].live = FALSE
BY DEF Token

LEMMA TokenRevoked ==
    ASSUME SessionsTypeOK, NEW i \in DOMAIN tokens,
           tokens' = [tokens EXCEPT ![i].live = FALSE]
    PROVE  Revoking
<1>1. tokens \in Seq(Token)
  BY DEF SessionsTypeOK, Token
<1>2. [tokens[i] EXCEPT !.live = FALSE] \in Token
      /\ [tokens[i] EXCEPT !.live = FALSE].session = tokens[i].session
      /\ [tokens[i] EXCEPT !.live = FALSE].live = FALSE
  <2>1. tokens[i] \in Token
    BY <1>1
  <2> QED BY <2>1, RevokedToken
<1> DEFINE n == [tokens[i] EXCEPT !.live = FALSE]
<1>3. tokens' = [tokens EXCEPT ![i] = n]
  OBVIOUS
<1> HIDE DEF n
<1> QED BY <1>1, <1>2, <1>3 DEF Revoking, n

LEMMA SessionsEnd ==
    ASSUME SessionsTypeOK, NEW which, EndSession(which)
    PROVE  Revoking /\ \A i \in 1..Len(tokens) : i \in which => ~tokens'[i].live
<1>1. tokens \in Seq(Token)
  BY DEF SessionsTypeOK, Token
<1>2. \A i \in 1..Len(tokens) :
        /\ tokens[i] \in Token
        /\ [tokens[i] EXCEPT !.live = FALSE] \in Token
        /\ [tokens[i] EXCEPT !.live = FALSE].session = tokens[i].session
        /\ [tokens[i] EXCEPT !.live = FALSE].live = FALSE
  <2>1. \A i \in 1..Len(tokens) : tokens[i] \in Token
    BY <1>1
  <2> QED BY <2>1, RevokedToken
<1>3. /\ tokens' = [i \in 1..Len(tokens) |->
                       IF i \in which THEN [tokens[i] EXCEPT !.live = FALSE] ELSE tokens[i]]
      /\ \A i \in 1..Len(tokens) :
           tokens'[i] = IF i \in which THEN [tokens[i] EXCEPT !.live = FALSE] ELSE tokens[i]
  <2>1. DOMAIN tokens = 1..Len(tokens)
    BY <1>1
  <2> QED BY <2>1 DEF EndSession
<1>4. tokens' \in [1..Len(tokens) -> Token]
  BY <1>2, <1>3
<1>5. tokens' \in Seq(Token) /\ Len(tokens') = Len(tokens)
  BY <1>1, <1>3, <1>4
<1> QED BY <1>2, <1>3, <1>5 DEF Revoking

LEMMA TokenMade ==
    ASSUME SessionsTypeOK, NEW s \in 1..MaxTokens,
           tokens' = Append(tokens, [session |-> s, live |-> TRUE])
    PROVE  Making(s)
<1>1. tokens \in Seq(Token) /\ [session |-> s, live |-> TRUE] \in Token
  BY DEF SessionsTypeOK, Token
<1> QED BY <1>1 DEF Making

-----------------------------------------------------------------------------
(* Steps that make and revoke no token.                                    *)

TabRow == [user : BOOLEAN, access : {"none", "fresh", "expired"},
           place : {"app", "boots"}]
Call == [at : {"none", "sent", "waits", "again", "done"},
         access : {"none", "fresh", "expired"}, token : 0..MaxTokens]

\* The types, with the rows of the refreshes spelled out.
LEMMA TypesOf ==
    ASSUME SessionsTypeOK, Rows
    PROVE  /\ tokens \in Seq(Token) /\ Len(tokens) \in Nat /\ Len(tokens) <= MaxTokens
           /\ DOMAIN tokens = 1..Len(tokens)
           /\ jar \in [Browsers -> 0..Len(tokens)]
           /\ tab \in [Tabs -> TabRow] /\ pending \in [Tabs -> [Kinds -> Call]]
           /\ \A r \in rotations : r \in RotationRow /\ r.token \in 0..Len(tokens)
BY DEF SessionsTypeOK, Rows, Token, TabRow, Call

\* Whatever else moves, the refreshes that are halfway are of the same tokens.
LEMMA OverKept ==
    ASSUME SessionsTypeOK, Over, UNCHANGED <<tokens, ended>>,
           \A x \in rotations' : x.at \in {"found", "revoked"} =>
              \E r \in rotations : r.at \in {"found", "revoked"} /\ r.token = x.token
    PROVE  Over'
BY DEF Over, EndedStaysEnded, Live, SessionsTypeOK

LEMMA TypesKept ==
    ASSUME SessionsTypeOK, Rows, UNCHANGED <<tokens, jar, ended>>,
           tab' \in [Tabs -> TabRow], pending' \in [Tabs -> [Kinds -> Call]],
           rotations' \subseteq RotationRow,
           \A x \in rotations' :
              /\ x.token \in 0..Len(tokens)
              /\ x.at \in {"found", "revoked", "issued"} => x.token # 0,
           sends' \in 0..MaxSends
    PROVE  SessionsTypeOK' /\ Rows'
<1>1. \A x \in rotations' :
        /\ x.tab = {} \/ \E t \in Tabs : x.tab = {t}
        /\ x.token \in 0..Len(tokens) /\ x.boots \in BOOLEAN
        /\ x.at \in {"sent", "found", "revoked", "issued", "refused"}
  BY DEF RotationRow
<1> QED BY <1>1 DEF SessionsTypeOK, Rows, TabRow, Call

\* A tab's calls change, and no refresh: what waits waited before, and a tab that
\* is being loaded has none.
LEMMA CallsMove ==
    ASSUME SInv, NEW t \in Tabs, UNCHANGED rotations, Over',
           tokens' \in Seq(Token), Len(tokens') = Len(tokens),
           ended' \subseteq 1..MaxTokens, sends' \in 0..MaxSends,
           jar' \in [Browsers -> 0..Len(tokens)],
           tab' \in [Tabs -> TabRow], pending' \in [Tabs -> [Kinds -> Call]],
           \A u \in Tabs : tab'[u].place = tab[u].place,
           \A u \in Tabs \ {t} : pending'[u] = pending[u],
           tab[t].place = "app" \/ \E k \in Kinds : pending[t][k] # NoCall,
           \A k \in Kinds : pending'[t][k].at = "waits" => pending[t][k].at = "waits"
    PROVE  SInv'
<1>1. SessionsTypeOK' /\ Rows'
  <2>1. \A x \in rotations' :
          /\ x.tab = {} \/ \E u \in Tabs : x.tab = {u}
          /\ x.token \in 0..Len(tokens) /\ x.boots \in BOOLEAN
          /\ x.at \in {"sent", "found", "revoked", "issued", "refused"}
    BY DEF SInv, SessionsTypeOK
  <2>2. Len(tokens') <= MaxTokens
    BY DEF SInv, SessionsTypeOK
  <2>3. SessionsTypeOK'
    BY <2>1, <2>2 DEF SessionsTypeOK, TabRow, Call, Token
  <2> QED BY <2>3 DEF SInv, Rows
<1>2. Over'
  OBVIOUS
<1>3. Single(rotations)'
  BY DEF SInv, Refreshes, Single
<1>5. Boots'
  <2>1. ASSUME NEW r \in rotations, NEW u \in Tabs, r.boots, r.tab = {u}
        PROVE  tab'[u].place = "boots" /\ \A k \in Kinds : pending'[u][k] = NoCall
    <3>1. tab[u].place = "boots" /\ \A k \in Kinds : pending[u][k] = NoCall
      BY <2>1 DEF SInv, Refreshes, Boots
    <3>2. u # t
      BY <3>1
    <3> QED BY <3>1, <3>2
  <2> QED BY <2>1 DEF Boots
<1>4. ASSUME NEW u \in Tabs, NEW k \in Kinds, pending'[u][k].at = "waits"
      PROVE  \E r \in rotations' : r.tab = {u}
  <2>1. pending[u][k].at = "waits"
    BY <1>4
  <2> QED BY <2>1 DEF SInv, Refreshes, Served, Waiting
<1> QED BY <1>1, <1>2, <1>3, <1>4, <1>5 DEF SInv, Refreshes, Served, Waiting

LEMMA CallSteps ==
    ASSUME SInv, NEW t \in Tabs, NEW k \in Kinds,
           ExpireToken(t) \/ Send(t, k) \/ AnswerLogout(t, k)
    PROVE  SInv'
<1>1. /\ jar \in [Browsers -> 0..Len(tokens)] /\ Len(tokens) <= MaxTokens
      /\ Len(tokens) \in Nat
      /\ tab \in [Tabs -> TabRow] /\ pending \in [Tabs -> [Kinds -> Call]]
      /\ sends \in 0..MaxSends /\ BrowserOf[t] \in Browsers
      /\ tokens \in Seq(Token) /\ ended \subseteq 1..MaxTokens
  BY TypesOf DEF SInv, SessionsTypeOK
<1>0. UNCHANGED <<tokens, ended, rotations>> => Over'
  BY OverKept DEF SInv
<1>2. CASE ExpireToken(t)
  <2>2. tab' \in [Tabs -> TabRow] /\ \A u \in Tabs : tab'[u].place = tab[u].place
    BY <1>1, <1>2 DEF ExpireToken, TabRow
  <2>3. SessionsTypeOK' /\ Rows'
    BY <1>2, <2>2 DEF ExpireToken, SInv, SessionsTypeOK, Rows, TabRow
  <2>4. Over'
    BY <1>2, OverKept DEF ExpireToken, SInv
  <2>5. rotations' = rotations /\ pending' = pending
    BY <1>2 DEF ExpireToken
  <2>6. Single(rotations)' /\ Served'
    BY <2>5 DEF SInv, Refreshes, Single, Served, Waiting
  <2>7. Boots'
    BY <2>2, <2>5 DEF SInv, Refreshes, Boots
  <2> QED BY <2>3, <2>4, <2>6, <2>7 DEF SInv, Refreshes
<1>3. CASE Send(t, k)
  <2> DEFINE c == [at |-> "sent", access |-> tab[t].access, token |-> jar[BrowserOf[t]]]
  <2>1. c \in Call
    BY <1>1 DEF Call, TabRow
  <2>2. pending' = [pending EXCEPT ![t][k] = c] /\ tab[t].place = "app" /\ c.at = "sent"
    BY <1>3 DEF Send
  <2> HIDE DEF c
  <2>3. /\ pending' \in [Tabs -> [Kinds -> Call]]
        /\ \A u \in Tabs \ {t} : pending'[u] = pending[u]
        /\ \A j \in Kinds : pending'[t][j].at = "waits" => pending[t][j].at = "waits"
    BY <1>1, <2>1, <2>2
  <2>4. tab' \in [Tabs -> TabRow] /\ \A u \in Tabs : tab'[u].place = tab[u].place
    BY <1>1, <1>3 DEF Send, TabRow
  <2>5. UNCHANGED <<tokens, ended, rotations, jar>> /\ sends' \in 0..MaxSends
    BY <1>1, <1>3 DEF Send
  <2> QED BY <1>0, <1>1, <2>2, <2>3, <2>4, <2>5, CallsMove
<1>4. CASE AnswerLogout(t, k)
  <2>1. NoCall \in Call
    BY DEF NoCall, Call
  <2>2. /\ pending' = [pending EXCEPT ![t][k] = NoCall] /\ NoCall.at = "none"
        /\ pending[t][k] # NoCall
    BY <1>4 DEF AnswerLogout, NoCall
  <2>3. /\ pending' \in [Tabs -> [Kinds -> Call]]
        /\ \A u \in Tabs \ {t} : pending'[u] = pending[u]
        /\ \A j \in Kinds : pending'[t][j].at = "waits" => pending[t][j].at = "waits"
    BY <1>1, <2>1, <2>2
  <2>4. tab' \in [Tabs -> TabRow] /\ \A u \in Tabs : tab'[u].place = tab[u].place
    <3>1. CASE k = "logout"
      BY <1>1, <1>4, <3>1 DEF AnswerLogout
    <3>2. CASE k # "logout"
      <4>1. tab' = [tab EXCEPT ![t].user = FALSE, ![t].access = "none"]
        BY <1>4, <3>2 DEF AnswerLogout
      <4> DEFINE entry == [tab[t] EXCEPT !.user = FALSE, !.access = "none"]
      <4>2. entry \in TabRow /\ entry.place = tab[t].place
        BY <1>1 DEF TabRow
      <4>3. tab' = [tab EXCEPT ![t] = entry]
        BY <1>1, <4>1
      <4> HIDE DEF entry
      <4> QED BY <1>1, <4>2, <4>3
    <3> QED BY <3>1, <3>2
  <2>5. UNCHANGED <<tokens, ended, rotations, sends>>
        /\ jar' = [jar EXCEPT ![BrowserOf[t]] = 0]
    BY <1>4 DEF AnswerLogout
  <2>6. jar' \in [Browsers -> 0..Len(tokens)]
    BY <1>1, <2>5
  <2> QED BY <1>0, <1>1, <2>2, <2>3, <2>4, <2>5, <2>6, CallsMove
<1> QED BY <1>2, <1>3, <1>4

\* The login page is loaded: what the tab waited for is gone, and the refresh it
\* begins is its only one.
LEMMA RedirectStep ==
    ASSUME SInv, NEW t \in Tabs, NEW gone, NEW others \in SUBSET rotations,
           Redirect(t, gone, others), UNCHANGED <<tokens, jar, ended, sends>>,
           \A u \in Tabs \ {t}, r \in rotations : r.tab = {u} => r \in others,
           others = rotations \/ Waiting(t) \subseteq gone
    PROVE  SInv'
<1>1. /\ jar \in [Browsers -> 0..Len(tokens)] /\ Len(tokens) <= MaxTokens
      /\ Len(tokens) \in Nat
      /\ tab \in [Tabs -> TabRow] /\ pending \in [Tabs -> [Kinds -> Call]]
      /\ sends \in 0..MaxSends /\ BrowserOf[t] \in Browsers
      /\ \A r \in rotations : r \in RotationRow /\ r.token \in 0..Len(tokens)
  BY TypesOf DEF SInv, SessionsTypeOK
<1>2. NoCall \in Call /\ NoCall.at = "none"
  BY DEF NoCall, Call
<1>3. CASE tab[t].user
  <2> DEFINE new == Rotation({t}, jar[BrowserOf[t]], TRUE)
             Cleared(r) == IF r.tab = {t} THEN [r EXCEPT !.tab = {}] ELSE r
  <2>1. /\ new \in RotationRow /\ new.tab = {t} /\ new.at = "sent" /\ new.boots = TRUE
        /\ new.token \in 0..Len(tokens)
    BY <1>1 DEF Rotation, RotationRow
  <2>2. ASSUME NEW r \in others
        PROVE  /\ Cleared(r) \in RotationRow /\ Cleared(r).token = r.token
               /\ Cleared(r).at = r.at /\ Cleared(r).boots = r.boots
               /\ Cleared(r).tab # {t}
               /\ r.tab # {t} => Cleared(r) = r
               /\ r.tab = {t} => Cleared(r).tab = {}
    <3>1. r \in RotationRow
      BY <1>1
    <3> QED BY <3>1 DEF RotationRow
  <2>3. /\ rotations' = {Cleared(r) : r \in others} \cup {new}
        /\ tab' = [tab EXCEPT ![t] = [user |-> FALSE, access |-> "none", place |-> "boots"]]
        /\ pending' = [pending EXCEPT ![t] = [k \in Kinds |-> NoCall]]
    BY <1>3 DEF Redirect
  <2> HIDE DEF new, Cleared
  <2>4. ASSUME NEW x \in rotations'
        PROVE  \/ x = new
               \/ \E r \in others : /\ x.token = r.token /\ x.at = r.at /\ x.tab # {t}
                                    /\ x = r \/ x.tab = {}
                                    /\ x \in RotationRow
    <3>1. x = new \/ \E r \in others : x = Cleared(r)
      BY <2>3
    <3> QED BY <2>2, <3>1
  <2>5. SessionsTypeOK' /\ Rows'
    <3>1. tab' \in [Tabs -> TabRow] /\ pending' \in [Tabs -> [Kinds -> Call]]
      BY <1>1, <1>2, <2>3 DEF TabRow
    <3>2. rotations' \subseteq RotationRow
      BY <2>1, <2>4
    <3>3. \A x \in rotations' :
            /\ x.token \in 0..Len(tokens)
            /\ x.at \in {"found", "revoked", "issued"} => x.token # 0
      BY <1>1, <2>1, <2>4 DEF SInv, Rows
    <3> QED BY <1>1, <3>1, <3>2, <3>3, TypesKept DEF SInv
  <2>6. Over'
    <3>1. \A x \in rotations' : x.at \in {"found", "revoked"} =>
             \E r \in rotations : r.at \in {"found", "revoked"} /\ r.token = x.token
      BY <2>1, <2>4
    <3> QED BY <3>1, OverKept DEF SInv
  <2>7. Single(rotations)'
    <3>1. ASSUME NEW r \in rotations', NEW x \in rotations', NEW u \in Tabs,
                 r.tab = {u}, x.tab = {u}
          PROVE  r = x
      <4>1. (r = new \/ (r \in others /\ u # t)) /\ (x = new \/ (x \in others /\ u # t))
        BY <2>4, <3>1
      <4>2. u # t => r # new /\ x # new
        BY <2>1, <3>1
      <4> QED BY <3>1, <4>1, <4>2 DEF SInv, Refreshes, Single
    <3> QED BY <3>1 DEF Single
  <2>8. Boots'
    <3>1. ASSUME NEW x \in rotations', NEW u \in Tabs, x.boots, x.tab = {u}
          PROVE  tab'[u].place = "boots" /\ \A k \in Kinds : pending'[u][k] = NoCall
      <4>1. CASE u = t
        BY <1>1, <2>3, <4>1
      <4>2. CASE u # t
        <5>1. x \in rotations
          <6>1. x # new /\ x.tab # {}
            BY <2>1, <3>1, <4>2
          <6>2. PICK r \in others : x = r \/ x.tab = {}
            BY <2>4, <6>1
          <6> QED BY <6>1, <6>2
        <5>2. tab[u].place = "boots" /\ \A k \in Kinds : pending[u][k] = NoCall
          BY <3>1, <5>1 DEF SInv, Refreshes, Boots
        <5> QED BY <1>1, <2>3, <4>2, <5>2
      <4> QED BY <4>1, <4>2
    <3> QED BY <3>1 DEF Boots
  <2>9. Served'
    <3>1. ASSUME NEW u \in Tabs, NEW k \in Kinds, pending'[u][k].at = "waits"
          PROVE  \E x \in rotations' : x.tab = {u}
      <4>1. u # t /\ pending[u][k].at = "waits"
        BY <1>1, <1>2, <2>3, <3>1
      <4>2. PICK r \in rotations : r.tab = {u}
        BY <4>1 DEF SInv, Refreshes, Served, Waiting
      <4>3. r \in others /\ Cleared(r) = r
        BY <2>2, <4>1, <4>2
      <4>4. r \in rotations'
        BY <2>3, <4>3
      <4> QED BY <4>2, <4>4
    <3> QED BY <3>1 DEF Served, Waiting
  <2> QED BY <2>5, <2>6, <2>7, <2>8, <2>9 DEF SInv, Refreshes
<1>4. CASE ~tab[t].user
  <2>1. /\ tab' = [tab EXCEPT ![t].access = "none"]
        /\ pending' = [pending EXCEPT ![t] =
              [k \in Kinds |-> IF k \in gone THEN NoCall ELSE @[k]]]
        /\ rotations' = others
    BY <1>4 DEF Redirect
  <2>2. /\ pending' \in [Tabs -> [Kinds -> Call]]
        /\ \A u \in Tabs, k \in Kinds :
             /\ pending'[u][k] = NoCall \/ pending'[u][k] = pending[u][k]
             /\ u = t /\ k \in gone => pending'[u][k] = NoCall
    BY <1>1, <1>2, <2>1
  <2>3. tab' \in [Tabs -> TabRow] /\ \A u \in Tabs : tab'[u].place = tab[u].place
    BY <1>1, <2>1 DEF TabRow
  <2>4. SessionsTypeOK' /\ Rows'
    BY <1>1, <2>1, <2>2, <2>3, TypesKept DEF SInv, Rows
  <2>5. Over'
    BY <2>1, OverKept DEF SInv
  <2>6. Single(rotations)' /\ Boots'
    BY <2>1, <2>2, <2>3 DEF SInv, Refreshes, Single, Boots
  <2>7. Served'
    <3>1. ASSUME NEW u \in Tabs, NEW k \in Kinds, pending'[u][k].at = "waits"
          PROVE  \E x \in rotations' : x.tab = {u}
      <4>1. pending[u][k].at = "waits" /\ ~(u = t /\ k \in gone)
        BY <1>2, <2>2, <3>1
      <4>2. PICK r \in rotations : r.tab = {u}
        BY <4>1 DEF SInv, Refreshes, Served, Waiting
      <4> QED BY <2>1, <4>1, <4>2 DEF Waiting
    <3> QED BY <3>1 DEF Served, Waiting
  <2> QED BY <2>4, <2>5, <2>6, <2>7 DEF SInv, Refreshes
<1> QED BY <1>3, <1>4

-----------------------------------------------------------------------------
(* The answers to the calls.                                               *)

\* A call waits for the tab's refresh, which it begins unless there is one.
LEMMA AnswerApiStep ==
    ASSUME SInv, NEW t \in Tabs, NEW k \in Kinds, AnswerApi(t, k)
    PROVE  SInv'
<1>1. /\ jar \in [Browsers -> 0..Len(tokens)] /\ Len(tokens) <= MaxTokens
      /\ Len(tokens) \in Nat
      /\ tab \in [Tabs -> TabRow] /\ pending \in [Tabs -> [Kinds -> Call]]
      /\ sends \in 0..MaxSends /\ BrowserOf[t] \in Browsers
      /\ tokens \in Seq(Token) /\ ended \subseteq 1..MaxTokens
      /\ \A r \in rotations : r \in RotationRow /\ r.token \in 0..Len(tokens)
  BY TypesOf DEF SInv, SessionsTypeOK
<1>2. /\ pending[t][k].at \in {"sent", "again"} /\ pending[t][k] # NoCall
      /\ UNCHANGED <<tokens, jar, ended, sends>>
  BY DEF AnswerApi, NoCall
<1>3. CASE pending' = [pending EXCEPT ![t][k] = NoCall] /\ UNCHANGED <<tab, rotations>>
  <2>1. NoCall \in Call /\ NoCall.at = "none"
    BY DEF NoCall, Call
  <2>2. /\ pending' \in [Tabs -> [Kinds -> Call]]
        /\ \A u \in Tabs \ {t} : pending'[u] = pending[u]
        /\ \A j \in Kinds : pending'[t][j].at = "waits" => pending[t][j].at = "waits"
    BY <1>1, <1>3, <2>1
  <2>3. Over'
    BY <1>2, <1>3, OverKept DEF SInv
  <2> QED BY <1>1, <1>2, <1>3, <2>2, <2>3, CallsMove
<1>4. CASE Redirect(t, {k}, rotations)
  BY <1>2, <1>4, RedirectStep
<1>5. CASE /\ pending' = [pending EXCEPT ![t][k].at = "waits"]
           /\ rotations' = IF Refreshing(t) THEN rotations
                           ELSE rotations \union {Rotation({t}, jar[BrowserOf[t]], FALSE)}
           /\ UNCHANGED tab
  <2> DEFINE new == Rotation({t}, jar[BrowserOf[t]], FALSE)
             c == [pending[t][k] EXCEPT !.at = "waits"]
  <2>1. /\ new \in RotationRow /\ new.tab = {t} /\ new.at = "sent" /\ new.boots = FALSE
        /\ new.token \in 0..Len(tokens)
    BY <1>1 DEF Rotation, RotationRow
  <2>2. c \in Call
    <3>1. pending[t][k] \in Call
      BY <1>1
    <3> QED BY <3>1 DEF Call
  <2>3. pending' = [pending EXCEPT ![t][k] = c]
    BY <1>5
  <2>4. rotations' = IF Refreshing(t) THEN rotations ELSE rotations \union {new}
    BY <1>5
  <2> HIDE DEF new, c
  <2>5. pending' \in [Tabs -> [Kinds -> Call]] /\ \A u \in Tabs \ {t} : pending'[u] = pending[u]
    BY <1>1, <2>2, <2>3
  <2>6. SessionsTypeOK' /\ Rows'
    <3>1. rotations' \subseteq RotationRow
      BY <1>1, <2>1, <2>4
    <3>2. \A x \in rotations' :
            /\ x.token \in 0..Len(tokens)
            /\ x.at \in {"found", "revoked", "issued"} => x.token # 0
      BY <1>1, <2>1, <2>4 DEF SInv, Rows
    <3> QED BY <1>1, <1>2, <1>5, <2>5, <3>1, <3>2, TypesKept DEF SInv
  <2>7. Over'
    BY <1>2, <2>1, <2>4, OverKept DEF SInv
  <2>8. Single(rotations)'
    BY <2>1, <2>4 DEF SInv, Refreshes, Single, Refreshing
  <2>9. Boots'
    <3>1. ASSUME NEW x \in rotations', NEW u \in Tabs, x.boots, x.tab = {u}
          PROVE  tab'[u].place = "boots" /\ \A j \in Kinds : pending'[u][j] = NoCall
      <4>1. x \in rotations
        BY <2>1, <2>4, <3>1
      <4>2. tab[u].place = "boots" /\ \A j \in Kinds : pending[u][j] = NoCall
        BY <3>1, <4>1 DEF SInv, Refreshes, Boots
      <4>3. u # t
        BY <1>2, <4>2
      <4> QED BY <1>5, <2>5, <4>2, <4>3
    <3> QED BY <3>1 DEF Boots
  <2>10. Served'
    <3>1. ASSUME NEW u \in Tabs, NEW j \in Kinds, pending'[u][j].at = "waits"
          PROVE  \E x \in rotations' : x.tab = {u}
      <4>1. CASE u = t
        BY <2>1, <2>4, <4>1 DEF Refreshing
      <4>2. CASE u # t
        BY <2>4, <2>5, <3>1, <4>2 DEF SInv, Refreshes, Served, Waiting
      <4> QED BY <4>1, <4>2
    <3> QED BY <3>1 DEF Served, Waiting
  <2> QED BY <2>6, <2>7, <2>8, <2>9, <2>10 DEF SInv, Refreshes
<1> QED BY <1>3, <1>4, <1>5 DEF AnswerApi

\* A session ends where no token of it is left and no refresh of it is halfway.
LEMMA EndOver ==
    ASSUME SInv, NEW which, EndSession(which), UNCHANGED rotations
    PROVE  /\ Over' /\ tokens' \in Seq(Token) /\ Len(tokens') = Len(tokens)
           /\ ended' \subseteq 1..MaxTokens
<1>1. /\ tokens \in Seq(Token) /\ Len(tokens) \in Nat /\ DOMAIN tokens = 1..Len(tokens)
      /\ Len(tokens) <= MaxTokens
      /\ \A r \in rotations : r \in RotationRow /\ r.token \in 0..Len(tokens)
  BY TypesOf DEF SInv
<1>2. /\ tokens' \in Seq(Token) /\ Len(tokens') = Len(tokens)
      /\ \A i \in 1..Len(tokens) : /\ tokens'[i].session = tokens[i].session
                                   /\ tokens'[i].live => tokens[i].live
                                   /\ i \in which => ~tokens'[i].live
  BY SessionsEnd DEF SInv, Revoking
<1>3. /\ \A i \in 1..Len(tokens) : tokens[i].session \in 1..i
      /\ ended \subseteq 1..Len(tokens)
      /\ \A i \in 1..Len(tokens) : tokens[i].live => tokens[i].session \notin ended
      /\ \A r \in rotations :
           r.at \in {"found", "revoked"} => tokens[r.token].session \notin ended
  <2>1. \A i \in 1..Len(tokens) : tokens[i] \in Token
    BY <1>1
  <2>2. \A i \in 1..Len(tokens) : tokens[i].session \in 1..MaxTokens
    BY <2>1 DEF Token
  <2>3. \A i \in 1..Len(tokens) : tokens[i].session <= i
    BY <1>1 DEF SInv, Over
  <2>4. \A i \in 1..Len(tokens) : tokens[i].session \in 1..i
    BY <2>2, <2>3
  <2> QED BY <1>1, <2>4 DEF SInv, Over, EndedStaysEnded, Live
<1>4. ASSUME NEW s \in ended'
      PROVE  \/ s \in ended
             \/ /\ \E i \in 1..Len(tokens) : s = tokens[i].session
                /\ \A i \in 1..Len(tokens) :
                     tokens[i].live /\ i \notin which => tokens[i].session # s
                /\ \A r \in rotations :
                     r.at \in {"found", "revoked"} => tokens[r.token].session # s
  BY <1>1 DEF EndSession, Live
<1>5. ended' \subseteq 1..Len(tokens)
  <2>1. ASSUME NEW i \in 1..Len(tokens)
        PROVE  tokens[i].session \in 1..Len(tokens)
    BY <1>1, <1>3
  <2> QED BY <1>3, <1>4, <2>1
<1>6. \A r \in rotations : r.at \in {"found", "revoked"} => r.token \in 1..Len(tokens)
  BY <1>1 DEF SInv, Rows
<1>7. EndedStaysEnded'
  <2>1. ASSUME NEW i \in 1..Len(tokens), tokens'[i].live
        PROVE  tokens'[i].session \notin ended'
    BY <1>2, <1>3, <1>4, <2>1
  <2> QED BY <1>2, <2>1 DEF EndedStaysEnded, Live
<1>8. \A r \in rotations :
        r.at \in {"found", "revoked"} => tokens'[r.token].session \notin ended'
  BY <1>2, <1>3, <1>4, <1>6
<1>9. \A i \in DOMAIN tokens' : tokens'[i].session <= i
  <2>1. \A i \in 1..Len(tokens) : tokens'[i].session <= i
    BY <1>2, <1>3
  <2> QED BY <1>2, <2>1
<1> QED BY <1>1, <1>2, <1>5, <1>7, <1>8, <1>9 DEF Over

LEMMA EndSteps ==
    ASSUME SInv, NEW t \in Tabs, ServeLogout(t) \/ ServeLogoutAll(t) \/ ServePassword(t)
    PROVE  SInv'
<1>1. /\ jar \in [Browsers -> 0..Len(tokens)]
      /\ tab \in [Tabs -> TabRow] /\ pending \in [Tabs -> [Kinds -> Call]]
      /\ sends \in 0..MaxSends
  BY TypesOf DEF SInv, SessionsTypeOK
<1>2. ASSUME NEW k \in Kinds, NEW which, EndSession(which),
             UNCHANGED <<jar, tab, rotations, sends>>,
             pending[t][k].at = "sent", NEW c \in Call, c.at # "waits",
             pending' = [pending EXCEPT ![t][k] = c]
      PROVE  SInv'
  <2>1. /\ pending' \in [Tabs -> [Kinds -> Call]]
        /\ \A u \in Tabs \ {t} : pending'[u] = pending[u]
        /\ \A j \in Kinds : pending'[t][j].at = "waits" => pending[t][j].at = "waits"
    BY <1>1, <1>2
  <2>2. pending[t][k] # NoCall
    BY <1>2 DEF NoCall
  <2>3. /\ Over' /\ tokens' \in Seq(Token) /\ Len(tokens') = Len(tokens)
        /\ ended' \subseteq 1..MaxTokens
    BY <1>2, EndOver
  <2> QED BY <1>1, <1>2, <2>1, <2>2, <2>3, CallsMove
<1>3. \A k \in Kinds : /\ [pending[t][k] EXCEPT !.at = "done"] \in Call
                       /\ [pending[t][k] EXCEPT !.at = "done"].at # "waits"
  <2>1. \A c \in Call : [c EXCEPT !.at = "done"] \in Call /\ [c EXCEPT !.at = "done"].at = "done"
    BY DEF Call
  <2> QED BY <1>1, <2>1
<1>4. NoCall \in Call /\ NoCall.at # "waits" /\ "logout" \in Kinds /\ "logoutAll" \in Kinds
      /\ "password" \in Kinds
  BY DEF NoCall, Call, Kinds
<1>5. CASE ServeLogout(t)
  <2> DEFINE c == [pending[t]["logout"] EXCEPT !.at = "done"]
  <2>1. pending' = [pending EXCEPT ![t]["logout"] = c] /\ c \in Call /\ c.at # "waits"
    BY <1>3, <1>4, <1>5 DEF ServeLogout
  <2> HIDE DEF c
  <2> QED BY <1>2, <1>4, <1>5, <2>1 DEF ServeLogout
<1>6. CASE ServeLogoutAll(t)
  <2> DEFINE c == [pending[t]["logoutAll"] EXCEPT !.at = "done"]
  <2>1. pending' = [pending EXCEPT ![t]["logoutAll"] = c] /\ c \in Call /\ c.at # "waits"
    BY <1>3, <1>4, <1>6 DEF ServeLogoutAll
  <2> HIDE DEF c
  <2> QED BY <1>2, <1>4, <1>6, <2>1 DEF ServeLogoutAll
<1>7. CASE ServePassword(t)
  <2>1. CASE Redirect(t, {"password"}, rotations) /\ UNCHANGED <<tokens, ended>>
    BY <1>7, <2>1, RedirectStep DEF ServePassword
  <2>2. CASE ~(Redirect(t, {"password"}, rotations) /\ UNCHANGED <<tokens, ended>>)
    BY <1>2, <1>4, <1>7, <2>2 DEF ServePassword
  <2> QED BY <2>1, <2>2
<1> QED BY <1>5, <1>6, <1>7

LEMMA RefusalSteps ==
    ASSUME SInv, NEW t \in Tabs, AnswerMe(t) \/ RefuseLogoutAll(t)
    PROVE  SInv'
<1>1. CASE RefuseLogoutAll(t)
  BY <1>1, RedirectStep DEF RefuseLogoutAll
<1>2. CASE AnswerMe(t) /\ pending[t]["me"].access # "fresh"
  BY <1>2, RedirectStep DEF AnswerMe
<1>3. CASE AnswerMe(t) /\ pending[t]["me"].access = "fresh"
  <2>1. /\ jar \in [Browsers -> 0..Len(tokens)]
        /\ tab \in [Tabs -> TabRow] /\ pending \in [Tabs -> [Kinds -> Call]]
        /\ sends \in 0..MaxSends /\ tokens \in Seq(Token) /\ ended \subseteq 1..MaxTokens
    BY TypesOf DEF SInv, SessionsTypeOK
  <2>2. NoCall \in Call /\ NoCall.at = "none" /\ "me" \in Kinds
    BY DEF NoCall, Call, Kinds
  <2>3. /\ pending' = [pending EXCEPT ![t]["me"] = NoCall] /\ pending[t]["me"] # NoCall
        /\ UNCHANGED <<tokens, jar, tab, rotations, ended, sends>>
    BY <1>3 DEF AnswerMe, NoCall
  <2>4. /\ pending' \in [Tabs -> [Kinds -> Call]]
        /\ \A u \in Tabs \ {t} : pending'[u] = pending[u]
        /\ \A j \in Kinds : pending'[t][j].at = "waits" => pending[t][j].at = "waits"
    BY <2>1, <2>2, <2>3
  <2>5. Over'
    BY <2>3, OverKept DEF SInv
  <2> QED BY <2>1, <2>2, <2>3, <2>4, <2>5, CallsMove
<1> QED BY <1>1, <1>2, <1>3

-----------------------------------------------------------------------------
(* The refresh at the server, and signing in.                              *)

\* A refresh moves on: it is the same tab's, and still the only one.
LEMMA RefreshMoves ==
    ASSUME SInv, NEW r \in rotations, NEW s \in RotationRow,
           s.tab = r.tab, s.boots = r.boots,
           rotations' = (rotations \ {r}) \union {s}, UNCHANGED <<tab, pending>>
    PROVE  Refreshes'
<1>1. Single(rotations)'
  BY DEF SInv, Refreshes, Single
<1>2. Boots'
  BY DEF SInv, Refreshes, Boots
<1>3. Served'
  <2>1. ASSUME NEW u \in Tabs, NEW j \in Kinds, pending'[u][j].at = "waits"
        PROVE  \E x \in rotations' : x.tab = {u}
    <3>1. PICK x \in rotations : x.tab = {u}
      BY <2>1 DEF SInv, Refreshes, Served, Waiting
    <3> QED BY <3>1
  <2> QED BY <2>1 DEF Served, Waiting
<1> QED BY <1>1, <1>2, <1>3 DEF Refreshes

\* A token more, of a session that goes on or begins, ends none.
LEMMA MadeOver ==
    ASSUME SInv, NEW n, Making(n), n \in 1..(Len(tokens) + 1), n \notin ended,
           UNCHANGED ended,
           \A x \in rotations' : x.at \in {"found", "revoked"} => x \in rotations
    PROVE  Over'
<1>1. /\ tokens \in Seq(Token) /\ Len(tokens) \in Nat /\ DOMAIN tokens = 1..Len(tokens)
      /\ \A r \in rotations : r \in RotationRow /\ r.token \in 0..Len(tokens)
  BY TypesOf DEF SInv
<1>2. /\ tokens' \in Seq(Token) /\ Len(tokens') = Len(tokens) + 1
      /\ DOMAIN tokens' = 1..(Len(tokens) + 1)
      /\ \A i \in 1..Len(tokens) : tokens'[i] = tokens[i]
      /\ tokens'[Len(tokens) + 1].session = n
  BY <1>1 DEF Making
<1>3. /\ \A i \in 1..Len(tokens) : tokens[i].session <= i
      /\ ended \subseteq 1..Len(tokens)
      /\ \A i \in 1..Len(tokens) : tokens[i].live => tokens[i].session \notin ended
      /\ \A r \in rotations : r.at \in {"found", "revoked"} =>
           r.token \in 1..Len(tokens) /\ tokens[r.token].session \notin ended
  BY <1>1 DEF SInv, Over, EndedStaysEnded, Live, Rows
<1>4. \A i \in 1..(Len(tokens) + 1) :
        /\ tokens'[i].session <= i
        /\ tokens'[i].live => tokens'[i].session \notin ended
  <2>1. \A i \in 1..(Len(tokens) + 1) : i \in 1..Len(tokens) \/ i = Len(tokens) + 1
    BY <1>1
  <2> QED BY <1>1, <1>2, <1>3, <2>1
<1>5. ended' \subseteq 1..Len(tokens')
  BY <1>1, <1>2, <1>3
<1> QED BY <1>2, <1>3, <1>4, <1>5 DEF Over, EndedStaysEnded, Live

\* The token found is live, so its session has not ended; its successor is of
\* the same session.
LEMMA RefreshStepStep ==
    ASSUME SInv, NEW r \in rotations, RefreshStep(r)
    PROVE  SInv'
<1>1. /\ tokens \in Seq(Token) /\ Len(tokens) \in Nat /\ DOMAIN tokens = 1..Len(tokens)
      /\ Len(tokens) <= MaxTokens
      /\ jar \in [Browsers -> 0..Len(tokens)]
      /\ tab \in [Tabs -> TabRow] /\ pending \in [Tabs -> [Kinds -> Call]]
      /\ sends \in 0..MaxSends /\ ended \subseteq 1..MaxTokens
      /\ r \in RotationRow /\ r.token \in 0..Len(tokens)
      /\ \A x \in rotations : x \in RotationRow /\ x.token \in 0..Len(tokens)
  BY TypesOf DEF SInv, SessionsTypeOK
<1>2. UNCHANGED <<jar, tab, pending, ended, sends>>
  BY DEF RefreshStep
<1>3. \A place \in {"found", "revoked", "refused"} :
        LET s == [r EXCEPT !.at = place]
        IN  /\ s \in RotationRow /\ s.tab = r.tab /\ s.boots = r.boots
            /\ s.token = r.token /\ s.at = place
  BY <1>1 DEF RotationRow
<1>4. CASE r.at = "sent"
  <2> DEFINE place == IF Finds(r) THEN "found" ELSE "refused"
             s == [r EXCEPT !.at = place]
  <2>1. tokens' = tokens /\ rotations' = (rotations \ {r}) \union {s}
    BY <1>4 DEF RefreshStep, At
  <2>2. /\ s \in RotationRow /\ s.tab = r.tab /\ s.boots = r.boots
        /\ s.token = r.token /\ s.at = place
    BY <1>3
  <2>3. place = "found" => r.token \in 1..Len(tokens) /\ tokens[r.token].live
    BY <1>1 DEF Finds
  <2>4. place \in {"found", "refused"}
    OBVIOUS
  <2> HIDE DEF s, place
  <2>5. SessionsTypeOK' /\ Rows'
    <3>1. rotations' \subseteq RotationRow
      BY <1>1, <2>1, <2>2
    <3>2. \A x \in rotations' :
            /\ x.token \in 0..Len(tokens)
            /\ x.at \in {"found", "revoked", "issued"} => x.token # 0
      BY <1>1, <2>1, <2>2, <2>3, <2>4 DEF SInv, Rows
    <3> QED BY <1>1, <1>2, <2>1, <3>1, <3>2, TypesKept DEF SInv
  <2>6. Over'
    <3>1. place = "found" => tokens[r.token].session \notin ended
      BY <1>1, <2>3 DEF SInv, Over, EndedStaysEnded, Live
    <3>2. \A x \in rotations' :
            x.at \in {"found", "revoked"} => tokens[x.token].session \notin ended
      BY <2>1, <2>2, <2>4, <3>1 DEF SInv, Over
    <3> QED BY <1>2, <2>1, <3>2 DEF SInv, Over, EndedStaysEnded, Live
  <2> QED BY <1>2, <2>1, <2>2, <2>5, <2>6, RefreshMoves DEF SInv
<1>5. CASE r.at = "found"
  <2> DEFINE s == [r EXCEPT !.at = "revoked"]
  <2>1. /\ tokens' = [tokens EXCEPT ![r.token].live = FALSE]
        /\ rotations' = (rotations \ {r}) \union {s}
    BY <1>5 DEF RefreshStep, At
  <2>2. /\ s \in RotationRow /\ s.tab = r.tab /\ s.boots = r.boots
        /\ s.token = r.token /\ s.at = "revoked"
    BY <1>3
  <2>3. r.token \in DOMAIN tokens /\ tokens[r.token].session \notin ended
    BY <1>1, <1>5 DEF SInv, Rows, Over
  <2>4. /\ tokens' \in Seq(Token) /\ Len(tokens') = Len(tokens)
        /\ DOMAIN tokens' = 1..Len(tokens)
        /\ \A i \in 1..Len(tokens) : /\ tokens'[i].session = tokens[i].session
                                     /\ tokens'[i].live => tokens[i].live
    <3>1. Revoking
      BY <2>1, <2>3, TokenRevoked DEF SInv
    <3> QED BY <1>1, <3>1 DEF Revoking
  <2> HIDE DEF s
  <2>5. \A x \in rotations' : /\ x \in RotationRow /\ x.token \in 0..Len(tokens)
                              /\ x.at \in {"found", "revoked", "issued"} => x.token # 0
                              /\ x.at \in {"found", "revoked"} =>
                                    tokens[x.token].session \notin ended
    BY <1>1, <2>1, <2>2, <2>3 DEF SInv, Rows, Over
  <2>6. SessionsTypeOK' /\ Rows'
    BY <1>1, <1>2, <2>4, <2>5 DEF SessionsTypeOK, Rows, TabRow, Call, Token, RotationRow
  <2>7. Over'
    <3>1. \A i \in 1..Len(tokens) : /\ tokens'[i].session <= i
                                    /\ tokens'[i].live => tokens'[i].session \notin ended
      BY <1>1, <2>4 DEF SInv, Over, EndedStaysEnded, Live
    <3>2. ended \subseteq 1..Len(tokens)
      BY DEF SInv, Over
    <3>3. \A x \in rotations' :
            x.at \in {"found", "revoked"} => tokens'[x.token].session \notin ended
      <4>1. \A x \in rotations' :
              x.at \in {"found", "revoked"} => x.token \in 1..Len(tokens)
        BY <1>1, <2>5
      <4> QED BY <2>4, <2>5, <4>1
    <3> QED BY <1>2, <2>4, <3>1, <3>2, <3>3 DEF Over, EndedStaysEnded, Live
  <2> QED BY <1>2, <2>1, <2>2, <2>6, <2>7, RefreshMoves DEF SInv
<1>6. CASE r.at = "revoked"
  <2> DEFINE n == tokens[r.token].session
             s == [r EXCEPT !.at = "issued", !.token = Len(tokens) + 1]
  <2>1. /\ tokens' = Append(tokens, [session |-> n, live |-> TRUE])
        /\ rotations' = (rotations \ {r}) \union {s}
        /\ Len(tokens) < MaxTokens
    BY <1>6 DEF RefreshStep
  <2>2. /\ s \in RotationRow /\ s.tab = r.tab /\ s.boots = r.boots
        /\ s.token = Len(tokens) + 1 /\ s.at = "issued"
    <3>1. ASSUME NEW m \in Nat
          PROVE  LET x == [r EXCEPT !.at = "issued", !.token = m]
                 IN  /\ x \in RotationRow /\ x.tab = r.tab /\ x.boots = r.boots
                     /\ x.token = m /\ x.at = "issued"
      BY <1>1 DEF RotationRow
    <3>2. Len(tokens) + 1 \in Nat
      BY <1>1
    <3> QED BY <3>1, <3>2
  <2>3. r.token \in 1..Len(tokens) /\ n \notin ended
    BY <1>1, <1>6 DEF SInv, Rows, Over
  <2>4. n \in 1..MaxTokens /\ n <= r.token
    <3>1. tokens[r.token] \in Token
      BY <1>1, <2>3
    <3> QED BY <1>1, <2>3, <3>1 DEF Token, SInv, Over
  <2> HIDE DEF n, s
  <2>5. Making(n)
    BY <2>1, <2>4, TokenMade DEF SInv
  <2>6. \A x \in rotations' : /\ x \in RotationRow /\ x.token \in 0..(Len(tokens) + 1)
                              /\ x.at \in {"found", "revoked", "issued"} => x.token # 0
                              /\ x.at \in {"found", "revoked"} => x \in rotations
    BY <1>1, <2>1, <2>2 DEF SInv, Rows
  <2>7. SessionsTypeOK' /\ Rows'
    <3>1. jar' \in [Browsers -> 0..(Len(tokens) + 1)]
      BY <1>1, <1>2
    <3>2. tokens' \in Seq(Token) /\ Len(tokens') = Len(tokens) + 1
          /\ Len(tokens') <= MaxTokens
      BY <1>1, <2>1, <2>5 DEF Making
    <3>3. Rows'
      BY <2>6 DEF Rows
    <3>4. \A x \in rotations' :
             /\ x.tab = {} \/ \E t \in Tabs : x.tab = {t}
             /\ x.token \in 0..Len(tokens') /\ x.boots \in BOOLEAN
             /\ x.at \in {"sent", "found", "revoked", "issued", "refused"}
      BY <2>6, <3>2 DEF RotationRow
    <3> QED BY <1>1, <1>2, <3>1, <3>2, <3>3, <3>4
            DEF SessionsTypeOK, TabRow, Call, Token
  <2>8. Over'
    <3>1. n \in 1..(Len(tokens) + 1) /\ ended' = ended
      BY <1>1, <1>2, <2>3, <2>4
    <3> QED BY <2>3, <2>5, <2>6, <3>1, MadeOver
  <2> QED BY <1>2, <2>1, <2>2, <2>7, <2>8, RefreshMoves DEF SInv
<1> QED BY <1>4, <1>5, <1>6 DEF RefreshStep

\* What waited is sent again, with the tab's new token; a refresh refused while
\* the page loads leaves nothing waiting.
LEMMA AnswerRefreshStep ==
    ASSUME SInv, NEW r \in rotations, Refreshed(r) \/ RefreshRefused(r) \/ RefreshLost(r)
    PROVE  SInv'
<1>1. /\ tokens \in Seq(Token) /\ Len(tokens) \in Nat /\ DOMAIN tokens = 1..Len(tokens)
      /\ Len(tokens) <= MaxTokens
      /\ jar \in [Browsers -> 0..Len(tokens)]
      /\ tab \in [Tabs -> TabRow] /\ pending \in [Tabs -> [Kinds -> Call]]
      /\ sends \in 0..MaxSends /\ ended \subseteq 1..MaxTokens
      /\ r \in RotationRow /\ r.token \in 0..Len(tokens)
      /\ \A x \in rotations : x \in RotationRow /\ x.token \in 0..Len(tokens)
  BY TypesOf DEF SInv, SessionsTypeOK
<1>2. ASSUME NEW t \in r.tab
      PROVE  t \in Tabs /\ r.tab = {t}
  BY <1>1 DEF RotationRow
<1>3. ASSUME rotations' = rotations \ {r}, UNCHANGED <<tokens, ended, sends>>,
             jar' \in [Browsers -> 0..Len(tokens)],
             tab' \in [Tabs -> TabRow], pending' \in [Tabs -> [Kinds -> Call]],
             \A u \in Tabs : r.tab # {u} =>
                pending'[u] = pending[u] /\ tab'[u] = tab[u],
             \A u \in Tabs : r.tab = {u} => \A k \in Kinds : pending'[u][k].at # "waits"
      PROVE  SInv'
  <2>1. SessionsTypeOK' /\ Rows'
    BY <1>1, <1>3 DEF SInv, SessionsTypeOK, Rows, TabRow, Call, Token
  <2>2. Over'
    BY <1>3, OverKept DEF SInv
  <2>3. Single(rotations)'
    BY <1>3 DEF SInv, Refreshes, Single
  <2>4. Boots'
    <3>1. ASSUME NEW x \in rotations', NEW u \in Tabs, x.boots, x.tab = {u}
          PROVE  tab'[u].place = "boots" /\ \A j \in Kinds : pending'[u][j] = NoCall
      <4>1. x \in rotations /\ r.tab # {u}
        BY <1>3, <3>1 DEF SInv, Refreshes, Single
      <4>2. pending'[u] = pending[u] /\ tab'[u] = tab[u]
        BY <1>3, <4>1
      <4>3. tab[u].place = "boots" /\ \A j \in Kinds : pending[u][j] = NoCall
        BY <3>1, <4>1 DEF SInv, Refreshes, Boots
      <4> QED BY <4>2, <4>3
    <3> QED BY <3>1 DEF Boots
  <2>5. Served'
    <3>1. ASSUME NEW u \in Tabs, NEW j \in Kinds, pending'[u][j].at = "waits"
          PROVE  \E x \in rotations' : x.tab = {u}
      <4>1. r.tab # {u} /\ pending[u][j].at = "waits"
        BY <1>3, <3>1
      <4>2. PICK x \in rotations : x.tab = {u}
        BY <4>1 DEF SInv, Refreshes, Served, Waiting
      <4> QED BY <1>3, <4>1, <4>2
    <3> QED BY <3>1 DEF Served, Waiting
  <2> QED BY <2>1, <2>2, <2>3, <2>4, <2>5 DEF SInv, Refreshes
<1>4. CASE Refreshed(r)
  <2>1. PICK t \in r.tab :
          /\ r.at = "issued"
          /\ jar' = [jar EXCEPT ![BrowserOf[t]] = r.token]
          /\ tab' = [tab EXCEPT ![t] = [user |-> @.user \/ r.boots, access |-> "fresh",
                                        place |-> "app"]]
          /\ pending' = [pending EXCEPT ![t] = [k \in Kinds |->
                          IF k \in Waiting(t)
                          THEN [@[k] EXCEPT !.at = "again", !.access = "fresh"] ELSE @[k]]]
          /\ rotations' = rotations \ {r}
          /\ UNCHANGED <<tokens, ended, sends>>
    BY <1>4 DEF Refreshed
  <2>2. t \in Tabs /\ r.tab = {t}
    BY <1>2
  <2>3. jar' \in [Browsers -> 0..Len(tokens)]
    BY <1>1, <2>1
  <2>4. tab' \in [Tabs -> TabRow] /\ \A u \in Tabs \ {t} : tab'[u] = tab[u]
    BY <1>1, <2>1, <2>2 DEF TabRow, RotationRow
  <2>5. \A c \in Call : /\ [c EXCEPT !.at = "again", !.access = "fresh"] \in Call
                        /\ [c EXCEPT !.at = "again", !.access = "fresh"].at = "again"
    BY DEF Call
  <2> DEFINE settled == [k \in Kinds |->
                         IF k \in Waiting(t)
                         THEN [pending[t][k] EXCEPT !.at = "again", !.access = "fresh"]
                         ELSE pending[t][k]]
  <2>6. /\ settled \in [Kinds -> Call]
        /\ \A k \in Kinds : settled[k].at # "waits"
    <3>1. \A k \in Kinds : pending[t][k] \in Call
      BY <1>1, <2>2
    <3> QED BY <2>5, <3>1 DEF Waiting
  <2>7. pending' = [pending EXCEPT ![t] = settled]
    BY <2>1
  <2> HIDE DEF settled
  <2>8. pending' \in [Tabs -> [Kinds -> Call]] /\ pending'[t] = settled
        /\ \A u \in Tabs \ {t} : pending'[u] = pending[u]
    BY <1>1, <2>2, <2>6, <2>7
  <2> QED BY <1>3, <2>1, <2>2, <2>3, <2>4, <2>6, <2>8
<1>5. CASE RefreshRefused(r)
  <2>1. PICK t \in r.tab :
          /\ r.at = "refused"
          /\ IF r.boots
             THEN /\ tab' = [tab EXCEPT ![t] = [user |-> FALSE, access |-> "none",
                                                place |-> "app"]]
                  /\ rotations' = rotations \ {r} /\ UNCHANGED pending
             ELSE Redirect(t, Waiting(t), rotations \ {r})
          /\ UNCHANGED <<tokens, jar, ended, sends>>
    BY <1>5 DEF RefreshRefused
  <2>2. t \in Tabs /\ r.tab = {t}
    BY <1>2
  <2>3. CASE r.boots
    <3>1. tab' \in [Tabs -> TabRow] /\ \A u \in Tabs \ {t} : tab'[u] = tab[u]
      <4>1. tab' = [tab EXCEPT ![t] = [user |-> FALSE, access |-> "none", place |-> "app"]]
        BY <2>1, <2>3
      <4>2. [user |-> FALSE, access |-> "none", place |-> "app"] \in TabRow
        BY DEF TabRow
      <4> QED BY <1>1, <2>2, <4>1, <4>2
    <3>2. \A k \in Kinds : pending[t][k].at # "waits"
      BY <2>2, <2>3 DEF SInv, Refreshes, Boots, NoCall
    <3> QED BY <1>1, <1>3, <2>1, <2>2, <2>3, <3>1, <3>2
  <2>4. CASE ~r.boots
    <3>1. Redirect(t, Waiting(t), rotations \ {r})
      BY <2>1, <2>4
    <3>2. \A u \in Tabs \ {t}, x \in rotations : x.tab = {u} => x \in rotations \ {r}
      BY <2>2
    <3> QED BY <2>1, <2>2, <3>1, <3>2, RedirectStep
  <2> QED BY <2>3, <2>4
<1>6. CASE RefreshLost(r)
  <2>1. /\ r.tab = {} /\ rotations' = rotations \ {r}
        /\ UNCHANGED <<tokens, jar, tab, pending, ended, sends>>
    BY <1>6 DEF RefreshLost
  <2>2. \A u \in Tabs : r.tab # {u}
    BY <2>1
  <2> QED BY <1>1, <1>3, <2>1, <2>2
<1> QED BY <1>4, <1>5, <1>6

LEMMA SignInStep ==
    ASSUME SInv, NEW t \in Tabs, SignIn(t)
    PROVE  SInv'
<1>1. /\ tokens \in Seq(Token) /\ Len(tokens) \in Nat /\ DOMAIN tokens = 1..Len(tokens)
      /\ jar \in [Browsers -> 0..Len(tokens)] /\ BrowserOf[t] \in Browsers
      /\ tab \in [Tabs -> TabRow] /\ pending \in [Tabs -> [Kinds -> Call]]
      /\ sends \in 0..MaxSends /\ ended \subseteq 1..Len(tokens)
      /\ \A x \in rotations : x \in RotationRow /\ x.token \in 0..Len(tokens)
  BY TypesOf DEF SInv, SessionsTypeOK, Over
<1> DEFINE n == Len(tokens) + 1
<1>2. /\ Len(tokens) < MaxTokens
      /\ tokens' = Append(tokens, [session |-> n, live |-> TRUE])
      /\ jar' = [jar EXCEPT ![BrowserOf[t]] = n]
      /\ tab' = [tab EXCEPT ![t] = [@ EXCEPT !.user = TRUE, !.access = "fresh"]]
      /\ UNCHANGED <<pending, rotations, ended, sends>>
  BY DEF SignIn
<1>3. n \in 1..MaxTokens /\ n \in 1..(Len(tokens) + 1) /\ n \notin ended
  BY <1>1, <1>2
<1>4. Making(n)
  BY <1>2, <1>3, TokenMade DEF SInv
<1>5. /\ tokens' \in Seq(Token) /\ Len(tokens') = Len(tokens) + 1 /\ Len(tokens') <= MaxTokens
      /\ jar' \in [Browsers -> 0..(Len(tokens) + 1)]
  BY <1>1, <1>2, <1>4 DEF Making
<1>6. tab' \in [Tabs -> TabRow] /\ \A u \in Tabs : tab'[u].place = tab[u].place
  <2> DEFINE entry == [tab[t] EXCEPT !.user = TRUE, !.access = "fresh"]
  <2>1. entry \in TabRow /\ entry.place = tab[t].place
    <3>1. tab[t] \in TabRow
      BY <1>1
    <3> QED BY <3>1 DEF TabRow
  <2>2. tab' = [tab EXCEPT ![t] = entry]
    BY <1>2
  <2> HIDE DEF entry
  <2> QED BY <1>1, <2>1, <2>2
<1>7. SessionsTypeOK' /\ Rows'
  <2>1. \A x \in rotations' :
          /\ x.tab = {} \/ \E u \in Tabs : x.tab = {u}
          /\ x.token \in 0..Len(tokens') /\ x.boots \in BOOLEAN
          /\ x.at \in {"sent", "found", "revoked", "issued", "refused"}
    <3>1. ASSUME NEW x \in rotations
          PROVE  x \in RotationRow /\ x.token \in 0..(Len(tokens) + 1)
      BY <1>1
    <3>2. rotations' = rotations
      BY <1>2
    <3> QED BY <1>5, <3>1, <3>2 DEF RotationRow
  <2>2. ended' \subseteq 1..MaxTokens
    BY <1>2 DEF SInv, SessionsTypeOK
  <2>3. SessionsTypeOK'
    BY <1>1, <1>2, <1>5, <1>6, <2>1, <2>2 DEF SessionsTypeOK, TabRow, Call, Token
  <2> QED BY <1>2, <2>3 DEF SInv, Rows
<1>8. Over'
  <2> HIDE DEF n
  <2> QED BY <1>2, <1>3, <1>4, MadeOver
<1>9. Single(rotations)' /\ Served'
  BY <1>2 DEF SInv, Refreshes, Single, Served, Waiting
<1>10. Boots'
  BY <1>2, <1>6 DEF SInv, Refreshes, Boots
<1> QED BY <1>7, <1>8, <1>9, <1>10 DEF SInv, Refreshes

-----------------------------------------------------------------------------
(* Every step.                                                             *)

LEMMA NextSessions == SInv /\ [SessionsNext]_sessionVars => SInv'
<1> SUFFICES ASSUME SInv, [SessionsNext]_sessionVars PROVE SInv'
  OBVIOUS
<1>1. CASE SessionsNext
  <2>1. "get" \in Kinds
    BY DEF Kinds, Ordinary
  <2>2. ASSUME NEW t \in Tabs, NEW k \in Kinds,
               ExpireToken(t) \/ Send(t, k) \/ AnswerApi(t, k) \/ AnswerLogout(t, k)
        PROVE  SInv'
    BY <2>2, CallSteps, AnswerApiStep
  <2>3. ASSUME NEW t \in Tabs,
               \/ AnswerMe(t) \/ SignIn(t) \/ ServeLogout(t) \/ ServeLogoutAll(t)
               \/ RefuseLogoutAll(t) \/ ServePassword(t)
        PROVE  SInv'
    BY <2>3, SignInStep, EndSteps, RefusalSteps
  <2>4. ASSUME NEW r \in rotations,
               RefreshStep(r) \/ Refreshed(r) \/ RefreshRefused(r) \/ RefreshLost(r)
        PROVE  SInv'
    BY <2>4, RefreshStepStep, AnswerRefreshStep
  <2> QED BY <1>1, <2>1, <2>2, <2>3, <2>4 DEF SessionsNext
<1>2. CASE UNCHANGED sessionVars
  <2>1. UNCHANGED <<tokens, jar, tab, pending, rotations, ended, sends>>
    BY <1>2 DEF sessionVars
  <2>2. SessionsTypeOK' /\ Rows'
    BY <2>1 DEF SInv, SessionsTypeOK, Rows
  <2>3. Over'
    BY <2>1, OverKept DEF SInv
  <2>4. Refreshes'
    BY <2>1 DEF SInv, Refreshes, Single, Boots, Served, Waiting
  <2> QED BY <2>2, <2>3, <2>4 DEF SInv
<1> QED BY <1>1, <1>2

HIDE SessionsAssumption

-----------------------------------------------------------------------------
(* The pages.                                                              *)

\* What the table of the screens has that the properties rest on.
RightsAsked(p) == \A route \in p.sends : route.needs \subseteq p.may
Shape(p) ==
    /\ p.act = "none" => p.sends = {}
    /\ p.late = "dropped" => p.act = "none" /\ p.key = "emptied"
    /\ p.late = "dropped" /\ p.pages => p = ReadingsBrowser
    /\ p.awaits => p.act = "reloads"
    /\ p.held /\ (p.awaits \/ p.act = "takes") => p.key = "none" /\ ~p.polls /\ ~p.pages
Fits(p) == RightsAsked(p) /\ Shape(p)

LoadOf(l) == [id : {l.id}, for : {"show", "reload", "more"}, key : Keys, live : BOOLEAN,
              ver : Refused..MaxVersions, who : Standings]
ActOf(a) == [id : {a.id}, route : page.sends, key : Keys,
             stage : {"sent", "refused", "taken", "reloading"}, ver : 0..MaxVersions,
             with : Standings, who : Standings, load : {a.load}]

WebTyped ==
    /\ page \in Screens /\ key \in Keys /\ data \in [Keys -> 1..MaxVersions]
    /\ standing \in Standings /\ known \in Standings
    /\ \A l \in loads : l \in LoadOf(l)
    /\ \A a \in acts : a \in ActOf(a)
    /\ shown \in [keys : SUBSET Keys, ver : 0..MaxVersions]
    /\ failed \in BOOLEAN /\ paging \in BOOLEAN /\ saved \in 0..MaxVersions /\ moves \in Nat

\* An action was offered to who had the rights for it.
Entitled == \A a \in acts : page.may \subseteq RightsOf(a.with)

\* A page that drops late answers shows its key alone; one whose effect alone loads,
\* unless a load of its key is to come, or failed.
KeyInv ==
    /\ page.late = "dropped" =>
         shown.keys \subseteq {key} /\ \A l \in loads : l.live => l.key = key
    /\ page.act = "none" /\ ~page.pages =>
         /\ \A l \in loads : l.for = "show" /\ (l.live => l.key = key)
         /\ shown.keys \subseteq {key} \/ failed \/ \E l \in loads : l.live

\* The button is disabled for a load that will enable it, or for good.
MoreInv ==
    paging => /\ page.pages
              /\ \/ \E l \in loads : l.for = "more" /\ l.live
                 \/ page = ReadingsBrowser /\ moves > 0

\* A form that is disabled until its answer is shown has one thing under way: its
\* first load, an action, or the reload after it.
Shows == shown = Blank \/ failed \/ shown.ver >= saved
OneThing ==
    page.held /\ (page.awaits \/ page.act = "takes") =>
        /\ \A l \in loads : l.live /\ l.key = key
        /\ \A a \in acts : a.key = key
        /\ \A a, b \in acts : a = b
        /\ saved <= data[key]
        /\ acts = {} =>
             \/ loads = {} /\ Shows
             \/ /\ shown = Blank /\ saved = 0 /\ (page.reads = Nowhere => loads = {})
                /\ \A l, m \in loads : l = m
        /\ \A a \in acts :
             /\ a.stage \in {"sent", "refused"} => loads = {} /\ Shows
             /\ a.stage = "taken" => loads = {} /\ a.ver >= saved
             /\ a.stage = "reloading" =>
                  \E l \in loads : loads = {l} /\ l.id = a.load /\ (l.ver > 0 => l.ver >= saved)

WebInv == WebTyped /\ Entitled /\ OfferedIsTaken /\ KeyInv /\ MoreInv /\ OneThing

-----------------------------------------------------------------------------
(* The table of the screens.                                               *)
\* What the controls of the pages are shown for, and what their routes ask.
LEMMA Controls ==
    /\ StatusBanner.sends = {ExitFaultMode} /\ StatusBanner.may = Admin \cup {"unlocked"}
    /\ ReadingsExport.sends = {ExportReadings} /\ ReadingsExport.may = Member
    /\ OutageCard.sends = {RequestRefresh} /\ OutageCard.may = Member
    /\ OutageSetup.sends = {PutSource, ReplaceReaderToken} /\ OutageSetup.may = Admin
    /\ OutageSourceRemoval.sends = {RemoveSource} /\ OutageSourceRemoval.may = Admin
    /\ BmsSetup.sends = {CreateBms, UpdateBms, ReplaceBmsToken, RemoveBms} /\ BmsSetup.may = Admin
    /\ ProfileLock.sends = {UpdateProfile} /\ ProfileLock.may = Admin
    /\ ProfileForm.sends = {UpdateProfile} /\ ProfileForm.may = Admin
    /\ ProfileTest.sends = {TestPairing} /\ ProfileTest.may = Admin
    /\ ProfileRemoval.sends = {DeleteProfile} /\ ProfileRemoval.may = Admin
    /\ SolarArrayForm.sends = {UpdateProfile} /\ SolarArrayForm.may = Admin
    /\ LocationForm.sends = {UpdateProfile} /\ LocationForm.may = Admin
    /\ LocationDetect.sends = {DetectLocation} /\ LocationDetect.may = Admin
    /\ PanelTypes.sends = {CreatePanelType, UpdatePanelType} /\ PanelTypes.may = Admin
    /\ PanelTypeRemoval.sends = {RemovePanelType} /\ PanelTypeRemoval.may = Admin
    /\ HouseholdMembers.sends = {MakeInvite, RevokeInvite, ChangeRole, RemoveMember}
    /\ HouseholdMembers.may = Admin
    /\ SessionsList.sends = {RevokeSession} /\ SessionsList.may = User
    /\ PasswordForm.sends = {ChangePassword} /\ PasswordForm.may = User
    /\ NotificationSettings.sends = {PutNotifications} /\ NotificationSettings.may = User
    /\ TelegramLink.sends = {LinkCode, Unlink} /\ TelegramLink.may = User
    /\ FanPanel.sends = {PutFan} /\ FanPanel.may = Owner
    /\ NoticesPanel.sends = {PutLimits} /\ NoticesPanel.may = Owner
    /\ ServerAccess.sends = {SetViewer} /\ ServerAccess.may = Owner
    /\ ServerAgentSetup.sends = {NewAgentToken} /\ ServerAgentSetup.may = Owner
    /\ LoginPage.sends = {Login} /\ LoginPage.may = Anyone
    /\ RegisterPage.sends = {Register} /\ RegisterPage.may = Anyone
    /\ JoinPage.sends = {JoinHousehold} /\ JoinPage.may = User
    /\ WizardTest.sends = {TestPairing} /\ WizardTest.may = {"user", "admin"}
    /\ SetupWizard.sends = {SetupProfile} /\ SetupWizard.may = {"user", "admin"}
<1>1. /\ StatusBanner.sends = {ExitFaultMode} /\ StatusBanner.may = Admin \cup {"unlocked"}
      /\ ReadingsExport.sends = {ExportReadings} /\ ReadingsExport.may = Member
      /\ OutageCard.sends = {RequestRefresh} /\ OutageCard.may = Member
      /\ OutageSetup.sends = {PutSource, ReplaceReaderToken} /\ OutageSetup.may = Admin
      /\ OutageSourceRemoval.sends = {RemoveSource} /\ OutageSourceRemoval.may = Admin
  BY DEF Form, Screen, Polls, Keyed, Acts, Held, Awaits, StatusBanner, ReadingsExport,
         OutageCard, OutageSetup, OutageSourceRemoval
<1>2. /\ BmsSetup.sends = {CreateBms, UpdateBms, ReplaceBmsToken, RemoveBms} /\ BmsSetup.may = Admin
      /\ ProfileLock.sends = {UpdateProfile} /\ ProfileLock.may = Admin
      /\ ProfileForm.sends = {UpdateProfile} /\ ProfileForm.may = Admin
      /\ ProfileTest.sends = {TestPairing} /\ ProfileTest.may = Admin
      /\ ProfileRemoval.sends = {DeleteProfile} /\ ProfileRemoval.may = Admin
  BY DEF Form, Screen, Polls, Keyed, Acts, Held, Awaits, BmsSetup, ProfileLock, ProfileForm,
         ProfileTest, ProfileRemoval
<1>3. /\ SolarArrayForm.sends = {UpdateProfile} /\ SolarArrayForm.may = Admin
      /\ LocationForm.sends = {UpdateProfile} /\ LocationForm.may = Admin
      /\ LocationDetect.sends = {DetectLocation} /\ LocationDetect.may = Admin
      /\ PanelTypes.sends = {CreatePanelType, UpdatePanelType} /\ PanelTypes.may = Admin
      /\ PanelTypeRemoval.sends = {RemovePanelType} /\ PanelTypeRemoval.may = Admin
  BY DEF Form, Screen, Polls, Keyed, Acts, Held, Awaits, SolarArrayForm, LocationForm,
         LocationDetect, PanelTypes, PanelTypeRemoval
<1>4. /\ HouseholdMembers.sends = {MakeInvite, RevokeInvite, ChangeRole, RemoveMember}
      /\ HouseholdMembers.may = Admin
      /\ SessionsList.sends = {RevokeSession} /\ SessionsList.may = User
      /\ PasswordForm.sends = {ChangePassword} /\ PasswordForm.may = User
      /\ NotificationSettings.sends = {PutNotifications} /\ NotificationSettings.may = User
      /\ TelegramLink.sends = {LinkCode, Unlink} /\ TelegramLink.may = User
  BY DEF Form, Screen, Polls, Keyed, Acts, Held, Awaits, HouseholdMembers, SessionsList,
         PasswordForm, NotificationSettings, TelegramLink
<1>5. /\ FanPanel.sends = {PutFan} /\ FanPanel.may = Owner
      /\ NoticesPanel.sends = {PutLimits} /\ NoticesPanel.may = Owner
      /\ ServerAccess.sends = {SetViewer} /\ ServerAccess.may = Owner
      /\ ServerAgentSetup.sends = {NewAgentToken} /\ ServerAgentSetup.may = Owner
      /\ LoginPage.sends = {Login} /\ LoginPage.may = Anyone
  BY DEF Form, Screen, Polls, Keyed, Acts, Held, Awaits, FanPanel, NoticesPanel, ServerAccess,
         ServerAgentSetup, LoginPage
<1>6. /\ RegisterPage.sends = {Register} /\ RegisterPage.may = Anyone
      /\ JoinPage.sends = {JoinHousehold} /\ JoinPage.may = User
      /\ WizardTest.sends = {TestPairing} /\ WizardTest.may = {"user", "admin"}
      /\ SetupWizard.sends = {SetupProfile} /\ SetupWizard.may = {"user", "admin"}
  BY DEF Form, Screen, Polls, Keyed, Acts, Held, Awaits, RegisterPage, JoinPage, WizardTest,
         SetupWizard
<1> QED BY <1>1, <1>2, <1>3, <1>4, <1>5, <1>6

LEMMA Asks ==
    /\ ChangePassword.needs = User
    /\ ChangeRole.needs = Admin
    /\ CreateBms.needs = Admin
    /\ CreatePanelType.needs = {"user", "admin"}
    /\ DeleteProfile.needs = Admin
    /\ DetectLocation.needs = User
    /\ ExitFaultMode.needs = Admin \cup {"unlocked"}
    /\ ExportReadings.needs = Member
    /\ JoinHousehold.needs = User
    /\ LinkCode.needs = User
    /\ Login.needs = Anyone
    /\ MakeInvite.needs = Admin
    /\ NewAgentToken.needs = Owner
    /\ PutFan.needs = Owner
    /\ PutLimits.needs = Owner
    /\ PutNotifications.needs = User
    /\ PutSource.needs = Admin
    /\ Register.needs = Anyone
    /\ RemoveBms.needs = Admin
    /\ RemoveMember.needs = Admin
    /\ RemovePanelType.needs = Admin
    /\ RemoveSource.needs = Admin
    /\ ReplaceBmsToken.needs = Admin
    /\ ReplaceReaderToken.needs = Admin
    /\ RequestRefresh.needs = Member
    /\ RevokeInvite.needs = Admin
    /\ RevokeSession.needs = User
    /\ SetViewer.needs = Owner
    /\ SetupProfile.needs = {"user", "admin"}
    /\ TestPairing.needs = User
    /\ Unlink.needs = User
    /\ UpdateBms.needs = Admin
    /\ UpdatePanelType.needs = Admin
    /\ UpdateProfile.needs = Admin
BY DEF Reads, Changes, ChangePassword, ChangeRole, CreateBms, CreatePanelType, DeleteProfile,
       DetectLocation, ExitFaultMode, ExportReadings, JoinHousehold, LinkCode, Login,
       MakeInvite, NewAgentToken, PutFan, PutLimits, PutNotifications, PutSource, Register,
       RemoveBms, RemoveMember, RemovePanelType, RemoveSource, ReplaceBmsToken,
       ReplaceReaderToken, RequestRefresh, RevokeInvite, RevokeSession, SetViewer, SetupProfile,
       TestPairing, Unlink, UpdateBms, UpdatePanelType, UpdateProfile

LEMMA Rights == \A p \in Screens : RightsAsked(p)
<1>1. /\ RightsAsked(UseReading) /\ RightsAsked(UseDeviceStatus) /\ RightsAsked(UseRegisters)
      /\ RightsAsked(UseUnreadAlerts) /\ RightsAsked(DayTotals)
  BY DEF RightsAsked, Form, Screen, Polls, Keyed, UseReading, UseDeviceStatus, UseRegisters,
         UseUnreadAlerts, DayTotals
<1>2. /\ RightsAsked(Last24Hours) /\ RightsAsked(PvArrayTile) /\ RightsAsked(SunForecastTile)
      /\ RightsAsked(PowerHistory) /\ RightsAsked(DailyEnergy)
  BY DEF RightsAsked, Form, Screen, Polls, Keyed, Last24Hours, PvArrayTile, SunForecastTile,
         PowerHistory, DailyEnergy
<1>3. /\ RightsAsked(ReadingsBrowser) /\ RightsAsked(AlertsPage) /\ RightsAsked(OutageForecast)
      /\ RightsAsked(OutageCities) /\ RightsAsked(OutageStreets)
  BY DEF RightsAsked, Form, Screen, Polls, Keyed, ReadingsBrowser, AlertsPage, OutageForecast,
         OutageCities, OutageStreets
<1>4. /\ RightsAsked(UseBmsDevices) /\ RightsAsked(UseBmsLatest) /\ RightsAsked(BmsHistoryCharts)
      /\ RightsAsked(ServerPage) /\ RightsAsked(ServerHistory)
  BY DEF RightsAsked, Form, Screen, Polls, Keyed, UseBmsDevices, UseBmsLatest, BmsHistoryCharts,
         ServerPage, ServerHistory
<1>5. /\ RightsAsked(StatusBanner) /\ RightsAsked(ReadingsExport) /\ RightsAsked(OutageCard)
      /\ RightsAsked(OutageSetup) /\ RightsAsked(OutageSourceRemoval) /\ RightsAsked(BmsSetup)
  BY Controls, Asks DEF RightsAsked, User, Anyone, Member, Admin, Viewer, Owner
<1>6. /\ RightsAsked(ProfileLock) /\ RightsAsked(ProfileForm) /\ RightsAsked(ProfileTest)
      /\ RightsAsked(ProfileRemoval) /\ RightsAsked(SolarArrayForm) /\ RightsAsked(LocationForm)
  BY Controls, Asks DEF RightsAsked, User, Anyone, Member, Admin, Viewer, Owner
<1>7. /\ RightsAsked(LocationDetect) /\ RightsAsked(PanelTypes) /\ RightsAsked(PanelTypeRemoval)
      /\ RightsAsked(HouseholdMembers) /\ RightsAsked(SessionsList) /\ RightsAsked(PasswordForm)
  BY Controls, Asks DEF RightsAsked, User, Anyone, Member, Admin, Viewer, Owner
<1>8. /\ RightsAsked(NotificationSettings) /\ RightsAsked(TelegramLink) /\ RightsAsked(FanPanel)
      /\ RightsAsked(NoticesPanel) /\ RightsAsked(ServerAccess) /\ RightsAsked(ServerAgentSetup)
  BY Controls, Asks DEF RightsAsked, User, Anyone, Member, Admin, Viewer, Owner
<1>9. /\ RightsAsked(LoginPage) /\ RightsAsked(RegisterPage) /\ RightsAsked(JoinPage)
      /\ RightsAsked(WizardTest) /\ RightsAsked(SetupWizard)
  BY Controls, Asks DEF RightsAsked, User, Anyone, Member, Admin, Viewer, Owner
<1> QED BY <1>1, <1>2, <1>3, <1>4, <1>5, <1>6, <1>7, <1>8, <1>9 DEF Screens

LEMMA Shapes == \A p \in Screens : Shape(p)
<1>1. /\ Shape(UseReading) /\ Shape(UseDeviceStatus) /\ Shape(UseRegisters)
      /\ Shape(UseUnreadAlerts) /\ Shape(StatusBanner)
  BY DEF Shape, Form, Screen, Polls, Keyed, Acts, Held, Awaits, UseReading, UseDeviceStatus,
         UseRegisters, UseUnreadAlerts, StatusBanner
<1>2. /\ Shape(DayTotals) /\ Shape(Last24Hours) /\ Shape(PvArrayTile)
      /\ Shape(SunForecastTile) /\ Shape(PowerHistory)
  BY DEF Shape, Form, Screen, Polls, Keyed, Acts, Held, Awaits, DayTotals, Last24Hours,
         PvArrayTile, SunForecastTile, PowerHistory
<1>3. /\ Shape(DailyEnergy) /\ Shape(ReadingsBrowser) /\ Shape(ReadingsExport)
      /\ Shape(AlertsPage) /\ Shape(OutageCard)
  BY DEF Shape, Form, Screen, Polls, Keyed, Acts, Held, Awaits, DailyEnergy, ReadingsBrowser,
         ReadingsExport, AlertsPage, OutageCard
<1>4. /\ Shape(OutageForecast) /\ Shape(OutageSetup) /\ Shape(OutageSourceRemoval)
      /\ Shape(OutageCities) /\ Shape(OutageStreets)
  BY DEF Shape, Form, Screen, Polls, Keyed, Acts, Held, Awaits, OutageForecast, OutageSetup,
         OutageSourceRemoval, OutageCities, OutageStreets
<1>5. /\ Shape(UseBmsDevices) /\ Shape(UseBmsLatest) /\ Shape(BmsHistoryCharts)
      /\ Shape(BmsSetup) /\ Shape(ProfileLock)
  BY DEF Shape, Form, Screen, Polls, Keyed, Acts, Held, Awaits, UseBmsDevices, UseBmsLatest,
         BmsHistoryCharts, BmsSetup, ProfileLock
<1>6. /\ Shape(ProfileForm) /\ Shape(ProfileTest) /\ Shape(ProfileRemoval)
      /\ Shape(SolarArrayForm) /\ Shape(LocationForm)
  BY DEF Shape, Form, Screen, Polls, Keyed, Acts, Held, Awaits, ProfileForm, ProfileTest,
         ProfileRemoval, SolarArrayForm, LocationForm
<1>7. /\ Shape(LocationDetect) /\ Shape(PanelTypes) /\ Shape(PanelTypeRemoval)
      /\ Shape(HouseholdMembers) /\ Shape(SessionsList)
  BY DEF Shape, Form, Screen, Polls, Keyed, Acts, Held, Awaits, LocationDetect, PanelTypes,
         PanelTypeRemoval, HouseholdMembers, SessionsList
<1>8. /\ Shape(PasswordForm) /\ Shape(NotificationSettings) /\ Shape(TelegramLink)
      /\ Shape(ServerPage) /\ Shape(ServerHistory)
  BY DEF Shape, Form, Screen, Polls, Keyed, Acts, Held, Awaits, PasswordForm,
         NotificationSettings, TelegramLink, ServerPage, ServerHistory
<1>9. /\ Shape(FanPanel) /\ Shape(NoticesPanel) /\ Shape(ServerAccess)
      /\ Shape(ServerAgentSetup) /\ Shape(LoginPage)
  BY DEF Shape, Form, Screen, Polls, Keyed, Acts, Held, Awaits, FanPanel, NoticesPanel,
         ServerAccess, ServerAgentSetup, LoginPage
<1>10. /\ Shape(RegisterPage) /\ Shape(JoinPage) /\ Shape(WizardTest)
      /\ Shape(SetupWizard)
  BY DEF Shape, Form, Screen, Polls, Keyed, Acts, Held, Awaits, RegisterPage, JoinPage,
         WizardTest, SetupWizard
<1> QED BY <1>1, <1>2, <1>3, <1>4, <1>5, <1>6, <1>7, <1>8, <1>9, <1>10 DEF Screens

LEMMA Table == \A p \in Screens : Fits(p)
BY Rights, Shapes DEF Fits

-----------------------------------------------------------------------------
(* The steps of the pages.                                                *)
LEMMA PageFits == WebInv => Fits(page)
BY Table DEF WebInv, WebTyped

LEMMA WebInitial == WebConstants /\ InitWeb => WebInv
<1> SUFFICES ASSUME WebConstants, InitWeb PROVE WebInv
  OBVIOUS
<1> DEFINE first == [id |-> 1, for |-> "show", key |-> key, live |-> TRUE, ver |-> Unserved,
                     who |-> known]
<1>1. loads \subseteq {first} /\ (page.reads = Nowhere => loads = {})
  BY DEF InitWeb
<1>2. /\ first \in LoadOf(first) /\ first.for = "show" /\ first.key = key /\ first.live
      /\ first.ver = 0
  BY DEF InitWeb, WebConstants, LoadOf, Unserved, Refused
<1> HIDE DEF first
<1>3. WebTyped
  <2>1. data \in [Keys -> 1..MaxVersions] /\ shown \in [keys : SUBSET Keys, ver : 0..MaxVersions]
    BY DEF InitWeb, WebConstants, Blank
  <2>2. \A l \in loads : l \in LoadOf(l)
    BY <1>1, <1>2
  <2>3. 0 \in 0..MaxVersions
    BY DEF WebConstants
  <2>4. /\ page \in Screens /\ key \in Keys /\ standing \in Standings /\ known \in Standings
        /\ acts = {} /\ failed = FALSE /\ paging = FALSE /\ saved = 0 /\ moves = 0
    BY DEF InitWeb
  <2> QED BY <2>1, <2>2, <2>3, <2>4 DEF WebTyped
<1>4. Entitled /\ OfferedIsTaken /\ MoreInv
  BY DEF InitWeb, Entitled, OfferedIsTaken, MoreInv
<1>5. KeyInv
  BY <1>1, <1>2 DEF InitWeb, KeyInv, Blank
<1>6. OneThing
  <2>1. data[key] \in Nat /\ acts = {} /\ saved = 0 /\ shown = Blank
    BY DEF InitWeb, WebConstants
  <2> QED BY <1>1, <1>2, <2>1 DEF OneThing
<1> QED BY <1>3, <1>4, <1>5, <1>6 DEF WebInv

LEMMA OtherChangesStep ==
    ASSUME WebConstants, WebInv, NEW k \in Keys, OtherChanges(k)
    PROVE  WebInv'
<1>1. /\ data' \in [Keys -> 1..MaxVersions] /\ \A j \in Keys : data'[j] >= data[j]
      /\ data[key] \in Nat /\ data'[key] \in Nat /\ saved \in Nat
  BY DEF OtherChanges, WebInv, WebTyped, WebConstants
<1>2. WebTyped'
  BY <1>1 DEF OtherChanges, WebInv, WebTyped, LoadOf, ActOf
<1>3. Entitled' /\ OfferedIsTaken' /\ KeyInv' /\ MoreInv'
  BY DEF OtherChanges, WebInv, Entitled, OfferedIsTaken, KeyInv, MoreInv
<1>4. OneThing'
  <2>1. saved <= data[key] => saved <= data'[key]
    BY <1>1 DEF WebInv, WebTyped
  <2> QED BY <2>1 DEF OtherChanges, WebInv, OneThing, Shows
<1> QED BY <1>2, <1>3, <1>4 DEF WebInv

LEMMA SetStandingStep ==
    ASSUME WebConstants, WebInv, NEW s \in Standings, SetStanding(s)
    PROVE  WebInv'
<1>1. WebTyped'
  BY DEF SetStanding, WebInv, WebTyped, LoadOf, ActOf
<1>2. Entitled' /\ OfferedIsTaken' /\ KeyInv' /\ MoreInv' /\ OneThing'
  BY DEF SetStanding, WebInv, Entitled, OfferedIsTaken, KeyInv, MoreInv, OneThing, Shows
<1> QED BY <1>1, <1>2 DEF WebInv

\* What a load just sent is.
LEMMA LoadIs ==
    ASSUME WebConstants, WebTyped, NEW for \in {"show", "reload", "more"}, NEW k \in Keys
    PROVE  LET l == Load(for, k) IN
           /\ l \in LoadOf(l) /\ l.for = for /\ l.key = k /\ l.live /\ l.ver = 0
BY DEF WebConstants, WebTyped, Load, LoadOf, Unserved, Refused

LEMMA ChangeKeyStep ==
    ASSUME WebConstants, WebInv, NEW k \in Keys, ChangeKey(k)
    PROVE  WebInv'
<1> DEFINE new == Load("show", k)
           off(l) == [l EXCEPT !.live = FALSE]
           cut(l) == l.for = "show" \/ page.late = "dropped"
<1>1. new \in LoadOf(new) /\ new.for = "show" /\ new.key = k /\ new.live
  BY LoadIs DEF WebInv
<1>2. \A m \in loads' : m = new \/ (\E l \in loads : cut(l) /\ m = off(l))
                        \/ (m \in loads /\ ~cut(m))
  BY DEF ChangeKey, CancelLoads
<1>3. new \in loads' /\ \A l \in loads : ~cut(l) => l \in loads'
  BY DEF ChangeKey, CancelLoads
<1>4. ASSUME NEW l \in loads
      PROVE  off(l) \in LoadOf(off(l)) /\ off(l).for = l.for /\ ~off(l).live
  <2>1. l \in LoadOf(l)
    BY DEF WebInv, WebTyped
  <2> QED BY <2>1 DEF LoadOf
<1> HIDE DEF new, off
<1>5. \A m \in loads' : m \in LoadOf(m)
  BY <1>1, <1>2, <1>4 DEF WebInv, WebTyped
<1>6. Fits(page) /\ page' = page /\ page.key # "none" /\ key' = k /\ moves \in Nat
      /\ moves' = moves + 1
  BY PageFits DEF ChangeKey, WebInv, WebTyped
<1>7. WebTyped'
  <2>1. shown' \in [keys : SUBSET Keys, ver : 0..MaxVersions]
    BY DEF ChangeKey, WebInv, WebTyped, WebConstants, Blank
  <2>2. \A m \in loads' : m \in LoadOf(m)'
    BY <1>5 DEF LoadOf
  <2>3. \A a \in acts' : a \in ActOf(a)'
    BY DEF ChangeKey, WebInv, WebTyped, ActOf
  <2>4. moves' \in Nat
    BY <1>6
  <2> QED BY <2>1, <2>2, <2>3, <2>4 DEF ChangeKey, WebInv, WebTyped
<1>8. Entitled' /\ OfferedIsTaken'
  BY DEF ChangeKey, WebInv, Entitled, OfferedIsTaken
<1>9. KeyInv'
  <2>1. ASSUME page.late = "dropped"
        PROVE  shown'.keys = {} /\ \A m \in loads' : m.live => m.key = k
    BY <2>1, <1>1, <1>2, <1>4, <1>6 DEF ChangeKey, Fits, Shape, Blank
  <2>2. ASSUME page.act = "none", ~page.pages
        PROVE  /\ \A m \in loads' : m.for = "show" /\ (m.live => m.key = k)
               /\ \E m \in loads' : m.live
    BY <2>2, <1>1, <1>2, <1>3, <1>4 DEF WebInv, KeyInv
  <2> QED BY <2>1, <2>2, <1>6 DEF KeyInv
<1>10. MoreInv'
  <2>1. CASE page.late = "dropped"
    BY <2>1, <1>6 DEF WebInv, MoreInv, ChangeKey, Fits, Shape
  <2>2. CASE page.late # "dropped"
    BY <2>2, <1>3, <1>6 DEF WebInv, MoreInv, ChangeKey
  <2> QED BY <2>1, <2>2
<1>11. OneThing'
  BY <1>6 DEF Fits, Shape, OneThing
<1> QED BY <1>7, <1>8, <1>9, <1>10, <1>11 DEF WebInv

\* A load that joins those of a page whose form does not wait for it.
LEMMA LoadJoins ==
    ASSUME WebConstants, WebInv, NEW for \in {"show", "more"},
           page.polls \/ page.pages, for = "show" \/ page.pages,
           loads' = loads \union {Load(for, key)},
           paging' = (paging \/ for = "more"),
           UNCHANGED <<page, key, data, standing, known, acts, shown, failed, saved, moves>>
    PROVE  WebInv'
<1> DEFINE new == Load(for, key)
<1>1. /\ new \in LoadOf(new) /\ new.for = for /\ new.key = key /\ new.live
  BY LoadIs DEF WebInv, WebTyped
<1> HIDE DEF new
<1>2. loads' = loads \union {new}
  BY DEF new
<1>3. WebTyped'
  <2>1. \A m \in loads' : m \in LoadOf(m)'
    BY <1>1, <1>2 DEF WebInv, WebTyped, LoadOf
  <2>2. \A a \in acts' : a \in ActOf(a)'
    BY DEF WebInv, WebTyped, ActOf
  <2> QED BY <2>1, <2>2 DEF WebInv, WebTyped
<1>4. Entitled' /\ OfferedIsTaken'
  BY DEF WebInv, Entitled, OfferedIsTaken
<1>5. KeyInv'
  BY <1>1, <1>2 DEF WebInv, KeyInv
<1>6. MoreInv'
  BY <1>1, <1>2 DEF WebInv, MoreInv
<1>7. OneThing'
  BY PageFits DEF Fits, Shape, OneThing
<1> QED BY <1>3, <1>4, <1>5, <1>6, <1>7 DEF WebInv

LEMMA PollAgainStep ==
    ASSUME WebConstants, WebInv, PollAgain
    PROVE  WebInv'
<1>1. paging \in BOOLEAN
  BY DEF WebInv, WebTyped
<1> QED BY <1>1, LoadJoins DEF PollAgain

LEMMA LoadMoreStep ==
    ASSUME WebConstants, WebInv, LoadMore
    PROVE  WebInv'
<1>1. paging \in BOOLEAN
  BY DEF WebInv, WebTyped
<1> QED BY <1>1, LoadJoins DEF LoadMore

LEMMA ServeLoadStep ==
    ASSUME WebConstants, WebInv, NEW l \in loads, ServeLoad(l)
    PROVE  WebInv'
<1> DEFINE v == IF page.reads.needs \subseteq RightsOf(standing) THEN data[l.key] ELSE Refused
           new == [l EXCEPT !.ver = v, !.who = standing]
<1>1. l \in LoadOf(l)
  BY DEF WebInv, WebTyped
<1>2. v \in Refused..MaxVersions /\ (v > 0 => v = data[l.key]) /\ v \in Int
  <2>1. data[l.key] \in 1..MaxVersions
    BY <1>1 DEF LoadOf, WebInv, WebTyped
  <2> QED BY <2>1 DEF WebConstants, Refused
<1>3. loads' = (loads \ {l}) \union {new}
  BY DEF ServeLoad
<1> HIDE DEF v
<1>4. /\ new \in LoadOf(new) /\ new.id = l.id /\ new.for = l.for /\ new.key = l.key
      /\ new.live = l.live /\ new.ver = v
  BY <1>1, <1>2 DEF LoadOf, WebInv, WebTyped
<1> HIDE DEF new
<1>5. WebTyped'
  <2>1. \A m \in loads' : m \in LoadOf(m)'
    BY <1>3, <1>4 DEF WebInv, WebTyped, LoadOf
  <2>2. \A a \in acts' : a \in ActOf(a)'
    BY DEF ServeLoad, WebInv, WebTyped, ActOf
  <2> QED BY <2>1, <2>2 DEF ServeLoad, WebInv, WebTyped
<1>6. Entitled' /\ OfferedIsTaken'
  BY DEF ServeLoad, WebInv, Entitled, OfferedIsTaken
<1>7. KeyInv'
  BY <1>3, <1>4 DEF ServeLoad, WebInv, KeyInv
<1>8. MoreInv'
  BY <1>3, <1>4 DEF ServeLoad, WebInv, MoreInv
<1>9. OneThing'
  <2> SUFFICES ASSUME page.held, page.awaits \/ page.act = "takes"
               PROVE  OneThing'
    BY DEF ServeLoad, OneThing
  <2>1. /\ \A m \in loads : m.live /\ m.key = key
        /\ \A m, n \in loads : m = n
    <3>1. CASE acts = {}
      BY <3>1 DEF WebInv, OneThing
    <3>2. CASE acts # {}
      BY <3>2 DEF WebInv, OneThing, WebTyped, ActOf
    <3> QED BY <3>1, <3>2
  <2>2. loads' = {new} /\ new.live /\ new.key = key /\ loads # {}
    BY <2>1, <1>3, <1>4
  <2>3. acts = {} => shown = Blank /\ saved = 0 /\ page.reads # Nowhere
    BY DEF WebInv, OneThing
  <2>4. \A a \in acts : a.stage = "reloading" /\ l.id = a.load
    BY <2>1 DEF WebInv, OneThing, WebTyped, ActOf
  <2>5. new.ver > 0 => new.ver >= saved
    <3>1. saved <= data[key] /\ l.key = key
      BY <2>1 DEF WebInv, OneThing
    <3> QED BY <3>1, <1>2, <1>4
  <2> QED BY <2>1, <2>2, <2>3, <2>4, <2>5, <1>4 DEF ServeLoad, WebInv, OneThing
<1> QED BY <1>5, <1>6, <1>7, <1>8, <1>9 DEF WebInv

\* Of a form that waits, the load that ends is the only one, and nothing is left.
LEMMA LastLoad ==
    ASSUME WebInv, NEW l \in loads, page.held, page.awaits \/ page.act = "takes"
    PROVE  /\ loads = {l} /\ acts \ Awaiting(l) = {} /\ l.live /\ l.key = key
           /\ l.ver > 0 => l.ver >= saved
           /\ saved <= data[key]
<1>1. /\ \A m \in loads : m.live /\ m.key = key
      /\ \A m, n \in loads : m = n
      /\ \A a \in acts : a.stage = "reloading" /\ l.id = a.load /\ (l.ver > 0 => l.ver >= saved)
      /\ acts = {} => saved = 0
      /\ saved <= data[key]
  BY DEF WebInv, OneThing, WebTyped, ActOf
<1>2. l.ver \in Int
  BY DEF WebInv, WebTyped, LoadOf, Refused
<1> QED BY <1>1, <1>2 DEF Awaiting

LEMMA AnsweredStep ==
    ASSUME WebConstants, WebInv, NEW l \in loads, Answered(l)
    PROVE  WebInv'
<1>1. l \in LoadOf(l)
  BY DEF WebInv, WebTyped
<1>2. /\ shown' \in [keys : SUBSET Keys, ver : 0..MaxVersions]
      /\ l.live => /\ failed' = FALSE /\ shown'.ver = l.ver
                   /\ shown'.keys \subseteq shown.keys \union {l.key}
                   /\ l.for # "more" => shown'.keys = {l.key}
      /\ ~l.live => shown' = shown /\ failed' = failed
  <2>1. CASE l.live
    BY <2>1, <1>1 DEF Answered, WebInv, WebTyped, WebConstants, LoadOf, Refused
  <2>2. CASE ~l.live
    BY <2>2 DEF Answered, WebInv, WebTyped
  <2> QED BY <2>1, <2>2
<1>3. WebTyped'
  <2>1. failed' \in BOOLEAN /\ known' \in Standings /\ paging' \in BOOLEAN
    BY <1>1, <1>2 DEF Answered, Paging, WebInv, WebTyped, LoadOf
  <2>2. \A m \in loads' : m \in LoadOf(m)'
    BY DEF Answered, WebInv, WebTyped, LoadOf
  <2>3. \A a \in acts' : a \in ActOf(a)'
    BY DEF Answered, WebInv, WebTyped, ActOf
  <2> QED BY <2>1, <2>2, <2>3, <1>2 DEF Answered, WebInv, WebTyped
<1>4. Entitled' /\ OfferedIsTaken'
  BY DEF Answered, WebInv, Entitled, OfferedIsTaken
<1>5. KeyInv'
  <2>1. CASE l.live
    BY <2>1, <1>2 DEF Answered, WebInv, KeyInv
  <2>2. CASE ~l.live
    BY <2>2, <1>2 DEF Answered, WebInv, KeyInv
  <2> QED BY <2>1, <2>2
<1>6. MoreInv'
  BY DEF Answered, Paging, WebInv, MoreInv
<1>7. OneThing'
  <2> SUFFICES ASSUME page.held, page.awaits \/ page.act = "takes"
               PROVE  OneThing'
    BY DEF Answered, OneThing
  <2>1. loads' = {} /\ acts' = {} /\ l.ver >= saved /\ l.live /\ saved <= data[key]
    BY LastLoad DEF Answered
  <2>2. Shows'
    BY <2>1, <1>2 DEF Answered, Shows
  <2> QED BY <2>1, <2>2 DEF Answered, OneThing
<1> QED BY <1>3, <1>4, <1>5, <1>6, <1>7 DEF WebInv

LEMMA LoadFailsStep ==
    ASSUME WebConstants, WebInv, NEW l \in loads, LoadFails(l)
    PROVE  WebInv'
<1>1. WebTyped'
  <2>1. failed' \in BOOLEAN /\ paging' \in BOOLEAN
    BY DEF LoadFails, Paging, WebInv, WebTyped, LoadOf
  <2>2. \A m \in loads' : m \in LoadOf(m)'
    BY DEF LoadFails, WebInv, WebTyped, LoadOf
  <2>3. \A a \in acts' : a \in ActOf(a)'
    BY DEF LoadFails, WebInv, WebTyped, ActOf
  <2> QED BY <2>1, <2>2, <2>3 DEF LoadFails, WebInv, WebTyped
<1>2. Entitled' /\ OfferedIsTaken'
  BY DEF LoadFails, WebInv, Entitled, OfferedIsTaken
<1>3. KeyInv'
  BY DEF LoadFails, WebInv, KeyInv
<1>4. MoreInv'
  BY DEF LoadFails, Paging, WebInv, MoreInv
<1>5. OneThing'
  <2> SUFFICES ASSUME page.held, page.awaits \/ page.act = "takes"
               PROVE  OneThing'
    BY DEF LoadFails, OneThing
  <2>1. loads' = {} /\ acts' = {} /\ failed' /\ saved <= data[key]
    BY LastLoad DEF LoadFails
  <2> QED BY <2>1 DEF LoadFails, OneThing, Shows
<1> QED BY <1>1, <1>2, <1>3, <1>4, <1>5 DEF WebInv

LEMMA DoStep ==
    ASSUME WebConstants, WebInv, NEW route \in page.sends, Do(route)
    PROVE  WebInv'
<1> DEFINE new == [id |-> UnusedPlace, route |-> route, key |-> key, stage |-> "sent",
                   ver |-> Unserved, with |-> known, who |-> known, load |-> 0]
<1>1. acts' = acts \union {new}
  BY DEF Do
<1>2. new \in ActOf(new) /\ new.stage = "sent" /\ new.key = key /\ new.with = known
  BY DEF ActOf, WebInv, WebTyped, WebConstants, Unserved
<1> HIDE DEF new
<1>3. WebTyped'
  <2>1. \A m \in loads' : m \in LoadOf(m)'
    BY DEF Do, WebInv, WebTyped, LoadOf
  <2>2. \A a \in acts' : a \in ActOf(a)'
    BY <1>1, <1>2 DEF Do, WebInv, WebTyped, ActOf
  <2> QED BY <2>1, <2>2 DEF Do, WebInv, WebTyped
<1>4. Entitled'
  BY <1>1, <1>2 DEF Do, Offered, WebInv, Entitled
<1>5. OfferedIsTaken'
  BY <1>1, <1>2 DEF WebInv, OfferedIsTaken
<1>6. KeyInv' /\ MoreInv'
  BY DEF Do, WebInv, KeyInv, MoreInv
<1>7. OneThing'
  <2> SUFFICES ASSUME page.held, page.awaits \/ page.act = "takes"
               PROVE  OneThing'
    BY DEF Do, OneThing
  <2>1. acts' = {new} /\ acts = {}
    BY <1>1 DEF Do, Offered
  <2>2. loads = {} /\ Shows
    BY <2>1 DEF Do, Offered, WebInv, OneThing, Shows
  <2>3. Shows' /\ loads' = {} /\ saved' <= data'[key']
    BY <2>2 DEF Do, Shows, WebInv, OneThing
  <2> QED BY <2>1, <2>3, <1>2 DEF Do, OneThing
<1> QED BY <1>3, <1>4, <1>5, <1>6, <1>7 DEF WebInv

\* Of a form that waits, an action whose reload has not begun is all that is under way.
LEMMA OnlyAct ==
    ASSUME WebInv, NEW a \in acts, page.held, page.awaits \/ page.act = "takes",
           a.stage # "reloading"
    PROVE  /\ acts = {a} /\ loads = {} /\ a.key = key /\ saved <= data[key]
           /\ a.stage \in {"sent", "refused"} => Shows
           /\ a.stage = "taken" => a.ver >= saved
<1>1. a.stage \in {"sent", "refused", "taken"}
  BY DEF WebInv, WebTyped, ActOf
<1> QED BY <1>1 DEF WebInv, OneThing

LEMMA ServeActStep ==
    ASSUME WebConstants, WebInv, NEW a \in acts, ServeAct(a)
    PROVE  WebInv'
<1>1. /\ a \in ActOf(a) /\ a.stage = "sent" /\ a.key \in Keys /\ a.route \in page.sends
      /\ a.route.needs \subseteq page.may /\ page.may \subseteq RightsOf(a.with)
  BY PageFits DEF ServeAct, WebInv, WebTyped, ActOf, Fits, RightsAsked, Entitled
<1>2. CASE ~(a.route.needs \subseteq RightsOf(standing))
  <2> DEFINE new == [a EXCEPT !.stage = "refused", !.who = standing]
  <2>1. acts' = (acts \ {a}) \union {new} /\ UNCHANGED <<data, saved>>
    BY <1>2 DEF ServeAct
  <2>2. /\ new \in ActOf(new) /\ new.stage = "refused" /\ new.key = a.key /\ new.with = a.with
        /\ new.who = standing
    BY <1>1 DEF ActOf, WebInv, WebTyped
  <2> HIDE DEF new
  <2>3. WebTyped'
    <3>1. \A m \in loads' : m \in LoadOf(m)'
      BY DEF ServeAct, WebInv, WebTyped, LoadOf
    <3>2. \A b \in acts' : b \in ActOf(b)'
      BY <2>1, <2>2 DEF ServeAct, WebInv, WebTyped, ActOf
    <3> QED BY <3>1, <3>2, <2>1 DEF ServeAct, WebInv, WebTyped
  <2>4. Entitled'
    BY <2>1, <2>2, <1>1 DEF ServeAct, WebInv, Entitled
  <2>5. OfferedIsTaken'
    BY <2>1, <2>2, <1>1, <1>2 DEF WebInv, OfferedIsTaken
  <2>6. KeyInv' /\ MoreInv'
    BY DEF ServeAct, WebInv, KeyInv, MoreInv
  <2>7. OneThing'
    <3> SUFFICES ASSUME page.held, page.awaits \/ page.act = "takes"
                 PROVE  OneThing'
      BY DEF ServeAct, OneThing
    <3>1. acts = {a} /\ loads = {} /\ a.key = key /\ saved <= data[key] /\ Shows
      BY OnlyAct, <1>1
    <3>2. acts' = {new} /\ loads' = {} /\ Shows' /\ saved' <= data'[key'] /\ new.key = key'
      BY <3>1, <2>1, <2>2 DEF ServeAct, Shows
    <3> QED BY <3>2, <2>2 DEF OneThing
  <2> QED BY <2>3, <2>4, <2>5, <2>6, <2>7 DEF WebInv
<1>3. CASE a.route.needs \subseteq RightsOf(standing)
  <2> DEFINE new == [a EXCEPT !.stage = "taken", !.who = standing, !.ver = data'[a.key]]
  <2>1. acts' = (acts \ {a}) \union {new}
    BY <1>3 DEF ServeAct
  <2>2. /\ data' \in [Keys -> 1..MaxVersions] /\ saved' \in 0..MaxVersions
        /\ data'[a.key] \in 1..MaxVersions /\ saved' \in {saved, data'[a.key]}
        /\ data'[a.key] >= data[a.key] /\ data[a.key] \in Nat
    <3>1. CASE a.route.changes
      <4>1. data' = [data EXCEPT ![a.key] = @ + 1] /\ saved' = data'[a.key]
            /\ data[a.key] < MaxVersions
        BY <3>1, <1>3 DEF ServeAct
      <4> QED BY <4>1, <1>1 DEF WebInv, WebTyped, WebConstants
    <3>2. CASE ~a.route.changes
      <4>1. data' = data /\ saved' = saved
        BY <3>2, <1>3 DEF ServeAct
      <4> QED BY <4>1, <1>1 DEF WebInv, WebTyped, WebConstants
    <3> QED BY <3>1, <3>2
  <2> DEFINE v == data'[a.key]
  <2>3. /\ new \in ActOf(new) /\ new.stage = "taken" /\ new.key = a.key /\ new.with = a.with
        /\ new.ver = data'[a.key]
    <3>1. v \in 0..MaxVersions /\ standing \in Standings
      BY <2>2 DEF WebInv, WebTyped, WebConstants
    <3>2. new = [a EXCEPT !.stage = "taken", !.who = standing, !.ver = v]
      OBVIOUS
    <3> HIDE DEF v, new
    <3>3. new \in ActOf(new) /\ new.stage = "taken" /\ new.key = a.key /\ new.with = a.with
          /\ new.ver = v
      BY <1>1, <3>1, <3>2 DEF ActOf
    <3> QED BY <3>3 DEF v
  <2> HIDE DEF new
  <2>4. WebTyped'
    <3>1. \A m \in loads' : m \in LoadOf(m)'
      BY DEF ServeAct, WebInv, WebTyped, LoadOf
    <3>2. \A b \in acts' : b \in ActOf(b)'
      BY <2>1, <2>3 DEF ServeAct, WebInv, WebTyped, ActOf
    <3> QED BY <3>1, <3>2, <2>2 DEF ServeAct, WebInv, WebTyped
  <2>5. Entitled'
    BY <2>1, <2>3, <1>1 DEF ServeAct, WebInv, Entitled
  <2>6. OfferedIsTaken'
    BY <2>1, <2>3 DEF WebInv, OfferedIsTaken
  <2>7. KeyInv' /\ MoreInv'
    BY DEF ServeAct, WebInv, KeyInv, MoreInv
  <2>8. OneThing'
    <3> SUFFICES ASSUME page.held, page.awaits \/ page.act = "takes"
                 PROVE  OneThing'
      BY DEF ServeAct, OneThing
    <3>1. acts = {a} /\ loads = {} /\ a.key = key /\ saved <= data[key]
      BY OnlyAct, <1>1
    <3>2. saved \in Int /\ data'[a.key] \in Int
      BY <2>2 DEF WebInv, WebTyped
    <3>3. saved' <= data'[key] /\ new.ver >= saved'
      BY <3>1, <3>2, <2>2, <2>3
    <3>4. acts' = {new} /\ loads' = {} /\ key' = key /\ new.key = key'
      BY <3>1, <2>1, <2>3 DEF ServeAct
    <3> QED BY <3>3, <3>4, <2>3 DEF OneThing
  <2> QED BY <2>4, <2>5, <2>6, <2>7, <2>8 DEF WebInv
<1> QED BY <1>2, <1>3

LEMMA TellDoneStep ==
    ASSUME WebConstants, WebInv, NEW a \in acts, TellDone(a)
    PROVE  WebInv'
<1>1. shown' \in {shown, Blank}
  BY DEF TellDone
<1>2. WebTyped'
  <2>1. shown' \in [keys : SUBSET Keys, ver : 0..MaxVersions]
    BY <1>1 DEF WebInv, WebTyped, WebConstants, Blank
  <2>2. \A m \in loads' : m \in LoadOf(m)'
    BY DEF TellDone, WebInv, WebTyped, LoadOf
  <2>3. \A b \in acts' : b \in ActOf(b)'
    BY DEF TellDone, WebInv, WebTyped, ActOf
  <2> QED BY <2>1, <2>2, <2>3 DEF TellDone, WebInv, WebTyped
<1>3. Entitled' /\ OfferedIsTaken' /\ MoreInv'
  BY DEF TellDone, WebInv, Entitled, OfferedIsTaken, MoreInv
<1>4. KeyInv'
  BY <1>1 DEF TellDone, WebInv, KeyInv, Blank
<1>5. OneThing'
  <2> SUFFICES ASSUME page.held, page.awaits \/ page.act = "takes"
               PROVE  OneThing'
    BY DEF TellDone, OneThing
  <2>1. a.stage = "refused"
    BY PageFits DEF TellDone, Fits, Shape
  <2>2. acts = {a} /\ loads = {} /\ saved <= data[key] /\ Shows
    BY OnlyAct, <2>1
  <2>3. acts' = {} /\ loads' = {} /\ saved' <= data'[key'] /\ Shows'
    BY <2>1, <2>2 DEF TellDone, Shows
  <2> QED BY <2>3 DEF OneThing
<1> QED BY <1>2, <1>3, <1>4, <1>5 DEF WebInv

LEMMA TakeDoneStep ==
    ASSUME WebConstants, WebInv, NEW a \in acts, TakeDone(a)
    PROVE  WebInv'
<1>1. a \in ActOf(a) /\ a.stage = "taken" /\ page.act = "takes" /\ Fits(page)
  BY PageFits DEF TakeDone, WebInv, WebTyped
<1>2. shown' \in [keys : SUBSET Keys, ver : 0..MaxVersions] /\ shown'.ver = a.ver
  BY <1>1 DEF TakeDone, ActOf
<1>3. WebTyped'
  <2>1. \A m \in loads' : m \in LoadOf(m)'
    BY DEF TakeDone, WebInv, WebTyped, LoadOf
  <2>2. \A b \in acts' : b \in ActOf(b)'
    BY DEF TakeDone, WebInv, WebTyped, ActOf
  <2> QED BY <2>1, <2>2, <1>2 DEF TakeDone, WebInv, WebTyped
<1>4. Entitled' /\ OfferedIsTaken' /\ MoreInv'
  BY DEF TakeDone, WebInv, Entitled, OfferedIsTaken, MoreInv
<1>5. KeyInv'
  BY <1>1 DEF TakeDone, Fits, Shape, KeyInv
<1>6. OneThing'
  <2> SUFFICES ASSUME page.held, page.awaits \/ page.act = "takes"
               PROVE  OneThing'
    BY DEF TakeDone, OneThing
  <2>1. acts = {a} /\ loads = {} /\ saved <= data[key] /\ a.ver >= saved
    BY OnlyAct, <1>1
  <2>2. acts' = {} /\ loads' = {} /\ saved' <= data'[key'] /\ Shows'
    BY <2>1, <1>2 DEF TakeDone, Shows
  <2> QED BY <2>2 DEF OneThing
<1> QED BY <1>3, <1>4, <1>5, <1>6 DEF WebInv

LEMMA ReloadDoneStep ==
    ASSUME WebConstants, WebInv, NEW a \in acts, ReloadDone(a)
    PROVE  WebInv'
<1>1. a \in ActOf(a) /\ a.stage = "taken" /\ page.act = "reloads" /\ Fits(page)
  BY PageFits DEF ReloadDone, WebInv, WebTyped
<1> DEFINE new == Reload(a)
           b == [a EXCEPT !.stage = "reloading", !.load = a.id]
<1>2. /\ new \in LoadOf(new) /\ new.id = a.id /\ new.for = "reload" /\ new.key = a.key
      /\ new.live /\ new.ver = 0
  <2> DEFINE l == Load("reload", a.key)
  <2>1. a.key \in Keys
    BY <1>1 DEF ActOf
  <2>2. l \in LoadOf(l) /\ l.for = "reload" /\ l.key = a.key /\ l.live /\ l.ver = 0
    BY <2>1, LoadIs DEF WebInv
  <2>3. new = [l EXCEPT !.id = a.id]
    BY DEF Reload
  <2> HIDE DEF l, new
  <2> QED BY <2>2, <2>3 DEF LoadOf
<1>3. /\ b \in ActOf(b) /\ b.stage = "reloading" /\ b.load = a.id /\ b.key = a.key
      /\ b.with = a.with
  BY <1>1 DEF ActOf
<1>4. /\ loads' = loads \union {new} /\ acts' \subseteq (acts \ {a}) \union {b}
      /\ page.awaits => acts' = (acts \ {a}) \union {b}
  BY DEF ReloadDone
<1> HIDE DEF new, b
<1>5. WebTyped'
  <2>1. \A m \in loads' : m \in LoadOf(m)'
    BY <1>2, <1>4 DEF WebInv, WebTyped, LoadOf
  <2>2. \A c \in acts' : c \in ActOf(c)'
    BY <1>3, <1>4 DEF ReloadDone, WebInv, WebTyped, ActOf
  <2> QED BY <2>1, <2>2 DEF ReloadDone, WebInv, WebTyped
<1>6. Entitled'
  BY <1>3, <1>4 DEF ReloadDone, WebInv, Entitled
<1>7. OfferedIsTaken'
  BY <1>3, <1>4 DEF WebInv, OfferedIsTaken
<1>8. KeyInv'
  BY <1>1 DEF ReloadDone, Fits, Shape, KeyInv
<1>9. MoreInv'
  BY <1>4 DEF ReloadDone, WebInv, MoreInv
<1>10. OneThing'
  <2> SUFFICES ASSUME page.held, page.awaits \/ page.act = "takes"
               PROVE  OneThing'
    BY DEF ReloadDone, OneThing
  <2>1. acts = {a} /\ loads = {} /\ a.key = key /\ saved <= data[key]
    BY OnlyAct, <1>1
  <2>2. acts' = {b} /\ loads' = {new} /\ saved' <= data'[key'] /\ key' = key
    BY <2>1, <1>1, <1>4 DEF ReloadDone
  <2> QED BY <2>1, <2>2, <1>2, <1>3 DEF OneThing
<1> QED BY <1>5, <1>6, <1>7, <1>8, <1>9, <1>10 DEF WebInv

LEMMA WebStep == WebConstants /\ WebInv /\ [WebNext]_webVars => WebInv'
<1> SUFFICES ASSUME WebConstants, WebInv, [WebNext]_webVars PROVE WebInv'
  OBVIOUS
<1>1. CASE UNCHANGED webVars
  <2>1. WebTyped'
    BY <1>1 DEF webVars, WebInv, WebTyped, LoadOf, ActOf
  <2>2. Entitled' /\ OfferedIsTaken' /\ KeyInv' /\ MoreInv' /\ OneThing'
    BY <1>1 DEF webVars, WebInv, Entitled, OfferedIsTaken, KeyInv, MoreInv, OneThing, Shows
  <2> QED BY <2>1, <2>2 DEF WebInv
<1>2. CASE WebNext
  BY <1>2, OtherChangesStep, ChangeKeyStep, SetStandingStep, PollAgainStep, LoadMoreStep,
     ServeLoadStep, AnsweredStep, LoadFailsStep, DoStep, ServeActStep, TellDoneStep,
     TakeDoneStep, ReloadDoneStep DEF WebNext
<1> QED BY <1>1, <1>2

LEMMA WebMeans ==
    WebInv => WebTypeOK /\ KeyKept /\ OwnChangeShown /\ OfferedIsTaken /\ MoreComesBack
<1> SUFFICES ASSUME WebInv
             PROVE  WebTypeOK /\ KeyKept /\ OwnChangeShown /\ OfferedIsTaken /\ MoreComesBack
  OBVIOUS
<1>1. WebTypeOK
  BY DEF WebInv, WebTyped, WebTypeOK, LoadOf, ActOf
<1>2. KeyKept
  BY DEF WebInv, KeyInv, KeyKept, Quiet
<1>3. OwnChangeShown
  BY DEF WebInv, OneThing, Shows, OwnChangeShown, Quiet
<1>4. MoreComesBack
  BY DEF WebInv, MoreInv, MoreComesBack
<1> QED BY <1>1, <1>2, <1>3, <1>4 DEF WebInv

-----------------------------------------------------------------------------
(* The notification choices.                                               *)

Full(f) == f = [c \in Choices |-> f[c]] /\ \A c \in Choices : f[c] \in Valid(c)
SaveOf(s) == [id : {s.id}, patch : {s.patch}, at : {"sent", "read", "stored"},
              result : {s.result}, turn : Nat]

ChoicesTyped ==
    /\ DOMAIN row \subseteq Choices /\ \A c \in DOMAIN row : row[c] \in Values(c)
    /\ view = Unloaded \/ Full(view)
    /\ Full(chosen)
    /\ \A s \in saves :
         /\ s \in SaveOf(s) /\ Full(s.result)
         /\ DOMAIN s.patch \subseteq Choices /\ \A c \in DOMAIN s.patch : s.patch[c] \in Valid(c)
    /\ counted \in [asked : 0..MaxChoices, stored : Nat, shown : Nat]
    /\ trouble \subseteq {"failed", "overtaken", "crossed"}

\* While none was overtaken, what a save read is what is stored.
ReadsHold ==
    "overtaken" \notin trouble =>
        /\ Stored = chosen
        /\ \A s \in saves : s.at = "read" => s.result = mergeSettings(Stored, s.patch)

\* The last save stored is what is stored; and it is shown, or to be.
LastShows ==
    /\ \A s \in saves : s.at = "stored" => /\ s.turn <= counted.stored
                                           /\ s.turn = counted.stored => s.result = Stored
    /\ trouble = {} =>
         /\ counted.shown <= counted.stored
         /\ \/ counted.shown = counted.stored
            \/ \E s \in saves : s.at = "stored" /\ s.turn = counted.stored
         /\ \/ view = Unloaded \/ counted.shown # counted.stored \/ view = Stored
            \/ \E s \in saves : s.at \in {"sent", "read"}

ChoicesInv == ChoicesTyped /\ ReadsHold /\ LastShows

LEMMA MergedFull ==
    ASSUME NEW base, Full(base), NEW patch
    PROVE  Full(mergeSettings(base, patch))
BY DEF Full, mergeSettings

LEMMA MergedAll ==
    ASSUME NEW base, NEW f, Full(f)
    PROVE  mergeSettings(base, f) = f
<1>1. DOMAIN f = Choices /\ f = [c \in Choices |-> f[c]] /\ \A c \in Choices : f[c] \in Valid(c)
  BY DEF Full
<1>2. mergeSettings(base, f) = [c \in Choices |-> f[c]]
  BY <1>1 DEF mergeSettings
<1> QED BY <1>1, <1>2

LEMMA DefaultsFull == ChoiceConstants => Full(DEFAULT_SETTINGS)
<1> SUFFICES ASSUME ChoiceConstants PROVE Full(DEFAULT_SETTINGS)
  OBVIOUS
<1>1. (CHOOSE v \in ValidLeads : TRUE) \in ValidLeads
  BY DEF ChoiceConstants
<1>2. \A c \in Choices : (c \in Switches) \in BOOLEAN
  OBVIOUS
<1> QED BY <1>1, <1>2 DEF Full, DEFAULT_SETTINGS, Valid

LEMMA StoredFull == ChoiceConstants => Full(Stored)
BY DefaultsFull, MergedFull DEF Stored

\* A list of choices is of some choice: nothing loaded is none of them.
LEMMA NotLoaded == ChoiceConstants => Lead \in Choices /\ \A f : Full(f) => f # Unloaded
<1> SUFFICES ASSUME ChoiceConstants, NEW f, Full(f)
             PROVE  Lead \in Choices /\ f # Unloaded
  BY DefaultsFull
<1>1. Lead \in Choices
  BY DEF Choices, Lead
<1>2. DOMAIN f = Choices
  BY DEF Full
<1>3. DOMAIN Unloaded = {}
  BY DEF Unloaded
<1> QED BY <1>1, <1>2, <1>3

LEMMA ChoicesInitial == ChoiceConstants /\ ChoicesInit => ChoicesInv
<1> SUFFICES ASSUME ChoiceConstants, ChoicesInit PROVE ChoicesInv
  OBVIOUS
<1>1. DOMAIN row \subseteq Choices /\ \A c \in DOMAIN row : row[c] \in Values(c)
  <2>1. CASE row = [c \in {} |-> TRUE]
    BY <2>1
  <2>2. CASE row \in [{Lead} -> Leads]
    <3>1. Lead \in Choices /\ Values(Lead) = Leads
      BY DEF Lead, Choices, Values
    <3> QED BY <2>2, <3>1
  <2>3. CASE row \in [{<<k, "telegram">> : k \in Alerts} -> {FALSE}]
    <3>1. ASSUME NEW c \in DOMAIN row
          PROVE  c \in Choices /\ row[c] \in Values(c)
      <4>1. PICK k \in Alerts : c = <<k, "telegram">>
        BY <2>3
      <4>2. c[1] = k /\ k # "outageLeadMinutes" /\ row[c] = FALSE
        BY <2>3, <4>1 DEF ChoiceConstants
      <4> QED BY <4>1, <4>2 DEF Choices, Switches, Channels, Values
    <3> QED BY <3>1
  <2> QED BY <2>1, <2>2, <2>3 DEF ChoicesInit, OldRows
<1>2. ChoicesTyped
  <2>1. Full(chosen)
    BY StoredFull DEF ChoicesInit, Stored
  <2> QED BY <1>1, <2>1 DEF ChoicesInit, ChoicesTyped, ChoiceConstants
<1>3. ReadsHold
  BY DEF ChoicesInit, ReadsHold, Stored
<1>4. LastShows
  BY DEF ChoicesInit, LastShows
<1> QED BY <1>2, <1>3, <1>4 DEF ChoicesInv

LEMMA OpenChoicesStep == ChoiceConstants /\ ChoicesInv /\ OpenChoices => ChoicesInv'
<1> SUFFICES ASSUME ChoiceConstants, ChoicesInv, OpenChoices PROVE ChoicesInv'
  OBVIOUS
<1>1. Stored' = Stored /\ view' = Stored /\ Full(Stored)
  BY StoredFull DEF OpenChoices, Stored
<1>2. ChoicesTyped'
  BY <1>1 DEF OpenChoices, ChoicesInv, ChoicesTyped
<1>3. ReadsHold'
  BY <1>1 DEF OpenChoices, ChoicesInv, ReadsHold
<1>4. LastShows'
  BY <1>1 DEF OpenChoices, ChoicesInv, LastShows
<1> QED BY <1>2, <1>3, <1>4 DEF ChoicesInv

LEMMA ChooseStep ==
    ASSUME ChoiceConstants, ChoicesInv, NEW c \in Choices, NEW value \in Values(c),
           Choose(c, value)
    PROVE  ChoicesInv'
<1> DEFINE new == [id |-> counted'.asked, patch |-> [d \in {c} |-> value], at |-> "sent",
                   result |-> DEFAULT_SETTINGS, turn |-> 0]
<1>1. saves' = saves \union {new} /\ Stored' = Stored
  BY DEF Choose, Stored
<1>2. /\ new \in SaveOf(new) /\ new.at = "sent" /\ Full(new.result)
      /\ DOMAIN new.patch = {c} /\ new.patch[c] = value /\ value \in Valid(c)
  BY DefaultsFull DEF Choose, SaveOf
<1> HIDE DEF new
<1>3. Full(view) /\ Full(view')
  BY DEF Choose, ChoicesInv, ChoicesTyped, Full
<1>4. /\ counted \in [asked : 0..MaxChoices, stored : Nat, shown : Nat]
      /\ counted' \in [asked : 0..MaxChoices, stored : Nat, shown : Nat]
      /\ counted'.stored = counted.stored /\ counted'.shown = counted.shown
  BY DEF Choose, ChoicesInv, ChoicesTyped, ChoiceConstants
<1>5. ChoicesTyped'
  <2>1. ASSUME NEW s \in saves'
        PROVE  /\ s \in SaveOf(s) /\ Full(s.result)
               /\ DOMAIN s.patch \subseteq Choices
               /\ \A d \in DOMAIN s.patch : s.patch[d] \in Valid(d)
    BY <1>1, <1>2 DEF ChoicesInv, ChoicesTyped
  <2> QED BY <2>1, <1>3, <1>4 DEF Choose, ChoicesInv, ChoicesTyped
<1>6. ReadsHold'
  BY <1>1, <1>2 DEF Choose, ChoicesInv, ReadsHold
<1>7. LastShows'
  BY <1>1, <1>2, <1>4 DEF Choose, ChoicesInv, LastShows
<1> QED BY <1>5, <1>6, <1>7 DEF ChoicesInv

LEMMA ReadRowStep ==
    ASSUME ChoiceConstants, ChoicesInv, NEW s \in saves, ReadRow(s)
    PROVE  ChoicesInv'
<1> DEFINE merged == mergeSettings(Stored, s.patch)
           new == [s EXCEPT !.at = "read", !.result = merged]
<1>1. saves' = (saves \ {s}) \union {new} /\ Stored' = Stored
  BY DEF ReadRow, With, Stored
<1>2. Full(merged)
  BY StoredFull, MergedFull
<1> HIDE DEF merged
<1>3. /\ new \in SaveOf(new) /\ new.at = "read" /\ new.result = merged /\ new.patch = s.patch
  BY DEF ChoicesInv, ChoicesTyped, SaveOf
<1> HIDE DEF new
<1>4. ChoicesTyped'
  <2>1. ASSUME NEW t \in saves'
        PROVE  /\ t \in SaveOf(t) /\ Full(t.result)
               /\ DOMAIN t.patch \subseteq Choices
               /\ \A d \in DOMAIN t.patch : t.patch[d] \in Valid(d)
    BY <1>1, <1>2, <1>3 DEF ChoicesInv, ChoicesTyped
  <2> QED BY <2>1 DEF ReadRow, ChoicesInv, ChoicesTyped
<1>5. ReadsHold'
  BY <1>1, <1>3 DEF merged, ReadRow, ChoicesInv, ReadsHold
<1>6. LastShows'
  <2>1. \A t \in saves' : t.at = "stored" => t \in saves
    BY <1>1, <1>3
  <2>2. \A t \in saves : t.at = "stored" => t \in saves'
    BY <1>1 DEF ReadRow
  <2>3. (\E t \in saves : t.at \in {"sent", "read"})
           => \E t \in saves' : t.at \in {"sent", "read"}
    BY <1>1, <1>3
  <2> QED BY <1>1, <2>1, <2>2, <2>3 DEF ReadRow, ChoicesInv, LastShows
<1> QED BY <1>4, <1>5, <1>6 DEF ChoicesInv

LEMMA WriteRowStep ==
    ASSUME ChoiceConstants, ChoicesInv, NEW s \in saves, WriteRow(s)
    PROVE  ChoicesInv'
<1> DEFINE new == [s EXCEPT !.at = "stored", !.turn = counted'.stored]
<1>1. /\ saves' = (saves \ {s}) \union {new} /\ s.at = "read" /\ row' = s.result
      /\ s \in SaveOf(s) /\ Full(s.result)
      /\ DOMAIN s.patch \subseteq Choices /\ \A c \in DOMAIN s.patch : s.patch[c] \in Valid(c)
  BY DEF WriteRow, With, ChoicesInv, ChoicesTyped
<1>2. Stored' = s.result
  BY <1>1, MergedAll DEF Stored
<1>3. /\ counted \in [asked : 0..MaxChoices, stored : Nat, shown : Nat]
      /\ counted' = [counted EXCEPT !.stored = counted.stored + 1]
  BY DEF WriteRow, ChoicesInv, ChoicesTyped
<1>4. /\ counted' \in [asked : 0..MaxChoices, stored : Nat, shown : Nat]
      /\ counted'.stored = counted.stored + 1 /\ counted'.shown = counted.shown
      /\ counted.stored \in Nat /\ counted.shown \in Nat
  BY <1>3
<1>5. /\ new \in SaveOf(new) /\ new.at = "stored" /\ new.result = s.result
      /\ new.patch = s.patch /\ new.turn = counted.stored + 1
  BY <1>1, <1>4 DEF SaveOf
<1> HIDE DEF new
<1>6. Full(chosen')
  BY <1>1 DEF WriteRow, ChoicesInv, ChoicesTyped, Full
<1>7. ChoicesTyped'
  <2>1. ASSUME NEW t \in saves'
        PROVE  /\ t \in SaveOf(t) /\ Full(t.result)
               /\ DOMAIN t.patch \subseteq Choices
               /\ \A d \in DOMAIN t.patch : t.patch[d] \in Valid(d)
    BY <1>1, <1>5 DEF ChoicesInv, ChoicesTyped
  <2>2. DOMAIN row' \subseteq Choices /\ \A c \in DOMAIN row' : row'[c] \in Values(c)
    <3>1. DOMAIN row' = Choices /\ \A c \in Choices : row'[c] \in Valid(c)
      BY <1>1 DEF Full
    <3> QED BY <3>1 DEF Valid, Values, ChoiceConstants
  <2>3. trouble' \subseteq {"failed", "overtaken", "crossed"}
    BY DEF WriteRow, ChoicesInv, ChoicesTyped
  <2> QED BY <2>1, <2>2, <2>3, <1>4, <1>6 DEF WriteRow, ChoicesInv, ChoicesTyped
<1>8. ReadsHold'
  <2> SUFFICES ASSUME "overtaken" \notin trouble'
               PROVE  /\ Stored' = chosen'
                      /\ \A t \in saves' : t.at # "read"
    BY DEF ReadsHold
  <2>1. "overtaken" \notin trouble /\ \A t \in saves \ {s} : t.at # "read"
    BY DEF WriteRow
  <2>2. Stored = chosen /\ s.result = mergeSettings(Stored, s.patch)
    BY <2>1, <1>1 DEF ChoicesInv, ReadsHold
  <2>3. mergeSettings(chosen, s.patch) = chosen'
    BY <1>1 DEF mergeSettings, WriteRow
  <2> QED BY <2>1, <2>2, <2>3, <1>1, <1>2, <1>5
<1>9. LastShows'
  <2>1. ASSUME NEW t \in saves', t.at = "stored"
        PROVE  t = new \/ (t.turn \in Nat /\ t.turn <= counted.stored)
    BY <2>1, <1>1 DEF ChoicesInv, ChoicesTyped, LastShows, SaveOf
  <2>2. new \in saves'
    BY <1>1
  <2>3. trouble' = {} => counted.shown <= counted.stored
    BY DEF WriteRow, ChoicesInv, LastShows
  <2>4. \A t \in saves' : t.at = "stored" =>
             t.turn <= counted'.stored /\ (t.turn = counted'.stored => t.result = Stored')
    BY <2>1, <1>2, <1>4, <1>5
  <2>5. trouble' = {} => counted'.shown <= counted'.stored /\ counted'.shown # counted'.stored
    BY <2>3, <1>4
  <2> QED BY <2>2, <2>4, <2>5, <1>4, <1>5 DEF LastShows
<1> QED BY <1>7, <1>8, <1>9 DEF ChoicesInv

LEMMA SaveAnsweredStep ==
    ASSUME ChoiceConstants, ChoicesInv, NEW s \in saves, SaveAnswered(s)
    PROVE  ChoicesInv'
<1>1. /\ s \in SaveOf(s) /\ s.at = "stored" /\ Full(s.result) /\ s.turn \in Nat
      /\ saves' = saves \ {s} /\ view' = s.result /\ Stored' = Stored
  BY DEF SaveAnswered, ShownAfter, Stored, ChoicesInv, ChoicesTyped, SaveOf
<1>2. /\ counted \in [asked : 0..MaxChoices, stored : Nat, shown : Nat]
      /\ counted' \in [asked : 0..MaxChoices, stored : Nat, shown : Nat]
      /\ counted'.stored = counted.stored /\ counted'.shown = s.turn
  BY <1>1 DEF SaveAnswered, ChoicesInv, ChoicesTyped
<1>3. ChoicesTyped'
  BY <1>1, <1>2 DEF SaveAnswered, ChoicesInv, ChoicesTyped
<1>4. ReadsHold'
  BY <1>1 DEF SaveAnswered, ChoicesInv, ReadsHold
<1>5. LastShows'
  <2>1. /\ counted.stored \in Nat /\ counted.shown \in Nat
        /\ s.turn <= counted.stored /\ (s.turn = counted.stored => s.result = Stored)
    BY <1>1, <1>2 DEF ChoicesInv, LastShows
  <2>2. ASSUME trouble' = {}
        PROVE  /\ trouble = {} /\ s.turn >= counted.shown
    BY <2>2, <2>1, <1>1 DEF SaveAnswered
  <2>3. ASSUME trouble' = {}
        PROVE  \/ s.turn = counted.stored
               \/ \E t \in saves' : t.at = "stored" /\ t.turn = counted.stored
    BY <2>1, <2>2, <2>3, <1>1 DEF ChoicesInv, LastShows
  <2> QED BY <2>1, <2>2, <2>3, <1>1, <1>2 DEF ChoicesInv, LastShows
<1> QED BY <1>3, <1>4, <1>5 DEF ChoicesInv

LEMMA SaveFailsStep ==
    ASSUME ChoiceConstants, ChoicesInv, NEW s \in saves, SaveFails(s)
    PROVE  ChoicesInv'
<1>1. Stored' = Stored /\ trouble' # {} /\ saves' \subseteq saves
  BY DEF SaveFails, Stored
<1>2. ChoicesTyped'
  BY <1>1 DEF SaveFails, ChoicesInv, ChoicesTyped
<1>3. ReadsHold' /\ LastShows'
  BY <1>1 DEF SaveFails, ChoicesInv, ReadsHold, LastShows
<1> QED BY <1>2, <1>3 DEF ChoicesInv

LEMMA ChoicesStep == ChoiceConstants /\ ChoicesInv /\ [ChoicesNext]_choiceVars => ChoicesInv'
<1> SUFFICES ASSUME ChoiceConstants, ChoicesInv, [ChoicesNext]_choiceVars PROVE ChoicesInv'
  OBVIOUS
<1>1. CASE UNCHANGED choiceVars
  <2>1. Stored' = Stored
    BY <1>1 DEF choiceVars, Stored
  <2>2. ChoicesTyped'
    BY <1>1 DEF choiceVars, ChoicesInv, ChoicesTyped
  <2>3. ReadsHold' /\ LastShows'
    BY <1>1, <2>1 DEF choiceVars, ChoicesInv, ReadsHold, LastShows
  <2> QED BY <2>2, <2>3 DEF ChoicesInv
<1>2. CASE ChoicesNext
  BY <1>2, OpenChoicesStep, ChooseStep, ReadRowStep, WriteRowStep, SaveAnsweredStep,
     SaveFailsStep DEF ChoicesNext
<1> QED BY <1>1, <1>2

LEMMA ChoicesMean == ChoicesInv => ChoicesTypeOK /\ RestStays /\ ShownIsStored
<1> SUFFICES ASSUME ChoicesInv PROVE ChoicesTypeOK /\ RestStays /\ ShownIsStored
  OBVIOUS
<1>1. ChoicesTypeOK
  BY DEF ChoicesInv, ChoicesTyped, ChoicesTypeOK, Full
<1>2. RestStays
  BY DEF ChoicesInv, ReadsHold, RestStays
<1>3. ShownIsStored
  BY DEF ChoicesInv, LastShows, ShownIsStored
<1> QED BY <1>1, <1>2, <1>3

-----------------------------------------------------------------------------
(* The theorems.                                                           *)
LEMMA PagesInvariant == PeopleSpec => []WebInv
<1>1. PeopleInit => WebInv
  BY WebInitial, WebConstants DEF PeopleInit
<1>2. WebInv /\ [PeopleNext]_<<part, vars, sessionVars, webVars, choiceVars>> => WebInv'
  BY WebStep, WebConstants DEF PeopleNext
<1> QED BY <1>1, <1>2, PTL DEF PeopleSpec

LEMMA ChoicesInvariant == PeopleSpec => []ChoicesInv
<1>1. PeopleInit => ChoicesInv
  BY ChoicesInitial, ChoiceConstants DEF PeopleInit
<1>2. ChoicesInv /\ [PeopleNext]_<<part, vars, sessionVars, webVars, choiceVars>> => ChoicesInv'
  BY ChoicesStep, ChoiceConstants DEF PeopleNext
<1> QED BY <1>1, <1>2, PTL DEF PeopleSpec

\* Whatever the tabs ask at once: a session that was signed out with no refresh
\* of it halfway gives no access again (auth.service.ts refresh, logout,
\* logoutAll, changePassword), and a tab has one refresh at most, under way for
\* as long as any of its calls waits for one (refreshPromise of apiClient.ts).
THEOREM SessionsAreKept == SessionsSpec => []SessionsKept
<1>1. SInv => SessionsKept
  BY WaitersFromSingle DEF SInv, Over, Refreshes, SessionsKept
<1> QED BY <1>1, InitialSessions, NextSessions, PTL DEF SessionsSpec

(***************************************************************************)
(* What the pages of the app show is of the key chosen, has one's own last  *)
(* change, and offers what the server takes; a notification choice at rest  *)
(* is the row's, and the page's.                                            *)
(***************************************************************************)
THEOREM PagesAreHonest == PeopleSpec => []PagesHonest
<1>1. WebInv /\ ChoicesInv => PagesHonest
  BY WebMeans, ChoicesMean DEF PagesHonest
<1> QED BY <1>1, PagesInvariant, ChoicesInvariant, PTL
=============================================================================
