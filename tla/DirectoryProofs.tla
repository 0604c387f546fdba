---------------------------- MODULE DirectoryProofs ----------------------------
(***************************************************************************)
(* Directory: rights are exercised only by who was granted them, and the    *)
(* platform keeps an owner, for any number of users, organizations,         *)
(* services, tokens and requests under way.                                 *)
(***************************************************************************)
EXTENDS Directory, FiniteSetTheorems, TLAPS

\* A request under way.
ReqType ==
    [pc : {"flags", "member", "check", "act", "role", "assign", "ask", "list"},
     caller : Users, kind : Kinds, org : Orgs \cup {NoOrg}, service : Services,
     flags : SUBSET {"admin", "member"}, reads : {"nothing", "assigned", "org", "all"},
     target : Users, add : SUBSET Services, drop : SUBSET Services, loaded : Rows \cup {NoRow}]

ReqsType == req \in [Requests -> ReqType \cup {Idle}]
-------------------------------------------------------------------------------
(* The inductive invariant.                                                *)

\* Who has not signed up has no row; who was not the first was not alone.
SignUpInv ==
    \A u \in Users :
        /\ u \in users <=> signup[u] = "done"
        /\ signup[u] = "later" => users # {}
        /\ u \notin users => \A o \in Orgs : member[<<u, o>>] = NoRow

\* A request's caller has signed up, its path names what it needs, no super admin
\* asks for the row it has, and what a request has planned concerns the services
\* of its organization.
PathInv(q) ==
    /\ req[q].caller \in users
    /\ req[q].kind \in {"admin", "self"} => req[q].org \in Orgs
    /\ req[q].pc \in {"role", "assign"} => req[q].kind = "admin"
    /\ req[q].pc = "ask" => req[q].kind = "self" /\ (req[q].caller \in admins => req[q].org # DefaultOrg)
    /\ req[q].pc = "assign" => \A s \in req[q].add \cup req[q].drop : home[s] = req[q].org

\* What a request has concluded of its caller's rights, the caller had.
RightsInv(q) ==
    /\ Now(q) \subseteq was[q]
    /\ "admin" \in req[q].flags => {"admin", "read"} \subseteq was[q]
    /\ "member" \in req[q].flags => "read" \in was[q]
    /\ req[q].pc \in {"act", "role", "assign"} /\ req[q].kind \in {"admin", "token"} => "admin" \in was[q]
    /\ req[q].pc = "ask" => "ask" \in was[q]
    /\ req[q].pc = "list" =>
         /\ req[q].kind = "scope"
         /\ req[q].reads \in {"all", "org"} => "read" \in was[q]
         /\ req[q].reads = "assigned" => "assigned" \in was[q]

ReqInv == \A q \in Requests : req[q] # Idle => PathInv(q) /\ RightsInv(q)

IInv == TypeOK /\ ReqsType /\ SignUpInv /\ BootstrapStays /\ ReqInv
-------------------------------------------------------------------------------
(* Types, and what changes only in one way.                                *)

\* Every step of a request is the step of one.
LEMMA OneRequest ==
    ASSUME ReqsType, Next
    PROVE  \/ UNCHANGED req
           \/ \E q \in Requests : Answer(q) /\ req' = [req EXCEPT ![q] = req'[q]]
<1> USE DEF To, Goto, ReqsType
<1>1. ASSUME NEW q \in Requests, Answer(q) PROVE req' = [req EXCEPT ![q] = req'[q]]
  <2>1. \E r : req' = [req EXCEPT ![q] = r]
      BY <1>1 DEF Answer, Arrive, ReadAdmin, ReadMember, Authorise, CreateOrganization,
          RequestMembership, CommitMembership, UpdateStatus, SkipStatus, UpdateRole, RemoveMember, PlanAssignment,
          CommitAssignment, CreateService, DeleteService, IssueToken, RevokeToken, ReadScope, ListScope
  <2>q. QED
      BY <2>1
<1>q. QED
    BY <1>1 DEF Next, SignUpReads, SignUpCommits, SignIn, SelectOrg

\* A request is idle or under way.
LEMMA UnderWay ==
    ASSUME ReqsType, NEW q \in Requests
    PROVE  /\ req[q] = Idle <=> req[q].pc = "idle"
           /\ req[q] # Idle => req[q] \in ReqType
BY DEF ReqsType, ReqType, Idle

\* A step of a request changes where it is and, of its fields, one group.
LEMMA Edits ==
    ASSUME NEW r \in ReqType,
           NEW p \in {"flags", "member", "check", "act", "role", "assign", "ask", "list"}
    PROVE  /\ [r EXCEPT !.pc = p] \in ReqType
           /\ \A f \in SUBSET {"admin", "member"} : [r EXCEPT !.pc = p, !.flags = f] \in ReqType
           /\ \A x \in {"nothing", "assigned", "org", "all"} : [r EXCEPT !.pc = p, !.reads = x] \in ReqType
           /\ \A u \in Users : [r EXCEPT !.pc = p, !.target = u] \in ReqType
           /\ \A m \in Rows \cup {NoRow} : [r EXCEPT !.pc = p, !.loaded = m] \in ReqType
           /\ \A u \in Users, a, d \in SUBSET Services :
                 [r EXCEPT !.pc = p, !.target = u, !.add = a, !.drop = d] \in ReqType
<1>1. [r EXCEPT !.pc = p] \in ReqType
    BY DEF ReqType
<1>2. ASSUME NEW f \in SUBSET {"admin", "member"} PROVE [r EXCEPT !.pc = p, !.flags = f] \in ReqType
    BY DEF ReqType
<1>3. ASSUME NEW x \in {"nothing", "assigned", "org", "all"} PROVE [r EXCEPT !.pc = p, !.reads = x] \in ReqType
    BY DEF ReqType
<1>4. ASSUME NEW u \in Users PROVE [r EXCEPT !.pc = p, !.target = u] \in ReqType
    BY DEF ReqType
<1>5. ASSUME NEW u \in Users, NEW a \in SUBSET Services, NEW d \in SUBSET Services
      PROVE  [r EXCEPT !.pc = p, !.target = u, !.add = a, !.drop = d] \in ReqType
    BY DEF ReqType
<1>6. ASSUME NEW m \in Rows \cup {NoRow} PROVE [r EXCEPT !.pc = p, !.loaded = m] \in ReqType
    BY DEF ReqType
<1>q. QED
    BY <1>1, <1>2, <1>3, <1>4, <1>5, <1>6

\* The fields of a request stay in their types.
LEMMA RequestTypes ==
    ASSUME IInv, NEW q \in Requests, Answer(q) PROVE req'[q] \in ReqType \cup {Idle}
<1> USE DEF To, Goto
<1>1. ReqsType /\ users \subseteq Users /\ orgs \subseteq Orgs /\ (req[q].pc = "idle" \/ req[q] \in ReqType)
    BY UnderWay DEF IInv, TypeOK
<1>2. \A r : req' = [req EXCEPT ![q] = r] => req'[q] = r
    BY DEF IInv, ReqsType
<1>3. CASE Arrive(q)
  <2>1. PICK u \in users, k \in Kinds, o \in Orgs \cup {NoOrg}, s \in Services :
            req'[q] = [pc |-> "flags", caller |-> u, kind |-> k, org |-> o, service |-> s,
                       flags |-> {}, reads |-> "nothing", target |-> u, add |-> {}, drop |-> {},
                       loaded |-> NoRow]
      BY <1>2, <1>3 DEF Arrive
  <2>2. users \subseteq Users
      BY DEF IInv, TypeOK
  <2>q. QED
      BY <2>1, <2>2 DEF ReqType
<1>4. CASE ~Arrive(q)
  <2>1. req[q] \in ReqType
    <3>1. req[q].pc # "idle"
        BY <1>4 DEF Answer, ReadAdmin, ReadMember, Authorise, CreateOrganization, RequestMembership,
            CommitMembership, UpdateStatus, SkipStatus, UpdateRole, RemoveMember, PlanAssignment, CommitAssignment,
            CreateService, DeleteService, IssueToken, RevokeToken, ReadScope, ListScope, Acts
    <3>q. QED
        BY <3>1, UnderWay DEF IInv
  <2>2. CASE ReadAdmin(q) \/ ReadMember(q)
    <3>1. \/ \E f \in SUBSET {"admin", "member"} : req'[q] = [req[q] EXCEPT !.pc = "check", !.flags = f]
          \/ req'[q] = [req[q] EXCEPT !.pc = "member"]
      <4>1. CASE ReadAdmin(q)
        <5>1. CASE Elevated(req[q].caller)
          <6>1. req'[q] = [req[q] EXCEPT !.pc = "check", !.flags = {"admin", "member"}]
              BY <1>2, <4>1, <5>1 DEF ReadAdmin
          <6>q. QED
              BY <6>1
        <5>2. CASE ~Elevated(req[q].caller)
            BY <1>2, <4>1, <5>2 DEF ReadAdmin
        <5>q. QED
            BY <5>1, <5>2
      <4>2. CASE ReadMember(q)
        <5>1. req'[q] = [req[q] EXCEPT !.pc = "check",
                                       !.flags = IF Approved(req[q].caller, DefaultOrg) THEN {"member"} ELSE {}]
            BY <1>2, <4>2 DEF ReadMember
        <5>2. (IF Approved(req[q].caller, DefaultOrg) THEN {"member"} ELSE {}) \in SUBSET {"admin", "member"}
            OBVIOUS
        <5>q. QED
            BY <5>1, <5>2
      <4>q. QED
          BY <2>2, <4>1, <4>2
    <3>2. /\ \A f \in SUBSET {"admin", "member"} : [req[q] EXCEPT !.pc = "check", !.flags = f] \in ReqType
          /\ [req[q] EXCEPT !.pc = "member"] \in ReqType
        BY <2>1, Edits
    <3>q. QED
        BY <3>1, <3>2
  <2>3. CASE Authorise(q) \/ SkipStatus(q)
    <3>1. \/ req'[q] = Idle \/ req'[q] = [req[q] EXCEPT !.pc = "act"]
          \/ \E u \in Users : req'[q] = [req[q] EXCEPT !.pc = "role", !.target = u]
        BY <1>2, <2>3 DEF Authorise, SkipStatus
    <3>2. /\ [req[q] EXCEPT !.pc = "act"] \in ReqType
          /\ \A u \in Users : [req[q] EXCEPT !.pc = "role", !.target = u] \in ReqType
        BY <2>1, Edits
    <3>q. QED
        BY <3>1, <3>2
  <2>4. CASE UpdateStatus(q)
    <3>1. req'[q] = Idle \/ \E u \in Users : req'[q] = [req[q] EXCEPT !.pc = "role", !.target = u]
        BY <1>2, <2>4 DEF UpdateStatus
    <3>2. \A u \in Users : [req[q] EXCEPT !.pc = "role", !.target = u] \in ReqType
        BY <2>1, Edits
    <3>q. QED
        BY <3>1, <3>2
  <2>5. CASE PlanAssignment(q)
    <3>1. PICK u \in Users, a, d \in SUBSET Services :
              req'[q] = [req[q] EXCEPT !.pc = "assign", !.target = u, !.add = a, !.drop = d]
      <4>1. PICK u \in Users, wanted \in SUBSET Services :
                To(q, [req[q] EXCEPT !.pc = "assign", !.target = u,
                          !.add = Kept(wanted, req[q].org) \ {s \in OfOrg(req[q].org) : <<u, s>> \in assigned},
                          !.drop = {s \in OfOrg(req[q].org) : <<u, s>> \in assigned} \ Kept(wanted, req[q].org)])
          BY <2>5 DEF PlanAssignment
      <4>2. OfOrg(req[q].org) \subseteq Services
          BY DEF OfOrg, IInv, TypeOK
      <4>q. QED
          BY <1>2, <4>1, <4>2 DEF Kept
    <3>2. [req[q] EXCEPT !.pc = "assign", !.target = u, !.add = a, !.drop = d] \in ReqType
        BY <2>1, Edits
    <3>q. QED
        BY <3>1, <3>2
  <2>6. CASE ReadScope(q)
    <3>1. \E x \in {"nothing", "assigned", "org", "all"} : req'[q] = [req[q] EXCEPT !.pc = "list", !.reads = x]
      <4> DEFINE x == CASE req[q].flags # {} /\ req[q].org = NoOrg -> "all"
                        [] req[q].flags # {} -> "org"
                        [] req[q].org = NoOrg -> "nothing"
                        [] OTHER -> Reads(req[q].caller, req[q].org)
      <4>1. req'[q] = [req[q] EXCEPT !.pc = "list", !.reads = x]
          BY <1>2, <2>6 DEF ReadScope
      <4>2. x \in {"nothing", "assigned", "org", "all"}
          BY DEF Reads
      <4>q. QED
          BY <4>1, <4>2, Zenon
    <3>2. \A x \in {"nothing", "assigned", "org", "all"} : [req[q] EXCEPT !.pc = "list", !.reads = x] \in ReqType
        BY <2>1, Edits
    <3>q. QED
        BY <3>1, <3>2
  <2>7. CASE RequestMembership(q)
    <3>1. req'[q] = Idle \/ req'[q] = [req[q] EXCEPT !.pc = "ask", !.loaded = member[<<req[q].caller, req[q].org>>]]
        BY <1>2, <2>7 DEF RequestMembership
    <3>2. member[<<req[q].caller, req[q].org>>] \in Rows \cup {NoRow}
        BY <2>1, <2>7 DEF RequestMembership, Acts, IInv, TypeOK, ReqInv, PathInv, ReqType, Idle
    <3>3. \A m \in Rows \cup {NoRow} : [req[q] EXCEPT !.pc = "ask", !.loaded = m] \in ReqType
        BY <2>1, Edits
    <3>q. QED
        BY <3>1, <3>2, <3>3
  <2>8. CASE \/ CreateOrganization(q) \/ CommitMembership(q) \/ UpdateRole(q) \/ RemoveMember(q)
             \/ CommitAssignment(q) \/ CreateService(q) \/ DeleteService(q)
             \/ IssueToken(q) \/ RevokeToken(q) \/ ListScope(q)
      BY <1>2, <2>8 DEF CreateOrganization, CommitMembership, UpdateRole, RemoveMember,
          CommitAssignment, CreateService, DeleteService, IssueToken, RevokeToken, ListScope
  <2>q. QED
      BY <1>4, <2>2, <2>3, <2>4, <2>5, <2>6, <2>7, <2>8 DEF Answer
<1>q. QED
    BY <1>3, <1>4

\* Requests keep their types.
LEMMA ReqsTypeStep ==
    ASSUME IInv, Next PROVE ReqsType'
<1>1. ReqsType
    BY DEF IInv
<1>q. QED
    BY <1>1, OneRequest, RequestTypes DEF ReqsType

\* A service stays in its organization.
LEMMA HomeStays ==
    ASSUME IInv, Next, NEW s \in Services PROVE home'[s] = home[s] \/ home[s] = NoOrg
BY DEF IInv, TypeOK, Next, SignUpReads, SignUpCommits, SignIn, SelectOrg, directory, Answer, Arrive,
    ReadAdmin, ReadMember, Authorise, CreateOrganization, RequestMembership, CommitMembership, UpdateStatus, SkipStatus,
    UpdateRole, RemoveMember, PlanAssignment, CommitAssignment, CreateService, DeleteService,
    IssueToken, RevokeToken, ReadScope, ListScope

-------------------------------------------------------------------------------
(* The rows.                                                               *)

\* Of the steps of a request, those that only read, those that write rows of
\* membership, and those that write something else.
Reading(q) ==
    Arrive(q) \/ ReadAdmin(q) \/ ReadMember(q) \/ Authorise(q) \/ SkipStatus(q) \/ PlanAssignment(q)
    \/ RequestMembership(q) \/ ReadScope(q) \/ ListScope(q)
Enrolling(q) == CommitMembership(q) \/ UpdateStatus(q) \/ UpdateRole(q) \/ RemoveMember(q)
Providing(q) ==
    CreateOrganization(q) \/ CommitAssignment(q) \/ CreateService(q) \/ DeleteService(q)
    \/ IssueToken(q) \/ RevokeToken(q)

\* q acts as an owner of organization o.
Administers(q, o) ==
    /\ req[q].kind = "admin" /\ req[q].org = o
    /\ req[q].pc \in {"act", "role", "assign"} /\ req'[q] # req[q]

\* q is the request of user u for a membership of organization o.
Asks(q, u, o) ==
    req[q].kind = "self" /\ req[q].pc = "ask" /\ req[q].caller = u /\ req[q].org = o /\ req'[q] # req[q]

\* A row becomes another one in a legal way: an owner of its organization edits a
\* row that is no super admin's, or its user asks for it.
Legal(u, o, row) ==
    \/ /\ \E q \in Requests : Administers(q, o)
       /\ member[<<u, o>>] # NoRow /\ u \notin admins
    \/ /\ \E q \in Requests : Asks(q, u, o)
       /\ row.status = "pending" /\ u \in users /\ (u \in admins => o # DefaultOrg)

\* A request that acts as an owner moves on.
LEMMA MovesOn ==
    ASSUME IInv, NEW q \in Requests, UpdateStatus(q) \/ UpdateRole(q) \/ RemoveMember(q)
    PROVE  req[q].org \in Orgs /\ Administers(q, req[q].org)
<1>1. /\ req[q] # Idle /\ ReqsType
      /\ \/ req[q].pc = "act" /\ req[q].kind = "admin"
         \/ req[q].pc = "role" /\ req'[q] = Idle
    BY UnderWay DEF IInv, ReqsType, UpdateStatus, UpdateRole, RemoveMember, Acts, To, Goto
<1>2. PathInv(q) /\ req[q].pc # "idle" /\ req[q] \in ReqType
    BY <1>1, UnderWay DEF IInv, ReqInv
<1>3. req'[q] # req[q]
  <2>1. \/ req'[q] = Idle
        \/ /\ req[q].pc = "act"
           /\ \E u \in Users, p \in {"role", "done"} :
                 req'[q] = IF p = "done" THEN Idle ELSE [req[q] EXCEPT !.pc = p, !.target = u]
      BY <1>1 DEF ReqsType, UpdateStatus, UpdateRole, RemoveMember, To, Goto
  <2>2. ASSUME NEW u PROVE [req[q] EXCEPT !.pc = "role", !.target = u].pc = "role"
      BY <1>2 DEF ReqType
  <2>q. QED
      BY <1>1, <2>1, <2>2
<1>q. QED
    BY <1>1, <1>2, <1>3 DEF PathInv, Administers

\* A request writes at most one membership, and none that takes the owner of the platform away.
LEMMA EnrolsLegally ==
    ASSUME IInv, NEW q \in Requests, Enrolling(q)
    PROVE  \/ UNCHANGED member
           \/ \E u \in Users, o \in Orgs, row \in Rows \cup {NoRow} :
                 member' = [member EXCEPT ![<<u, o>>] = row] /\ Legal(u, o, row)
<1>1. member \in [Users \X Orgs -> Rows \cup {NoRow}] /\ admins \subseteq users /\ users \subseteq Users
    BY DEF IInv, TypeOK
<1>2. CASE CommitMembership(q)
  <2> DEFINE u == req[q].caller  o == req[q].org
  <2>1. /\ u \in users /\ o \in Orgs /\ (u \in admins => o # DefaultOrg)
        /\ req[q] \in ReqType /\ req[q].kind = "self" /\ req[q].pc = "ask"
      BY <1>2, UnderWay DEF CommitMembership, IInv, ReqInv, PathInv, Idle
  <2>2. req'[q] = Idle
      BY <1>2 DEF CommitMembership, Goto, To, IInv, ReqsType
  <2>3. Asks(q, u, o)
      BY <2>1, <2>2 DEF Asks, Idle
  <2>4. CASE UNCHANGED member
      BY <2>4
  <2>5. CASE ~UNCHANGED member
    <3>1. (req[q].loaded = NoRow) = (member[<<u, o>>] = NoRow)
        BY <1>2, <2>5 DEF CommitMembership
    <3>2. PICK r \in Roles :
              member' = [member EXCEPT ![<<u, o>>] =
                            [role |-> IF r = req[q].loaded.role THEN member[<<u, o>>].role ELSE r,
                             status |-> "pending"]]
        BY <1>2, <3>1 DEF CommitMembership
    <3> DEFINE x == IF r = req[q].loaded.role THEN member[<<u, o>>].role ELSE r
    <3>3. x \in Roles
      <4>1. member[<<u, o>>] \in Rows \cup {NoRow} /\ req[q].loaded \in Rows \cup {NoRow}
          BY <1>1, <2>1 DEF ReqType
      <4>q. QED
          BY <3>1, <4>1 DEF Rows, NoRow, Roles
    <3>4. [role |-> x, status |-> "pending"] \in Rows
        BY <3>3 DEF Rows, Statuses
    <3>5. Legal(u, o, [role |-> x, status |-> "pending"])
        BY <2>1, <2>3 DEF Legal
    <3>q. QED
        BY <1>1, <2>1, <3>2, <3>4, <3>5
  <2>q. QED
      BY <2>4, <2>5
<1>3. CASE UpdateStatus(q)
  <2>1. CASE UNCHANGED member
      BY <2>1
  <2>2. CASE ~UNCHANGED member
    <3>1. PICK u \in Users, s \in Statuses :
              /\ Editable(u, req[q].org)
              /\ member' = [member EXCEPT ![<<u, req[q].org>>] =
                                [role |-> member[<<u, req[q].org>>].role, status |-> s]]
        BY <1>3, <2>2 DEF UpdateStatus
    <3>2. req[q].org \in Orgs /\ Administers(q, req[q].org)
        BY <1>3, MovesOn
    <3>3. [role |-> member[<<u, req[q].org>>].role, status |-> s] \in Rows
        BY <1>1, <3>1, <3>2 DEF Editable, Rows
    <3>q. QED
        BY <3>1, <3>2, <3>3 DEF Legal, Editable
  <2>q. QED
      BY <2>1, <2>2
<1>4. CASE UpdateRole(q)
  <2> DEFINE u == req[q].target  o == req[q].org
  <2>1. o \in Orgs /\ Administers(q, o) /\ u \in Users
      BY <1>4, MovesOn, UnderWay DEF UpdateRole, IInv, ReqType, Idle
  <2>2. CASE Editable(u, o)
    <3>1. PICK r \in Roles : member' = [member EXCEPT ![<<u, o>>] = [role |-> r, status |-> member[<<u, o>>].status]]
        BY <1>4, <2>2 DEF UpdateRole
    <3>2. [role |-> r, status |-> member[<<u, o>>].status] \in Rows
        BY <1>1, <2>1, <2>2 DEF Editable, Rows
    <3>q. QED
        BY <2>1, <2>2, <3>1, <3>2 DEF Legal, Editable
  <2>3. CASE ~Editable(u, o)
      BY <1>4, <2>3 DEF UpdateRole
  <2>q. QED
      BY <2>2, <2>3
<1>5. CASE RemoveMember(q)
  <2>1. req[q].org \in Orgs /\ Administers(q, req[q].org)
      BY <1>5, MovesOn
  <2>q. QED
      BY <1>5, <2>1 DEF RemoveMember, Legal, Editable
<1>q. QED
    BY <1>2, <1>3, <1>4, <1>5 DEF Enrolling

\* Memberships are written by sign-ups and by requests that enrol.
LEMMA Enrolments ==
    ASSUME Next
    PROVE  \/ \E u \in Users : SignUpCommits(u)
           \/ UNCHANGED <<users, admins, signup>> /\ \E q \in Requests : Enrolling(q)
           \/ UNCHANGED <<users, admins, member>> /\ (UNCHANGED signup \/ \E u \in Users : SignUpReads(u))
<1> USE DEF directory
<1>1. CASE \E q \in Requests : Reading(q) \/ Providing(q)
  <2>1. PICK q \in Requests : Reading(q) \/ Providing(q)
      BY <1>1
  <2>2. CASE Reading(q)
      BY <2>2 DEF Reading, Arrive, ReadAdmin, ReadMember, Authorise, SkipStatus, PlanAssignment,
          RequestMembership, ReadScope, ListScope
  <2>3. CASE Providing(q)
      BY <2>3 DEF Providing, CreateOrganization, CommitAssignment, CreateService, DeleteService,
          IssueToken, RevokeToken
  <2>q. QED
      BY <2>1, <2>2, <2>3
<1>2. CASE \E q \in Requests : Enrolling(q)
    BY <1>2 DEF Enrolling, CommitMembership, UpdateStatus, UpdateRole, RemoveMember
<1>3. CASE \E u \in Users : SignUpReads(u) \/ SignUpCommits(u) \/ SignIn(u) \/ \E o \in Orgs : SelectOrg(u, o)
    BY <1>3 DEF SignUpReads, SignIn, SelectOrg
<1>q. QED
    BY <1>1, <1>2, <1>3 DEF Next, Answer, Reading, Providing, Enrolling

\* What the commit of a sign-up writes: the user had no row before.
LEMMA SignsUp ==
    ASSUME IInv, NEW u \in Users, SignUpCommits(u)
    PROVE  /\ users' = users \cup {u} /\ u \notin users
           /\ signup' = [signup EXCEPT ![u] = "done"]
           /\ \A o \in Orgs : member[<<u, o>>] = NoRow
           /\ \E o \in Orgs, row \in Rows :
                /\ member' = [member EXCEPT ![<<u, o>>] = row]
                /\ \/ admins' = admins /\ row.status = "pending" /\ signup[u] = "later"
                   \/ admins' = admins \cup {u} /\ o = DefaultOrg /\ row = [role |-> "PO", status |-> "approved"]
<1>1. SignUpInv /\ orgs \subseteq Orgs
    BY DEF IInv, TypeOK
<1>2. /\ users' = users \cup {u} /\ u \notin users /\ signup' = [signup EXCEPT ![u] = "done"]
      /\ \A o \in Orgs : member[<<u, o>>] = NoRow
    BY <1>1 DEF SignUpCommits, SignUpInv
<1>3. CASE signup[u] = "first"
  <2>1. [role |-> "PO", status |-> "approved"] \in Rows
      BY DEF Rows, Roles, Statuses
  <2>q. QED
      BY <1>2, <1>3, <2>1, OrgsAssumption DEF SignUpCommits
<1>4. CASE signup[u] # "first"
  <2>1. PICK o \in orgs, r \in Roles : member' = [member EXCEPT ![<<u, o>>] = [role |-> r, status |-> "pending"]]
      BY <1>4 DEF SignUpCommits
  <2>2. [role |-> r, status |-> "pending"] \in Rows
      BY DEF Rows, Statuses
  <2>3. admins' = admins /\ signup[u] = "later"
      BY <1>4 DEF SignUpCommits
  <2>q. QED
      BY <1>1, <1>2, <2>1, <2>2, <2>3
<1>q. QED
    BY <1>3, <1>4

\* How a row changes, whichever step it is.
LEMMA RowChanges ==
    ASSUME IInv, Next, NEW u \in Users, NEW o \in Orgs, member'[<<u, o>>] # member[<<u, o>>]
    PROVE  \/ Legal(u, o, member'[<<u, o>>])
           \/ /\ u \notin users /\ u \in users' /\ member[<<u, o>>] = NoRow
              /\ u \in admins' \/ member'[<<u, o>>].status = "pending"
<1>1. member \in [Users \X Orgs -> Rows \cup {NoRow}]
    BY DEF IInv, TypeOK
<1>2. ASSUME NEW x, NEW y, NEW row, <<x, y>> \in Users \X Orgs, member' = [member EXCEPT ![<<x, y>>] = row]
      PROVE  u = x /\ o = y /\ member'[<<u, o>>] = row
  <2>1. <<u, o>> \in Users \X Orgs
      OBVIOUS
  <2>2. <<u, o>> = <<x, y>>
      BY <1>1, <1>2, <2>1
  <2>q. QED
      BY <1>1, <1>2, <2>2
<1>3. CASE \E x \in Users : SignUpCommits(x)
  <2>1. PICK x \in Users : SignUpCommits(x)
      BY <1>3
  <2>2. PICK y \in Orgs, row \in Rows :
            /\ member' = [member EXCEPT ![<<x, y>>] = row]
            /\ row.status = "pending" \/ admins' = admins \cup {x}
      BY <2>1, SignsUp
  <2>3. u = x /\ o = y /\ member'[<<u, o>>] = row
      BY <1>2, <2>2
  <2>q. QED
      BY <2>1, <2>2, <2>3, SignsUp
<1>4. CASE \E q \in Requests : Enrolling(q)
  <2>1. PICK x \in Users, y \in Orgs, row \in Rows \cup {NoRow} :
            member' = [member EXCEPT ![<<x, y>>] = row] /\ Legal(x, y, row)
      BY <1>4, EnrolsLegally
  <2>2. u = x /\ o = y /\ member'[<<u, o>>] = row
      BY <1>2, <2>1
  <2>q. QED
      BY <2>1, <2>2
<1>q. QED
    BY <1>3, <1>4, Enrolments

\* Who is in the middle of a sign-up has no row yet, and a second one finds the first.
LEMMA SignUpStep ==
    ASSUME IInv, Next PROVE SignUpInv'
<1>1. /\ SignUpInv /\ member \in [Users \X Orgs -> Rows \cup {NoRow}]
      /\ signup \in [Users -> {"none", "first", "later", "done"}]
    BY DEF IInv, TypeOK
<1> SUFFICES ASSUME NEW u \in Users
             PROVE  /\ u \in users' <=> signup'[u] = "done"
                    /\ signup'[u] = "later" => users' # {}
                    /\ u \notin users' => \A o \in Orgs : member'[<<u, o>>] = NoRow
    BY DEF SignUpInv
<1>2. /\ u \in users <=> signup[u] = "done"
      /\ signup[u] = "later" => users # {}
      /\ u \notin users => \A o \in Orgs : member[<<u, o>>] = NoRow
    BY <1>1 DEF SignUpInv
<1>3. users \subseteq users'
    BY Enrolments, SignsUp
<1>4. (u \in users' <=> signup'[u] = "done") /\ (signup'[u] = "later" => users' # {})
  <2>1. CASE \E x \in Users : SignUpCommits(x)
      BY <1>1, <1>2, <1>3, <2>1, SignsUp
  <2>2. CASE UNCHANGED <<users, signup>>
      BY <1>2, <2>2
  <2>3. CASE UNCHANGED users /\ \E x \in Users : SignUpReads(x)
      BY <1>1, <1>2, <2>3 DEF SignUpReads
  <2>q. QED
      BY <2>1, <2>2, <2>3, Enrolments
<1>5. ASSUME u \notin users', NEW o \in Orgs PROVE member'[<<u, o>>] = NoRow
  <2>1. u \notin users /\ member[<<u, o>>] = NoRow
      BY <1>2, <1>3, <1>5
  <2>q. QED
      BY <1>5, <2>1, RowChanges DEF Legal
<1>q. QED
    BY <1>4, <1>5

\* The first user stays super admin and owner of the default organization.
LEMMA BootstrapStep ==
    ASSUME IInv, Next PROVE BootstrapStays'
<1>1. /\ BootstrapStays /\ SignUpInv /\ admins \subseteq users /\ users \subseteq Users
      /\ member \in [Users \X Orgs -> Rows \cup {NoRow}]
    BY DEF IInv, TypeOK
<1>2. users' # {} => admins' # {}
  <2>1. CASE \E x \in Users : SignUpCommits(x)
    <3>1. PICK x \in Users : SignUpCommits(x)
        BY <2>1
    <3>2. x \in admins' \/ (admins' = admins /\ users # {})
        BY <1>1, <3>1, SignsUp DEF SignUpInv
    <3>q. QED
        BY <1>1, <3>2 DEF BootstrapStays
  <2>2. CASE UNCHANGED <<users, admins>>
      BY <1>1, <2>2 DEF BootstrapStays
  <2>q. QED
      BY <2>1, <2>2, Enrolments
<1>3. ASSUME NEW u \in admins' PROVE OwnerOf(u, DefaultOrg)'
  <2>1. CASE u \in admins
    <3>1. u \in Users /\ member[<<u, DefaultOrg>>].status = "approved" /\ member[<<u, DefaultOrg>>].role = "PO"
        BY <1>1, <2>1 DEF BootstrapStays, OwnerOf, Approved
    <3>2. member'[<<u, DefaultOrg>>] = member[<<u, DefaultOrg>>]
        BY <1>1, <2>1, <3>1, RowChanges, OrgsAssumption DEF Legal
    <3>q. QED
        BY <3>1, <3>2 DEF OwnerOf, Approved
  <2>2. CASE u \notin admins
    <3>1. PICK x \in Users : SignUpCommits(x)
        BY <1>3, <2>2, Enrolments
    <3>2. u = x /\ member' = [member EXCEPT ![<<u, DefaultOrg>>] = [role |-> "PO", status |-> "approved"]]
      <4>1. PICK o \in Orgs, row \in Rows :
                /\ member' = [member EXCEPT ![<<x, o>>] = row]
                /\ \/ admins' = admins
                   \/ admins' = admins \cup {x} /\ o = DefaultOrg /\ row = [role |-> "PO", status |-> "approved"]
          BY <3>1, SignsUp
      <4>q. QED
          BY <1>3, <2>2, <4>1
    <3>3. <<u, DefaultOrg>> \in Users \X Orgs
        BY <3>1, <3>2, OrgsAssumption
    <3>4. member'[<<u, DefaultOrg>>] = [role |-> "PO", status |-> "approved"]
        BY <1>1, <3>2, <3>3
    <3>q. QED
        BY <3>4 DEF OwnerOf, Approved
  <2>q. QED
      BY <2>1, <2>2
<1>q. QED
    BY <1>2, <1>3 DEF BootstrapStays

\* Rows keep their types.
LEMMA TypeStep ==
    ASSUME IInv, Next PROVE TypeOK'
<1>1. TypeOK /\ ReqsType /\ ReqInv
    BY DEF IInv
<1>2. (admins \subseteq users /\ users \subseteq Users)'
    BY <1>1, Enrolments, SignsUp DEF TypeOK
<1>3. signup' \in [Users -> {"none", "first", "later", "done"}]
    BY <1>1, Enrolments, SignsUp DEF TypeOK, SignUpReads
<1>4. member' \in [Users \X Orgs -> Rows \cup {NoRow}]
  <2>1. \/ UNCHANGED member
        \/ \E u \in Users, o \in Orgs, row \in Rows \cup {NoRow} : member' = [member EXCEPT ![<<u, o>>] = row]
    <3>1. CASE \E u \in Users : SignUpCommits(u)
        BY <3>1, SignsUp
    <3>2. CASE \E q \in Requests : Enrolling(q)
        BY <3>2, EnrolsLegally
    <3>q. QED
        BY <3>1, <3>2, Enrolments
  <2>q. QED
      BY <1>1, <2>1 DEF TypeOK
<1> USE DEF SignUpReads, SignUpCommits, SignIn, SelectOrg, directory, Answer, Arrive,
        ReadAdmin, ReadMember, Authorise, CreateOrganization, RequestMembership, CommitMembership, UpdateStatus, SkipStatus,
        UpdateRole, RemoveMember, PlanAssignment, CommitAssignment, CreateService, DeleteService,
        IssueToken, RevokeToken, ReadScope, ListScope
<1>5. DefaultOrg \in orgs' /\ orgs' \subseteq Orgs
    BY <1>1, OrgsAssumption DEF Next, TypeOK
<1>6. claims' \subseteq Users \X (Orgs \cup {NoOrg})
  <2>1. claims \subseteq Users \X (Orgs \cup {NoOrg}) /\ orgs \subseteq Orgs
      BY <1>1 DEF TypeOK
  <2>2. CASE UNCHANGED claims
      BY <2>1, <2>2
  <2>3. CASE \E u \in Users : SignIn(u)
    <3>1. PICK u \in Users : SignIn(u)
        BY <2>3
    <3> DEFINE own == {o \in Orgs : Approved(u, o)}
               org == IF Elevated(u) THEN DefaultOrg
                      ELSE IF Cardinality(own) = 1 THEN CHOOSE o \in own : TRUE ELSE NoOrg
    <3>2. claims' = claims \cup {<<u, org>>}
        BY <3>1
    <3>3. Cardinality(own) = 1 => own # {}
        BY FS_EmptySet
    <3>4. own # {} => (CHOOSE o \in own : TRUE) \in own
        OBVIOUS
    <3>5. org \in Orgs \cup {NoOrg}
        BY <3>3, <3>4, OrgsAssumption
    <3> HIDE DEF org
    <3>q. QED
        BY <2>1, <3>2, <3>5
  <2>4. CASE \E u \in Users : SignUpCommits(u) \/ \E o \in Orgs : SelectOrg(u, o)
    <3>1. \E u \in Users, o \in Orgs \cup {NoOrg} : claims' = claims \cup {<<u, o>>}
        BY <2>4, OrgsAssumption
    <3>q. QED
        BY <2>1, <3>1
  <2>q. QED
      BY <2>2, <2>3, <2>4 DEF Next
<1>7. /\ home' \in [Services -> Orgs \cup {NoOrg}]
      /\ alive' \subseteq {s \in Services : home'[s] # NoOrg}
  <2>1. /\ home \in [Services -> Orgs \cup {NoOrg}]
        /\ alive \subseteq {s \in Services : home[s] # NoOrg}
      BY <1>1 DEF TypeOK
  <2>2. CASE UNCHANGED <<home, alive>>
      BY <2>1, <2>2
  <2>3. CASE \E q \in Requests : DeleteService(q)
      BY <2>1, <2>3
  <2>4. CASE \E q \in Requests : CreateService(q)
    <3>1. PICK q \in Requests, s \in Services :
              /\ Acts(q, "admin") /\ home' = [home EXCEPT ![s] = req[q].org] /\ alive' = alive \cup {s}
        BY <2>4
    <3>2. req[q].org \in Orgs
        BY <1>1, <3>1, UnderWay DEF Acts, ReqInv, PathInv
    <3>q. QED
        BY <2>1, <3>1, <3>2, OrgsAssumption
  <2>q. QED
      BY <2>2, <2>3, <2>4 DEF Next
<1>8. assigned' \subseteq Users \X Services
  <2>1. assigned \subseteq Users \X Services
      BY <1>1 DEF TypeOK
  <2>2. CASE UNCHANGED assigned
      BY <2>1, <2>2
  <2>3. CASE \E q \in Requests : CommitAssignment(q)
    <3>1. PICK q \in Requests : CommitAssignment(q)
        BY <2>3
    <3>2. req[q] \in ReqType
        BY <1>1, <3>1, UnderWay
    <3>3. req[q].target \in Users /\ req[q].add \subseteq Services
        BY <3>2 DEF ReqType
    <3>4. ASSUME NEW a \in assigned' PROVE a \in assigned \/ \E s \in req[q].add : a = <<req[q].target, s>>
        BY <3>1, <3>4
    <3>q. QED
        BY <2>1, <3>3, <3>4
  <2>q. QED
      BY <2>2, <2>3 DEF Next
<1>9. token' \in [Tokens -> {NoToken} \cup [service : Services, revoked : BOOLEAN]]
  <2>1. token \in [Tokens -> {NoToken} \cup [service : Services, revoked : BOOLEAN]]
      BY <1>1 DEF TypeOK
  <2>2. CASE UNCHANGED token
      BY <2>1, <2>2
  <2>3. CASE \E q \in Requests : IssueToken(q) \/ RevokeToken(q)
    <3>1. PICK q \in Requests : IssueToken(q) \/ RevokeToken(q)
        BY <2>3
    <3>2. req[q] \in ReqType
        BY <1>1, <3>1, UnderWay DEF Acts
    <3>3. req[q].service \in Services
        BY <3>2 DEF ReqType
    <3>4. \E t \in Tokens, r \in [service : Services, revoked : BOOLEAN] : token' = [token EXCEPT ![t] = r]
      <4>1. CASE IssueToken(q)
        <5>1. [service |-> req[q].service, revoked |-> FALSE] \in [service : Services, revoked : BOOLEAN]
            BY <3>3
        <5>q. QED
            BY <4>1, <5>1
      <4>2. CASE RevokeToken(q)
        <5>1. PICK t \in Tokens : /\ token[t] = [service |-> req[q].service, revoked |-> FALSE]
                                  /\ token' = [token EXCEPT ![t].revoked = TRUE]
            BY <4>2
        <5>2. token' = [token EXCEPT ![t] = [token[t] EXCEPT !.revoked = TRUE]]
            BY <5>1
        <5>3. token[t] \in [service : Services, revoked : BOOLEAN]
            BY <3>3, <5>1
        <5>4. [token[t] EXCEPT !.revoked = TRUE] \in [service : Services, revoked : BOOLEAN]
            BY <5>3
        <5>q. QED
            BY <5>2, <5>4
      <4>q. QED
          BY <3>1, <4>1, <4>2
    <3>q. QED
        BY <2>1, <3>4
  <2>q. QED
      BY <2>2, <2>3 DEF Next
<1>q. QED
    BY <1>2, <1>3, <1>4, <1>5, <1>6, <1>7, <1>8, <1>9 DEF TypeOK

-------------------------------------------------------------------------------
(* The requests.                                                           *)

\* A right is a matter of the rows: who is elevated is entitled to all but what an
\* approved member is assigned.
LEMMA Rights ==
    ASSUME IInv, NEW u \in Users, NEW o \in Orgs \cup {NoOrg}
    PROVE  /\ Elevated(u) => {"admin", "read"} \subseteq Entitled(u, o)
           /\ Approved(u, DefaultOrg) => "read" \in Entitled(u, o)
           /\ o \in Orgs /\ OwnerOf(u, o) => {"admin", "read"} \subseteq Entitled(u, o)
           /\ o \in Orgs /\ Approved(u, o) => "assigned" \in Entitled(u, o)
BY DEF Entitled

\* What the caller of a request was entitled to is kept while it is under way, and
\* what it is entitled to is added.
LEMMA Observed ==
    ASSUME IInv, Next, NEW q \in Requests, req'[q] # Idle
    PROVE  /\ was[q] \subseteq was'[q] /\ Now(q)' \subseteq was'[q]
BY DEF Next, Observe

\* A request that is not the one that moves keeps what holds of it.
LEMMA OthersWait ==
    ASSUME IInv, Next, NEW q \in Requests, req'[q] = req[q], req[q] # Idle
    PROVE  (PathInv(q) /\ RightsInv(q))'
<1>1. PathInv(q) /\ RightsInv(q) /\ req[q] \in ReqType
    BY UnderWay DEF IInv, ReqInv
<1>2. was[q] \subseteq was'[q] /\ Now(q)' \subseteq was'[q]
    BY Observed
<1>3. users \subseteq users' /\ (req[q].caller \in admins' => req[q].caller \in admins)
    BY <1>1, Enrolments, SignsUp DEF PathInv
<1>4. PathInv(q)'
  <2>1. ASSUME req[q].pc = "assign", NEW s \in req[q].add \cup req[q].drop
        PROVE  home'[s] = req[q].org
    <3>1. home[s] = req[q].org /\ req[q].org \in Orgs
        BY <1>1, <2>1 DEF PathInv
    <3>2. s \in Services
        BY <1>1, <2>1 DEF ReqType
    <3>q. QED
        BY <3>1, <3>2, HomeStays, OrgsAssumption
  <2>q. QED
      BY <1>1, <1>3, <2>1 DEF PathInv
<1>5. RightsInv(q)'
    BY <1>1, <1>2 DEF RightsInv
<1>q. QED
    BY <1>4, <1>5

\* What the step of a request concludes is what its caller was entitled to, at that
\* step or before.
LEMMA MoverConcludes ==
    ASSUME IInv, Next, NEW q \in Requests, Answer(q), req'[q] # Idle
    PROVE  (PathInv(q) /\ RightsInv(q))'
<1> DEFINE r == req[q]  n == req'[q]
<1>1. /\ was[q] \subseteq was'[q] /\ Now(q)' \subseteq was'[q] /\ users \subseteq users'
      /\ ReqsType /\ users \subseteq Users /\ orgs \subseteq Orgs
      /\ alive \subseteq {s \in Services : home[s] # NoOrg} /\ home \in [Services -> Orgs \cup {NoOrg}]
    BY Observed, Enrolments, SignsUp DEF IInv, TypeOK
<1>2. \A x : req' = [req EXCEPT ![q] = x] => n = x
    BY <1>1 DEF ReqsType
<1>3. CASE Arrive(q)
  <2>1. PICK u \in users, k \in Kinds, o \in Orgs \cup {NoOrg}, s \in Services :
            /\ k \in {"admin", "self"} => o \in orgs
            /\ n = [pc |-> "flags", caller |-> u, kind |-> k, org |-> o, service |-> s,
                    flags |-> {}, reads |-> "nothing", target |-> u, add |-> {}, drop |-> {},
                       loaded |-> NoRow]
      BY <1>2, <1>3 DEF Arrive, To
  <2>2. n.caller \in users /\ (n.kind \in {"admin", "self"} => n.org \in Orgs) /\ n.pc = "flags" /\ n.flags = {}
      BY <1>1, <2>1
  <2>q. QED
      BY <1>1, <2>2 DEF PathInv, RightsInv
<1>4. CASE ~Arrive(q)
  <2>1. r # Idle /\ r.pc # "idle" /\ r \in ReqType
    <3>1. r.pc # "idle"
        BY <1>4 DEF Answer, ReadAdmin, ReadMember, Authorise, CreateOrganization, RequestMembership,
            CommitMembership, UpdateStatus, SkipStatus, UpdateRole, RemoveMember, PlanAssignment, CommitAssignment,
            CreateService, DeleteService, IssueToken, RevokeToken, ReadScope, ListScope, Acts
    <3>q. QED
        BY <1>1, <3>1, UnderWay
  <2>2. PathInv(q) /\ RightsInv(q) /\ r.caller \in Users /\ r.org \in Orgs \cup {NoOrg} /\ r.service \in Services
      BY <2>1 DEF IInv, ReqInv, ReqType
  <2>3. Entitled(r.caller, Scope(r)) \subseteq Now(q) /\ Scope(r) \in Orgs \cup {NoOrg}
      BY <1>1, <2>2 DEF Now, Scope
  <2>4. /\ Elevated(r.caller) => {"admin", "read"} \subseteq was[q]
        /\ Approved(r.caller, DefaultOrg) => "read" \in was[q]
        /\ Scope(r) \in Orgs /\ OwnerOf(r.caller, Scope(r)) => {"admin", "read"} \subseteq was[q]
        /\ Scope(r) \in Orgs /\ Approved(r.caller, Scope(r)) => "assigned" \in was[q]
    <3>1. Now(q) \subseteq was[q]
        BY <2>2 DEF RightsInv
    <3>q. QED
        BY <2>2, <2>3, <3>1, Rights
  <2>5. CASE ReadAdmin(q) \/ ReadMember(q)
    <3>1. PICK p \in {"check", "member"}, f \in SUBSET {"admin", "member"} :
              /\ n = [r EXCEPT !.pc = p, !.flags = f] \/ (n = [r EXCEPT !.pc = p] /\ f = r.flags)
              /\ f = r.flags \/ (Elevated(r.caller)) \/ (f = {"member"} /\ Approved(r.caller, DefaultOrg)) \/ f = {}
        BY <1>2, <2>1, <2>5 DEF ReadAdmin, ReadMember, To, ReqType
    <3>2. /\ n.caller = r.caller /\ n.kind = r.kind /\ n.org = r.org /\ n.pc = p /\ n.flags = f
        BY <2>1, <3>1 DEF ReqType
    <3>3. ("admin" \in f => {"admin", "read"} \subseteq was[q]) /\ ("member" \in f => "read" \in was[q])
        BY <2>2, <2>4, <3>1 DEF RightsInv
    <3>q. QED
        BY <1>1, <2>2, <3>2, <3>3 DEF PathInv, RightsInv
  <2>6. CASE Authorise(q)
    <3>1. n = [r EXCEPT !.pc = "act"] /\ Passes(q)
        BY <1>2, <2>6 DEF Authorise, To, Goto
    <3>2. n.caller = r.caller /\ n.kind = r.kind /\ n.org = r.org /\ n.flags = r.flags /\ n.pc = "act"
        BY <2>1, <3>1 DEF ReqType
    <3>3. r.kind \in {"admin", "token"} => "admin" \in was[q]
      <4>1. CASE r.kind = "admin"
        <5>1. "admin" \in r.flags \/ OwnerOf(r.caller, r.org)
            BY <3>1, <4>1 DEF Passes
        <5>2. r.org \in Orgs /\ Scope(r) = r.org
            BY <2>2, <4>1 DEF PathInv, Scope
        <5>q. QED
            BY <2>2, <2>4, <5>1, <5>2 DEF RightsInv
      <4>2. CASE r.kind = "token"
        <5>1. r.service \in alive /\ ("admin" \in r.flags \/ OwnerOf(r.caller, home[r.service]))
            BY <3>1, <4>2 DEF Passes
        <5>2. home[r.service] \in Orgs /\ Scope(r) = home[r.service]
            BY <1>1, <2>2, <4>2, <5>1 DEF Scope
        <5>q. QED
            BY <2>2, <2>4, <5>1, <5>2 DEF RightsInv
      <4>q. QED
          BY <4>1, <4>2
    <3>q. QED
        BY <1>1, <2>2, <3>2, <3>3 DEF PathInv, RightsInv
  <2>7. CASE SkipStatus(q) \/ UpdateStatus(q)
    <3>1. r.pc = "act" /\ r.kind = "admin" /\ \E u \in Users : n = [r EXCEPT !.pc = "role", !.target = u]
        BY <1>2, <2>7 DEF SkipStatus, UpdateStatus, Acts, To, Goto
    <3>2. n.caller = r.caller /\ n.kind = r.kind /\ n.org = r.org /\ n.flags = r.flags /\ n.pc = "role"
        BY <2>1, <3>1 DEF ReqType
    <3>q. QED
        BY <1>1, <2>2, <3>1, <3>2 DEF PathInv, RightsInv
  <2>8. CASE PlanAssignment(q)
    <3>1. PICK u \in Users, a \in SUBSET OfOrg(r.org), d \in SUBSET OfOrg(r.org) :
              n = [r EXCEPT !.pc = "assign", !.target = u, !.add = a, !.drop = d]
      <4>1. PICK u \in Users, wanted \in SUBSET Services :
                To(q, [r EXCEPT !.pc = "assign", !.target = u,
                          !.add = Kept(wanted, r.org) \ {s \in OfOrg(r.org) : <<u, s>> \in assigned},
                          !.drop = {s \in OfOrg(r.org) : <<u, s>> \in assigned} \ Kept(wanted, r.org)])
          BY <2>8 DEF PlanAssignment
      <4>q. QED
          BY <1>2, <4>1 DEF Kept, To
    <3>2. /\ n.caller = r.caller /\ n.kind = r.kind /\ n.org = r.org /\ n.flags = r.flags
          /\ n.pc = "assign" /\ n.add = a /\ n.drop = d
        BY <2>1, <3>1 DEF ReqType
    <3>3. r.pc = "act" /\ r.kind = "admin" /\ home' = home
        BY <2>8 DEF PlanAssignment, Acts, directory
    <3>4. \A s \in a \cup d : home'[s] = r.org
        BY <3>3 DEF OfOrg
    <3>5. PathInv(q)'
        BY <1>1, <2>2, <3>2, <3>3, <3>4 DEF PathInv
    <3>6. RightsInv(q)'
        BY <1>1, <2>2, <3>2, <3>3 DEF RightsInv
    <3>q. QED
        BY <3>5, <3>6
  <2>9. CASE ReadScope(q)
    <3> DEFINE x == CASE r.flags # {} /\ r.org = NoOrg -> "all"
                      [] r.flags # {} -> "org"
                      [] r.org = NoOrg -> "nothing"
                      [] OTHER -> Reads(r.caller, r.org)
    <3>1. n = [r EXCEPT !.pc = "list", !.reads = x] /\ r.kind = "scope" /\ Scope(r) = r.org
        BY <1>2, <2>9 DEF ReadScope, To, Scope
    <3>2. r.flags \subseteq {"admin", "member"}
        BY <2>1 DEF ReqType
    <3>3. (x \in {"all", "org"} => "read" \in was[q]) /\ (x = "assigned" => "assigned" \in was[q])
      <4>1. CASE r.flags # {}
        <5>1. "read" \in was[q]
            BY <2>2, <3>2, <4>1 DEF RightsInv
        <5>2. x # "assigned"
            BY <4>1
        <5>q. QED
            BY <5>1, <5>2
      <4>2. CASE r.flags = {} /\ r.org = NoOrg
          BY <4>2
      <4>3. CASE r.flags = {} /\ r.org # NoOrg
        <5>1. x = Reads(r.caller, r.org) /\ r.org \in Orgs
            BY <2>2, <4>3
        <5>q. QED
            BY <2>4, <3>1, <5>1 DEF Reads
      <4>q. QED
          BY <4>1, <4>2, <4>3
    <3> HIDE DEF x
    <3>4. /\ n.caller = r.caller /\ n.kind = r.kind /\ n.org = r.org /\ n.flags = r.flags
          /\ n.pc = "list" /\ n.reads = x
        BY <2>1, <3>1 DEF ReqType
    <3>q. QED
        BY <1>1, <2>2, <3>1, <3>3, <3>4 DEF PathInv, RightsInv
  <2>10. CASE RequestMembership(q)
    <3>1. n = [r EXCEPT !.pc = "ask", !.loaded = member[<<r.caller, r.org>>]]
        BY <1>2, <2>10 DEF RequestMembership, To
    <3>2. MayAsk(r.caller, r.org) /\ r.kind = "self"
        BY <1>2, <2>10 DEF RequestMembership, To, Acts
    <3>3. "ask" \in was[q]
        BY <2>2, <3>2 DEF RightsInv, Now
    <3>4. r.caller \in admins => r.org # DefaultOrg
        BY <3>2 DEF IInv, BootstrapStays, OwnerOf, Approved, MayAsk
    <3>5. n.caller = r.caller /\ n.kind = r.kind /\ n.org = r.org /\ n.flags = r.flags /\ n.pc = "ask"
        BY <2>1, <3>1 DEF ReqType
    <3>6. admins' = admins
        BY <2>10 DEF RequestMembership, directory
    <3>q. QED
        BY <1>1, <2>2, <3>2, <3>3, <3>4, <3>5, <3>6 DEF PathInv, RightsInv
  <2>11. CASE \/ CreateOrganization(q) \/ CommitMembership(q) \/ UpdateRole(q) \/ RemoveMember(q)
              \/ CommitAssignment(q) \/ CreateService(q) \/ DeleteService(q)
              \/ IssueToken(q) \/ RevokeToken(q) \/ ListScope(q)
      BY <1>2, <2>11 DEF CreateOrganization, CommitMembership, UpdateRole, RemoveMember,
          CommitAssignment, CreateService, DeleteService, IssueToken, RevokeToken, ListScope, Goto, To
  <2>q. QED
      BY <1>4, <2>5, <2>6, <2>7, <2>8, <2>9, <2>10, <2>11 DEF Answer
<1>q. QED
    BY <1>3, <1>4

\* What a request knows of its caller and its plan lasts until it acts.
LEMMA ReqStep ==
    ASSUME IInv, Next PROVE ReqInv'
<1>1. ReqsType /\ ReqInv
    BY DEF IInv
<1> SUFFICES ASSUME NEW q \in Requests, req'[q] # Idle PROVE (PathInv(q) /\ RightsInv(q))'
    BY DEF ReqInv
<1>2. CASE req'[q] = req[q]
    BY <1>2, OthersWait
<1>3. CASE req'[q] # req[q]
  <2>1. Answer(q)
      BY <1>1, <1>3, OneRequest DEF ReqsType
  <2>q. QED
      BY <2>1, MoverConcludes
<1>q. QED
    BY <1>2, <1>3

\* The invariant holds at first.
LEMMA Starts == Init => IInv
<1> SUFFICES ASSUME Init PROVE IInv
    OBVIOUS
<1>1. /\ admins = {} /\ users = {} /\ signup = [u \in Users |-> "none"]
      /\ orgs = {DefaultOrg} /\ member = [p \in Users \X Orgs |-> NoRow] /\ claims = {}
      /\ home = [s \in Services |-> NoOrg] /\ alive = {} /\ assigned = {}
      /\ token = [t \in Tokens |-> NoToken] /\ req = [q \in Requests |-> Idle]
    BY DEF Init
<1>2. TypeOK
    BY <1>1, OrgsAssumption DEF TypeOK
<1>3. ReqsType /\ ReqInv
    BY <1>1 DEF ReqsType, ReqInv
<1>4. SignUpInv /\ BootstrapStays
    BY <1>1 DEF SignUpInv, BootstrapStays
<1>q. QED
    BY <1>2, <1>3, <1>4 DEF IInv

\* Every step keeps it.
LEMMA Steps == IInv /\ [Next]_vars => IInv'
<1>1. ASSUME IInv, Next PROVE IInv'
    BY <1>1, TypeStep, ReqsTypeStep, SignUpStep, BootstrapStep, ReqStep DEF IInv
<1>2. ASSUME IInv, UNCHANGED vars PROVE IInv'
    BY <1>2 DEF vars, directory, IInv, TypeOK, ReqsType, SignUpInv, BootstrapStays, OwnerOf, Approved,
        ReqInv, PathInv, RightsInv, Now, MayAsk, Scope, Entitled, Elevated
<1>q. QED
    BY <1>1, <1>2

\* So it always holds.
LEMMA Always == Spec => []IInv
BY Starts, Steps, PTL DEF Spec
-------------------------------------------------------------------------------
(* The results.                                                            *)

\* Every row names a user, an organization and a service there is; a service that
\* lives belongs to an organization.
THEOREM TypeCorrect == Spec => []TypeOK
<1>1. IInv => TypeOK
    BY DEF IInv
<1>q. QED
    BY <1>1, Always, PTL

\* Once anybody has signed up there is a super admin, and every super admin stays an
\* approved owner of the default organization (DirectoryService.sign_up,
\* update_membership_status, update_membership_role, remove_membership).
THEOREM SomebodyCanApprove == Spec => []BootstrapStays
<1>1. IInv => BootstrapStays
    BY DEF IInv
<1>q. QED
    BY <1>1, Always, PTL

\* The services a query is given were open to its caller at some moment of the query
\* (resolve_caller_scope), however rights and services change between its reads.
THEOREM ScopesWereGranted == Spec => []ScopeWasGranted
<1>1. IInv => ScopeWasGranted
  <2> SUFFICES ASSUME IInv, NEW q \in Requests, req[q].pc = "list", NEW s \in Listed(req[q])
               PROVE  \/ "read" \in was[q]
                      \/ "assigned" \in was[q] /\ <<req[q].caller, s>> \in assigned
      BY DEF ScopeWasGranted
  <2>1. RightsInv(q) /\ req[q] \in ReqType
      BY UnderWay DEF IInv, ReqInv, Idle
  <2>2. req[q].reads \in {"nothing", "assigned", "org", "all"}
      BY <2>1 DEF ReqType
  <2>q. QED
      BY <2>1, <2>2 DEF RightsInv, Listed
<1>q. QED
    BY <1>1, Always, PTL

\* Who acts for a service, for the others, is the owner of the organization.
LEMMA ActsRightfully ==
    ASSUME IInv, NEW q \in Requests, req'[q] # req[q],
           req[q].pc \in {"act", "role", "assign"}, req[q].kind \in {"admin", "token"}
    PROVE  /\ req[q] \in ReqType
           /\ req[q].kind = "admin" => AsOwner(q, req[q].org)
           /\ req[q].kind = "token" => AsOwner(q, home[req[q].service])
<1>1. RightsInv(q) /\ PathInv(q) /\ req[q] \in ReqType
    BY UnderWay DEF IInv, ReqInv, Idle
<1>q. QED
    BY <1>1 DEF RightsInv, PathInv, AsOwner, Scope

\* The steps that provide something end their request.
LEMMA EndsRequest ==
    ASSUME IInv, NEW q \in Requests, Providing(q)
    PROVE  req'[q] # req[q] /\ req[q].pc \in {"act", "assign"}
<1>1. ReqsType /\ req[q].pc \in {"act", "assign"}
    BY DEF IInv, Providing, CreateOrganization, CommitAssignment, CreateService, DeleteService,
        IssueToken, RevokeToken, Acts
<1>2. req' = [req EXCEPT ![q] = Idle]
    BY DEF Providing, CreateOrganization, CommitAssignment, CreateService, DeleteService,
        IssueToken, RevokeToken, Goto, To
<1>q. QED
    BY <1>1, <1>2 DEF ReqsType, Idle

\* A step that changes a row is that of a request whose caller was entitled.
LEMMA Rightful ==
    ASSUME IInv, Next PROVE RightfulStep
<1>1. ReqInv /\ TypeOK
    BY DEF IInv
<1>2. ASSUME NEW u \in Users, NEW o \in Orgs, member'[<<u, o>>] # member[<<u, o>>]
      PROVE  \/ \E q \in Requests : AsOwner(q, o)
             \/ member'[<<u, o>>].status = "pending" /\ \E q \in Requests : ForOneself(q, u, o)
             \/ u \in users' \ users /\ (member'[<<u, o>>].status = "pending" \/ u \in admins')
  <2>1. CASE Legal(u, o, member'[<<u, o>>])
    <3>1. ASSUME NEW q \in Requests, Asks(q, u, o) PROVE ForOneself(q, u, o)
        BY <1>1, <3>1, UnderWay DEF Asks, ForOneself, ReqInv, RightsInv, IInv, Idle
    <3>q. QED
        BY <2>1, <3>1, ActsRightfully DEF Legal, Administers
  <2>2. CASE ~Legal(u, o, member'[<<u, o>>])
      BY <1>2, <2>2, RowChanges
  <2>q. QED
      BY <2>1, <2>2
<1>3. ASSUME NEW u \in Users, NEW s \in Services, <<u, s>> \in (assigned' \ assigned) \cup (assigned \ assigned')
      PROVE  \E q \in Requests : AsOwner(q, home[s])
  <2>1. PICK q \in Requests : CommitAssignment(q)
      BY <1>3 DEF Next, SignUpReads, SignUpCommits, SignIn, SelectOrg, directory, Answer, Arrive,
          ReadAdmin, ReadMember, Authorise, CreateOrganization, RequestMembership, CommitMembership, UpdateStatus, SkipStatus,
          UpdateRole, RemoveMember, PlanAssignment, CreateService, DeleteService,
          IssueToken, RevokeToken, ReadScope, ListScope
  <2>2. req'[q] # req[q] /\ req[q].pc = "assign"
      BY <2>1, EndsRequest DEF Providing, CommitAssignment
  <2>3. PathInv(q) /\ req[q].kind = "admin"
      BY <1>1, <2>2, UnderWay DEF IInv, ReqInv, PathInv, Idle
  <2>4. s \in req[q].add \cup req[q].drop
      BY <1>3, <2>1 DEF CommitAssignment
  <2>5. home[s] = req[q].org
      BY <2>2, <2>3, <2>4 DEF PathInv
  <2>q. QED
      BY <2>2, <2>3, <2>5, ActsRightfully
<1>4. ASSUME NEW s \in (alive' \ alive) \cup (alive \ alive')
      PROVE  \E q \in Requests : AsOwner(q, home'[s])
  <2>1. PICK q \in Requests : CreateService(q) \/ DeleteService(q)
      BY <1>4 DEF Next, SignUpReads, SignUpCommits, SignIn, SelectOrg, directory, Answer, Arrive,
          ReadAdmin, ReadMember, Authorise, CreateOrganization, RequestMembership, CommitMembership, UpdateStatus, SkipStatus,
          UpdateRole, RemoveMember, PlanAssignment, CommitAssignment,
          IssueToken, RevokeToken, ReadScope, ListScope
  <2>2. req'[q] # req[q] /\ req[q].pc = "act" /\ req[q].kind = "admin"
      BY <2>1, EndsRequest DEF Providing, CreateService, DeleteService, Acts
  <2>3. home'[s] = req[q].org
      BY <1>1, <1>4, <2>1 DEF CreateService, DeleteService, OfOrg, TypeOK
  <2>q. QED
      BY <2>2, <2>3, ActsRightfully
<1>5. ASSUME NEW t \in Tokens, token'[t] # token[t]
      PROVE  \E q \in Requests : AsOwner(q, home[token'[t].service])
  <2>1. PICK q \in Requests : IssueToken(q) \/ RevokeToken(q)
      BY <1>5 DEF Next, SignUpReads, SignUpCommits, SignIn, SelectOrg, directory, Answer, Arrive,
          ReadAdmin, ReadMember, Authorise, CreateOrganization, RequestMembership, CommitMembership, UpdateStatus, SkipStatus,
          UpdateRole, RemoveMember, PlanAssignment, CommitAssignment, CreateService, DeleteService,
          ReadScope, ListScope
  <2>2. req'[q] # req[q] /\ req[q].pc = "act" /\ req[q].kind = "token"
      BY <2>1, EndsRequest DEF Providing, IssueToken, RevokeToken, Acts
  <2>3. token'[t].service = req[q].service
    <3>1. token \in [Tokens -> {NoToken} \cup [service : Services, revoked : BOOLEAN]]
        BY <1>1 DEF TypeOK
    <3>2. CASE IssueToken(q)
        BY <1>5, <3>1, <3>2 DEF IssueToken
    <3>3. CASE RevokeToken(q)
        BY <1>5, <3>1, <3>3 DEF RevokeToken
    <3>q. QED
        BY <2>1, <3>2, <3>3
  <2>q. QED
      BY <2>2, <2>3, ActsRightfully
<1>q. QED
    BY <1>2, <1>3, <1>4, <1>5 DEF RightfulStep

\* Rows of membership, services, assignments and tokens change only by a request whose
\* caller was entitled to it, in its own organization (deps.py and the routers'
\* dependencies), though the check and the change are sessions apart.
THEOREM OnlyEntitledAct == Spec => OnlyTheEntitled
<1>1. IInv /\ [Next]_vars => [RightfulStep]_vars
    BY Rightful
<1>q. QED
    BY <1>1, Always, PTL DEF Spec, OnlyTheEntitled

===============================================================================
