------------------------------- MODULE Directory -------------------------------
(***************************************************************************)
(* Who may do what: sign-up and bootstrap of the super admin, memberships  *)
(* with their approval, services, assignments and ingest tokens            *)
(* (easyobs/services/directory.py, services/tokens.py, api/security.py,    *)
(* api/deps.py and the auth, organizations and tokens routers).            *)
(*                                                                         *)
(* A request reads the caller's rights in several sessions before the one  *)
(* that acts, so rows change between what it checked and what it does.     *)
(* Its arguments that are first used when it acts are chosen there.        *)
(*                                                                         *)
(* A session that acts loads its rows and commits awaits later, and writes *)
(* only the columns it changed. That is one action where the commit comes  *)
(* to the same as a load at that moment; RequestMembership, whose guard is *)
(* on what it overwrites, and set_user_service_assignments are two.        *)
(***************************************************************************)
EXTENDS Integers, FiniteSets

CONSTANTS Users, Orgs, Services, Tokens,
          Requests,     \* bound: requests of signed-up users under way at once
          MaxRequests,  \* bound: requests made
          DefaultOrg,   \* the organization "administrator"
          NoOrg         \* no organization selected, or a service not created yet

ASSUME OrgsAssumption == DefaultOrg \in Orgs /\ NoOrg \notin Orgs
ASSUME BoundsAssumption == MaxRequests \in Nat

VARIABLES
    users,      \* rows of user
    admins,     \* users with is_super_admin
    signup,     \* progress of each sign-up, and what it read: "first" or "later"
    orgs,       \* rows of organization
    member,     \* rows of membership, NoRow where there is none
    claims,     \* <<user, org>> of the session tokens issued
    home,       \* service.org_id
    alive,      \* rows of service
    assigned,   \* rows of service_assignment; they outlive their service
    token,      \* rows of ingest_token, by what they open
    made,       \* requests made so far
    req,        \* each request under way
    was         \* what each request's caller was entitled to since it began

directory == <<users, admins, orgs, member, home, alive, assigned, token>>
vars == <<directory, signup, claims, made, req, was>>

Roles    == {"PO", "DV"}
Statuses == {"pending", "approved", "rejected"}
NoRow    == [role |-> "none", status |-> "none"]
Rows     == [role : Roles, status : Statuses]
NoToken  == [service |-> "none", revoked |-> FALSE]

\* The dependencies of the routes: RequirePlatformAdmin, require_org_admin,
\* require_service_access(write), CurrentUser alone, resolve_caller_scope.
Kinds == {"platform", "admin", "token", "self", "scope"}

Idle == [pc |-> "idle"]
-------------------------------------------------------------------------------
(* The rights the documentation of the routes gives, over the rows as they *)
(* are.                                                                    *)

Approved(u, o) == member[<<u, o>>].status = "approved"
OwnerOf(u, o)  == Approved(u, o) /\ member[<<u, o>>].role = "PO"
Elevated(u)    == u \in admins \/ OwnerOf(u, DefaultOrg)

Entitled(u, o) ==
    (IF Elevated(u) THEN {"platform", "admin", "read"} ELSE {})
        \cup (IF Approved(u, DefaultOrg) THEN {"read"} ELSE {})
        \cup (IF o \in Orgs /\ OwnerOf(u, o) THEN {"admin", "read"} ELSE {})
        \cup (IF o \in Orgs /\ Approved(u, o) THEN {"assigned"} ELSE {})

\* The organization a request is about.
Scope(r) == IF r.kind = "token" THEN home[r.service] ELSE r.org

\* No row, or a rejected one: what one may ask for.
MayAsk(u, o) == o \in Orgs /\ member[<<u, o>>].status \notin {"pending", "approved"}

Now(q) ==
    Entitled(req[q].caller, Scope(req[q]))
        \cup (IF req[q].kind = "self" /\ MayAsk(req[q].caller, req[q].org) THEN {"ask"} ELSE {})

Observe ==
    was' = [q \in Requests |-> IF req'[q] = Idle THEN {} ELSE was[q] \cup Now(q)']
-------------------------------------------------------------------------------
Init ==
    /\ users = {} /\ admins = {}
    /\ signup = [u \in Users |-> "none"]
    /\ orgs = {DefaultOrg}
    /\ member = [p \in Users \X Orgs |-> NoRow]
    /\ claims = {}
    /\ home = [s \in Services |-> NoOrg]
    /\ alive = {} /\ assigned = {}
    /\ token = [t \in Tokens |-> NoToken]
    /\ made = 0 /\ req = [q \in Requests |-> Idle]
    /\ was = [q \in Requests |-> {}]

\* DirectoryService.sign_up up to the read that decides who is first.
SignUpReads(u) ==
    /\ signup[u] = "none"
    /\ signup' = [signup EXCEPT ![u] = IF users = {} THEN "first" ELSE "later"]
    /\ UNCHANGED <<directory, claims, made, req>>

\* Its commit: the super admin joins the default organization, anybody else
\* waits for approval in the organization asked for.
SignUpCommits(u) ==
    /\ signup[u] \in {"first", "later"}
    /\ signup' = [signup EXCEPT ![u] = "done"]
    /\ users' = users \cup {u}
    /\ IF signup[u] = "first"
       THEN /\ admins' = admins \cup {u}
            /\ member' = [member EXCEPT ![<<u, DefaultOrg>>] = [role |-> "PO", status |-> "approved"]]
            /\ claims' = claims \cup {<<u, DefaultOrg>>}
       ELSE /\ \E o \in orgs, r \in Roles :
                  member' = [member EXCEPT ![<<u, o>>] = [role |-> r, status |-> "pending"]]
            /\ claims' = claims \cup {<<u, NoOrg>>}
            /\ UNCHANGED admins
    /\ UNCHANGED <<orgs, home, alive, assigned, token, made, req>>

\* The claim of a new session: the default organization for an elevated user,
\* the only one the user is approved in, or none.
SignIn(u) ==
    /\ u \in users
    /\ LET own == {o \in Orgs : Approved(u, o)}
           org == IF Elevated(u) THEN DefaultOrg
                  ELSE IF Cardinality(own) = 1 THEN CHOOSE o \in own : TRUE ELSE NoOrg
       IN claims' = claims \cup {<<u, org>>}
    /\ UNCHANGED <<directory, signup, made, req>>

SelectOrg(u, o) ==
    /\ u \in users /\ o \in orgs
    /\ Entitled(u, o) # {}
    /\ claims' = claims \cup {<<u, o>>}
    /\ UNCHANGED <<directory, signup, made, req>>
-------------------------------------------------------------------------------
(* A request: the caller's flags, then the check of its route.             *)

To(q, r) == req' = [req EXCEPT ![q] = r]
Goto(q, p) == To(q, IF p = "done" THEN Idle ELSE [req[q] EXCEPT !.pc = p])

\* The request's route, and what its path names, which exists (or existed: a
\* service); a scope is that of a claim.
Arrive(q) ==
    /\ req[q] = Idle
    /\ made < MaxRequests /\ made' = made + 1
    /\ \E u \in users, k \in Kinds, o \in Orgs \cup {NoOrg}, s \in Services :
          /\ k = "scope" => <<u, o>> \in claims
          /\ k \in {"platform", "token"} => o = NoOrg
          /\ k \in {"admin", "self"} => o \in orgs
          /\ IF k = "token" THEN home[s] # NoOrg ELSE s = CHOOSE x \in Services : TRUE
          /\ To(q, [pc |-> "flags", caller |-> u, kind |-> k, org |-> o, service |-> s,
                    flags |-> {}, reads |-> "nothing", target |-> u, add |-> {}, drop |-> {},
                    loaded |-> NoRow])
    /\ UNCHANGED <<directory, signup, claims>>

\* _decode_caller: the user row and, in a session of its own, is_platform_admin.
ReadAdmin(q) ==
    /\ req[q].pc = "flags"
    /\ To(q, IF Elevated(req[q].caller)
             THEN [req[q] EXCEPT !.pc = "check", !.flags = {"admin", "member"}]
             ELSE [req[q] EXCEPT !.pc = "member"])
    /\ UNCHANGED <<directory, signup, claims, made>>

\* is_platform_member.
ReadMember(q) ==
    /\ req[q].pc = "member"
    /\ To(q, [req[q] EXCEPT !.pc = "check",
                            !.flags = IF Approved(req[q].caller, DefaultOrg) THEN {"member"} ELSE {}])
    /\ UNCHANGED <<directory, signup, claims, made>>

\* Mutant: a pending owner passes.
Passes_Pending(q) ==
    LET r == req[q]
    IN CASE r.kind = "platform" -> "admin" \in r.flags
         [] r.kind = "admin"    -> "admin" \in r.flags \/ member[<<r.caller, r.org>>].role = "PO"
         [] r.kind = "token"    -> r.service \in alive
                                   /\ ("admin" \in r.flags \/ OwnerOf(r.caller, home[r.service]))
         [] r.kind = "self"     -> TRUE

\* Each route's dependency.
Passes(q) ==
    LET r == req[q]
    IN CASE r.kind = "platform" -> "admin" \in r.flags
         [] r.kind = "admin"    -> "admin" \in r.flags \/ OwnerOf(r.caller, r.org)
         [] r.kind = "token"    -> r.service \in alive
                                   /\ ("admin" \in r.flags \/ OwnerOf(r.caller, home[r.service]))
         [] r.kind = "self"     -> TRUE

Authorise(q) ==
    /\ req[q].pc = "check" /\ req[q].kind # "scope"
    /\ Goto(q, IF Passes(q) THEN "act" ELSE "done")
    /\ UNCHANGED <<directory, signup, claims, made>>
-------------------------------------------------------------------------------
(* What a request does.                                                    *)

Acts(q, k) == req[q].pc = "act" /\ req[q].kind = k

CreateOrganization(q) ==
    /\ Acts(q, "platform")
    /\ \E o \in Orgs \ orgs : orgs' = orgs \cup {o}
    /\ Goto(q, "done")
    /\ UNCHANGED <<users, admins, member, home, alive, assigned, token, signup, claims, made>>

\* request_membership loads the caller's row ...
RequestMembership(q) ==
    /\ Acts(q, "self")
    /\ To(q, IF MayAsk(req[q].caller, req[q].org)
             THEN [req[q] EXCEPT !.pc = "ask", !.loaded = member[<<req[q].caller, req[q].org>>]]
             ELSE Idle)
    /\ UNCHANGED <<directory, signup, claims, made>>

\* ... and commits: a new row if there still is none, the columns of the rejected
\* one that change if there still is one, whatever its status has become.
CommitMembership(q) ==
    /\ req[q].pc = "ask"
    /\ LET key    == <<req[q].caller, req[q].org>>
           loaded == req[q].loaded
       IN IF (loaded = NoRow) = (member[key] = NoRow)
          THEN \E r \in Roles :
                  member' = [member EXCEPT ![key] =
                                [role |-> IF r = loaded.role THEN member[key].role ELSE r, status |-> "pending"]]
          ELSE UNCHANGED member
    /\ Goto(q, "done")
    /\ UNCHANGED <<users, admins, orgs, home, alive, assigned, token, signup, claims, made>>

\* Mutant: the row of the super admin is like any other.
Editable_Anyone(u, o) == member[<<u, o>>] # NoRow

\* update_membership_*, remove_membership: the super admin's rows are refused.
Editable(u, o) == member[<<u, o>>] # NoRow /\ u \notin admins

\* PATCH members: the status, and then, in a second transaction, the role.
UpdateStatus(q) ==
    /\ Acts(q, "admin")
    /\ \E u \in Users, s \in Statuses, next \in {"role", "done"} :
          LET key == <<u, req[q].org>>
          IN IF Editable(u, req[q].org)
             THEN /\ member' = [member EXCEPT ![key] = [role |-> member[key].role, status |-> s]]
                  /\ To(q, IF next = "done" THEN Idle ELSE [req[q] EXCEPT !.pc = next, !.target = u])
             ELSE UNCHANGED member /\ Goto(q, "done")
    /\ UNCHANGED <<users, admins, orgs, home, alive, assigned, token, signup, claims, made>>

\* PATCH members with a role only.
SkipStatus(q) ==
    /\ Acts(q, "admin")
    /\ \E u \in Users : To(q, [req[q] EXCEPT !.pc = "role", !.target = u])
    /\ UNCHANGED <<directory, signup, claims, made>>

UpdateRole(q) ==
    /\ req[q].pc = "role"
    /\ LET key == <<req[q].target, req[q].org>>
       IN IF Editable(req[q].target, req[q].org)
          THEN \E r \in Roles : member' = [member EXCEPT ![key] = [role |-> r, status |-> member[key].status]]
          ELSE UNCHANGED member
    /\ Goto(q, "done")
    /\ UNCHANGED <<users, admins, orgs, home, alive, assigned, token, signup, claims, made>>

\* The assignments of the member stay.
RemoveMember(q) ==
    /\ Acts(q, "admin")
    /\ \E u \in Users :
          member' = IF Editable(u, req[q].org) THEN [member EXCEPT ![<<u, req[q].org>>] = NoRow] ELSE member
    /\ Goto(q, "done")
    /\ UNCHANGED <<users, admins, orgs, home, alive, assigned, token, signup, claims, made>>

OfOrg(o) == {s \in alive : home[s] = o}

\* Of the services asked for, those of the organization.
Kept(wanted, o) == wanted \cap OfOrg(o)

\* set_user_service_assignments reads what there is ...
PlanAssignment(q) ==
    /\ Acts(q, "admin")
    /\ \E u \in Users, wanted \in SUBSET Services :
          LET kept == Kept(wanted, req[q].org)
              old  == {s \in OfOrg(req[q].org) : <<u, s>> \in assigned}
          IN To(q, [req[q] EXCEPT !.pc = "assign", !.target = u, !.add = kept \ old, !.drop = old \ kept])
    /\ UNCHANGED <<directory, signup, claims, made>>

\* ... and commits the difference; a row somebody added meanwhile refuses all.
CommitAssignment(q) ==
    /\ req[q].pc = "assign"
    /\ LET rows(ss) == {<<req[q].target, s>> : s \in ss}
       IN assigned' = IF rows(req[q].add) \cap assigned # {} THEN assigned
                      ELSE (assigned \ rows(req[q].drop)) \cup rows(req[q].add)
    /\ Goto(q, "done")
    /\ UNCHANGED <<users, admins, orgs, member, home, alive, token, signup, claims, made>>

CreateService(q) ==
    /\ Acts(q, "admin")
    /\ \E s \in Services :
          /\ home[s] = NoOrg
          /\ home' = [home EXCEPT ![s] = req[q].org]
          /\ alive' = alive \cup {s}
    /\ Goto(q, "done")
    /\ UNCHANGED <<users, admins, orgs, member, assigned, token, signup, claims, made>>

DeleteService(q) ==
    /\ Acts(q, "admin")
    /\ \E s \in OfOrg(req[q].org) : alive' = alive \ {s}
    /\ Goto(q, "done")
    /\ UNCHANGED <<users, admins, orgs, member, home, assigned, token, signup, claims, made>>

IssueToken(q) ==
    /\ Acts(q, "token")
    /\ \E t \in Tokens :
          /\ token[t] = NoToken
          /\ token' = [token EXCEPT ![t] = [service |-> req[q].service, revoked |-> FALSE]]
    /\ Goto(q, "done")
    /\ UNCHANGED <<users, admins, orgs, member, home, alive, assigned, signup, claims, made>>

RevokeToken(q) ==
    /\ Acts(q, "token")
    /\ \E t \in Tokens :
          /\ token[t] = [service |-> req[q].service, revoked |-> FALSE]
          /\ token' = [token EXCEPT ![t].revoked = TRUE]
    /\ Goto(q, "done")
    /\ UNCHANGED <<users, admins, orgs, member, home, alive, assigned, signup, claims, made>>
-------------------------------------------------------------------------------
(* resolve_caller_scope: which services' traces the caller may read.       *)

\* Mutant: the role is not looked at.
Reads_AnyRole(u, o) == IF Approved(u, o) THEN "org" ELSE "nothing"

Reads(u, o) == IF OwnerOf(u, o) THEN "org" ELSE IF Approved(u, o) THEN "assigned" ELSE "nothing"

\* The flags, or the membership; elevated without an organization: no filter.
ReadScope(q) ==
    /\ req[q].pc = "check" /\ req[q].kind = "scope"
    /\ LET r == req[q]
       IN To(q, [r EXCEPT !.pc = "list",
                          !.reads = CASE r.flags # {} /\ r.org = NoOrg -> "all"
                                      [] r.flags # {} -> "org"
                                      [] r.org = NoOrg -> "nothing"
                                      [] OTHER -> Reads(r.caller, r.org)])
    /\ UNCHANGED <<directory, signup, claims, made>>

\* The services that go with it, as they are by then.
Listed(r) ==
    CASE r.reads = "all"      -> alive
      [] r.reads = "org"      -> OfOrg(r.org)
      [] r.reads = "assigned" -> {s \in OfOrg(r.org) : <<r.caller, s>> \in assigned}
      [] r.reads = "nothing"  -> {}

ListScope(q) ==
    /\ req[q].pc = "list"
    /\ Goto(q, "done")
    /\ UNCHANGED <<directory, signup, claims, made>>
-------------------------------------------------------------------------------
Answer(q) ==
    \/ Arrive(q) \/ ReadAdmin(q) \/ ReadMember(q) \/ Authorise(q)
    \/ CreateOrganization(q) \/ RequestMembership(q) \/ CommitMembership(q)
    \/ UpdateStatus(q) \/ SkipStatus(q) \/ UpdateRole(q) \/ RemoveMember(q)
    \/ PlanAssignment(q) \/ CommitAssignment(q) \/ CreateService(q) \/ DeleteService(q)
    \/ IssueToken(q) \/ RevokeToken(q) \/ ReadScope(q) \/ ListScope(q)

Next ==
    /\ \/ \E u \in Users : SignUpReads(u) \/ SignUpCommits(u) \/ SignIn(u)
       \/ \E u \in Users, o \in Orgs : SelectOrg(u, o)
       \/ \E q \in Requests : Answer(q)
    /\ Observe

Spec == Init /\ [][Next]_vars
-------------------------------------------------------------------------------
TypeOK ==
    /\ admins \subseteq users /\ users \subseteq Users
    /\ signup \in [Users -> {"none", "first", "later", "done"}]
    /\ DefaultOrg \in orgs /\ orgs \subseteq Orgs
    /\ member \in [Users \X Orgs -> Rows \cup {NoRow}]
    /\ claims \subseteq Users \X (Orgs \cup {NoOrg})
    /\ home \in [Services -> Orgs \cup {NoOrg}]
    /\ alive \subseteq {s \in Services : home[s] # NoOrg}
    /\ assigned \subseteq Users \X Services
    /\ token \in [Tokens -> {NoToken} \cup [service : Services, revoked : BOOLEAN]]

\* Somebody can always approve: whoever signs up first is a super admin and an
\* approved owner of the default organization for good, whatever other owners
\* of that organization, or a second first sign-up, do meanwhile.
BootstrapStays ==
    /\ users # {} => admins # {}
    /\ \A u \in admins : OwnerOf(u, DefaultOrg)

\* q acts as an owner of organization o, whose caller was one since q began.
AsOwner(q, o) ==
    /\ req[q].pc \in {"act", "role", "assign"} /\ req[q].kind \in {"admin", "token"} /\ req'[q] # req[q]
    /\ "admin" \in was[q] /\ Scope(req[q]) = o

\* q is u's own request for a membership of o, which u might ask for since q began.
ForOneself(q, u, o) ==
    /\ req[q].pc = "ask" /\ req'[q] # req[q]
    /\ "ask" \in was[q] /\ req[q].caller = u /\ req[q].org = o

\* Rows change only by requests whose caller was entitled to it at some moment
\* since the request began, and only in the organization of the request; nobody
\* gains by a request of his own more than a pending row, and only who had none,
\* or a rejected one, while it was under way gets that (it replaces an approval
\* that came meanwhile).
RightfulStep ==
    /\ \A u \in Users, o \in Orgs : member'[<<u, o>>] # member[<<u, o>>] =>
           \/ \E q \in Requests : AsOwner(q, o)
           \/ member'[<<u, o>>].status = "pending" /\ \E q \in Requests : ForOneself(q, u, o)
           \/ u \in users' \ users /\ (member'[<<u, o>>].status = "pending" \/ u \in admins')
    /\ \A u \in Users, s \in Services : <<u, s>> \in (assigned' \ assigned) \cup (assigned \ assigned') =>
           \E q \in Requests : AsOwner(q, home[s])
    /\ \A s \in (alive' \ alive) \cup (alive \ alive') : \E q \in Requests : AsOwner(q, home'[s])
    /\ \A t \in Tokens : token'[t] # token[t] => \E q \in Requests : AsOwner(q, home[token'[t].service])

\* Every step is rightful, whatever changed since its request was let through.
OnlyTheEntitled == [][RightfulStep]_vars

\* Every service whose traces a query is given was open to its caller at some
\* moment of the query: with all those of the organization of the session token
\* (which outlives the membership it was issued for), or assigned to an
\* approved member; though rights, services and assignments are read apart.
ScopeWasGranted ==
    \A q \in Requests : req[q].pc = "list" =>
        \A s \in Listed(req[q]) :
            \/ "read" \in was[q]
            \/ "assigned" \in was[q] /\ <<req[q].caller, s>> \in assigned
===============================================================================
