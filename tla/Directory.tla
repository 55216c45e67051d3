----------------------------- MODULE Directory -----------------------------
(***************************************************************************)
(* Users, organizations and memberships: the tables that sessions and team *)
(* management share.  The operators are the queries of UserRepository and  *)
(* OrganizationRepository that the services call.  A password is its       *)
(* version number; 0 is a password nobody set yet.                         *)
(***************************************************************************)
EXTENDS Naturals, Sequences

CONSTANTS
    Users,      \* e-mail addresses
    Orgs,       \* organizations that a sign-up may create
    Founder,    \* the user that is registered already
    HomeOrg     \* the organization that Founder owns

ASSUME DirectoryAssumption == Founder \in Users /\ HomeOrg \in Orgs

NoOrg == "no organization"
Roles == {"owner", "admin", "member"}
NoRow == [role |-> "none", joined |-> FALSE]

VARIABLES
    password,   \* users: the version of the stored hash
    created,    \* organizations in the order of created_at
    closed,     \* organizations with a deleted_at
    member      \* organization_members

dirVars == <<password, created, closed, member>>

DirInit ==
    /\ password = [u \in Users |-> IF u = Founder THEN 1 ELSE 0]
    /\ created = <<HomeOrg>>
    /\ closed = {}
    /\ member = [o \in Orgs |-> [u \in Users |->
                   IF o = HomeOrg /\ u = Founder THEN [role |-> "owner", joined |-> TRUE] ELSE NoRow]]

DirTypeOK ==
    /\ password \in [Users -> Nat]
    /\ created \in Seq(Orgs)
    /\ closed \subseteq Orgs
    /\ member \in [Orgs -> [Users -> [role : Roles \cup {"none"}, joined : BOOLEAN]]]

Registered(u) == password[u] > 0
Invited(o, u) == member[o][u] # NoRow /\ ~member[o][u].joined
Belongs(o, u) == member[o][u].joined

(* getUserOrganizations: joined, not deleted; by their place in created. *)
UserOrganizationsAnyRow(u) ==   \* invitations that were not accepted, too
    {i \in DOMAIN created : member[created[i]][u] # NoRow /\ created[i] \notin closed}
UserOrganizations(u) == {i \in DOMAIN created : Belongs(created[i], u) /\ created[i] \notin closed}
(* orgs[0]: the oldest. *)
DefaultOrg(u, i) == \A j \in UserOrganizations(u) : i <= j

(* signUp's transaction: the user, the organization and its owner.  The    *)
(* unique e-mail makes the second of two concurrent sign-ups fail.         *)
CreateAccount(u, o) ==
    /\ ~Registered(u)
    /\ \A i \in DOMAIN created : created[i] # o
    /\ password' = [password EXCEPT ![u] = 1]
    /\ created' = Append(created, o)
    /\ member' = [member EXCEPT ![o][u] = [role |-> "owner", joined |-> TRUE]]
    /\ UNCHANGED closed

UpdatePasswordHash(u) ==
    /\ password' = [password EXCEPT ![u] = @ + 1]
    /\ UNCHANGED <<created, closed, member>>

(* addMember: ON CONFLICT (organization_id, user_id) DO NOTHING. *)
AddMember(o, u, r) ==
    member' = [member EXCEPT ![o][u] = IF @ = NoRow THEN [role |-> r, joined |-> FALSE] ELSE @]

(* acceptInvitation and declineInvitation: WHERE joined_at IS NULL. *)
AcceptRowUpsert(o, u) ==   \* creates the row that is gone
    member' = [member EXCEPT ![o][u] = [@ EXCEPT !.joined = TRUE]]
DeclineAnyRow(o, u) == member' = [member EXCEPT ![o][u] = NoRow]
AcceptRow(o, u) ==
    member' = [member EXCEPT ![o][u] = IF @ = NoRow THEN @ ELSE [@ EXCEPT !.joined = TRUE]]
DeclineRow(o, u) ==
    member' = [member EXCEPT ![o][u] = IF @.joined THEN @ ELSE NoRow]

UpdateMemberRole(o, u, r) ==
    member' = [member EXCEPT ![o][u] = IF @ = NoRow THEN @ ELSE [@ EXCEPT !.role = r]]
RemoveMember(o, u) == member' = [member EXCEPT ![o][u] = NoRow]
SoftDelete(o) == closed' = closed \cup {o}
============================================================================
