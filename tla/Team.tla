-------------------------------- MODULE Team --------------------------------
(***************************************************************************)
(* Memberships of an organization (TeamService, AccountService): what an   *)
(* actor may do is decided by the organization and the role in its access  *)
(* token, which may be older than the rows it changes.  invite, accept and *)
(* decline test a row and write it afterwards, inside one READ COMMITTED   *)
(* transaction that does not lock it; the others are one statement.        *)
(***************************************************************************)
EXTENDS Sessions

Leads(i) == ValidAccess(i) /\ issued[i].role \in {"owner", "admin"}

(* POST /team/invite: an existing user who has no row in the organization. *)
Invite(s) ==
    /\ Free(s) /\ Incident
    /\ \E i \in DOMAIN issued, u \in Visitors, r \in Roles \ {"owner"} :
         /\ Leads(i) /\ Registered(u) /\ member[issued[i].org][u] = NoRow
         /\ Put(s, [Idle EXCEPT !.pc = "invite", !.user = u, !.org = issued[i].org, !.role = r])
    /\ UNCHANGED <<dirVars, issued, links, expired, browser, cleared, lost>>

(* /account/invitations/:orgId/accept and /decline. *)
AnswerInvitation(s) ==
    /\ Free(s) /\ Incident
    /\ \E i \in DOMAIN issued, o \in Orgs, a \in {"accept", "decline"} :
         /\ ValidAccess(i) /\ Invited(o, issued[i].user)
         /\ Put(s, [Idle EXCEPT !.pc = a, !.user = issued[i].user, !.org = o])
    /\ UNCHANGED <<dirVars, issued, links, expired, browser, cleared, lost>>

WriteMembership(s) ==
    LET c == slot[s] IN
    /\ \/ c.pc = "invite" /\ AddMember(c.org, c.user, c.role)
       \/ c.pc = "accept" /\ AcceptRow(c.org, c.user)
       \/ c.pc = "decline" /\ DeclineRow(c.org, c.user)
    /\ slot' = [x \in Slots |->
                  IF x = s THEN Idle
                  ELSE IF c.pc = "accept" /\ slot[x].user = c.user
                  THEN [slot[x] EXCEPT !.outside = @ \ {c.org}] ELSE slot[x]]
    /\ UNCHANGED <<password, created, closed, issued, links, expired, browser, cleared, lost, incidents>>

(* PATCH /team/:memberId/role: the route applies no DTO, so that any role  *)
(* the column accepts is granted.                                          *)
UpdateRole ==
    /\ Incident
    /\ \E i \in DOMAIN issued, u \in Visitors, r \in Roles :
         /\ Leads(i) /\ member[issued[i].org][u].role \notin {r, "none"}
         /\ UpdateMemberRole(issued[i].org, u, r)
    /\ UNCHANGED <<password, created, closed, sessionVars>>

(* DELETE /team/:memberId: anyone but oneself. *)
Remove ==
    /\ Incident
    /\ \E i \in DOMAIN issued, u \in Visitors :
         /\ Leads(i) /\ issued[i].user # u /\ member[issued[i].org][u] # NoRow
         /\ RemoveMember(issued[i].org, u)
    /\ UNCHANGED <<password, created, closed, sessionVars>>

(* DELETE /account/organization: the row stays for 30 days. *)
ScheduleOrgDeletion ==
    /\ Incident
    /\ \E i \in DOMAIN issued :
         /\ ValidAccess(i) /\ issued[i].role = "owner" /\ issued[i].org \notin closed
         /\ SoftDelete(issued[i].org)
    /\ UNCHANGED <<password, created, member, sessionVars>>

Init == DirInit /\ SessionInit

TeamNext ==
    \/ UpdateRole \/ Remove \/ ScheduleOrgDeletion
    \/ \E s \in Slots : Invite(s) \/ AnswerInvitation(s) \/ WriteMembership(s)

Next == SessionNext \/ TeamNext

vars == <<dirVars, sessionVars, incidents>>
Spec == Init /\ [][Next]_vars

---------------------------------------------------------------------------
TypeOK == DirTypeOK /\ SessionTypeOK

(* A refresh token that outlives a password reset was issued after it, by  *)
(* a call that had passed its check before, or on an access token of that  *)
(* time; every other session of the old password is over.                  *)
SurvivorsOverlapped ==
    \A i \in DOMAIN issued :
        LET p == issued[i] IN ~p.revoked /\ p.root < cleared[p.user] => p.bridged

(* No token is scoped to an organization that its user was not in at any   *)
(* time of the call that issued it: pending invitations and removed        *)
(* members get none, however the calls overlap.                            *)
TokensFollowMembership ==
    \A i \in DOMAIN issued : issued[i].org \notin issued[i].outside

(* The refresh token in localStorage is a spent one only while the call    *)
(* that spent it is under way, after its answer was lost to a page load,   *)
(* or after a password reset: rotation never leaves the browser with a     *)
(* token that the next 401 would log it out with.                          *)
Rotating(i) == \E s \in Slots : slot[s].tok = i /\ slot[s].kind = "refresh"
KeptTokenUnspent ==
    LET i == browser.refresh IN
    i # 0 /\ issued[i].revoked =>
        Rotating(i) \/ i \in lost \/ cleared[issued[i].user] > 0

(* Calls that race on an invitation (two invites, an accept and a decline, *)
(* an invite and a removal) never change a membership that is settled: a   *)
(* joined row changes only by a role change or a removal.                  *)
JoinedIsSettled ==
    [][\A o \in Orgs, u \in Users :
         Belongs(o, u) /\ (\E s \in Slots : slot[s].pc \in {"invite", "accept", "decline"} /\ slot'[s] # slot[s])
           => member'[o][u] = member[o][u]]_vars
============================================================================
