------------------------------ MODULE Sessions ------------------------------
(***************************************************************************)
(* Sign-up, log-in, token rotation, switching organizations, log-out       *)
(* and password reset (AuthService), with the browser that keeps the       *)
(* tokens (apiClient, authSlice, authApi) and the guard that reads them    *)
(* (requireAuth, requireRole).                                             *)
(*                                                                         *)
(* A slot is one call in flight: what the browser asked and where the      *)
(* handler that serves it is.  Every SQL statement of a handler is a step; *)
(* reads that nothing can change in between are one step.  The auth        *)
(* handlers run outside a transaction, so each write is final at once;     *)
(* switchOrg's INSERT is shown when its request commits.                   *)
(***************************************************************************)
EXTENDS Directory

CONSTANTS
    Slots,       \* calls in flight at once
    MaxIssued,   \* bound on the token pairs ever issued
    MaxIncidents, \* bound on what happens besides the calls that issue tokens:
                  \* membership changes, resets, log-outs, page loads, failures
    MaxEvents     \* bound on both together

ASSUME SessionsAssumption == MaxIssued \in Nat \ {0} /\ MaxIncidents \in Nat /\ MaxEvents \in Nat

Visitors == Users \ {Founder}   \* the users of the modelled browser

VARIABLES
    issued,    \* token pairs in the order of _issueTokens
    expired,   \* how many of them are too old for their access token
    links,     \* password_resets in the order of forgotPassword
    browser,   \* the redux store and localStorage
    slot,      \* the calls in flight
    cleared,   \* history: the password version of the last completed reset
    lost,      \* history: refresh tokens spent by a call whose answer was lost
    incidents  \* how many of them there were

sessionVars == <<issued, links, expired, browser, slot, cleared, lost>>

Room == Len(issued) + incidents < MaxEvents
Incident == incidents < MaxIncidents /\ Room /\ incidents' = incidents + 1

NoUser == "nobody"
Idle == [pc |-> "idle", kind |-> "none", user |-> NoUser, tok |-> 0, new |-> 0, org |-> NoOrg,
         role |-> "none", root |-> 0, seen |-> 0, outside |-> {}]

Empty == [access |-> 0, refresh |-> 0, org |-> NoOrg, authed |-> FALSE]

(* An access token and the refresh token issued with it.  root: the        *)
(* password the session goes back to; bridged: issued on a check older     *)
(* than the last completed reset; outside: organizations the user was not  *)
(* in at any time of the call that issued it (these are history).          *)
Pair(u, o, r, root, bridged, outside) ==
    [user |-> u, org |-> o, role |-> r, revoked |-> FALSE,
     root |-> root, bridged |-> bridged, outside |-> outside]

OutsideOf(u) == {o \in Orgs : ~Belongs(o, u)}

SessionInit ==
    /\ issued = <<Pair(Founder, HomeOrg, "owner", 1, FALSE, Orgs \ {HomeOrg})>>
    /\ links = <<>>
    /\ expired = 1
    /\ browser = Empty
    /\ slot = [s \in Slots |-> Idle]
    /\ cleared = [u \in Users |-> 0]
    /\ lost = {}
    /\ incidents = 0

PCs == {"idle", "unauthorized", "read", "revoke", "orgs", "getMember", "issue", "answered",
        "refused", "password", "spend", "revokeAll", "invite", "accept", "decline", "logout"}
Kinds == {"none", "api", "signUp", "logIn", "refresh", "switch", "gone"}
Pairs == 0 .. MaxIssued

SessionTypeOK ==
    /\ issued \in Seq([user : Users, org : Orgs, role : Roles, revoked : BOOLEAN,
                       root : Nat, bridged : BOOLEAN, outside : SUBSET Orgs])
    /\ Len(issued) <= MaxIssued
    /\ links \in Seq([user : Users, used : BOOLEAN])
    /\ expired \in Pairs
    /\ browser \in [access : Pairs, refresh : Pairs, org : Orgs \cup {NoOrg}, authed : BOOLEAN]
    /\ slot \in [Slots -> [pc : PCs, kind : Kinds, user : Users \cup {NoUser},
                           tok : Nat, new : Pairs, org : Orgs \cup {NoOrg},
                           role : Roles \cup {"none"}, root : Nat, seen : Nat, outside : SUBSET Orgs]]
    /\ cleared \in [Users -> Nat]
    /\ lost \subseteq Pairs
    /\ incidents \in 0 .. MaxIncidents

(* verifyAccessToken: access tokens expire in the order of their issue     *)
(* (the founder renews its own in another browser); verifyRefreshToken and *)
(* the row: not revoked, seven days being longer than any call.            *)
ValidAccess(i) == i \in DOMAIN issued /\ (i > expired \/ issued[i].user = Founder)
ValidRefresh(i) == i \in DOMAIN issued /\ ~issued[i].revoked

Free(s) == slot[s].pc = "idle"
Put(s, rec) == slot' = [slot EXCEPT ![s] = rec]
End(s) == Put(s, Idle)

AccessTokenExpires ==
    /\ expired < Len(issued)
    /\ expired' = expired + 1
    /\ UNCHANGED <<dirVars, issued, links, browser, slot, cleared, lost, incidents>>

---------------------------------------------------------------------------
(* POST /auth/sign-up.  The transaction is over when tokens are issued.    *)
SignUp(s) ==
    /\ Free(s) /\ ~browser.authed
    /\ \E u \in Visitors, o \in Orgs :
         /\ CreateAccount(u, o)
         /\ Put(s, [Idle EXCEPT !.pc = "issue", !.kind = "signUp", !.user = u, !.org = o,
                                !.role = "owner", !.root = 1, !.seen = cleared[u],
                                !.outside = OutsideOf(u) \ {o}])
    /\ UNCHANGED <<issued, links, expired, browser, cleared, lost, incidents>>

(* POST /auth/log-in: the hash is read once and compared afterwards.       *)
LogIn(s) ==
    /\ Free(s) /\ ~browser.authed
    /\ \E u \in Visitors :
         /\ Registered(u)
         /\ Put(s, [Idle EXCEPT !.pc = "orgs", !.kind = "logIn", !.user = u,
                                !.root = password[u], !.seen = cleared[u], !.outside = OutsideOf(u)])
    /\ UNCHANGED <<dirVars, issued, links, expired, browser, cleared, lost, incidents>>

(* A call whose bearer token has expired, or whose role is not enough for  *)
(* the route (requireRole answers 401, too); calls that are served change  *)
(* nothing here.                                                           *)
Unauthorized(i) == ~ValidAccess(i) \/ issued[i].role = "member"
CallApi(s) ==
    /\ Free(s) /\ browser.access # 0 /\ Unauthorized(browser.access)
    /\ Put(s, [Idle EXCEPT !.pc = "unauthorized", !.kind = "api"])
    /\ UNCHANGED <<dirVars, issued, links, expired, browser, cleared, lost, incidents>>

(* baseQueryWithReauth posts the refresh token it finds in localStorage.   *)
PostRefresh(s) ==
    /\ slot[s].pc = "unauthorized"
    /\ IF browser.refresh = 0
       THEN End(s)
       ELSE Put(s, [slot[s] EXCEPT !.pc = "read", !.kind = "refresh", !.tok = browser.refresh])
    /\ UNCHANGED <<dirVars, issued, links, expired, browser, cleared, lost, incidents>>

RefreshRead(s) ==
    /\ slot[s].pc = "read"
    /\ LET p == issued[slot[s].tok] IN
       IF ValidRefresh(slot[s].tok)
       THEN Put(s, [slot[s] EXCEPT !.pc = "revoke", !.user = p.user, !.root = p.root,
                                   !.seen = IF p.bridged THEN 0 ELSE cleared[p.user],
                                   !.outside = OutsideOf(p.user)])
       ELSE Put(s, [slot[s] EXCEPT !.pc = "refused"])
    /\ UNCHANGED <<dirVars, issued, links, expired, browser, cleared, lost, incidents>>

RefreshRevoke(s) ==
    /\ slot[s].pc = "revoke"
    /\ issued' = [issued EXCEPT ![slot[s].tok].revoked = TRUE]
    /\ lost' = IF slot[s].kind = "gone" THEN lost \cup {slot[s].tok} ELSE lost
    /\ Put(s, [slot[s] EXCEPT !.pc = "orgs"])
    /\ UNCHANGED <<dirVars, links, expired, browser, cleared, incidents>>

(* getUserOrganizations: without one, log-in answers 401, to which         *)
(* apiClient reacts as to any other, and refresh fails on orgs[0], its old *)
(* token being revoked already.                                            *)
ReadOrgs(s) ==
    /\ slot[s].pc = "orgs"
    /\ \/ \E i \in UserOrganizations(slot[s].user) :
            DefaultOrg(slot[s].user, i) /\ Put(s, [slot[s] EXCEPT !.pc = "getMember", !.org = created[i]])
       \/ /\ UserOrganizations(slot[s].user) = {}
          /\ Put(s, IF slot[s].kind = "logIn" THEN [Idle EXCEPT !.pc = "unauthorized", !.kind = "api"]
                    ELSE [slot[s] EXCEPT !.pc = "refused"])
    /\ UNCHANGED <<dirVars, issued, links, expired, browser, cleared, lost, incidents>>

(* getMember(...)?.role ?? 'member'. *)
ReadMember(s) ==
    /\ slot[s].pc = "getMember"
    /\ LET m == member[slot[s].org][slot[s].user] IN
       Put(s, [slot[s] EXCEPT !.pc = "issue", !.role = IF m = NoRow THEN "member" ELSE m.role])
    /\ UNCHANGED <<dirVars, issued, links, expired, browser, cleared, lost, incidents>>

(* POST /auth/switch-org/:orgId: any joined organization, a deleted one     *)
(* included.                                                               *)
SwitchOrg(s) ==
    /\ Free(s) /\ browser.access # 0 /\ ValidAccess(browser.access)
    /\ LET p == issued[browser.access] IN
       \E o \in Orgs :
         /\ Belongs(o, p.user)
         /\ Put(s, [Idle EXCEPT !.pc = "issue", !.kind = "switch", !.user = p.user, !.org = o,
                                !.role = member[o][p.user].role, !.root = p.root,
                                !.seen = IF p.bridged THEN 0 ELSE p.root, !.outside = OutsideOf(p.user)])
    /\ UNCHANGED <<dirVars, issued, links, expired, browser, cleared, lost, incidents>>

(* _issueTokens. *)
Issue(s) ==
    /\ slot[s].pc = "issue" /\ Len(issued) < MaxIssued /\ Room
    /\ LET c == slot[s] IN
       issued' = Append(issued, Pair(c.user, c.org, c.role, c.root, c.seen < cleared[c.user], c.outside))
    /\ Put(s, [slot[s] EXCEPT !.pc = "answered", !.new = Len(issued) + 1])
    /\ UNCHANGED <<dirVars, links, expired, browser, cleared, lost, incidents>>

(* onQueryStarted of signUp, logIn and switchOrg: setCredentials. *)
CredentialsStored(s) ==
    /\ slot[s].pc = "answered" /\ slot[s].kind \in {"signUp", "logIn", "switch"}
    /\ browser' = [access |-> slot[s].new, refresh |-> slot[s].new, org |-> slot[s].org, authed |-> TRUE]
    /\ End(s)
    /\ UNCHANGED <<dirVars, issued, links, expired, cleared, lost, incidents>>

(* The pair is stored, isAuthenticated stays what it is, and the call is   *)
(* sent once more with the new access token: its second answer is final.   *)
RefreshedAccessOnly(s) ==   \* the new refresh token is not kept
    /\ slot[s].pc = "answered" /\ slot[s].kind = "refresh"
    /\ browser' = [browser EXCEPT !.access = slot[s].new]
    /\ End(s)
    /\ UNCHANGED <<dirVars, issued, links, expired, cleared, lost, incidents>>

Refreshed(s) ==
    /\ slot[s].pc = "answered" /\ slot[s].kind = "refresh"
    /\ browser' = [browser EXCEPT !.access = slot[s].new, !.refresh = slot[s].new]
    /\ End(s)
    /\ UNCHANGED <<dirVars, issued, links, expired, cleared, lost, incidents>>

Refused(s) ==
    /\ slot[s].pc = "refused"
    /\ browser' = Empty
    /\ End(s)
    /\ UNCHANGED <<dirVars, issued, links, expired, cleared, lost, incidents>>

(* authApi.logout clears the store and localStorage when the mutation is   *)
(* started, and only then is its body read from localStorage: what is      *)
(* posted is what is left there.  useAuth clears once more on the answer.  *)
LogOut(s) ==
    /\ Incident
    /\ Free(s) /\ browser.authed
    /\ browser' = Empty
    /\ LET posted == browser'.refresh IN
       issued' = [i \in DOMAIN issued |->
                    IF i = posted THEN [issued[i] EXCEPT !.revoked = TRUE] ELSE issued[i]]
    /\ Put(s, [Idle EXCEPT !.pc = "logout", !.kind = "api"])
    /\ UNCHANGED <<dirVars, links, expired, cleared, lost>>

LoggedOut(s) ==
    /\ slot[s].pc = "logout"
    /\ browser' = Empty
    /\ End(s)
    /\ UNCHANGED <<dirVars, issued, links, expired, cleared, lost, incidents>>

(* A page load: the store is rebuilt from localStorage without the         *)
(* organization, and nobody waits for the calls in flight any more.        *)
Abandon(c) ==
    IF c.pc \in {"read", "revoke", "orgs", "getMember", "issue"}
    THEN [c EXCEPT !.kind = "gone"]
    ELSE IF c.pc \in {"unauthorized", "answered", "refused", "logout"}
    THEN Idle ELSE c

Reload ==
    /\ Incident
    /\ browser' = [browser EXCEPT !.org = NoOrg, !.authed = browser.access # 0]
    /\ slot' = [s \in Slots |-> Abandon(slot[s])]
    /\ lost' = lost \cup {slot[s].tok : s \in {s \in Slots : slot[s].kind = "refresh"
                             /\ slot[s].pc \in {"orgs", "getMember", "issue", "answered", "refused"}}}
    /\ browser' # browser \/ slot' # slot
    /\ UNCHANGED <<dirVars, issued, links, expired, cleared>>

Unheard(s) ==
    /\ slot[s].kind = "gone" /\ slot[s].pc \in {"answered", "refused"}
    /\ End(s)
    /\ UNCHANGED <<dirVars, issued, links, expired, browser, cleared, lost, incidents>>

---------------------------------------------------------------------------
ForgotPassword ==
    /\ Incident
    /\ \E u \in Visitors : Registered(u) /\ links' = Append(links, [user |-> u, used |-> FALSE])
    /\ UNCHANGED <<dirVars, issued, expired, browser, slot, cleared, lost>>

(* resetPassword: the link is tested, then the password is hashed and      *)
(* written, the link marked, and every live refresh token revoked.         *)
ResetPassword(s) ==
    /\ Incident
    /\ Free(s)
    /\ \E l \in DOMAIN links :
         /\ ~links[l].used
         /\ Put(s, [Idle EXCEPT !.pc = "password", !.user = links[l].user, !.tok = l])
    /\ UNCHANGED <<dirVars, issued, links, expired, browser, cleared, lost>>

WritePassword(s) ==
    /\ slot[s].pc = "password"
    /\ UpdatePasswordHash(slot[s].user)
    /\ Put(s, [slot[s] EXCEPT !.pc = "spend", !.root = password[slot[s].user] + 1])
    /\ UNCHANGED <<issued, links, expired, browser, cleared, lost, incidents>>

SpendLink(s) ==
    /\ slot[s].pc = "spend"
    /\ links' = [links EXCEPT ![slot[s].tok].used = TRUE]
    /\ Put(s, [slot[s] EXCEPT !.pc = "revokeAll"])
    /\ UNCHANGED <<dirVars, issued, expired, browser, cleared, lost, incidents>>

RevokeAllOld(s) ==   \* only the sessions whose access token has expired
    /\ slot[s].pc = "revokeAll"
    /\ LET u == slot[s].user IN
       /\ issued' = [i \in DOMAIN issued |->
                       IF issued[i].user = u /\ i <= expired THEN [issued[i] EXCEPT !.revoked = TRUE] ELSE issued[i]]
       /\ cleared' = [cleared EXCEPT ![u] = IF slot[s].root > @ THEN slot[s].root ELSE @]
    /\ End(s)
    /\ UNCHANGED <<dirVars, links, expired, browser, lost, incidents>>

RevokeAll(s) ==
    /\ slot[s].pc = "revokeAll"
    /\ LET u == slot[s].user IN
       /\ issued' = [i \in DOMAIN issued |->
                       IF issued[i].user = u THEN [issued[i] EXCEPT !.revoked = TRUE] ELSE issued[i]]
       /\ cleared' = [cleared EXCEPT ![u] = IF slot[s].root > @ THEN slot[s].root ELSE @]
    /\ End(s)
    /\ UNCHANGED <<dirVars, links, expired, browser, lost, incidents>>

(* A statement fails, or the process ends: what was written stays written, *)
(* and a refresh that fails is a refusal to apiClient.                     *)
HandlerFails(s) ==
    /\ Incident
    /\ slot[s].pc \in {"read", "revoke", "orgs", "getMember", "issue", "password", "spend", "revokeAll"}
    /\ Put(s, IF slot[s].kind = "refresh" THEN [slot[s] EXCEPT !.pc = "refused"] ELSE Idle)
    /\ UNCHANGED <<dirVars, issued, links, expired, browser, cleared, lost>>

SessionStep(s) ==
    \/ SignUp(s) \/ LogIn(s) \/ CallApi(s) \/ PostRefresh(s)
    \/ RefreshRead(s) \/ RefreshRevoke(s) \/ ReadOrgs(s) \/ ReadMember(s) \/ SwitchOrg(s)
    \/ Issue(s) \/ CredentialsStored(s) \/ Refreshed(s) \/ Refused(s) \/ LogOut(s) \/ LoggedOut(s)
    \/ Unheard(s) \/ ResetPassword(s) \/ WritePassword(s) \/ SpendLink(s) \/ RevokeAll(s)
    \/ HandlerFails(s)

SessionNext ==
    \/ AccessTokenExpires \/ Reload \/ ForgotPassword
    \/ \E s \in Slots : SessionStep(s)
============================================================================
