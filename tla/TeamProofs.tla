------------------------------ MODULE TeamProofs ------------------------------
(***************************************************************************)
(* What sessions and memberships keep for any number of users,             *)
(* organizations, calls in flight and incidents.  Every property is about  *)
(* tokens that were issued or stored, and depends on what the call that    *)
(* issues or stores one has read some steps before: the invariant says     *)
(* what a call in flight may still rely on at each of its steps.           *)
(***************************************************************************)
EXTENDS Team, TLAPS

Token == [user : Users, org : Orgs, role : Roles, revoked : BOOLEAN,
          root : Nat, bridged : BOOLEAN, outside : SUBSET Orgs]
Link == [user : Users, used : BOOLEAN]
Stored == [access : Pairs, refresh : Pairs, org : Orgs \cup {NoOrg}, authed : BOOLEAN]
Call == [pc : PCs, kind : Kinds, user : Users \cup {NoUser}, tok : Nat, new : Pairs,
         org : Orgs \cup {NoOrg}, role : Roles \cup {"none"}, root : Nat, seen : Nat,
         outside : SUBSET Orgs]

(* A membership has a role, and a completed reset wrote its password. *)
Rows == /\ \A o \in Orgs, u \in Users : member[o][u].role = "none" => member[o][u] = NoRow
        /\ \A u \in Users : cleared[u] <= password[u]

(* What a call refers to is there. *)
Refers(c) ==
    /\ c.new <= Len(issued) /\ (c.pc = "answered" => c.new # 0)
    /\ c.pc \in {"read", "revoke"} => c.kind \in {"refresh", "gone"} /\ c.tok \in DOMAIN issued
    /\ c.kind = "refresh" => c.tok \in DOMAIN issued

(* A call that is to issue tokens: if a reset has overtaken its password,  *)
(* then also its check; and its organization is one the user was in.       *)
Session(c) ==
    /\ c.pc \in {"revoke", "orgs", "getMember", "issue"} =>
         /\ c.user \in Users /\ Registered(c.user)
         /\ c.root < cleared[c.user] => c.seen < cleared[c.user]
         /\ c.seen <= cleared[c.user] \/ c.seen <= c.root
    /\ c.pc \in {"revoke", "orgs"} => \A o \in c.outside : ~Belongs(o, c.user)
    /\ c.pc \in {"getMember", "issue"} => c.org \in Orgs /\ c.org \notin c.outside
    /\ c.pc = "issue" => c.role \in Roles

(* A call that is to write a password or a membership. *)
Writes(c) ==
    /\ c.pc \in {"password", "spend", "revokeAll"} => c.user \in Users
    /\ c.pc \in {"spend", "revokeAll"} => 0 < c.root /\ c.root <= password[c.user]
    /\ c.pc \in {"invite", "accept", "decline"} => c.user \in Users /\ c.org \in Orgs
    /\ c.pc = "invite" => c.role \in Roles

CallOK(c) == Refers(c) /\ Session(c) /\ Writes(c)
Calls == \A s \in Slots : CallOK(slot[s])

TokenOK(p) == /\ Registered(p.user) /\ p.org \notin p.outside
              /\ ~p.revoked /\ p.root < cleared[p.user] => p.bridged
Tokens == \A i \in DOMAIN issued : TokenOK(issued[i])
Browser == browser.access <= Len(issued) /\ browser.refresh <= Len(issued)

TeamInv == TypeOK /\ Rows /\ Calls /\ Tokens /\ Browser

(* A token that is about to be stored is nobody else's, and was revoked by *)
(* a reset if at all.                                                      *)
Fresh == \A s \in Slots : slot[s].pc = "answered" =>
    LET n == slot[s].new IN
    /\ n # browser.refresh
    /\ issued[n].revoked => cleared[issued[n].user] > 0
    /\ \A x \in Slots : slot[x].pc \in {"read", "revoke"} => slot[x].tok # n
    /\ \A x \in Slots \ {s} : slot[x].pc = "answered" => slot[x].new # n

(* The steps of a refresh whose token is spent. *)
Late == {"orgs", "getMember", "issue", "answered", "refused"}

(* A stored token that is revoked was revoked by a call that still has to  *)
(* replace it, or that cannot any more, or by a reset.                     *)
Replacing(i) == \E s \in Slots : /\ slot[s].kind = "refresh" /\ slot[s].tok = i
                                 /\ slot[s].pc \in Late
Kept == LET i == browser.refresh IN
        i # 0 /\ issued[i].revoked => Replacing(i) \/ i \in lost \/ cleared[issued[i].user] > 0

BrowserInv == Fresh /\ Kept

---------------------------------------------------------------------------
LEMMA IdleIsCall ==
    /\ Idle \in Call /\ Idle.pc = "idle" /\ Idle.kind = "none" /\ Idle.new = 0 /\ Idle.outside = {}
    /\ CallOK(Idle)
<1>1. Idle \in Call /\ Idle.pc = "idle" /\ Idle.kind = "none" /\ Idle.new = 0 /\ Idle.outside = {}
  BY SessionsAssumption DEF Idle, Call, PCs, Kinds, Pairs
<1>2. CallOK(Idle)
  BY <1>1 DEF CallOK, Refers, Session, Writes
<1> QED
  BY <1>1, <1>2

(* The types of the state, record by record. *)
Typed ==
    /\ password \in [Users -> Nat] /\ created \in Seq(Orgs) /\ closed \subseteq Orgs
    /\ member \in [Orgs -> [Users -> [role : Roles \cup {"none"}, joined : BOOLEAN]]]
    /\ issued \in Seq(Token) /\ Len(issued) <= MaxIssued /\ links \in Seq(Link)
    /\ expired \in Pairs /\ browser \in Stored /\ slot \in [Slots -> Call]
    /\ cleared \in [Users -> Nat] /\ lost \subseteq Pairs /\ incidents \in 0 .. MaxIncidents

LEMMA Types == (TypeOK <=> Typed) /\ (TypeOK' <=> Typed')
  BY DEF Typed, TypeOK, DirTypeOK, SessionTypeOK, Token, Link, Stored, Call

LEMMA OneElement ==
  ASSUME NEW S, NEW e \in S
  PROVE  <<e>> \in Seq(S) /\ Len(<<e>>) = 1 /\ <<e>>[1] = e /\ DOMAIN <<e>> = {1}
  OBVIOUS

LEMMA InitInv == Init => TeamInv /\ BrowserInv
<1> SUFFICES ASSUME Init PROVE TeamInv /\ BrowserInv
  OBVIOUS
<1>1. /\ password \in [Users -> Nat] /\ created \in Seq(Orgs) /\ closed \subseteq Orgs
      /\ member \in [Orgs -> [Users -> [role : Roles \cup {"none"}, joined : BOOLEAN]]]
      /\ password[Founder] = 1
  <2>1. created \in Seq(Orgs)
    BY DirectoryAssumption, OneElement DEF Init, DirInit
  <2> QED
    BY <2>1, DirectoryAssumption DEF Init, DirInit, NoRow, Roles
<1> DEFINE p == Pair(Founder, HomeOrg, "owner", 1, FALSE, Orgs \ {HomeOrg})
<1>2. p \in Token /\ p.user = Founder /\ ~p.revoked /\ p.root = 1 /\ p.org \notin p.outside
  BY DirectoryAssumption DEF Pair, Token, Roles
<1>3. issued = <<p>>
  BY DEF Init, SessionInit
<1> HIDE DEF p
<1>4. issued \in Seq(Token) /\ Len(issued) = 1 /\ issued[1] = p /\ DOMAIN issued = {1}
  BY <1>2, <1>3, OneElement
<1>5. /\ expired \in Pairs /\ browser \in Stored /\ browser.access = 0 /\ browser.refresh = 0
      /\ links \in Seq(Link) /\ cleared \in [Users -> Nat] /\ lost \subseteq Pairs
      /\ incidents \in 0 .. MaxIncidents
  BY SessionsAssumption DEF Init, SessionInit, Pairs, Empty, Stored
<1>6. slot \in [Slots -> Call] /\ \A s \in Slots : slot[s] = Idle
  BY IdleIsCall DEF Init, SessionInit
<1>7. TypeOK
  BY <1>1, <1>4, <1>5, <1>6, SessionsAssumption, Types DEF Typed
<1>8. Rows
  BY <1>1 DEF Rows, Init, DirInit, SessionInit, NoRow
<1>9. Calls
  BY <1>6, IdleIsCall DEF Calls
<1>10. cleared[Founder] = 0
  BY DirectoryAssumption DEF Init, SessionInit
<1>11. TokenOK(issued[1])
  BY <1>1, <1>2, <1>4, <1>10 DEF TokenOK, Registered
<1>12. Tokens
  BY <1>4, <1>11 DEF Tokens
<1>13. Browser
  BY <1>4, <1>5 DEF Browser
<1>14. BrowserInv
  BY <1>5, <1>6, IdleIsCall DEF BrowserInv, Fresh, Kept
<1> QED
  BY <1>7, <1>8, <1>9, <1>12, <1>13, <1>14 DEF TeamInv

---------------------------------------------------------------------------
(* What every step lets the calls in flight rely on: tokens, passwords and *)
(* completed resets only grow, and only a sign-up or the acceptance of an  *)
(* invitation makes a user belong somewhere.                               *)
Grows == /\ Len(issued) <= Len(issued')
         /\ \A u \in Users : password[u] <= password'[u] /\ cleared[u] <= cleared'[u]
Joins(c) == \E o \in c.outside : ~Belongs(o, c.user) /\ Belongs(o, c.user)'

LEMMA CallsStay ==
  ASSUME TypeOK, TypeOK', Grows, NEW c \in Call, CallOK(c),
         c.pc \in {"revoke", "orgs"} => ~Joins(c)
  PROVE  CallOK(c)'
<1>1. /\ password \in [Users -> Nat] /\ password' \in [Users -> Nat]
      /\ cleared \in [Users -> Nat] /\ cleared' \in [Users -> Nat]
      /\ issued \in Seq(Token) /\ issued' \in Seq(Token)
  BY Types DEF Typed
<1>2. DOMAIN issued \subseteq DOMAIN issued' /\ Len(issued) \in Nat /\ Len(issued') \in Nat
  BY <1>1 DEF Grows
<1>3. c.new \in Nat /\ c.root \in Nat /\ c.seen \in Nat
  BY DEF Call, Pairs
<1>4. Refers(c)'
  BY <1>2, <1>3 DEF CallOK, Refers, Grows
<1>5. Session(c)'
  <2>1. ASSUME c.pc \in {"revoke", "orgs", "getMember", "issue"}
        PROVE /\ c.user \in Users /\ Registered(c.user)'
              /\ c.root < cleared'[c.user] => c.seen < cleared'[c.user]
              /\ c.seen <= cleared'[c.user] \/ c.seen <= c.root
    BY <2>1, <1>1, <1>3 DEF CallOK, Session, Grows, Registered
  <2>2. ASSUME c.pc \in {"revoke", "orgs"} PROVE \A o \in c.outside : ~Belongs(o, c.user)'
    BY <2>2 DEF CallOK, Session, Joins
  <2> QED
    BY <2>1, <2>2 DEF CallOK, Session
<1>6. Writes(c)'
  BY <1>1, <1>3 DEF CallOK, Writes, Grows
<1> QED
  BY <1>4, <1>5, <1>6 DEF CallOK

LEMMA SlotsStay ==
  ASSUME TeamInv, TypeOK', Grows, NEW s \in Slots, NEW rec \in Call, slot' = [slot EXCEPT ![s] = rec],
         CallOK(rec)', \A x \in Slots \ {s} : slot[x].pc \in {"revoke", "orgs"} => ~Joins(slot[x])
  PROVE  Calls'
<1>1. slot \in [Slots -> Call] /\ TypeOK
  BY Types DEF Typed, TeamInv
<1>2. ASSUME NEW x \in Slots \ {s} PROVE CallOK(slot[x])'
  <2>1. PICK c \in Call : c = slot[x]
    BY <1>1
  <2>2. CallOK(c) /\ (c.pc \in {"revoke", "orgs"} => ~Joins(c))
    BY <2>1 DEF TeamInv, Calls
  <2>3. CallOK(c)'
    BY <2>2, <1>1, CallsStay
  <2>4. slot'[x] = c
    BY <2>1, <1>1
  <2> QED
    BY <2>3, <2>4
<1>3. slot'[s] = rec
  BY <1>1
<1>4. CallOK(slot[s])'
  BY <1>3
<1> QED
  BY <1>2, <1>4 DEF Calls

(* A step of a call that changes nothing but the call and the browser. *)
LEMMA PutKeeps ==
  ASSUME TeamInv, NEW s \in Slots, NEW rec \in Call, Put(s, rec), CallOK(rec),
         UNCHANGED <<dirVars, issued, links, expired, cleared>>,
         browser' \in Stored, Browser', lost' \subseteq Pairs, incidents' \in 0 .. MaxIncidents
  PROVE  TeamInv'
<1>1. TypeOK
  BY DEF TeamInv
<1>2. slot' = [slot EXCEPT ![s] = rec] /\ UNCHANGED <<password, created, closed, member>>
  BY DEF Put, dirVars
<1>3. slot' \in [Slots -> Call]
  BY <1>1, <1>2, Types DEF Typed
<1>4. TypeOK'
  BY <1>1, <1>2, <1>3, Types DEF Typed
<1>5. Grows
  BY <1>1, <1>2, Types DEF Typed, Grows
<1>6. \A c : ~Joins(c)
  BY <1>2 DEF Joins, Belongs
<1>7. CallOK(rec)'
  BY <1>1, <1>4, <1>5, <1>6, CallsStay
<1>8. Calls'
  BY <1>2, <1>4, <1>5, <1>6, <1>7, SlotsStay
<1>9. Rows' /\ Tokens'
  BY <1>2 DEF TeamInv, Rows, Tokens, TokenOK, Registered
<1> QED
  BY <1>4, <1>8, <1>9 DEF TeamInv

LEMMA QuietKeeps ==
  ASSUME TeamInv, NEW s \in Slots, NEW rec \in Call, Put(s, rec), CallOK(rec),
         UNCHANGED <<dirVars, issued, links, expired, browser, cleared, lost>>,
         incidents' = incidents \/ Incident
  PROVE  TeamInv'
<1>1. Typed
  BY Types DEF TeamInv
<1>2. browser' \in Stored /\ Browser' /\ lost' \subseteq Pairs
  BY <1>1 DEF TeamInv, Browser, Typed
<1>3. incidents' \in 0 .. MaxIncidents
  BY <1>1, SessionsAssumption DEF Typed, Incident
<1> QED
  BY <1>2, <1>3, PutKeeps

LEMMA TheCall == ASSUME TeamInv, NEW s \in Slots PROVE slot[s] \in Call /\ CallOK(slot[s]) /\ Typed
  BY Types DEF TeamInv, Calls, Typed

---------------------------------------------------------------------------
(* The steps of calls that change only the call.  A log-in reads the       *)
(* password and what a completed reset has written at one time.            *)
LEMMA LogInKeeps == ASSUME TeamInv, NEW s \in Slots, LogIn(s) PROVE TeamInv'
<1>1. PICK u \in Visitors :
        /\ Registered(u)
        /\ Put(s, [Idle EXCEPT !.pc = "orgs", !.kind = "logIn", !.user = u,
                               !.root = password[u], !.seen = cleared[u], !.outside = OutsideOf(u)])
  BY DEF LogIn
<1> DEFINE rec == [Idle EXCEPT !.pc = "orgs", !.kind = "logIn", !.user = u,
                               !.root = password[u], !.seen = cleared[u], !.outside = OutsideOf(u)]
<1>2. Typed /\ Rows /\ u \in Users
  BY TheCall DEF TeamInv, Visitors
<1>3. rec \in Call /\ rec.pc = "orgs" /\ rec.kind = "logIn" /\ rec.user = u /\ rec.root = password[u]
      /\ rec.seen = cleared[u] /\ rec.outside = OutsideOf(u) /\ rec.new = 0
  BY <1>2, IdleIsCall DEF Call, Typed, PCs, Kinds, OutsideOf
<1>4. Put(s, rec)
  BY <1>1
<1> HIDE DEF rec
<1>5. CallOK(rec)
  BY <1>1, <1>2, <1>3 DEF CallOK, Refers, Session, Writes, Rows, OutsideOf, Typed
<1> QED
  BY <1>3, <1>4, <1>5, QuietKeeps DEF LogIn

LEMMA CallApiKeeps == ASSUME TeamInv, NEW s \in Slots, CallApi(s) PROVE TeamInv'
<1> DEFINE rec == [Idle EXCEPT !.pc = "unauthorized", !.kind = "api"]
<1>1. rec \in Call /\ rec.pc = "unauthorized" /\ rec.kind = "api" /\ rec.new = 0
  BY IdleIsCall DEF Call, PCs, Kinds
<1>2. Put(s, rec)
  BY DEF CallApi
<1> HIDE DEF rec
<1>3. CallOK(rec)
  BY <1>1, TheCall DEF CallOK, Refers, Session, Writes, Typed
<1> QED
  BY <1>1, <1>2, <1>3, QuietKeeps DEF CallApi

LEMMA PostRefreshKeeps == ASSUME TeamInv, NEW s \in Slots, PostRefresh(s) PROVE TeamInv'
<1>1. CASE browser.refresh = 0
  BY <1>1, IdleIsCall, QuietKeeps DEF PostRefresh, End
<1>2. CASE browser.refresh # 0
  <2> DEFINE rec == [slot[s] EXCEPT !.pc = "read", !.kind = "refresh", !.tok = browser.refresh]
  <2>1. Put(s, rec)
    BY <1>2 DEF PostRefresh
  <2>2. slot[s] \in Call /\ CallOK(slot[s]) /\ Typed /\ browser.refresh \in Nat
    BY TheCall DEF Typed, Stored, Pairs
  <2>3. rec \in Call /\ rec.pc = "read" /\ rec.kind = "refresh" /\ rec.tok = browser.refresh /\ rec.new = slot[s].new
    BY <2>2 DEF Call, PCs, Kinds
  <2>4. browser.refresh \in DOMAIN issued
    BY <1>2, <2>2 DEF TeamInv, Browser, Typed
  <2> HIDE DEF rec
  <2>5. CallOK(rec)
    BY <2>2, <2>3, <2>4 DEF CallOK, Refers, Session, Writes
  <2> QED
    BY <2>1, <2>3, <2>5, QuietKeeps DEF PostRefresh
<1> QED
  BY <1>1, <1>2

(* A refresh goes on with a token that is not revoked: if a reset has      *)
(* overtaken its password, the token is bridged.                           *)
LEMMA RefreshReadKeeps == ASSUME TeamInv, NEW s \in Slots, RefreshRead(s) PROVE TeamInv'
<1>1. slot[s] \in Call /\ CallOK(slot[s]) /\ Typed /\ slot[s].pc = "read"
  BY TheCall DEF RefreshRead
<1>2. CASE ValidRefresh(slot[s].tok)
  <2> DEFINE t == slot[s].tok
             p == issued[t]
             u == p.user
             seen == IF p.bridged THEN 0 ELSE cleared[u]
             rec == [slot[s] EXCEPT !.pc = "revoke", !.user = u, !.root = p.root,
                                    !.seen = seen, !.outside = OutsideOf(u)]
  <2>1. Put(s, rec)
    BY <1>2 DEF RefreshRead
  <2>2. p \in Token /\ TokenOK(p) /\ ~p.revoked
    BY <1>1, <1>2 DEF ValidRefresh, TeamInv, Tokens, Typed
  <2>3. u \in Users /\ p.root \in Nat /\ cleared[u] \in Nat /\ OutsideOf(u) \in SUBSET Orgs
    BY <1>1, <2>2 DEF Token, Typed, OutsideOf
  <2>4. seen \in Nat /\ seen <= cleared[u] /\ (p.root < cleared[u] => seen < cleared[u])
    BY <2>2, <2>3 DEF TokenOK
  <2>5. Registered(u) /\ \A o \in OutsideOf(u) : ~Belongs(o, u)
    BY <2>2 DEF TokenOK, OutsideOf
  <2> HIDE DEF seen, u
  <2>6. rec \in Call /\ rec.pc = "revoke" /\ rec.kind = slot[s].kind /\ rec.tok = t /\ rec.new = slot[s].new
        /\ rec.user = u /\ rec.root = p.root /\ rec.seen = seen /\ rec.outside = OutsideOf(u)
    BY <1>1, <2>3, <2>4 DEF Call, PCs
  <2> HIDE DEF rec
  <2>7. CallOK(rec)
    BY <1>1, <2>3, <2>4, <2>5, <2>6 DEF CallOK, Refers, Session, Writes
  <2> QED
    BY <2>1, <2>6, <2>7, QuietKeeps DEF RefreshRead
<1>3. CASE ~ValidRefresh(slot[s].tok)
  <2> DEFINE rec == [slot[s] EXCEPT !.pc = "refused"]
  <2>1. Put(s, rec)
    BY <1>3 DEF RefreshRead
  <2>2. rec \in Call /\ rec.pc = "refused" /\ rec.kind = slot[s].kind /\ rec.tok = slot[s].tok /\ rec.new = slot[s].new
    BY <1>1 DEF Call, PCs
  <2> HIDE DEF rec
  <2>3. CallOK(rec)
    BY <1>1, <2>2 DEF CallOK, Refers, Session, Writes
  <2> QED
    BY <2>1, <2>2, <2>3, QuietKeeps DEF RefreshRead
<1> QED
  BY <1>2, <1>3

(* The default organization is one that the user belongs to now, so not    *)
(* one that it was outside of during the call.                             *)
LEMMA ReadOrgsKeeps == ASSUME TeamInv, NEW s \in Slots, ReadOrgs(s) PROVE TeamInv'
<1> DEFINE c == slot[s]
<1>1. c \in Call /\ CallOK(c) /\ Typed /\ c.pc = "orgs"
  BY TheCall DEF ReadOrgs
<1>2. ASSUME NEW i \in UserOrganizations(c.user), Put(s, [c EXCEPT !.pc = "getMember", !.org = created[i]])
      PROVE  TeamInv'
  <2> DEFINE o == created[i]
             rec == [c EXCEPT !.pc = "getMember", !.org = o]
  <2>1. o \in Orgs /\ Belongs(o, c.user)
    BY <1>1 DEF UserOrganizations, Typed
  <2>2. o \notin c.outside
    BY <1>1, <2>1 DEF CallOK, Session
  <2>3. /\ rec \in Call /\ rec.pc = "getMember" /\ rec.kind = c.kind /\ rec.tok = c.tok /\ rec.new = c.new
        /\ rec.user = c.user /\ rec.root = c.root /\ rec.seen = c.seen /\ rec.outside = c.outside /\ rec.org = o
    BY <1>1, <2>1 DEF Call, PCs
  <2> HIDE DEF rec, c, o
  <2>4. CallOK(rec)
    BY <1>1, <2>1, <2>2, <2>3 DEF CallOK, Refers, Session, Writes
  <2> QED
    BY <1>2, <2>3, <2>4, QuietKeeps DEF ReadOrgs, rec, o
<1>3. ASSUME Put(s, [Idle EXCEPT !.pc = "unauthorized", !.kind = "api"]) PROVE TeamInv'
  <2> DEFINE rec == [Idle EXCEPT !.pc = "unauthorized", !.kind = "api"]
  <2>1. rec \in Call /\ rec.pc = "unauthorized" /\ rec.kind = "api" /\ rec.new = 0
    BY IdleIsCall DEF Call, PCs, Kinds
  <2> HIDE DEF rec
  <2>2. CallOK(rec)
    BY <1>1, <2>1 DEF CallOK, Refers, Session, Writes, Typed
  <2> QED
    BY <1>3, <2>1, <2>2, QuietKeeps DEF ReadOrgs, rec
<1>4. ASSUME Put(s, [c EXCEPT !.pc = "refused"]) PROVE TeamInv'
  <2> DEFINE rec == [c EXCEPT !.pc = "refused"]
  <2>1. rec \in Call /\ rec.pc = "refused" /\ rec.kind = c.kind /\ rec.tok = c.tok /\ rec.new = c.new
    BY <1>1 DEF Call, PCs
  <2> HIDE DEF rec, c
  <2>2. CallOK(rec)
    BY <1>1, <2>1 DEF CallOK, Refers, Session, Writes
  <2> QED
    BY <1>4, <2>1, <2>2, QuietKeeps DEF ReadOrgs, rec
<1> QED
  BY <1>2, <1>3, <1>4 DEF ReadOrgs

LEMMA ReadMemberKeeps == ASSUME TeamInv, NEW s \in Slots, ReadMember(s) PROVE TeamInv'
<1> DEFINE c == slot[s]
           m == member[c.org][c.user]
           role == IF m = NoRow THEN "member" ELSE m.role
           rec == [c EXCEPT !.pc = "issue", !.role = role]
<1>1. c \in Call /\ CallOK(c) /\ Typed /\ Rows /\ c.pc = "getMember" /\ Put(s, rec)
  BY TheCall DEF ReadMember, TeamInv
<1>2. c.org \in Orgs /\ c.user \in Users
  BY <1>1 DEF CallOK, Session
<1>3. m \in [role : Roles \cup {"none"}, joined : BOOLEAN] /\ (m.role = "none" => m = NoRow)
  BY <1>1, <1>2 DEF Typed, Rows
<1>4. role \in Roles
  BY <1>3 DEF Roles
<1> HIDE DEF role
<1>5. /\ rec \in Call /\ rec.pc = "issue" /\ rec.kind = c.kind /\ rec.tok = c.tok /\ rec.new = c.new /\ rec.org = c.org
      /\ rec.user = c.user /\ rec.root = c.root /\ rec.seen = c.seen /\ rec.outside = c.outside /\ rec.role = role
  BY <1>1, <1>4 DEF Call, PCs
<1> HIDE DEF rec, c
<1>6. CallOK(rec)
  BY <1>1, <1>4, <1>5 DEF CallOK, Refers, Session, Writes
<1> QED
  BY <1>1, <1>5, <1>6, QuietKeeps DEF ReadMember

(* A switch is as old as the token that it is asked with.                  *)
LEMMA SwitchOrgKeeps == ASSUME TeamInv, NEW s \in Slots, SwitchOrg(s) PROVE TeamInv'
<1> DEFINE p == issued[browser.access]
           u == p.user
           seen == IF p.bridged THEN 0 ELSE p.root
<1>1. PICK o \in Orgs :
        /\ Belongs(o, u)
        /\ Put(s, [Idle EXCEPT !.pc = "issue", !.kind = "switch", !.user = u, !.org = o,
                               !.role = member[o][u].role, !.root = p.root,
                               !.seen = seen, !.outside = OutsideOf(u)])
  BY DEF SwitchOrg
<1> DEFINE rec == [Idle EXCEPT !.pc = "issue", !.kind = "switch", !.user = u, !.org = o,
                               !.role = member[o][u].role, !.root = p.root,
                               !.seen = seen, !.outside = OutsideOf(u)]
<1>2. Typed /\ Rows /\ p \in Token /\ TokenOK(p)
  BY TheCall DEF SwitchOrg, ValidAccess, TeamInv, Tokens, Typed
<1>3. u \in Users /\ p.root \in Nat /\ cleared[u] \in Nat /\ OutsideOf(u) \in SUBSET Orgs
  BY <1>2 DEF Token, Typed, OutsideOf
<1>4. member[o][u].role \in Roles
  <2>1. PICK row \in [role : Roles \cup {"none"}, joined : BOOLEAN] : row = member[o][u]
    BY <1>2, <1>3 DEF Typed
  <2>2. row.joined /\ (row.role = "none" => row = NoRow)
    BY <1>1, <1>2, <1>3, <2>1 DEF Rows, Belongs
  <2>3. ~NoRow.joined
    BY DEF NoRow
  <2> QED
    BY <2>1, <2>2, <2>3
<1>5. o \notin OutsideOf(u)
  BY <1>1 DEF OutsideOf
<1>6. seen \in Nat /\ (seen <= cleared[u] \/ seen <= p.root) /\ Registered(u)
  BY <1>2, <1>3 DEF TokenOK
<1>7. p.root < cleared[u] => seen < cleared[u]
  BY <1>3
<1>8. Put(s, rec)
  BY <1>1
<1> HIDE DEF seen, u
<1>9. /\ rec \in Call /\ rec.pc = "issue" /\ rec.kind = "switch" /\ rec.user = u /\ rec.org = o /\ rec.new = 0
      /\ rec.role = member[o][u].role /\ rec.root = p.root /\ rec.seen = seen /\ rec.outside = OutsideOf(u)
  BY <1>3, <1>4, <1>6, IdleIsCall DEF Call, PCs, Kinds
<1> HIDE DEF rec
<1>10. CallOK(rec)
  BY <1>2, <1>3, <1>4, <1>5, <1>6, <1>7, <1>9 DEF CallOK, Refers, Session, Writes, Typed
<1> QED
  BY <1>8, <1>9, <1>10, QuietKeeps DEF SwitchOrg

LEMMA EndKeeps ==
  ASSUME TeamInv, NEW s \in Slots, End(s), UNCHANGED <<dirVars, issued, links, expired, cleared, lost>>,
         browser' \in Stored, Browser', incidents' = incidents
  PROVE  TeamInv'
  BY IdleIsCall, TheCall, PutKeeps DEF End, Typed

LEMMA ResetPasswordKeeps == ASSUME TeamInv, NEW s \in Slots, ResetPassword(s) PROVE TeamInv'
<1>1. PICK l \in DOMAIN links : Put(s, [Idle EXCEPT !.pc = "password", !.user = links[l].user, !.tok = l])
  BY DEF ResetPassword
<1> DEFINE rec == [Idle EXCEPT !.pc = "password", !.user = links[l].user, !.tok = l]
<1>2. Typed /\ links[l].user \in Users /\ l \in Nat
  <2>1. Typed /\ links \in Seq(Link)
    BY TheCall DEF Typed
  <2>2. links[l] \in Link /\ l \in Nat
    BY <2>1
  <2> QED
    BY <2>1, <2>2 DEF Link
<1>3. rec \in Call /\ rec.pc = "password" /\ rec.kind = "none" /\ rec.user = links[l].user /\ rec.new = 0
  BY <1>2, IdleIsCall DEF Call, PCs
<1>4. Put(s, rec)
  BY <1>1
<1> HIDE DEF rec
<1>5. CallOK(rec)
  BY <1>2, <1>3 DEF CallOK, Refers, Session, Writes, Typed
<1> QED
  BY <1>3, <1>4, <1>5, QuietKeeps DEF ResetPassword

LEMMA HandlerFailsKeeps == ASSUME TeamInv, NEW s \in Slots, HandlerFails(s) PROVE TeamInv'
<1> DEFINE rec == [slot[s] EXCEPT !.pc = "refused"]
<1>1. slot[s] \in Call /\ CallOK(slot[s])
  BY TheCall
<1>2. rec \in Call /\ rec.pc = "refused" /\ rec.kind = slot[s].kind /\ rec.tok = slot[s].tok /\ rec.new = slot[s].new
  BY <1>1 DEF Call, PCs
<1>3. Put(s, rec) \/ Put(s, Idle)
  BY DEF HandlerFails
<1> HIDE DEF rec
<1>4. CallOK(rec)
  BY <1>1, <1>2 DEF CallOK, Refers, Session, Writes
<1> QED
  BY <1>2, <1>3, <1>4, IdleIsCall, QuietKeeps DEF HandlerFails

LEMMA InviteKeeps == ASSUME TeamInv, NEW s \in Slots, Invite(s) PROVE TeamInv'
<1>1. PICK i \in DOMAIN issued, u \in Visitors, r \in Roles \ {"owner"} :
        Put(s, [Idle EXCEPT !.pc = "invite", !.user = u, !.org = issued[i].org, !.role = r])
  BY DEF Invite
<1> DEFINE o == issued[i].org
           rec == [Idle EXCEPT !.pc = "invite", !.user = u, !.org = o, !.role = r]
<1>2. Typed /\ o \in Orgs /\ u \in Users /\ r \in Roles
  <2>1. Typed /\ issued \in Seq(Token)
    BY TheCall DEF Typed
  <2>2. issued[i] \in Token
    BY <2>1
  <2> QED
    BY <2>1, <2>2 DEF Token, Visitors
<1>3. /\ rec \in Call /\ rec.pc = "invite" /\ rec.kind = "none" /\ rec.new = 0
      /\ rec.user = u /\ rec.org = o /\ rec.role = r
  BY <1>2, IdleIsCall DEF Call, PCs
<1>4. Put(s, rec)
  BY <1>1
<1> HIDE DEF rec, o
<1>5. CallOK(rec)
  BY <1>2, <1>3 DEF CallOK, Refers, Session, Writes, Typed
<1> QED
  BY <1>3, <1>4, <1>5, QuietKeeps DEF Invite

LEMMA AnswerInvitationKeeps == ASSUME TeamInv, NEW s \in Slots, AnswerInvitation(s) PROVE TeamInv'
<1>1. PICK i \in DOMAIN issued, o \in Orgs, a \in {"accept", "decline"} :
        Put(s, [Idle EXCEPT !.pc = a, !.user = issued[i].user, !.org = o])
  BY DEF AnswerInvitation
<1> DEFINE u == issued[i].user
           rec == [Idle EXCEPT !.pc = a, !.user = u, !.org = o]
<1>2. Typed /\ u \in Users
  <2>1. Typed /\ issued \in Seq(Token)
    BY TheCall DEF Typed
  <2>2. issued[i] \in Token
    BY <2>1
  <2> QED
    BY <2>1, <2>2 DEF Token
<1>3. rec \in Call /\ rec.pc = a /\ rec.kind = "none" /\ rec.new = 0 /\ rec.user = u /\ rec.org = o
  BY <1>2, IdleIsCall DEF Call, PCs
<1>4. Put(s, rec)
  BY <1>1
<1> HIDE DEF rec, u
<1>5. CallOK(rec)
  BY <1>2, <1>3 DEF CallOK, Refers, Session, Writes, Typed
<1> QED
  BY <1>3, <1>4, <1>5, QuietKeeps DEF AnswerInvitation

---------------------------------------------------------------------------
(* What the browser stores are tokens that were issued. *)
LEMMA BrowserKeeps ==
  ASSUME TeamInv, NEW s \in Slots,
         CredentialsStored(s) \/ Refreshed(s) \/ Refused(s) \/ LoggedOut(s) \/ Unheard(s)
  PROVE  TeamInv'
<1>1. slot[s] \in Call /\ CallOK(slot[s]) /\ Typed /\ Browser
  BY TheCall DEF TeamInv
<1>2. slot[s].new \in Pairs /\ slot[s].new <= Len(issued) /\ slot[s].org \in Orgs \cup {NoOrg}
  BY <1>1 DEF Call, CallOK, Refers
<1>3. CASE CredentialsStored(s)
  <2>1. browser' \in Stored /\ Browser'
    BY <1>2, <1>3 DEF CredentialsStored, Stored, Browser
  <2> QED
    BY <1>3, <2>1, EndKeeps DEF CredentialsStored
<1>4. CASE Refreshed(s)
  <2>1. browser \in Stored
    BY <1>1 DEF Typed
  <2>2. browser' \in Stored /\ Browser'
    BY <1>1, <1>2, <1>4, <2>1 DEF Refreshed, Stored, Browser
  <2> QED
    BY <1>4, <2>2, EndKeeps DEF Refreshed
<1>5. Empty \in Stored /\ Empty.access = 0 /\ Empty.refresh = 0
  BY SessionsAssumption DEF Empty, Stored, Pairs
<1>6. Len(issued) \in Nat
  BY <1>1 DEF Typed
<1>7. CASE Refused(s) \/ LoggedOut(s)
  <2>1. browser' = Empty /\ issued' = issued
    BY <1>7 DEF Refused, LoggedOut
  <2>2. browser' \in Stored /\ Browser'
    BY <2>1, <1>5, <1>6 DEF Browser
  <2> QED
    BY <1>7, <2>2, EndKeeps DEF Refused, LoggedOut
<1>8. CASE Unheard(s)
  <2>1. browser' \in Stored /\ Browser'
    BY <1>1, <1>8 DEF Unheard, Typed, Browser
  <2> QED
    BY <1>8, <2>1, EndKeeps DEF Unheard
<1> QED
  BY <1>3, <1>4, <1>7, <1>8

(* A log-out posts what is left in localStorage, which is nothing. *)
LEMMA LogOutRevokesNothing == ASSUME TypeOK, NEW s \in Slots, LogOut(s) PROVE issued' = issued
<1>1. issued \in Seq(Token)
  BY Types DEF Typed
<1>2. browser'.refresh = 0
  BY DEF LogOut, Empty
<1>3. \A i \in DOMAIN issued : i # 0
  BY <1>1
<1>4. issued' = [i \in DOMAIN issued |-> issued[i]]
  BY <1>2, <1>3 DEF LogOut
<1> QED
  BY <1>1, <1>4

LEMMA LogOutKeeps == ASSUME TeamInv, NEW s \in Slots, LogOut(s) PROVE TeamInv'
<1> DEFINE rec == [Idle EXCEPT !.pc = "logout", !.kind = "api"]
<1>1. rec \in Call /\ rec.pc = "logout" /\ rec.kind = "api" /\ rec.new = 0
  BY IdleIsCall DEF Call, PCs, Kinds
<1>2. Put(s, rec) /\ browser' = Empty
  BY DEF LogOut
<1>3. Typed
  BY TheCall
<1>4. issued' = issued
  BY LogOutRevokesNothing DEF TeamInv
<1> HIDE DEF rec
<1>5. CallOK(rec)
  BY <1>1, <1>3 DEF CallOK, Refers, Session, Writes, Typed
<1>6. browser' \in Stored /\ Browser'
  BY <1>2, <1>3, <1>4, SessionsAssumption DEF Empty, Stored, Pairs, Browser, Typed
<1>7. incidents' \in 0 .. MaxIncidents /\ lost' \subseteq Pairs
  BY <1>3, SessionsAssumption DEF LogOut, Incident, Typed
<1> QED
  BY <1>1, <1>2, <1>4, <1>5, <1>6, <1>7, PutKeeps DEF LogOut

---------------------------------------------------------------------------
LEMMA StillCalls ==
  ASSUME TeamInv, TypeOK', Grows, slot' = slot, \A x \in Slots : ~Joins(slot[x])
  PROVE  Calls'
<1> SUFFICES ASSUME NEW x \in Slots PROVE CallOK(slot[x])'
  BY DEF Calls
<1>1. PICK c \in Call : c = slot[x] /\ CallOK(c)
  BY TheCall
<1>2. CallOK(c)'
  BY <1>1, CallsStay DEF TeamInv
<1> QED
  BY <1>1, <1>2

(* A token stays what it is, or is revoked; a reset revokes the old ones.  *)
LEMMA TokensStay ==
  ASSUME TeamInv, TypeOK', Grows,
         \A i \in DOMAIN issued' :
           /\ i \in DOMAIN issued
           /\ issued'[i].user = issued[i].user /\ issued'[i].org = issued[i].org
           /\ issued'[i].outside = issued[i].outside /\ issued'[i].root = issued[i].root
           /\ issued'[i].bridged = issued[i].bridged
           /\ ~issued'[i].revoked => ~issued[i].revoked /\ cleared'[issued[i].user] = cleared[issued[i].user]
  PROVE  Tokens'
<1> SUFFICES ASSUME NEW i \in DOMAIN issued' PROVE TokenOK(issued[i])'
  BY DEF Tokens
<1>1. Typed /\ Typed' /\ i \in DOMAIN issued /\ TokenOK(issued[i])
  BY Types DEF TeamInv, Tokens
<1>2. issued[i] \in Token
  BY <1>1 DEF Typed
<1>3. issued[i].user \in Users
  BY <1>2 DEF Token
<1>4. Registered(issued[i].user)'
  BY <1>1, <1>3 DEF TokenOK, Registered, Grows, Typed
<1> QED
  BY <1>1, <1>4 DEF TokenOK

LEMMA ClockKeeps == ASSUME TeamInv, AccessTokenExpires \/ ForgotPassword PROVE TeamInv'
<1>1. Typed
  BY Types DEF TeamInv
<1>2. UNCHANGED <<password, created, closed, member, issued, browser, slot, cleared, lost>>
  BY DEF AccessTokenExpires, ForgotPassword, dirVars
<1>3. CASE AccessTokenExpires
  <2>1. expired' \in Pairs
    BY <1>1, <1>3, SessionsAssumption DEF AccessTokenExpires, Typed, Pairs
  <2>2. links' = links /\ incidents' = incidents
    BY <1>3 DEF AccessTokenExpires
  <2> QED
    BY <1>1, <1>2, <2>1, <2>2, Types DEF Typed, TeamInv, Rows, Calls, CallOK, Refers, Session, Writes, Registered,
       Belongs, Tokens, TokenOK, Browser
<1>4. CASE ForgotPassword
  <2>1. PICK u \in Visitors : links' = Append(links, [user |-> u, used |-> FALSE])
    BY <1>4 DEF ForgotPassword
  <2>2. [user |-> u, used |-> FALSE] \in Link
    BY DEF Link, Visitors
  <2>3. links' \in Seq(Link)
    BY <1>1, <2>1, <2>2 DEF Typed
  <2>4. incidents' \in 0 .. MaxIncidents /\ expired' = expired
    BY <1>1, <1>4, SessionsAssumption DEF ForgotPassword, Incident, Typed
  <2> QED
    BY <1>1, <1>2, <2>3, <2>4, Types DEF Typed, TeamInv, Rows, Calls, CallOK, Refers, Session, Writes, Registered,
       Belongs, Tokens, TokenOK, Browser
<1> QED
  BY <1>3, <1>4

(* After a page load nobody waits for an answer, but the handlers go on. *)
LEMMA AbandonKeeps == ASSUME NEW c \in Call, CallOK(c) PROVE Abandon(c) \in Call /\ CallOK(Abandon(c))
<1> DEFINE rec == [c EXCEPT !.kind = "gone"]
<1>1. CASE c.pc \in {"read", "revoke", "orgs", "getMember", "issue"}
  <2>1. /\ rec \in Call /\ rec.pc = c.pc /\ rec.kind = "gone" /\ rec.tok = c.tok /\ rec.new = c.new /\ rec.org = c.org
        /\ rec.user = c.user /\ rec.root = c.root /\ rec.seen = c.seen /\ rec.outside = c.outside /\ rec.role = c.role
    BY DEF Call, Kinds
  <2>2. Abandon(c) = rec
    BY <1>1 DEF Abandon
  <2> HIDE DEF rec
  <2>3. CallOK(rec)
    BY <2>1 DEF CallOK, Refers, Session, Writes
  <2> QED
    BY <2>1, <2>2, <2>3
<1>2. CASE c.pc \in {"unauthorized", "answered", "refused", "logout"}
  BY <1>2, IdleIsCall DEF Abandon
<1>3. CASE c.pc \notin {"read", "revoke", "orgs", "getMember", "issue", "unauthorized", "answered", "refused", "logout"}
  BY <1>3 DEF Abandon
<1> QED
  BY <1>1, <1>2, <1>3

LEMMA ReloadKeeps == ASSUME TeamInv, Reload PROVE TeamInv'
<1>1. Typed /\ Rows /\ Browser /\ Tokens
  BY Types DEF TeamInv
<1>2. UNCHANGED <<password, created, closed, member, issued, links, expired, cleared>>
  BY DEF Reload, dirVars
<1>3. ASSUME NEW x \in Slots
      PROVE  slot'[x] \in Call /\ CallOK(slot'[x])
  <2>1. slot[x] \in Call /\ CallOK(slot[x]) /\ slot'[x] = Abandon(slot[x])
    BY TheCall DEF Reload
  <2> QED
    BY <2>1, AbandonKeeps
<1>4. slot' \in [Slots -> Call]
  <2>1. slot' = [x \in Slots |-> Abandon(slot[x])]
    BY DEF Reload
  <2>2. \A x \in Slots : Abandon(slot[x]) \in Call
    BY TheCall, AbandonKeeps
  <2> QED
    BY <2>1, <2>2
<1>5. browser' \in Stored /\ browser'.access = browser.access /\ browser'.refresh = browser.refresh
  <2>1. browser \in Stored /\ browser' = [browser EXCEPT !.org = NoOrg, !.authed = (browser.access # 0)]
    BY <1>1 DEF Reload, Typed
  <2> QED
    BY <2>1 DEF Stored
<1>6. lost' \subseteq Pairs
  <2>1. ASSUME NEW x \in Slots, slot[x].kind = "refresh" PROVE slot[x].tok \in Pairs
    <3>1. slot[x].tok \in DOMAIN issued
      BY <2>1, TheCall DEF CallOK, Refers
    <3> QED
      BY <1>1, <3>1, SessionsAssumption DEF Typed, Pairs
  <2>2. lost \subseteq Pairs
    BY <1>1 DEF Typed
  <2> QED
    BY <2>1, <2>2 DEF Reload
<1>7. incidents' \in 0 .. MaxIncidents
  BY <1>1, SessionsAssumption DEF Reload, Incident, Typed
<1>8. TypeOK'
  BY <1>1, <1>2, <1>4, <1>5, <1>6, <1>7, Types DEF Typed
<1>9. Calls'
  BY <1>2, <1>3 DEF Calls, CallOK, Refers, Session, Writes, Registered, Belongs
<1> QED
  BY <1>1, <1>2, <1>5, <1>8, <1>9 DEF TeamInv, Rows, Tokens, TokenOK, Registered, Browser

---------------------------------------------------------------------------
(* A sign-up makes an organization that only its owner belongs to, and an  *)
(* owner that no call in flight and no token is about.                     *)
LEMMA SignUpKeeps == ASSUME TeamInv, NEW s \in Slots, SignUp(s) PROVE TeamInv'
<1>1. PICK u \in Visitors, o \in Orgs :
        /\ CreateAccount(u, o)
        /\ Put(s, [Idle EXCEPT !.pc = "issue", !.kind = "signUp", !.user = u, !.org = o,
                               !.role = "owner", !.root = 1, !.seen = cleared[u],
                               !.outside = OutsideOf(u) \ {o}])
  BY DEF SignUp
<1>2. Typed /\ Rows /\ Calls /\ Tokens /\ Browser /\ u \in Users /\ ~Registered(u)
  BY <1>1, Types DEF TeamInv, Visitors, CreateAccount
<1>3. password[u] = 0 /\ cleared[u] = 0
  BY <1>2 DEF Typed, Rows, Registered
<1>4. PICK out \in SUBSET Orgs : out = OutsideOf(u) \ {o}
  BY DEF OutsideOf
<1>5. PICK n \in Nat : n = cleared[u] /\ n = 0
  BY <1>3
<1> DEFINE r == [Idle EXCEPT !.pc = "issue", !.kind = "signUp", !.user = u, !.org = o,
                             !.role = "owner", !.root = 1, !.seen = n, !.outside = out]
<1>6. /\ r \in Call /\ r.pc = "issue" /\ r.kind = "signUp" /\ r.user = u /\ r.org = o /\ r.new = 0
        /\ r.role = "owner" /\ r.root = 1 /\ r.seen = n /\ r.outside = out
  BY <1>2, IdleIsCall DEF Call, PCs, Kinds, Roles
<1>7. PICK rec \in Call :
        /\ rec = r /\ rec.pc = "issue" /\ rec.kind = "signUp" /\ rec.user = u /\ rec.org = o /\ rec.new = 0
        /\ rec.role = "owner" /\ rec.root = 1 /\ rec.seen = 0 /\ rec.outside = out
  BY <1>5, <1>6, Zenon
<1>8. slot' = [slot EXCEPT ![s] = rec]
  BY <1>1, <1>4, <1>5, <1>7 DEF Put
<1>9. UNCHANGED <<closed, issued, links, expired, browser, cleared, lost, incidents>>
  BY <1>1 DEF SignUp, CreateAccount
<1>10. password' \in [Users -> Nat] /\ password'[u] = 1 /\ \A w \in Users : password[w] <= password'[w]
  BY <1>1, <1>2, <1>3 DEF CreateAccount, Typed
<1>11. created' \in Seq(Orgs)
  BY <1>1, <1>2 DEF CreateAccount, Typed
<1> DEFINE own == [role |-> "owner", joined |-> TRUE]
<1>12. own \in [role : Roles \cup {"none"}, joined : BOOLEAN] /\ own.role = "owner"
  BY DEF Roles
<1>13. /\ member' \in [Orgs -> [Users -> [role : Roles \cup {"none"}, joined : BOOLEAN]]]
       /\ \A p \in Orgs, w \in Users : member'[p][w] = IF p = o /\ w = u THEN own ELSE member[p][w]
  <2>1. member' = [member EXCEPT ![o][u] = own]
    BY <1>1 DEF CreateAccount
  <2> HIDE DEF own
  <2> QED
    BY <2>1, <1>2, <1>12 DEF Typed
<1>14. TypeOK'
  <2>1. slot' \in [Slots -> Call]
    BY <1>2, <1>7, <1>8 DEF Typed
  <2> QED
    BY <2>1, <1>2, <1>9, <1>10, <1>11, <1>13, Types DEF Typed
<1>15. Grows
  BY <1>2, <1>9, <1>10 DEF Grows, Typed
<1>16. Rows'
  <2>1. \A p \in Orgs, w \in Users : member'[p][w].role = "none" => member'[p][w] = NoRow
    BY <1>2, <1>12, <1>13 DEF Rows
  <2>2. \A w \in Users : cleared'[w] <= password'[w]
    BY <1>2, <1>9, <1>10 DEF Rows, Typed
  <2> QED
    BY <2>1, <2>2 DEF Rows
<1>17. \A x \in Slots \ {s} : slot[x].pc \in {"revoke", "orgs"} => ~Joins(slot[x])
  <2> SUFFICES ASSUME NEW x \in Slots \ {s}, slot[x].pc \in {"revoke", "orgs"}, NEW p \in slot[x].outside
               PROVE  Belongs(p, slot[x].user)' => Belongs(p, slot[x].user)
    BY DEF Joins
  <2>1. PICK c \in Call : c = slot[x] /\ CallOK(c)
    BY TheCall
  <2>2. c.user \in Users /\ c.user # u /\ p \in Orgs /\ c.pc # "idle"
    BY <2>1, <1>2 DEF CallOK, Session, Call
  <2>3. member'[p][c.user] = member[p][c.user] /\ slot'[x] = c
    BY <2>1, <2>2, <1>2, <1>8, <1>13 DEF Typed
  <2> QED
    BY <2>1, <2>3 DEF Belongs
<1>18. CallOK(rec)'
  <2>1. Registered(u)' /\ cleared'[u] = 0 /\ Len(issued') \in Nat
    BY <1>2, <1>3, <1>9, <1>10 DEF Registered, Typed
  <2> QED
    BY <2>1, <1>4, <1>2, <1>7 DEF CallOK, Refers, Session, Writes, Roles
<1>19. Calls'
  BY <1>7, <1>8, <1>14, <1>15, <1>17, <1>18, SlotsStay
<1>20. Tokens'
  BY <1>9, <1>14, <1>15, TokensStay
<1> QED
  BY <1>2, <1>9, <1>14, <1>16, <1>19, <1>20 DEF TeamInv, Browser

(* A token that is revoked is otherwise what it was. *)
LEMMA RevokedToken ==
  ASSUME NEW p \in Token
  PROVE  LET q == [p EXCEPT !.revoked = TRUE] IN
         /\ q \in Token /\ q.revoked /\ q.user = p.user /\ q.org = p.org /\ q.root = p.root
         /\ q.bridged = p.bridged /\ q.outside = p.outside
  BY DEF Token

LEMMA RefreshRevokeKeeps == ASSUME TeamInv, NEW s \in Slots, RefreshRevoke(s) PROVE TeamInv'
<1>1. PICK c \in Call : c = slot[s] /\ CallOK(c) /\ c.pc = "revoke"
  BY TheCall DEF RefreshRevoke
<1>2. PICK rec : rec = [c EXCEPT !.pc = "orgs"]
  OBVIOUS
<1>3. /\ rec \in Call /\ rec.pc = "orgs" /\ rec.kind = c.kind /\ rec.tok = c.tok /\ rec.new = c.new
      /\ rec.user = c.user /\ rec.root = c.root /\ rec.seen = c.seen /\ rec.outside = c.outside
  BY <1>1, <1>2 DEF Call, PCs
<1>4. slot' = [slot EXCEPT ![s] = rec]
  BY <1>1, <1>2 DEF RefreshRevoke, Put
<1>5. UNCHANGED <<password, created, closed, member, links, expired, browser, cleared, incidents>>
  BY DEF RefreshRevoke, dirVars
<1>6. Typed /\ Rows /\ Tokens /\ Browser /\ c.tok \in DOMAIN issued
  BY <1>1, Types DEF TeamInv, CallOK, Refers
<1> DEFINE p == issued[c.tok]
           q == [p EXCEPT !.revoked = TRUE]
<1>7. /\ issued' \in Seq(Token) /\ Len(issued') = Len(issued)
      /\ \A i \in DOMAIN issued' : i \in DOMAIN issued /\ issued[i] \in Token
                                 /\ issued'[i] = IF i = c.tok THEN q ELSE issued[i]
  <2>1. issued \in Seq(Token) /\ issued' = [issued EXCEPT ![c.tok] = q]
    BY <1>1, <1>6 DEF RefreshRevoke, Typed
  <2>2. p \in Token
    BY <1>6, <2>1
  <2>3. q \in Token
    BY <2>2, RevokedToken
  <2> HIDE DEF q
  <2> QED
    BY <1>6, <2>1, <2>3
<1>8. lost' \subseteq Pairs
  <2>1. c.tok \in Pairs
    BY <1>6, SessionsAssumption DEF Typed, Pairs
  <2> QED
    BY <1>1, <1>6, <2>1 DEF RefreshRevoke, Typed
<1>9. TypeOK'
  <2>1. slot' \in [Slots -> Call]
    BY <1>3, <1>4, <1>6 DEF Typed
  <2> QED
    BY <2>1, <1>5, <1>6, <1>7, <1>8, Types DEF Typed
<1>10. Grows
  BY <1>5, <1>6, <1>7 DEF Grows, Typed
<1>11. \A k : ~Joins(k)
  BY <1>5 DEF Joins, Belongs
<1>12. CallOK(rec)
  BY <1>1, <1>3 DEF CallOK, Refers, Session, Writes
<1>13. CallOK(rec)'
  BY <1>3, <1>6, <1>9, <1>10, <1>11, <1>12, CallsStay, Types
<1>14. Calls'
  BY <1>3, <1>4, <1>9, <1>10, <1>11, <1>13, SlotsStay
<1>15. Tokens'
  <2>1. q.revoked /\ q.user = p.user /\ q.org = p.org /\ q.root = p.root /\ q.bridged = p.bridged /\ q.outside = p.outside
    BY <1>6, <1>7, RevokedToken DEF Typed
  <2> HIDE DEF q
  <2> QED
    BY <1>5, <1>7, <1>9, <1>10, <2>1, TokensStay
<1> QED
  BY <1>5, <1>6, <1>7, <1>9, <1>14, <1>15 DEF TeamInv, Rows, Browser

(* The pair that is issued: a reset that has overtaken the call's password *)
(* has overtaken its check, which makes the pair a bridged one.            *)
LEMMA IssuedToken ==
  ASSUME TeamInv, NEW c \in Call, CallOK(c), c.pc = "issue"
  PROVE  LET p == Pair(c.user, c.org, c.role, c.root, c.seen < cleared[c.user], c.outside) IN
         p \in Token /\ TokenOK(p) /\ p.revoked = FALSE
<1>1. c.user \in Users /\ c.org \in Orgs /\ c.role \in Roles /\ c.root \in Nat /\ c.outside \in SUBSET Orgs
  BY DEF CallOK, Session, Call
<1>2. /\ Registered(c.user) /\ c.org \notin c.outside
      /\ c.root < cleared[c.user] => c.seen < cleared[c.user]
  BY DEF CallOK, Session
<1>3. PICK b \in BOOLEAN : b = (c.seen < cleared[c.user])
  <2>1. c.seen \in Nat /\ cleared[c.user] \in Nat
    BY <1>1, Types DEF TeamInv, Typed, Call
  <2>2. (c.seen < cleared[c.user]) \in BOOLEAN
    BY <2>1
  <2> QED
    BY <2>2, Zenon
<1> DEFINE p == Pair(c.user, c.org, c.role, c.root, b, c.outside)
<1>4. /\ p \in Token /\ p.user = c.user /\ p.org = c.org /\ p.outside = c.outside /\ p.root = c.root
      /\ p.bridged = b /\ p.revoked = FALSE
  BY <1>1 DEF Pair, Token
<1> HIDE DEF p
<1>5. TokenOK(p)
  BY <1>2, <1>3, <1>4 DEF TokenOK
<1> QED
  BY <1>3, <1>4, <1>5 DEF p

LEMMA IssueKeeps == ASSUME TeamInv, NEW s \in Slots, Issue(s) PROVE TeamInv'
<1>1. PICK c \in Call : c = slot[s] /\ CallOK(c) /\ c.pc = "issue"
  BY TheCall DEF Issue
<1>2. PICK p \in Token : p = Pair(c.user, c.org, c.role, c.root, c.seen < cleared[c.user], c.outside) /\ TokenOK(p)
  BY <1>1, IssuedToken
<1>3. Typed /\ Rows /\ Tokens /\ Browser /\ issued \in Seq(Token) /\ Len(issued) \in Nat /\ Len(issued) < MaxIssued
  BY Types DEF TeamInv, Typed, Issue
<1>4. issued' = Append(issued, p)
  BY <1>1, <1>2 DEF Issue
<1>5. issued' \in Seq(Token) /\ Len(issued') = Len(issued) + 1
  BY <1>3, <1>4
<1>6. ASSUME NEW i \in DOMAIN issued'
       PROVE  (i \in DOMAIN issued /\ issued'[i] = issued[i]) \/ (i = Len(issued) + 1 /\ issued'[i] = p)
  <2>1. i \in 1 .. Len(issued) \/ i = Len(issued) + 1
    BY <1>3, <1>5
  <2>2. CASE i \in 1 .. Len(issued)
    BY <1>3, <1>4, <2>2
  <2>3. CASE i = Len(issued) + 1
    BY <1>3, <1>4, <2>3
  <2> QED
    BY <2>1, <2>2, <2>3
<1>7. PICK n \in Pairs : n = Len(issued) + 1
  BY <1>3, SessionsAssumption DEF Pairs
<1> DEFINE r == [c EXCEPT !.pc = "answered", !.new = n]
<1>8. /\ r \in Call /\ r.pc = "answered" /\ r.kind = c.kind /\ r.tok = c.tok /\ r.new = n
  BY <1>1 DEF Call, PCs
<1>9. PICK rec \in Call : rec = r /\ rec.pc = "answered" /\ rec.kind = c.kind /\ rec.tok = c.tok /\ rec.new = n
  BY <1>8, Zenon
<1>10. slot' = [slot EXCEPT ![s] = rec]
  BY <1>1, <1>7, <1>9 DEF Issue, Put
<1>11. UNCHANGED <<password, created, closed, member, links, expired, browser, cleared, lost, incidents>>
  BY DEF Issue, dirVars
<1>12. TypeOK'
  <2>1. slot' \in [Slots -> Call]
    BY <1>3, <1>10 DEF Typed
  <2>2. Len(issued') <= MaxIssued
    BY <1>3, <1>5, SessionsAssumption
  <2> QED
    BY <2>1, <2>2, <1>3, <1>5, <1>11, Types DEF Typed
<1>13. Grows
  BY <1>3, <1>5, <1>11 DEF Grows, Typed
<1>14. \A k : ~Joins(k)
  BY <1>11 DEF Joins, Belongs
<1>15. CallOK(rec)'
  <2>1. c.kind = "refresh" => c.tok \in DOMAIN issued
    BY <1>1 DEF CallOK, Refers
  <2>2. DOMAIN issued \subseteq DOMAIN issued'
    BY <1>3, <1>5
  <2> QED
    BY <2>1, <2>2, <1>3, <1>5, <1>7, <1>9 DEF CallOK, Refers, Session, Writes
<1>16. Calls'
  BY <1>10, <1>12, <1>13, <1>14, <1>15, SlotsStay
<1>17. Tokens'
  <2>1. ASSUME NEW i \in DOMAIN issued' PROVE TokenOK(issued[i])'
    BY <1>2, <1>3, <1>11, <1>6 DEF Tokens, TokenOK, Registered
  <2> QED
    BY <2>1 DEF Tokens
<1> QED
  BY <1>3, <1>5, <1>11, <1>12, <1>16, <1>17 DEF TeamInv, Rows, Browser, Typed, Stored, Pairs

---------------------------------------------------------------------------
LEMMA WritePasswordKeeps == ASSUME TeamInv, NEW s \in Slots, WritePassword(s) PROVE TeamInv'
<1>1. PICK c \in Call : c = slot[s] /\ CallOK(c) /\ c.pc = "password" /\ c.user \in Users
  BY TheCall DEF WritePassword, CallOK, Writes
<1>2. Typed /\ Rows /\ Tokens /\ Browser
  BY Types DEF TeamInv
<1>3. UNCHANGED <<created, closed, member, issued, links, expired, browser, cleared, lost, incidents>>
  BY DEF WritePassword, UpdatePasswordHash
<1>4. PICK n \in Nat : n = password[c.user] + 1
  BY <1>1, <1>2 DEF Typed
<1>5. password' \in [Users -> Nat] /\ password'[c.user] = n /\ \A u \in Users : password[u] <= password'[u]
  BY <1>1, <1>2, <1>4 DEF WritePassword, UpdatePasswordHash, Typed
<1> DEFINE r == [c EXCEPT !.pc = "spend", !.root = n]
<1>6. r \in Call /\ r.pc = "spend" /\ r.kind = c.kind /\ r.tok = c.tok /\ r.new = c.new /\ r.user = c.user /\ r.root = n
  BY <1>1 DEF Call, PCs
<1>7. PICK rec \in Call : /\ rec = r /\ rec.pc = "spend" /\ rec.kind = c.kind /\ rec.tok = c.tok /\ rec.new = c.new
                          /\ rec.user = c.user /\ rec.root = n
  BY <1>6, Zenon
<1>8. slot' = [slot EXCEPT ![s] = rec]
  BY <1>1, <1>4, <1>7 DEF WritePassword, Put
<1>9. TypeOK'
  <2>1. slot' \in [Slots -> Call]
    BY <1>2, <1>8 DEF Typed
  <2> QED
    BY <2>1, <1>2, <1>3, <1>5, Types DEF Typed
<1>10. Grows
  BY <1>2, <1>3, <1>5 DEF Grows, Typed
<1>11. \A k : ~Joins(k)
  BY <1>3 DEF Joins, Belongs
<1>12. CallOK(rec)'
  <2>1. n > 0
    BY <1>1, <1>2, <1>4 DEF Typed
  <2> QED
    BY <2>1, <1>1, <1>3, <1>5, <1>7 DEF CallOK, Refers, Session, Writes
<1>13. Calls'
  BY <1>8, <1>9, <1>10, <1>11, <1>12, SlotsStay
<1>14. Tokens'
  BY <1>3, <1>9, <1>10, TokensStay
<1>15. Rows'
  BY <1>2, <1>3, <1>5 DEF Rows, Typed
<1> QED
  BY <1>2, <1>3, <1>9, <1>13, <1>14, <1>15 DEF TeamInv, Browser

LEMMA SpendLinkKeeps == ASSUME TeamInv, NEW s \in Slots, SpendLink(s) PROVE TeamInv'
<1>1. PICK c \in Call : c = slot[s] /\ CallOK(c) /\ c.pc = "spend"
  BY TheCall DEF SpendLink
<1>2. Typed /\ Rows /\ Tokens /\ Browser /\ links \in Seq(Link)
  BY Types DEF TeamInv, Typed
<1>3. UNCHANGED <<password, created, closed, member, issued, expired, browser, cleared, lost, incidents>>
  BY DEF SpendLink, dirVars
<1>4. links' \in Seq(Link)
  <2>1. links' = [links EXCEPT ![c.tok] = [links[c.tok] EXCEPT !.used = TRUE]]
    BY <1>1 DEF SpendLink
  <2>2. CASE c.tok \in DOMAIN links
    <3>1. links[c.tok] \in Link
      BY <1>2, <2>2
    <3>2. [links[c.tok] EXCEPT !.used = TRUE] \in Link
      BY <3>1 DEF Link
    <3> QED
      BY <1>2, <2>1, <2>2, <3>2
  <2>3. CASE c.tok \notin DOMAIN links
    <3>1. links' = [i \in DOMAIN links |-> links[i]]
      BY <2>1, <2>3
    <3> QED
      BY <1>2, <3>1
  <2> QED
    BY <2>2, <2>3
<1> DEFINE r == [c EXCEPT !.pc = "revokeAll"]
<1>5. r \in Call /\ r.pc = "revokeAll" /\ r.kind = c.kind /\ r.tok = c.tok /\ r.new = c.new /\ r.user = c.user /\ r.root = c.root
  BY <1>1 DEF Call, PCs
<1>6. PICK rec \in Call : /\ rec = r /\ rec.pc = "revokeAll" /\ rec.kind = c.kind /\ rec.tok = c.tok /\ rec.new = c.new
                          /\ rec.user = c.user /\ rec.root = c.root
  BY <1>5, Zenon
<1>7. slot' = [slot EXCEPT ![s] = rec]
  BY <1>1, <1>6 DEF SpendLink, Put
<1>8. TypeOK'
  <2>1. slot' \in [Slots -> Call]
    BY <1>2, <1>7 DEF Typed
  <2> QED
    BY <2>1, <1>2, <1>3, <1>4, Types DEF Typed
<1>9. Grows
  BY <1>2, <1>3 DEF Grows, Typed
<1>10. \A k : ~Joins(k)
  BY <1>3 DEF Joins, Belongs
<1>11. CallOK(rec)'
  BY <1>1, <1>3, <1>6 DEF CallOK, Refers, Session, Writes
<1>12. Calls'
  BY <1>7, <1>8, <1>9, <1>10, <1>11, SlotsStay
<1> QED
  BY <1>2, <1>3, <1>8, <1>12 DEF TeamInv, Rows, Tokens, TokenOK, Registered, Browser

(* A reset ends with every token of the user revoked.                      *)
LEMMA RevokeAllKeeps == ASSUME TeamInv, NEW s \in Slots, RevokeAll(s) PROVE TeamInv'
<1>1. PICK c \in Call : c = slot[s] /\ CallOK(c) /\ c.pc = "revokeAll" /\ c.user \in Users
  BY TheCall DEF RevokeAll, CallOK, Writes
<1>2. Typed /\ Rows /\ Tokens /\ Browser /\ issued \in Seq(Token)
  BY Types DEF TeamInv, Typed
<1>3. UNCHANGED <<password, created, closed, member, links, expired, browser, lost, incidents>>
  BY DEF RevokeAll, dirVars
<1>4. slot' = [slot EXCEPT ![s] = Idle]
  BY DEF RevokeAll, End, Put
<1>5. c.root \in Nat /\ cleared[c.user] \in Nat /\ c.root <= password[c.user] /\ cleared \in [Users -> Nat]
  BY <1>1, <1>2 DEF Call, CallOK, Writes, Typed
<1>6. PICK n \in Nat : n = (IF c.root > cleared[c.user] THEN c.root ELSE cleared[c.user])
  BY <1>5
<1>7. cleared' = [cleared EXCEPT ![c.user] = n]
  BY <1>1, <1>6 DEF RevokeAll
<1>8. /\ cleared' \in [Users -> Nat] /\ cleared[c.user] <= n /\ n <= password[c.user]
      /\ \A u \in Users : cleared'[u] = IF u = c.user THEN n ELSE cleared[u]
  BY <1>1, <1>2, <1>5, <1>6, <1>7 DEF Rows
<1>9. issued' = [i \in DOMAIN issued |-> IF issued[i].user = c.user THEN [issued[i] EXCEPT !.revoked = TRUE] ELSE issued[i]]
  BY <1>1 DEF RevokeAll
<1>10. /\ issued' \in Seq(Token) /\ Len(issued') = Len(issued)
       /\ \A i \in DOMAIN issued' : i \in DOMAIN issued /\ issued[i] \in Token
            /\ issued'[i] = IF issued[i].user = c.user THEN [issued[i] EXCEPT !.revoked = TRUE] ELSE issued[i]
  <2>1. \A i \in DOMAIN issued : issued[i] \in Token
    BY <1>2
  <2>2. \A i \in DOMAIN issued : [issued[i] EXCEPT !.revoked = TRUE] \in Token
    BY <2>1, RevokedToken
  <2>3. DOMAIN issued' = DOMAIN issued /\ DOMAIN issued = 1 .. Len(issued) /\ Len(issued) \in Nat
    BY <1>2, <1>9
  <2>4. \A i \in DOMAIN issued' : issued'[i] \in Token
    BY <1>9, <2>1, <2>2, <2>3
  <2>5. issued' \in [1 .. Len(issued) -> Token]
    BY <1>9, <2>3, <2>4
  <2>6. issued' \in Seq(Token) /\ Len(issued') = Len(issued)
    BY <2>3, <2>5
  <2> QED
    BY <1>9, <2>1, <2>3, <2>6
<1>11. TypeOK'
  <2>1. slot' \in [Slots -> Call]
    BY <1>2, <1>4, IdleIsCall DEF Typed
  <2> QED
    BY <2>1, <1>2, <1>3, <1>8, <1>10, Types DEF Typed
<1>12. Grows
  <2>1. Len(issued) \in Nat /\ password \in [Users -> Nat] /\ cleared \in [Users -> Nat]
    BY <1>2 DEF Typed
  <2>2. ASSUME NEW u \in Users PROVE cleared[u] <= cleared'[u]
    <3>1. CASE u = c.user
      BY <1>8, <3>1
    <3>2. CASE u # c.user
      <4>1. cleared'[u] = cleared[u] /\ cleared[u] \in Nat
        BY <1>8, <2>1, <3>2
      <4> QED
        BY <4>1
    <3> QED
      BY <3>1, <3>2
  <2> QED
    BY <1>3, <1>10, <2>1, <2>2 DEF Grows
<1>13. \A k : ~Joins(k)
  BY <1>3 DEF Joins, Belongs
<1>14. CallOK(Idle)'
  <2>1. PICK k \in Call : k = Idle /\ CallOK(k)
    BY IdleIsCall
  <2> QED
    BY <2>1, <1>2, <1>11, <1>12, <1>13, CallsStay, Types
<1>15. Calls'
  BY <1>4, <1>11, <1>12, <1>13, <1>14, IdleIsCall, SlotsStay
<1>16. Tokens'
  <2> SUFFICES ASSUME NEW i \in DOMAIN issued'
               PROVE  /\ i \in DOMAIN issued
                      /\ issued'[i].user = issued[i].user /\ issued'[i].org = issued[i].org
                      /\ issued'[i].outside = issued[i].outside /\ issued'[i].root = issued[i].root
                      /\ issued'[i].bridged = issued[i].bridged
                      /\ ~issued'[i].revoked => ~issued[i].revoked /\ cleared'[issued[i].user] = cleared[issued[i].user]
    BY <1>11, <1>12, TokensStay
  <2>1. PICK p \in Token : p = issued[i] /\ i \in DOMAIN issued
    BY <1>10
  <2>2. CASE p.user = c.user
    <3>1. PICK q : q = [p EXCEPT !.revoked = TRUE]
      OBVIOUS
    <3>2. /\ q.revoked /\ q.user = p.user /\ q.org = p.org /\ q.root = p.root
          /\ q.bridged = p.bridged /\ q.outside = p.outside
      BY <3>1, RevokedToken
    <3>3. issued'[i] = q
      BY <1>10, <2>1, <2>2, <3>1
    <3> QED
      BY <2>1, <3>2, <3>3
  <2>3. CASE p.user # c.user
    <3>1. p.user \in Users
      BY DEF Token
    <3> QED
      BY <1>8, <1>10, <2>1, <2>3, <3>1
  <2> QED
    BY <2>2, <2>3
<1>17. Rows'
  BY <1>2, <1>3, <1>8 DEF Rows
<1> QED
  BY <1>2, <1>3, <1>10, <1>11, <1>15, <1>16, <1>17 DEF TeamInv, Browser

---------------------------------------------------------------------------
Membership == [role : Roles \cup {"none"}, joined : BOOLEAN]

LEMMA MemberWrite ==
  ASSUME Typed, Rows, NEW o \in Orgs, NEW u \in Users, NEW m \in Membership, m.role = "none" => m = NoRow,
         member' = [member EXCEPT ![o][u] = m]
  PROVE  /\ member' \in [Orgs -> [Users -> Membership]]
         /\ \A p \in Orgs, w \in Users : member'[p][w] = IF p = o /\ w = u THEN m ELSE member[p][w]
         /\ \A p \in Orgs, w \in Users : member'[p][w].role = "none" => member'[p][w] = NoRow
<1>1. member \in [Orgs -> [Users -> Membership]]
  BY DEF Typed, Membership
<1>2. \A p \in Orgs, w \in Users : member'[p][w] = IF p = o /\ w = u THEN m ELSE member[p][w]
  BY <1>1
<1>3. member' \in [Orgs -> [Users -> Membership]]
  BY <1>1
<1> QED
  BY <1>2, <1>3 DEF Rows

LEMMA RoleWritten ==
  ASSUME NEW q \in Membership, NEW r \in Roles, NEW m, m = [q EXCEPT !.role = r]
  PROVE  m \in Membership /\ m.role # "none" /\ m.joined = q.joined
  BY DEF Membership, Roles

(* The statements of the administration change one row and no call.        *)
LEMMA AdministerKeeps == ASSUME TeamInv, UpdateRole \/ Remove \/ ScheduleOrgDeletion PROVE TeamInv'
<1>1. Typed /\ Rows /\ Tokens /\ Browser
  BY Types DEF TeamInv
<1>2. UNCHANGED <<password, created, issued, expired, links, browser, slot, cleared, lost>>
  BY DEF UpdateRole, Remove, ScheduleOrgDeletion, sessionVars
<1>3. incidents' \in 0 .. MaxIncidents
  BY <1>1, SessionsAssumption DEF Typed, Incident, UpdateRole, Remove, ScheduleOrgDeletion
<1>4. \A i \in DOMAIN issued : issued[i].org \in Orgs
  <2>1. issued \in Seq(Token)
    BY <1>1 DEF Typed
  <2>2. \A i \in DOMAIN issued : issued[i] \in Token
    BY <2>1
  <2> QED
    BY <2>2 DEF Token
<1>5. /\ member' \in [Orgs -> [Users -> Membership]] /\ closed' \subseteq Orgs
      /\ \A p \in Orgs, w \in Users : member'[p][w].role = "none" => member'[p][w] = NoRow
      /\ \A p \in Orgs, w \in Users : member'[p][w].joined => member[p][w].joined
  <2>1. CASE UpdateRole
    <3>1. PICK o \in Orgs, u \in Users, r \in Roles :
            member' = [member EXCEPT ![o][u] = IF @ = NoRow THEN @ ELSE [@ EXCEPT !.role = r]]
      BY <2>1, <1>4 DEF UpdateRole, UpdateMemberRole, Visitors
    <3>2. PICK q \in Membership : q = member[o][u] /\ (q.role = "none" => q = NoRow)
      BY <1>1 DEF Typed, Rows, Membership
    <3>3. PICK m \in Membership :
            /\ m = (IF q = NoRow THEN q ELSE [q EXCEPT !.role = r])
            /\ (m.role = "none" => m = NoRow) /\ m.joined = q.joined
      <4>1. CASE q = NoRow
        BY <4>1
      <4>2. CASE q # NoRow
        <5>1. PICK k : k = [q EXCEPT !.role = r]
          OBVIOUS
        <5>2. k \in Membership /\ k.role # "none" /\ k.joined = q.joined
          BY <5>1, RoleWritten
        <5> QED
          BY <4>2, <5>1, <5>2
      <4> QED
        BY <4>1, <4>2
    <3>4. member' = [member EXCEPT ![o][u] = m]
      BY <3>1, <3>2, <3>3
    <3>5. closed' = closed
      BY <2>1 DEF UpdateRole
    <3>6. /\ member' \in [Orgs -> [Users -> Membership]]
          /\ \A p \in Orgs, w \in Users : member'[p][w] = IF p = o /\ w = u THEN m ELSE member[p][w]
          /\ \A p \in Orgs, w \in Users : member'[p][w].role = "none" => member'[p][w] = NoRow
      <4>1. m.role = "none" => m = NoRow
        BY <3>3
      <4> QED
        BY <1>1, <3>4, <4>1, MemberWrite
    <3>7. closed' \subseteq Orgs
      BY <1>1, <3>5 DEF Typed
    <3>8. \A p \in Orgs, w \in Users : member'[p][w].joined => member[p][w].joined
      <4>1. m.joined => member[o][u].joined
        BY <3>2, <3>3
      <4> QED
        BY <3>6, <4>1
    <3> QED
      BY <3>6, <3>7, <3>8
  <2>2. CASE Remove
    <3>1. PICK o \in Orgs, u \in Users : member' = [member EXCEPT ![o][u] = NoRow]
      BY <2>2, <1>4 DEF Remove, RemoveMember, Visitors
    <3>2. NoRow \in Membership /\ ~NoRow.joined
      BY DEF NoRow, Membership
    <3>3. closed' = closed
      BY <2>2 DEF Remove
    <3>4. /\ member' \in [Orgs -> [Users -> Membership]]
          /\ \A p \in Orgs, w \in Users : member'[p][w] = IF p = o /\ w = u THEN NoRow ELSE member[p][w]
          /\ \A p \in Orgs, w \in Users : member'[p][w].role = "none" => member'[p][w] = NoRow
      BY <1>1, <3>1, <3>2, MemberWrite
    <3>5. closed' \subseteq Orgs
      BY <1>1, <3>3 DEF Typed
    <3>6. \A p \in Orgs, w \in Users : member'[p][w].joined => member[p][w].joined
      BY <3>2, <3>4
    <3> QED
      BY <3>4, <3>5, <3>6
  <2>3. CASE ScheduleOrgDeletion
    <3>1. member' = member /\ closed' \subseteq Orgs
      BY <2>3, <1>1, <1>4 DEF ScheduleOrgDeletion, SoftDelete, Typed
    <3> QED
      BY <1>1, <3>1 DEF Typed, Rows, Membership
  <2> QED
    BY <2>1, <2>2, <2>3
<1>6. TypeOK'
  BY <1>1, <1>2, <1>3, <1>5, Types DEF Typed, Membership
<1>7. Rows'
  BY <1>1, <1>2, <1>5 DEF Rows
<1>8. Grows
  BY <1>1, <1>2 DEF Grows, Typed
<1>9. Calls'
  <2> SUFFICES ASSUME NEW x \in Slots PROVE CallOK(slot[x])'
    BY DEF Calls
  <2>1. PICK c \in Call : c = slot[x] /\ CallOK(c)
    BY TheCall
  <2>2. c.pc \in {"revoke", "orgs"} => ~Joins(c)
    <3>1. c.pc \in {"revoke", "orgs"} => c.user \in Users /\ c.outside \subseteq Orgs
      BY <2>1 DEF CallOK, Session, Call
    <3> QED
      BY <1>5, <3>1 DEF Joins, Belongs
  <2>3. CallOK(c)'
    BY <1>1, <1>6, <1>8, <2>1, <2>2, CallsStay, Types
  <2> QED
    BY <1>2, <2>1, <2>3
<1> QED
  BY <1>1, <1>2, <1>6, <1>7, <1>9 DEF TeamInv, Tokens, TokenOK, Registered, Browser

(* What an invitation, its acceptance and its refusal write, given the row *)
(* that they find: a settled membership stays what it is, and nobody joins *)
(* but by accepting.                                                       *)
LEMMA InvitationWrites ==
  ASSUME TeamInv, NEW s \in Slots, WriteMembership(s)
  PROVE  /\ slot[s].org \in Orgs /\ slot[s].user \in Users /\ slot[s].pc \in {"invite", "accept", "decline"}
         /\ \E m \in Membership :
              /\ member' = [member EXCEPT ![slot[s].org][slot[s].user] = m]
              /\ m.role = "none" => m = NoRow
              /\ m.joined => member[slot[s].org][slot[s].user].joined \/ slot[s].pc = "accept"
              /\ member[slot[s].org][slot[s].user].joined => m = member[slot[s].org][slot[s].user]
<1>1. PICK c \in Call : c = slot[s] /\ CallOK(c)
  BY TheCall
<1>2. c.pc \in {"invite", "accept", "decline"} /\ c.user \in Users /\ c.org \in Orgs /\ (c.pc = "invite" => c.role \in Roles)
  BY <1>1 DEF WriteMembership, CallOK, Writes
<1>3. Typed /\ Rows
  BY Types DEF TeamInv
<1>4. PICK q \in Membership : q = member[c.org][c.user] /\ (q.role = "none" => q = NoRow)
  BY <1>2, <1>3 DEF Typed, Rows, Membership
<1>5. NoRow \in Membership /\ ~NoRow.joined
  BY DEF NoRow, Membership
<1> SUFFICES \E m \in Membership : /\ member' = [member EXCEPT ![c.org][c.user] = m]
                                   /\ m.role = "none" => m = NoRow
                                   /\ m.joined => q.joined \/ c.pc = "accept"
                                   /\ q.joined => m = q
  BY <1>1, <1>2, <1>4
<1>6. CASE c.pc = "invite"
  <2>1. PICK n \in Membership : n = [role |-> c.role, joined |-> FALSE] /\ n.role # "none" /\ ~n.joined
    <3>1. PICK n : n = [role |-> c.role, joined |-> FALSE]
      OBVIOUS
    <3>2. n \in Membership /\ n.role # "none" /\ ~n.joined
      BY <1>2, <1>6, <3>1 DEF Membership, Roles
    <3> QED
      BY <3>1, <3>2
  <2>2. AddMember(c.org, c.user, c.role)
    BY <1>1, <1>6 DEF WriteMembership
  <2>3. CASE q = NoRow
    <3>1. member' = [member EXCEPT ![c.org][c.user] = n]
      BY <1>4, <2>1, <2>2, <2>3 DEF AddMember
    <3> QED
      BY <1>5, <2>1, <2>3, <3>1
  <2>4. CASE q # NoRow
    <3>1. member' = [member EXCEPT ![c.org][c.user] = q]
      BY <1>4, <2>2, <2>4 DEF AddMember
    <3> QED
      BY <1>4, <3>1
  <2> QED
    BY <2>3, <2>4
<1>7. CASE c.pc = "accept"
  <2>1. AcceptRow(c.org, c.user)
    BY <1>1, <1>7 DEF WriteMembership
  <2>2. CASE q = NoRow
    <3>1. member' = [member EXCEPT ![c.org][c.user] = q]
      BY <1>4, <2>1, <2>2 DEF AcceptRow
    <3> QED
      BY <1>4, <3>1
  <2>3. CASE q # NoRow
    <3>1. PICK n : n = [q EXCEPT !.joined = TRUE]
      OBVIOUS
    <3>2. n \in Membership /\ n.role = q.role /\ (q.joined => n = q)
      BY <3>1 DEF Membership
    <3>3. member' = [member EXCEPT ![c.org][c.user] = n]
      BY <1>4, <2>1, <2>3, <3>1 DEF AcceptRow
    <3> QED
      BY <1>4, <1>7, <2>3, <3>2, <3>3
  <2> QED
    BY <2>2, <2>3
<1>8. CASE c.pc = "decline"
  <2>1. DeclineRow(c.org, c.user)
    BY <1>1, <1>8 DEF WriteMembership
  <2>2. CASE q.joined
    <3>1. member' = [member EXCEPT ![c.org][c.user] = q]
      BY <1>4, <2>1, <2>2 DEF DeclineRow
    <3> QED
      BY <1>4, <3>1
  <2>3. CASE ~q.joined
    <3>1. member' = [member EXCEPT ![c.org][c.user] = NoRow]
      BY <1>4, <2>1, <2>3 DEF DeclineRow
    <3> QED
      BY <1>5, <2>3, <3>1
  <2> QED
    BY <2>2, <2>3
<1> QED
  BY <1>2, <1>6, <1>7, <1>8

(* The user that accepts an invitation is in the organization from now on, *)
(* for every call in flight.                                               *)
LEMMA InsideKeeps ==
  ASSUME NEW c \in Call, CallOK(c), NEW k, NEW o, k = [c EXCEPT !.outside = @ \ {o}]
  PROVE  k \in Call /\ CallOK(k) /\ k.pc = c.pc /\ k.user = c.user /\ k.outside = c.outside \ {o}
<1>1. PICK out \in SUBSET Orgs : out = c.outside \ {o}
  BY DEF Call
<1>2. k = [c EXCEPT !.outside = out]
  BY <1>1
<1>3. /\ k \in Call /\ k.pc = c.pc /\ k.kind = c.kind /\ k.tok = c.tok /\ k.new = c.new /\ k.org = c.org
      /\ k.user = c.user /\ k.root = c.root /\ k.seen = c.seen /\ k.role = c.role /\ k.outside = out
  BY <1>2 DEF Call
<1>4. CallOK(k)
  BY <1>1, <1>3 DEF CallOK, Refers, Session, Writes
<1> QED
  BY <1>1, <1>3, <1>4

LEMMA WriteMembershipKeeps == ASSUME TeamInv, NEW s \in Slots, WriteMembership(s) PROVE TeamInv'
<1>1. PICK c \in Call : c = slot[s] /\ CallOK(c)
  BY TheCall
<1>2. PICK m \in Membership :
        /\ member' = [member EXCEPT ![c.org][c.user] = m]
        /\ m.role = "none" => m = NoRow
        /\ m.joined => member[c.org][c.user].joined \/ c.pc = "accept"
  BY <1>1, InvitationWrites
<1>3. Typed /\ Rows /\ Tokens /\ Browser /\ c.org \in Orgs /\ c.user \in Users
  BY <1>1, InvitationWrites, Types DEF TeamInv
<1>4. UNCHANGED <<password, created, closed, issued, links, expired, browser, cleared, lost, incidents>>
  BY DEF WriteMembership
<1>5. /\ member' \in [Orgs -> [Users -> Membership]]
      /\ \A p \in Orgs, w \in Users : member'[p][w] = IF p = c.org /\ w = c.user THEN m ELSE member[p][w]
      /\ \A p \in Orgs, w \in Users : member'[p][w].role = "none" => member'[p][w] = NoRow
  BY <1>2, <1>3, MemberWrite
<1>6. slot' = [x \in Slots |->
                 IF x = s THEN Idle
                 ELSE IF c.pc = "accept" /\ slot[x].user = c.user
                 THEN [slot[x] EXCEPT !.outside = @ \ {c.org}] ELSE slot[x]]
  BY <1>1 DEF WriteMembership
<1>7. ASSUME NEW x \in Slots
      PROVE  \E k \in Call : k = slot'[x] /\ CallOK(k) /\ (k.pc \in {"revoke", "orgs"} => ~Joins(k))
  <2>1. CASE x = s
    BY <1>6, <2>1, IdleIsCall
  <2>2. CASE x # s
    <3>1. PICK d \in Call : d = slot[x] /\ CallOK(d)
      BY TheCall
    <3>2. PICK k : k = IF c.pc = "accept" /\ d.user = c.user THEN [d EXCEPT !.outside = @ \ {c.org}] ELSE d
      OBVIOUS
    <3>3. slot'[x] = k
      BY <1>6, <2>2, <3>1, <3>2
    <3>4. /\ k \in Call /\ CallOK(k) /\ k.pc = d.pc /\ k.user = d.user
          /\ c.pc = "accept" /\ d.user = c.user => c.org \notin k.outside
      BY <3>1, <3>2, InsideKeeps
    <3>5. k.pc \in {"revoke", "orgs"} => k.user \in Users /\ k.outside \subseteq Orgs
      BY <3>4 DEF CallOK, Session, Call
    <3>6. k.pc \in {"revoke", "orgs"} => ~Joins(k)
      BY <1>2, <1>3, <1>5, <3>4, <3>5 DEF Joins, Belongs
    <3> QED
      BY <3>3, <3>4, <3>6
  <2> QED
    BY <2>1, <2>2
<1>8. TypeOK'
  <2>1. slot' \in [Slots -> Call]
    BY <1>6, <1>7
  <2> QED
    BY <2>1, <1>3, <1>4, <1>5, Types DEF Typed, Membership
<1>9. Grows
  BY <1>3, <1>4 DEF Grows, Typed
<1>10. Calls'
  <2> SUFFICES ASSUME NEW x \in Slots PROVE CallOK(slot[x])'
    BY DEF Calls
  <2>1. PICK k \in Call : k = slot'[x] /\ CallOK(k) /\ (k.pc \in {"revoke", "orgs"} => ~Joins(k))
    BY <1>7
  <2>2. CallOK(k)'
    BY <1>3, <1>8, <1>9, <2>1, CallsStay, Types
  <2> QED
    BY <2>1, <2>2
<1>11. Rows'
  BY <1>3, <1>4, <1>5 DEF Rows
<1> QED
  BY <1>3, <1>4, <1>8, <1>10, <1>11 DEF TeamInv, Tokens, TokenOK, Registered, Browser

---------------------------------------------------------------------------
LEMMA NextInv == TeamInv /\ [Next]_vars => TeamInv'
<1> SUFFICES ASSUME TeamInv, [Next]_vars PROVE TeamInv'
  OBVIOUS
<1>1. ASSUME NEW s \in Slots, SessionStep(s) PROVE TeamInv'
  BY <1>1, SignUpKeeps, LogInKeeps, CallApiKeeps, PostRefreshKeeps, RefreshReadKeeps, RefreshRevokeKeeps, ReadOrgsKeeps,
     ReadMemberKeeps, SwitchOrgKeeps, IssueKeeps, BrowserKeeps, LogOutKeeps, ResetPasswordKeeps, WritePasswordKeeps,
     SpendLinkKeeps, RevokeAllKeeps, HandlerFailsKeeps DEF SessionStep
<1>2. CASE SessionNext
  BY <1>1, <1>2, ClockKeeps, ReloadKeeps DEF SessionNext
<1>3. CASE TeamNext
  BY <1>3, AdministerKeeps, InviteKeeps, AnswerInvitationKeeps, WriteMembershipKeeps DEF TeamNext
<1>4. CASE UNCHANGED vars
  BY <1>4, Types DEF vars, dirVars, sessionVars, Typed, TeamInv, Rows, Calls, CallOK, Refers, Session, Writes, Registered,
     Belongs, Tokens, TokenOK, Browser
<1> QED
  BY <1>2, <1>3, <1>4 DEF Next

LEMMA SpecInv == Spec => []TeamInv
  BY InitInv, NextInv, PTL DEF Spec

(* Every row, token, link and call in flight has its type, for any number  *)
(* of users, organizations and calls.                                      *)
THEOREM TypeCorrect == Spec => []TypeOK
<1>1. TeamInv => TypeOK
  BY DEF TeamInv
<1> QED
  BY <1>1, SpecInv, PTL

(* resetPassword ends every session of the old password but those that a   *)
(* call in flight, or a token issued by one, carries over.                 *)
THEOREM SurvivorsCorrect == Spec => []SurvivorsOverlapped
<1>1. TeamInv => SurvivorsOverlapped
  BY DEF TeamInv, Tokens, TokenOK, SurvivorsOverlapped
<1> QED
  BY <1>1, SpecInv, PTL

(* _issueTokens names only organizations that the user was in at some time *)
(* of the call, however invitations and removals overlap with it.          *)
THEOREM TokensCorrect == Spec => []TokensFollowMembership
<1>1. TeamInv => TokensFollowMembership
  BY DEF TeamInv, Tokens, TokenOK, TokensFollowMembership
<1> QED
  BY <1>1, SpecInv, PTL

(* Whichever of the calls that race on an invitation writes, a row that is *)
(* joined stays what it is.                                                *)
LEMMA SettledStays ==
  ASSUME TeamInv, [Next]_vars, NEW s \in Slots, slot[s].pc \in {"invite", "accept", "decline"}, slot'[s] # slot[s],
         NEW o \in Orgs, NEW u \in Users, Belongs(o, u)
  PROVE  member'[o][u] = member[o][u]
<1>1. slot \in [Slots -> Call] /\ Typed
  BY Types DEF TeamInv, Typed
<1>2. ASSUME NEW x \in Slots, slot[x].pc \notin {"invite", "accept", "decline"}, NEW rec, Put(x, rec) PROVE FALSE
  <2>1. slot' = [slot EXCEPT ![x] = rec] /\ x # s
    BY <1>2 DEF Put
  <2>2. slot'[s] = slot[s]
    BY <1>1, <2>1
  <2> QED
    BY <2>2
<1>3. ASSUME NEW x \in Slots, WriteMembership(x) PROVE member'[o][u] = member[o][u]
  <2>1. PICK c \in Call : c = slot[x]
    BY <1>1
  <2>2. PICK m \in Membership :
          /\ member' = [member EXCEPT ![c.org][c.user] = m]
          /\ m.role = "none" => m = NoRow
          /\ member[c.org][c.user].joined => m = member[c.org][c.user]
    BY <1>3, <2>1, InvitationWrites
  <2>3. Typed /\ Rows /\ c.org \in Orgs /\ c.user \in Users
    BY <1>1, <1>3, <2>1, InvitationWrites DEF TeamInv
  <2>4. \A p \in Orgs, w \in Users : member'[p][w] = IF p = c.org /\ w = c.user THEN m ELSE member[p][w]
    BY <2>2, <2>3, MemberWrite
  <2> QED
    BY <2>2, <2>4 DEF Belongs
<1>4. ASSUME NEW x \in Slots, SignUp(x) PROVE FALSE
  BY <1>2, <1>4 DEF SignUp, Free
<1>5. CASE UNCHANGED member
  BY <1>5
<1>6. ASSUME slot' = slot PROVE FALSE
  BY <1>6
<1>7. ASSUME NEW x \in Slots, SessionStep(x), ~SignUp(x) PROVE UNCHANGED member
  BY <1>7 DEF SessionStep, LogIn, CallApi, PostRefresh, RefreshRead, RefreshRevoke, ReadOrgs, ReadMember, SwitchOrg, Issue,
     CredentialsStored, Refreshed, Refused, LogOut, LoggedOut, Unheard, ResetPassword, WritePassword, UpdatePasswordHash,
     SpendLink, RevokeAll, HandlerFails, dirVars
<1>8. CASE SessionNext
  BY <1>4, <1>5, <1>7, <1>8 DEF SessionNext, AccessTokenExpires, Reload, ForgotPassword, dirVars
<1>9. CASE TeamNext
  BY <1>3, <1>5, <1>6, <1>9 DEF TeamNext, UpdateRole, Remove, ScheduleOrgDeletion, Invite, AnswerInvitation, dirVars, sessionVars
<1>10. CASE UNCHANGED vars
  BY <1>6, <1>10 DEF vars, sessionVars
<1> QED
  BY <1>8, <1>9, <1>10 DEF Next

(* acceptInvitation, declineInvitation and addMember test a row that they  *)
(* do not lock, but none of them changes a membership that is settled.     *)
THEOREM JoinedCorrect == Spec => JoinedIsSettled
<1>1. TeamInv /\ [Next]_vars =>
        [\A o \in Orgs, u \in Users :
           Belongs(o, u) /\ (\E s \in Slots : slot[s].pc \in {"invite", "accept", "decline"} /\ slot'[s] # slot[s])
             => member'[o][u] = member[o][u]]_vars
  BY SettledStays
<1> QED
  BY <1>1, SpecInv, PTL DEF Spec, JoinedIsSettled

---------------------------------------------------------------------------
(* A step of a call that stores nothing and issues nothing: what it may do *)
(* to the call, and to the refresh token in localStorage.                  *)
Shape(s) ==
    /\ \A x \in Slots \ {s} : slot'[x] = slot[x]
    /\ slot'[s].pc # "answered"
    /\ slot'[s].pc \in {"read", "revoke"} =>
         \/ slot'[s].tok = browser.refresh
         \/ slot[s].pc \in {"read", "revoke"} /\ slot'[s].tok = slot[s].tok
    /\ \/ browser'.refresh = 0
       \/ /\ browser'.refresh = browser.refresh
          /\ slot[s].kind = "refresh" /\ slot[s].pc \in Late =>
                slot'[s].kind = "refresh" /\ slot'[s].pc \in Late /\ slot'[s].tok = slot[s].tok

LEMMA ShapeKeeps ==
  ASSUME TeamInv, BrowserInv, NEW s \in Slots, Shape(s), UNCHANGED <<issued, cleared, lost>>
  PROVE  BrowserInv'
<1>1. \A x \in Slots : slot[x].pc = "answered" => slot[x].new # 0
  BY DEF TeamInv, Calls, CallOK, Refers
<1>2. Fresh'
  <2> SUFFICES ASSUME NEW x \in Slots, slot'[x].pc = "answered"
               PROVE  /\ slot[x].new # browser'.refresh
                      /\ issued[slot[x].new].revoked => cleared[issued[slot[x].new].user] > 0
                      /\ \A y \in Slots : slot'[y].pc \in {"read", "revoke"} => slot'[y].tok # slot[x].new
                      /\ \A y \in Slots \ {x} : slot'[y].pc = "answered" => slot'[y].new # slot[x].new
                      /\ slot'[x] = slot[x]
    BY DEF Fresh
  <2>1. x # s /\ slot'[x] = slot[x] /\ slot[x].pc = "answered"
    BY DEF Shape
  <2>2. /\ slot[x].new # browser.refresh /\ slot[x].new # 0
        /\ issued[slot[x].new].revoked => cleared[issued[slot[x].new].user] > 0
        /\ \A y \in Slots : slot[y].pc \in {"read", "revoke"} => slot[y].tok # slot[x].new
        /\ \A y \in Slots \ {x} : slot[y].pc = "answered" => slot[y].new # slot[x].new
    BY <1>1, <2>1 DEF BrowserInv, Fresh
  <2>3. slot[x].new # browser'.refresh
    BY <2>2 DEF Shape
  <2>4. ASSUME NEW y \in Slots, slot'[y].pc \in {"read", "revoke"} PROVE slot'[y].tok # slot[x].new
    BY <2>2, <2>4 DEF Shape
  <2>5. ASSUME NEW y \in Slots \ {x}, slot'[y].pc = "answered" PROVE slot'[y].new # slot[x].new
    BY <2>2, <2>5 DEF Shape
  <2> QED
    BY <2>1, <2>2, <2>3, <2>4, <2>5
<1>3. Kept'
  <2>1. CASE browser'.refresh = 0
    BY <2>1 DEF Kept
  <2>2. CASE browser'.refresh # 0
    <3>1. PICK i : i = browser.refresh /\ i = browser'.refresh
      BY <2>2 DEF Shape
    <3>2. ASSUME Replacing(i) PROVE Replacing(i)'
      <4>1. PICK x \in Slots : slot[x].kind = "refresh" /\ slot[x].tok = i /\ slot[x].pc \in Late
        BY <3>2 DEF Replacing, Late
      <4>2. slot'[x].kind = "refresh" /\ slot'[x].tok = i /\ slot'[x].pc \in Late
        BY <2>2, <4>1 DEF Shape
      <4> QED
        BY <4>2 DEF Replacing, Late
    <3> QED
      BY <3>1, <3>2 DEF BrowserInv, Kept
  <2> QED
    BY <2>1, <2>2
<1> QED
  BY <1>2, <1>3 DEF BrowserInv

LEMMA PutIs ==
  ASSUME TypeOK, NEW s \in Slots, NEW rec, Put(s, rec)
  PROVE  slot'[s] = rec /\ \A x \in Slots \ {s} : slot'[x] = slot[x]
  BY Types DEF Typed, Put

(* A call that begins is not one that refreshes. *)
LEMMA BeginKeeps ==
  ASSUME TeamInv, BrowserInv, NEW s \in Slots,
         \/ SignUp(s) \/ LogIn(s) \/ CallApi(s) \/ SwitchOrg(s) \/ LogOut(s) \/ ResetPassword(s)
         \/ Invite(s) \/ AnswerInvitation(s)
  PROVE  BrowserInv'
<1>1. slot \in [Slots -> Call] /\ Idle \in Call /\ TypeOK
  BY IdleIsCall, Types DEF TeamInv, Typed
<1>2. slot[s].pc = "idle"
  BY DEF SignUp, LogIn, CallApi, SwitchOrg, LogOut, ResetPassword, Invite, AnswerInvitation, Free
<1>3. PICK rec : /\ Put(s, rec)
                 /\ rec.pc \in {"issue", "orgs", "unauthorized", "logout", "password", "invite", "accept", "decline"}
  <2>1. CASE SignUp(s)
    <3>1. PICK u, o, n, out :
            Put(s, [Idle EXCEPT !.pc = "issue", !.kind = "signUp", !.user = u, !.org = o,
                            !.role = "owner", !.root = 1, !.seen = n, !.outside = out])
      BY <2>1 DEF SignUp
    <3> DEFINE r == [Idle EXCEPT !.pc = "issue", !.kind = "signUp", !.user = u, !.org = o,
                            !.role = "owner", !.root = 1, !.seen = n, !.outside = out]
    <3>2. r.pc = "issue"
      BY <1>1 DEF Call
    <3>3. Put(s, r)
      BY <3>1
    <3> HIDE DEF r
    <3> QED
      BY <3>2, <3>3
  <2>2. CASE LogIn(s)
    <3>1. PICK u, n, m, out :
            Put(s, [Idle EXCEPT !.pc = "orgs", !.kind = "logIn", !.user = u,
                            !.root = n, !.seen = m, !.outside = out])
      BY <2>2 DEF LogIn
    <3> DEFINE r == [Idle EXCEPT !.pc = "orgs", !.kind = "logIn", !.user = u,
                            !.root = n, !.seen = m, !.outside = out]
    <3>2. r.pc = "orgs"
      BY <1>1 DEF Call
    <3>3. Put(s, r)
      BY <3>1
    <3> HIDE DEF r
    <3> QED
      BY <3>2, <3>3
  <2>3. CASE CallApi(s)
    <3> DEFINE r == [Idle EXCEPT !.pc = "unauthorized", !.kind = "api"]
    <3>2. r.pc = "unauthorized"
      BY <1>1 DEF Call
    <3>3. Put(s, r)
      BY <2>3 DEF CallApi
    <3> HIDE DEF r
    <3> QED
      BY <3>2, <3>3
  <2>4. CASE SwitchOrg(s)
    <3>1. PICK u, o, r0, n, m, out :
            Put(s, [Idle EXCEPT !.pc = "issue", !.kind = "switch", !.user = u, !.org = o, !.role = r0,
                            !.root = n, !.seen = m, !.outside = out])
      BY <2>4 DEF SwitchOrg
    <3> DEFINE r == [Idle EXCEPT !.pc = "issue", !.kind = "switch", !.user = u, !.org = o, !.role = r0,
                            !.root = n, !.seen = m, !.outside = out]
    <3>2. r.pc = "issue"
      BY <1>1 DEF Call
    <3>3. Put(s, r)
      BY <3>1
    <3> HIDE DEF r
    <3> QED
      BY <3>2, <3>3
  <2>5. CASE LogOut(s)
    <3> DEFINE r == [Idle EXCEPT !.pc = "logout", !.kind = "api"]
    <3>2. r.pc = "logout"
      BY <1>1 DEF Call
    <3>3. Put(s, r)
      BY <2>5 DEF LogOut
    <3> HIDE DEF r
    <3> QED
      BY <3>2, <3>3
  <2>6. CASE ResetPassword(s)
    <3>1. PICK u, l :
            Put(s, [Idle EXCEPT !.pc = "password", !.user = u, !.tok = l])
      BY <2>6 DEF ResetPassword
    <3> DEFINE r == [Idle EXCEPT !.pc = "password", !.user = u, !.tok = l]
    <3>2. r.pc = "password"
      BY <1>1 DEF Call
    <3>3. Put(s, r)
      BY <3>1
    <3> HIDE DEF r
    <3> QED
      BY <3>2, <3>3
  <2>7. CASE Invite(s)
    <3>1. PICK u, o, r0 :
            Put(s, [Idle EXCEPT !.pc = "invite", !.user = u, !.org = o, !.role = r0])
      BY <2>7 DEF Invite
    <3> DEFINE r == [Idle EXCEPT !.pc = "invite", !.user = u, !.org = o, !.role = r0]
    <3>2. r.pc = "invite"
      BY <1>1 DEF Call
    <3>3. Put(s, r)
      BY <3>1
    <3> HIDE DEF r
    <3> QED
      BY <3>2, <3>3
  <2>8. CASE AnswerInvitation(s)
    <3>1. PICK i \in DOMAIN issued, o \in Orgs, a \in {"accept", "decline"} :
            Put(s, [Idle EXCEPT !.pc = a, !.user = issued[i].user, !.org = o])
      BY <2>8 DEF AnswerInvitation
    <3> DEFINE r == [Idle EXCEPT !.pc = a, !.user = issued[i].user, !.org = o]
    <3>2. r.pc \in {"accept", "decline"}
      BY <1>1 DEF Call
    <3>3. Put(s, r)
      BY <3>1
    <3> HIDE DEF r
    <3> QED
      BY <3>2, <3>3
  <2> QED
    BY <2>1, <2>2, <2>3, <2>4, <2>5, <2>6, <2>7, <2>8
<1>4. slot'[s] = rec /\ \A x \in Slots \ {s} : slot'[x] = slot[x]
  BY <1>1, <1>3, PutIs
<1>5. (browser'.refresh = 0 \/ browser'.refresh = browser.refresh) /\ UNCHANGED <<issued, cleared, lost>>
  <2>1. CASE LogOut(s)
    BY <1>1, <2>1, LogOutRevokesNothing DEF LogOut, Empty
  <2>2. CASE ~LogOut(s)
    BY <2>2 DEF SignUp, LogIn, CallApi, SwitchOrg, ResetPassword, Invite, AnswerInvitation
  <2> QED
    BY <2>1, <2>2
<1>6. Shape(s)
  BY <1>2, <1>3, <1>4, <1>5 DEF Shape, Late
<1> QED
  BY <1>5, <1>6, ShapeKeeps

(* A call that goes on, fails or ends without an answer to store: one that *)
(* has spent its token goes on as one.                                     *)
LEMMA GoOnKeeps ==
  ASSUME TeamInv, BrowserInv, NEW s \in Slots,
         \/ PostRefresh(s) \/ RefreshRead(s) \/ ReadOrgs(s) \/ ReadMember(s) \/ HandlerFails(s)
         \/ WritePassword(s) \/ SpendLink(s) \/ Refused(s) \/ LoggedOut(s) \/ Unheard(s)
  PROVE  BrowserInv'
<1>1. slot \in [Slots -> Call] /\ Idle \in Call /\ Idle.pc = "idle" /\ TypeOK
  BY IdleIsCall, Types DEF TeamInv, Typed
<1>2. PICK c \in Call : c = slot[s]
  BY <1>1
<1>3. ASSUME NEW rec, Put(s, rec), rec.pc \notin {"answered", "read", "revoke"},
             browser'.refresh = 0 \/ browser' = browser,
             c.kind = "refresh" /\ c.pc \in Late /\ browser' = browser
               => rec.kind = "refresh" /\ rec.pc \in Late /\ rec.tok = c.tok
      PROVE  Shape(s)
  BY <1>1, <1>2, <1>3, PutIs DEF Shape
<1>4. CASE PostRefresh(s)
  <2>1. c.pc = "unauthorized" /\ browser' = browser
    BY <1>2, <1>4 DEF PostRefresh
  <2>2. ASSUME browser.refresh = 0 PROVE Shape(s)
    BY <1>1, <1>3, <1>4, <2>1, <2>2 DEF PostRefresh, End, Late
  <2>3. ASSUME browser.refresh # 0 PROVE Shape(s)
    <3> DEFINE rec == [c EXCEPT !.pc = "read", !.kind = "refresh", !.tok = browser.refresh]
    <3>1. rec.pc = "read" /\ rec.tok = browser.refresh
      BY DEF Call
    <3>2. Put(s, rec)
      BY <1>2, <1>4, <2>3 DEF PostRefresh
    <3> HIDE DEF rec
    <3> QED
      BY <1>1, <1>2, <2>1, <3>1, <3>2, PutIs DEF Shape, Late
  <2>4. Shape(s)
    BY <2>2, <2>3
  <2> QED
    BY <1>4, <2>4, ShapeKeeps DEF PostRefresh
<1>5. CASE RefreshRead(s)
  <2>1. c.pc = "read" /\ browser' = browser
    BY <1>2, <1>5 DEF RefreshRead
  <2>2. PICK rec : Put(s, rec) /\ rec.pc \in {"revoke", "refused"} /\ rec.tok = c.tok
    <3>1. CASE ValidRefresh(c.tok)
      <4>1. PICK u, n, m, out :
              Put(s, [c EXCEPT !.pc = "revoke", !.user = u, !.root = n, !.seen = m, !.outside = out])
        BY <1>2, <1>5, <3>1 DEF RefreshRead
      <4> DEFINE rec == [c EXCEPT !.pc = "revoke", !.user = u, !.root = n, !.seen = m, !.outside = out]
      <4>2. rec.pc = "revoke" /\ rec.tok = c.tok
        BY DEF Call
      <4> HIDE DEF rec
      <4> QED
        BY <4>1, <4>2 DEF rec
    <3>2. CASE ~ValidRefresh(c.tok)
      <4> DEFINE rec == [c EXCEPT !.pc = "refused"]
      <4>1. rec.pc = "refused" /\ rec.tok = c.tok
        BY DEF Call
      <4>2. Put(s, rec)
        BY <1>2, <1>5, <3>2 DEF RefreshRead
      <4> HIDE DEF rec
      <4> QED
        BY <4>1, <4>2
    <3> QED
      BY <3>1, <3>2
  <2>3. Shape(s)
    BY <1>1, <1>2, <2>1, <2>2, PutIs DEF Shape, Late
  <2> QED
    BY <1>5, <2>3, ShapeKeeps DEF RefreshRead
<1>6. CASE ReadOrgs(s)
  <2>1. c.pc = "orgs" /\ browser' = browser
    BY <1>2, <1>6 DEF ReadOrgs
  <2>2. ASSUME \E i \in UserOrganizations(slot[s].user) : Put(s, [slot[s] EXCEPT !.pc = "getMember", !.org = created[i]])
        PROVE  Shape(s)
    <3>1. PICK o : Put(s, [c EXCEPT !.pc = "getMember", !.org = o])
      BY <1>2, <2>2
    <3> DEFINE rec == [c EXCEPT !.pc = "getMember", !.org = o]
    <3>2. rec.pc = "getMember" /\ rec.kind = c.kind /\ rec.tok = c.tok
      BY DEF Call
    <3> HIDE DEF rec
    <3> QED
      BY <1>3, <2>1, <3>1, <3>2 DEF rec, Late
  <2>3. ASSUME c.kind = "logIn", Put(s, [Idle EXCEPT !.pc = "unauthorized", !.kind = "api"])
        PROVE  Shape(s)
    <3> DEFINE rec == [Idle EXCEPT !.pc = "unauthorized", !.kind = "api"]
    <3>1. rec.pc = "unauthorized"
      BY <1>1 DEF Call
    <3> HIDE DEF rec
    <3> QED
      BY <1>3, <2>1, <2>3, <3>1 DEF rec
  <2>4. ASSUME Put(s, [slot[s] EXCEPT !.pc = "refused"]) PROVE Shape(s)
    <3> DEFINE rec == [c EXCEPT !.pc = "refused"]
    <3>1. rec.pc = "refused" /\ rec.kind = c.kind /\ rec.tok = c.tok
      BY DEF Call
    <3>2. Put(s, rec)
      BY <1>2, <2>4
    <3> HIDE DEF rec
    <3> QED
      BY <1>3, <2>1, <3>1, <3>2 DEF Late
  <2>5. Shape(s)
    BY <1>2, <1>6, <2>2, <2>3, <2>4 DEF ReadOrgs
  <2> QED
    BY <1>6, <2>5, ShapeKeeps DEF ReadOrgs
<1>7. CASE ReadMember(s)
  <2>1. c.pc = "getMember" /\ browser' = browser
    BY <1>2, <1>7 DEF ReadMember
  <2>2. PICK r : Put(s, [c EXCEPT !.pc = "issue", !.role = r])
    BY <1>2, <1>7 DEF ReadMember
  <2> DEFINE rec == [c EXCEPT !.pc = "issue", !.role = r]
  <2>3. rec.pc = "issue" /\ rec.kind = c.kind /\ rec.tok = c.tok
    BY DEF Call
  <2> HIDE DEF rec
  <2>4. Shape(s)
    BY <1>3, <2>1, <2>2, <2>3 DEF rec, Late
  <2> QED
    BY <1>7, <2>4, ShapeKeeps DEF ReadMember
<1>8. CASE HandlerFails(s)
  <2>1. browser' = browser
    BY <1>8 DEF HandlerFails
  <2>2. ASSUME c.kind = "refresh" PROVE Shape(s)
    <3> DEFINE rec == [c EXCEPT !.pc = "refused"]
    <3>1. rec.pc = "refused" /\ rec.kind = c.kind /\ rec.tok = c.tok
      BY DEF Call
    <3>2. Put(s, rec)
      BY <1>2, <1>8, <2>2 DEF HandlerFails
    <3> HIDE DEF rec
    <3> QED
      BY <1>3, <2>1, <3>1, <3>2 DEF Late
  <2>3. ASSUME c.kind # "refresh" PROVE Shape(s)
    BY <1>1, <1>2, <1>3, <1>8, <2>1, <2>3 DEF HandlerFails
  <2>4. Shape(s)
    BY <2>2, <2>3
  <2> QED
    BY <1>8, <2>4, ShapeKeeps DEF HandlerFails
<1>9. CASE WritePassword(s)
  <2>1. c.pc = "password" /\ browser' = browser
    BY <1>2, <1>9 DEF WritePassword
  <2>2. PICK n : Put(s, [c EXCEPT !.pc = "spend", !.root = n])
    BY <1>2, <1>9 DEF WritePassword
  <2> DEFINE rec == [c EXCEPT !.pc = "spend", !.root = n]
  <2>3. rec.pc = "spend"
    BY DEF Call
  <2> HIDE DEF rec
  <2>4. Shape(s)
    BY <1>3, <2>1, <2>2, <2>3 DEF rec, Late
  <2> QED
    BY <1>9, <2>4, ShapeKeeps DEF WritePassword
<1>10. CASE SpendLink(s)
  <2>1. c.pc = "spend" /\ browser' = browser
    BY <1>2, <1>10 DEF SpendLink
  <2> DEFINE rec == [c EXCEPT !.pc = "revokeAll"]
  <2>2. rec.pc = "revokeAll"
    BY DEF Call
  <2>3. Put(s, rec)
    BY <1>2, <1>10 DEF SpendLink
  <2> HIDE DEF rec
  <2>4. Shape(s)
    BY <1>3, <2>1, <2>2, <2>3 DEF Late
  <2> QED
    BY <1>10, <2>4, ShapeKeeps DEF SpendLink
<1>11. CASE Refused(s) \/ LoggedOut(s)
  <2>1. browser'.refresh = 0 /\ Put(s, Idle)
    BY <1>11 DEF Refused, LoggedOut, Empty, End
  <2>2. Shape(s)
    BY <1>1, <1>2, <2>1, PutIs DEF Shape
  <2> QED
    BY <1>11, <2>2, ShapeKeeps DEF Refused, LoggedOut
<1>12. CASE Unheard(s)
  <2>1. c.kind = "gone" /\ browser' = browser /\ Put(s, Idle)
    BY <1>2, <1>12 DEF Unheard, End
  <2>2. Shape(s)
    BY <1>1, <1>3, <2>1
  <2> QED
    BY <1>12, <2>2, ShapeKeeps DEF Unheard
<1> QED
  BY <1>4, <1>5, <1>6, <1>7, <1>8, <1>9, <1>10, <1>11, <1>12

(* A step that stores nothing in the browser, and only revokes tokens: of  *)
(* those it is asked about, it has to say why.                             *)
Excused(i) == Replacing(i)' \/ i \in lost' \/ cleared'[issued'[i].user] > 0

LEMMA StoredStays ==
  ASSUME TeamInv, BrowserInv, browser'.refresh = browser.refresh, lost \subseteq lost',
         \A i \in DOMAIN issued :
           issued'[i].user = issued[i].user /\ (cleared[issued[i].user] > 0 => cleared'[issued[i].user] > 0),
         \A i \in DOMAIN issued : i = browser.refresh /\ issued'[i].revoked => issued[i].revoked \/ Excused(i),
         \A i : i = browser.refresh /\ Replacing(i) => Excused(i),
         \A s \in Slots : slot'[s].pc \in {"read", "revoke"} =>
           slot[s].pc \in {"read", "revoke"} /\ slot'[s].tok = slot[s].tok,
         \A s \in Slots : slot'[s].pc = "answered" =>
           LET n == slot[s].new IN
           /\ slot[s].pc = "answered" /\ slot'[s].new = n
           /\ issued'[n].revoked => issued[n].revoked \/ cleared'[issued[n].user] > 0
  PROVE  BrowserInv'
<1>1. Typed /\ Browser /\ Calls
  BY Types DEF TeamInv
<1>2. \A n \in Nat \ {0} : n <= Len(issued) => n \in DOMAIN issued
  BY <1>1 DEF Typed
<1>3. Fresh'
  <2> SUFFICES ASSUME NEW s \in Slots, slot'[s].pc = "answered", NEW n, n = slot'[s].new
               PROVE  /\ n # browser'.refresh
                      /\ issued'[n].revoked => cleared'[issued'[n].user] > 0
                      /\ \A x \in Slots : slot'[x].pc \in {"read", "revoke"} => slot'[x].tok # n
                      /\ \A x \in Slots \ {s} : slot'[x].pc = "answered" => slot'[x].new # n
    BY DEF Fresh
  <2>1. slot[s].pc = "answered" /\ slot[s].new = n
    OBVIOUS
  <2>2. n \in DOMAIN issued
    <3>1. n \in Nat \ {0} /\ n <= Len(issued)
      BY <2>1, TheCall DEF CallOK, Refers, Call, Pairs
    <3> QED
      BY <1>2, <3>1
  <2>3. /\ n # browser.refresh
        /\ issued[n].revoked => cleared[issued[n].user] > 0
        /\ \A x \in Slots : slot[x].pc \in {"read", "revoke"} => slot[x].tok # n
        /\ \A x \in Slots \ {s} : slot[x].pc = "answered" => slot[x].new # n
    BY <2>1 DEF BrowserInv, Fresh
  <2>4. issued'[n].revoked => cleared'[issued'[n].user] > 0
    BY <2>1, <2>2, <2>3
  <2> QED
    BY <2>3, <2>4
<1>4. Kept'
  <2> SUFFICES ASSUME NEW i, i = browser.refresh, i # 0, issued'[i].revoked PROVE Excused(i)
    BY DEF Kept, Excused
  <2>1. i \in DOMAIN issued
    <3>1. i \in Nat \ {0} /\ i <= Len(issued)
      BY <1>1 DEF Typed, Browser, Stored, Pairs
    <3> QED
      BY <1>2, <3>1
  <2>2. CASE issued[i].revoked
    <3>1. Replacing(i) \/ i \in lost \/ cleared[issued[i].user] > 0
      BY <2>2 DEF BrowserInv, Kept
    <3>2. i \in lost => Excused(i)
      BY DEF Excused
    <3>3. cleared[issued[i].user] > 0 => Excused(i)
      BY <2>1 DEF Excused
    <3> QED
      BY <3>1, <3>2, <3>3
  <2>3. CASE ~issued[i].revoked
    BY <2>1, <2>3
  <2> QED
    BY <2>2, <2>3
<1> QED
  BY <1>3, <1>4 DEF BrowserInv

LEMMA RefreshRevokeStores == ASSUME TeamInv, BrowserInv, NEW s \in Slots, RefreshRevoke(s) PROVE BrowserInv'
<1>1. PICK c \in Call : c = slot[s] /\ CallOK(c) /\ c.pc = "revoke"
  BY TheCall DEF RefreshRevoke
<1>2. c.tok \in DOMAIN issued /\ c.kind \in {"refresh", "gone"} /\ issued \in Seq(Token) /\ TypeOK
  BY <1>1, Types DEF CallOK, Refers, TeamInv, Typed
<1> DEFINE rec == [c EXCEPT !.pc = "orgs"]
<1>3. rec.pc = "orgs" /\ rec.kind = c.kind /\ rec.tok = c.tok
  BY DEF Call
<1>4. Put(s, rec)
  BY <1>1 DEF RefreshRevoke
<1> HIDE DEF rec
<1>5. slot'[s] = rec /\ \A x \in Slots \ {s} : slot'[x] = slot[x]
  BY <1>2, <1>4, PutIs
<1>6. \A i \in DOMAIN issued : /\ i # c.tok => issued'[i] = issued[i]
                               /\ issued'[i].user = issued[i].user
  <2>1. issued' = [issued EXCEPT ![c.tok] = [issued[c.tok] EXCEPT !.revoked = TRUE]]
    BY <1>1 DEF RefreshRevoke
  <2>2. issued[c.tok] \in Token
    BY <1>2
  <2>3. [issued[c.tok] EXCEPT !.revoked = TRUE].user = issued[c.tok].user
    BY <2>2, RevokedToken
  <2> QED
    BY <1>2, <2>1, <2>3
<1>7. browser' = browser /\ cleared' = cleared /\ lost \subseteq lost' /\ (c.kind = "gone" => c.tok \in lost')
  BY <1>1 DEF RefreshRevoke
<1>8. ASSUME NEW i, Replacing(i) PROVE Excused(i)
  <2>1. PICK x \in Slots : slot[x].kind = "refresh" /\ slot[x].tok = i
                           /\ slot[x].pc \in Late
    BY <1>8 DEF Replacing
  <2>2. slot'[x] = slot[x]
    BY <1>1, <1>5, <2>1 DEF Late
  <2> QED
    BY <2>1, <2>2 DEF Excused, Replacing
<1>9. Excused(c.tok)
  BY <1>2, <1>3, <1>5, <1>7 DEF Excused, Replacing, Late
<1>10. ASSUME NEW x \in Slots, slot'[x].pc = "answered"
       PROVE  /\ slot[x].pc = "answered" /\ slot'[x] = slot[x]
              /\ slot[x].new \in DOMAIN issued /\ slot[x].new # c.tok
  <2>1. slot[x].pc = "answered" /\ slot'[x] = slot[x]
    BY <1>3, <1>5, <1>10
  <2>2. slot[x].new \in Nat \ {0} /\ slot[x].new <= Len(issued)
    BY <2>1, TheCall DEF CallOK, Refers, Call, Pairs
  <2>3. slot[x].new # c.tok
    BY <1>1, <2>1 DEF BrowserInv, Fresh
  <2> QED
    BY <1>2, <2>1, <2>2, <2>3
<1>11. \A x \in Slots : slot'[x].pc \in {"read", "revoke"} =>
         slot[x].pc \in {"read", "revoke"} /\ slot'[x].tok = slot[x].tok
  BY <1>3, <1>5
<1>12. \A i \in DOMAIN issued : i = browser.refresh /\ issued'[i].revoked => issued[i].revoked \/ Excused(i)
  BY <1>6, <1>9
<1>13. \A x \in Slots : slot'[x].pc = "answered" =>
         LET n == slot[x].new IN
         /\ slot[x].pc = "answered" /\ slot'[x].new = n
         /\ issued'[n].revoked => issued[n].revoked \/ cleared'[issued[n].user] > 0
  BY <1>6, <1>10
<1> QED
  BY <1>6, <1>7, <1>8, <1>11, <1>12, <1>13, StoredStays

LEMMA RevokeAllStores == ASSUME TeamInv, BrowserInv, NEW s \in Slots, RevokeAll(s) PROVE BrowserInv'
<1>1. PICK c \in Call : c = slot[s] /\ CallOK(c) /\ c.pc = "revokeAll" /\ c.user \in Users
  BY TheCall DEF RevokeAll, CallOK, Writes
<1>2. Typed /\ TypeOK /\ issued \in Seq(Token) /\ cleared \in [Users -> Nat] /\ c.root \in Nat /\ c.root > 0
  BY <1>1, Types DEF TeamInv, Typed, CallOK, Writes, Call
<1>3. browser' = browser /\ lost' = lost
  BY DEF RevokeAll
<1>4. slot'[s] = Idle /\ \A x \in Slots \ {s} : slot'[x] = slot[x]
  BY <1>2, IdleIsCall, PutIs DEF RevokeAll, End
<1>5. /\ cleared'[c.user] > 0
      /\ \A u \in Users : u # c.user => cleared'[u] = cleared[u]
  BY <1>1, <1>2 DEF RevokeAll
<1>6. ASSUME NEW i \in DOMAIN issued
      PROVE  /\ issued[i].user \in Users /\ issued'[i].user = issued[i].user
             /\ issued[i].user # c.user => issued'[i] = issued[i]
  <2>1. PICK p \in Token : p = issued[i]
    BY <1>2
  <2>2. issued'[i] = IF p.user = c.user THEN [p EXCEPT !.revoked = TRUE] ELSE p
    BY <1>1, <2>1 DEF RevokeAll
  <2>3. p.user \in Users /\ [p EXCEPT !.revoked = TRUE].user = p.user
    BY DEF Token
  <2> QED
    BY <2>1, <2>2, <2>3
<1>7. \A i \in DOMAIN issued : (cleared[issued[i].user] > 0 => cleared'[issued[i].user] > 0)
  BY <1>5, <1>6
<1>8. \A i \in DOMAIN issued : issued'[i].revoked => issued[i].revoked \/ cleared'[issued[i].user] > 0
  BY <1>5, <1>6
<1>9. \A i \in DOMAIN issued : issued'[i].revoked => issued[i].revoked \/ Excused(i)
  BY <1>6, <1>8 DEF Excused
<1>10. ASSUME NEW i, Replacing(i) PROVE Excused(i)
  <2>1. PICK x \in Slots : slot[x].kind = "refresh" /\ slot[x].tok = i
                           /\ slot[x].pc \in Late
    BY <1>10 DEF Replacing
  <2>2. slot'[x] = slot[x]
    BY <1>1, <1>4, <2>1 DEF Late
  <2> QED
    BY <2>1, <2>2 DEF Excused, Replacing
<1>11. ASSUME NEW x \in Slots, slot'[x].pc = "answered"
       PROVE  slot[x].pc = "answered" /\ slot'[x] = slot[x] /\ slot[x].new \in DOMAIN issued
  <2>1. slot[x].pc = "answered" /\ slot'[x] = slot[x]
    BY <1>4, <1>11, IdleIsCall
  <2>2. slot[x].new \in Nat \ {0} /\ slot[x].new <= Len(issued)
    BY <2>1, TheCall DEF CallOK, Refers, Call, Pairs
  <2> QED
    BY <1>2, <2>1, <2>2
<1>12. \A x \in Slots : slot'[x].pc \in {"read", "revoke"} =>
         slot[x].pc \in {"read", "revoke"} /\ slot'[x].tok = slot[x].tok
  BY <1>4, IdleIsCall
<1>13. \A x \in Slots : slot'[x].pc = "answered" =>
         LET n == slot[x].new IN
         /\ slot[x].pc = "answered" /\ slot'[x].new = n
         /\ issued'[n].revoked => issued[n].revoked \/ cleared'[issued[n].user] > 0
  BY <1>8, <1>11
<1> QED
  BY <1>3, <1>6, <1>7, <1>9, <1>10, <1>12, <1>13, StoredStays


(* What a page load abandons is lost, not kept waiting for. *)
LEMMA ReloadStores == ASSUME TeamInv, BrowserInv, Reload PROVE BrowserInv'
<1>1. Typed /\ browser' = [browser EXCEPT !.org = NoOrg, !.authed = (browser.access # 0)]
  BY Types DEF TeamInv, Reload
<1>2. browser'.refresh = browser.refresh
  BY <1>1 DEF Typed, Stored
<1>3. issued' = issued /\ cleared' = cleared /\ lost \subseteq lost'
  BY DEF Reload
<1>4. ASSUME NEW i, Replacing(i) PROVE Excused(i)
  BY <1>4 DEF Replacing, Excused, Reload, Late
<1>5. ASSUME NEW x \in Slots
      PROVE  /\ slot'[x].pc # "answered"
             /\ slot'[x].pc \in {"read", "revoke"} => slot[x].pc \in {"read", "revoke"} /\ slot'[x].tok = slot[x].tok
  <2>1. PICK c \in Call : c = slot[x]
    BY TheCall
  <2>2. slot'[x] = Abandon(c)
    BY <2>1 DEF Reload
  <2> DEFINE rec == [c EXCEPT !.kind = "gone"]
  <2>3. rec.pc = c.pc /\ rec.tok = c.tok
    BY DEF Call
  <2>4. slot'[x] = IF c.pc \in {"read", "revoke", "orgs", "getMember", "issue"} THEN rec
                   ELSE IF c.pc \in {"unauthorized", "answered", "refused", "logout"} THEN Idle ELSE c
    BY <2>2 DEF Abandon
  <2> HIDE DEF rec
  <2> QED
    BY <2>1, <2>3, <2>4, IdleIsCall
<1> QED
  BY <1>2, <1>3, <1>4, <1>5, StoredStays

(* An answer to an invitation changes nothing of the calls that store.     *)
LEMMA WriteMembershipStores == ASSUME TeamInv, BrowserInv, NEW s \in Slots, WriteMembership(s) PROVE BrowserInv'
<1>1. PICK c \in Call : c = slot[s] /\ c.pc \in {"invite", "accept", "decline"}
  BY TheCall DEF WriteMembership
<1>2. UNCHANGED <<issued, browser, cleared, lost>>
  BY DEF WriteMembership
<1>3. slot' = [x \in Slots |->
                 IF x = s THEN Idle
                 ELSE IF c.pc = "accept" /\ slot[x].user = c.user
                 THEN [slot[x] EXCEPT !.outside = @ \ {c.org}] ELSE slot[x]]
  BY <1>1 DEF WriteMembership
<1>4. slot'[s] = Idle
  BY <1>3
<1>5. ASSUME NEW x \in Slots \ {s}
      PROVE  /\ slot'[x].pc = slot[x].pc /\ slot'[x].kind = slot[x].kind
             /\ slot'[x].tok = slot[x].tok /\ slot'[x].new = slot[x].new
  <2>1. PICK d \in Call : d = slot[x]
    BY TheCall
  <2> DEFINE rec == [d EXCEPT !.outside = d.outside \ {c.org}]
  <2>2. rec.pc = d.pc /\ rec.kind = d.kind /\ rec.tok = d.tok /\ rec.new = d.new
    BY DEF Call
  <2>3. slot'[x] = IF c.pc = "accept" /\ d.user = c.user THEN rec ELSE d
    BY <1>3, <2>1
  <2> HIDE DEF rec
  <2> QED
    BY <2>1, <2>2, <2>3
<1>6. ASSUME NEW i, Replacing(i) PROVE Excused(i)
  <2>1. PICK x \in Slots : slot[x].kind = "refresh" /\ slot[x].tok = i
                           /\ slot[x].pc \in Late
    BY <1>6 DEF Replacing
  <2>2. x # s
    BY <1>1, <2>1 DEF Late
  <2>3. slot'[x].kind = "refresh" /\ slot'[x].tok = i
        /\ slot'[x].pc \in Late
    BY <1>5, <2>1, <2>2
  <2> QED
    BY <2>3 DEF Excused, Replacing
<1>7. \A x \in Slots : slot'[x].pc \in {"read", "revoke"} =>
        slot[x].pc \in {"read", "revoke"} /\ slot'[x].tok = slot[x].tok
  BY <1>4, <1>5, IdleIsCall
<1>8. \A x \in Slots : slot'[x].pc = "answered" => slot[x].pc = "answered" /\ slot'[x].new = slot[x].new
  BY <1>4, <1>5, IdleIsCall
<1> QED
  BY <1>2, <1>6, <1>7, <1>8, StoredStays

(* The new pair is later than every token that a call or the browser has. *)
LEMMA IssueStores == ASSUME TeamInv, BrowserInv, NEW s \in Slots, Issue(s) PROVE BrowserInv'
<1>1. PICK c \in Call : c = slot[s] /\ CallOK(c) /\ c.pc = "issue"
  BY TheCall DEF Issue
<1>2. PICK p \in Token : p = Pair(c.user, c.org, c.role, c.root, c.seen < cleared[c.user], c.outside) /\ p.revoked = FALSE
  BY <1>1, IssuedToken
<1>3. Typed /\ TypeOK /\ Browser /\ issued \in Seq(Token) /\ Len(issued) \in Nat
  BY Types DEF TeamInv, Typed
<1>4. PICK n \in Nat \ {0} : n = Len(issued) + 1
  BY <1>3
<1>5. issued'[n] = p /\ \A i \in DOMAIN issued : i # n /\ issued'[i] = issued[i]
  <2>1. issued' = Append(issued, p)
    BY <1>1, <1>2 DEF Issue
  <2> QED
    BY <1>3, <1>4, <2>1
<1> DEFINE rec == [c EXCEPT !.pc = "answered", !.new = n]
<1>6. rec.pc = "answered" /\ rec.new = n /\ rec.kind = c.kind /\ rec.tok = c.tok
  BY DEF Call
<1>7. Put(s, rec)
  BY <1>1, <1>4 DEF Issue
<1> HIDE DEF rec
<1>8. slot'[s] = rec /\ \A x \in Slots \ {s} : slot'[x] = slot[x]
  BY <1>3, <1>7, PutIs
<1>9. UNCHANGED <<browser, cleared, lost>>
  BY DEF Issue
<1>10. /\ browser.refresh \in Nat /\ browser.refresh <= Len(issued)
       /\ browser.refresh # 0 => browser.refresh \in DOMAIN issued
  BY <1>3 DEF Typed, Browser, Stored, Pairs
<1>11. ASSUME NEW x \in Slots \ {s}
       PROVE  /\ slot[x].pc \in {"read", "revoke"} => slot[x].tok \in DOMAIN issued
              /\ slot[x].pc = "answered" => slot[x].new \in DOMAIN issued
  <2>1. slot[x].pc = "answered" => slot[x].new \in Nat \ {0} /\ slot[x].new <= Len(issued)
    BY TheCall DEF CallOK, Refers, Call, Pairs
  <2>2. slot[x].pc \in {"read", "revoke"} => slot[x].tok \in DOMAIN issued
    BY TheCall DEF CallOK, Refers
  <2> QED
    BY <1>3, <2>1, <2>2
<1>12. Fresh'
  <2> SUFFICES ASSUME NEW x \in Slots, slot'[x].pc = "answered", NEW m, m = slot'[x].new
               PROVE  /\ m # browser.refresh
                      /\ issued'[m].revoked => cleared[issued'[m].user] > 0
                      /\ \A y \in Slots : slot'[y].pc \in {"read", "revoke"} => slot'[y].tok # m
                      /\ \A y \in Slots \ {x} : slot'[y].pc = "answered" => slot'[y].new # m
    BY <1>9 DEF Fresh
  <2>1. CASE x = s
    <3>1. m = n
      BY <1>6, <1>8, <2>1
    <3>2. m # browser.refresh
      BY <1>4, <1>5, <1>10, <3>1
    <3>3. \A y \in Slots : slot'[y].pc \in {"read", "revoke"} => slot'[y].tok # m
      BY <1>5, <1>6, <1>8, <1>11, <3>1
    <3>4. \A y \in Slots \ {x} : slot'[y].pc = "answered" => slot'[y].new # m
      BY <1>5, <1>8, <1>11, <2>1, <3>1
    <3> QED
      BY <1>2, <1>5, <3>1, <3>2, <3>3, <3>4
  <2>2. CASE x # s
    <3>1. slot[x].pc = "answered" /\ m = slot[x].new /\ m \in DOMAIN issued
      BY <1>8, <1>11, <2>2
    <3>2. /\ m # browser.refresh
          /\ issued[m].revoked => cleared[issued[m].user] > 0
          /\ \A y \in Slots : slot[y].pc \in {"read", "revoke"} => slot[y].tok # m
          /\ \A y \in Slots \ {x} : slot[y].pc = "answered" => slot[y].new # m
      BY <3>1 DEF BrowserInv, Fresh
    <3> QED
      BY <1>5, <1>6, <1>8, <3>1, <3>2
  <2> QED
    BY <2>1, <2>2
<1>13. Kept'
  <2> SUFFICES ASSUME NEW i, i = browser.refresh, i # 0, issued'[i].revoked
               PROVE  Replacing(i)' \/ i \in lost \/ cleared[issued'[i].user] > 0
    BY <1>9 DEF Kept
  <2>1. issued'[i] = issued[i]
    BY <1>5, <1>10
  <2>2. Replacing(i) \/ i \in lost \/ cleared[issued[i].user] > 0
    BY <2>1 DEF BrowserInv, Kept
  <2>3. ASSUME Replacing(i) PROVE Replacing(i)'
    <3>1. PICK x \in Slots : slot[x].kind = "refresh" /\ slot[x].tok = i
                             /\ slot[x].pc \in Late
      BY <2>3 DEF Replacing
    <3>2. slot'[x].kind = "refresh" /\ slot'[x].tok = i
          /\ slot'[x].pc \in Late
      BY <1>1, <1>6, <1>8, <3>1 DEF Late
    <3> QED
      BY <3>2 DEF Replacing
  <2> QED
    BY <2>1, <2>2, <2>3
<1> QED
  BY <1>12, <1>13 DEF BrowserInv

(* What is stored was nobody else's, so that nobody else has spent it.     *)
LEMMA AnswerStores ==
  ASSUME TeamInv, BrowserInv, NEW s \in Slots, CredentialsStored(s) \/ Refreshed(s)
  PROVE  BrowserInv'
<1>1. Typed /\ TypeOK /\ slot[s].pc = "answered"
  BY Types DEF TeamInv, CredentialsStored, Refreshed
<1>2. UNCHANGED <<issued, cleared, lost>>
  BY DEF CredentialsStored, Refreshed
<1>3. browser'.refresh = slot[s].new
  <2>1. CASE CredentialsStored(s)
    BY <2>1 DEF CredentialsStored
  <2>2. CASE Refreshed(s)
    <3>1. browser \in Stored /\ browser' = [browser EXCEPT !.access = slot[s].new, !.refresh = slot[s].new]
      BY <1>1, <2>2 DEF Refreshed, Typed
    <3> QED
      BY <3>1 DEF Stored
  <2> QED
    BY <2>1, <2>2
<1>4. slot'[s] = Idle /\ \A x \in Slots \ {s} : slot'[x] = slot[x]
  BY <1>1, IdleIsCall, PutIs DEF CredentialsStored, Refreshed, End
<1>5. Fresh'
  BY <1>1, <1>2, <1>3, <1>4, IdleIsCall DEF BrowserInv, Fresh
<1>6. Kept'
  BY <1>1, <1>2, <1>3 DEF BrowserInv, Fresh, Kept
<1> QED
  BY <1>5, <1>6 DEF BrowserInv

(* What leaves calls, tokens and the browser alone.                        *)
LEMMA AloneKeeps ==
  ASSUME BrowserInv, UNCHANGED <<issued, browser, slot, cleared, lost>>
  PROVE  BrowserInv'
  BY DEF BrowserInv, Fresh, Kept, Replacing

LEMMA BrowserNextInv == TeamInv /\ BrowserInv /\ [Next]_vars => BrowserInv'
<1> SUFFICES ASSUME TeamInv, BrowserInv, [Next]_vars PROVE BrowserInv'
  OBVIOUS
<1>1. ASSUME NEW s \in Slots, SessionStep(s) PROVE BrowserInv'
  BY <1>1, BeginKeeps, GoOnKeeps, RefreshRevokeStores, RevokeAllStores, IssueStores, AnswerStores DEF SessionStep
<1>2. ASSUME AccessTokenExpires \/ ForgotPassword \/ UpdateRole \/ Remove \/ ScheduleOrgDeletion \/ UNCHANGED vars
      PROVE  BrowserInv'
  <2>1. UNCHANGED <<issued, browser, slot, cleared, lost>>
    BY <1>2 DEF AccessTokenExpires, ForgotPassword, UpdateRole, Remove, ScheduleOrgDeletion, vars, sessionVars
  <2> QED
    BY <2>1, AloneKeeps
<1>3. CASE SessionNext
  BY <1>1, <1>2, <1>3, ReloadStores DEF SessionNext
<1>4. CASE TeamNext
  BY <1>2, <1>4, BeginKeeps, WriteMembershipStores DEF TeamNext
<1> QED
  BY <1>2, <1>3, <1>4 DEF Next

(* Rotation never leaves the browser with a token that the next 401 would  *)
(* log it out with, but for an answer that was lost and for a reset:       *)
(* whatever calls overlap, the token in localStorage is one that nobody    *)
(* has spent, or that the call that spent it still has to replace.         *)
THEOREM KeptCorrect == Spec => []KeptTokenUnspent
<1>1. Init => TeamInv /\ BrowserInv
  BY InitInv
<1>2. TeamInv /\ BrowserInv /\ [Next]_vars => (TeamInv /\ BrowserInv)'
  BY NextInv, BrowserNextInv
<1>3. BrowserInv => KeptTokenUnspent
  BY DEF BrowserInv, Kept, Replacing, KeptTokenUnspent, Rotating
<1> QED
  BY <1>1, <1>2, <1>3, PTL DEF Spec

==============================================================================
