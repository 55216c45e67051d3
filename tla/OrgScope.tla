------------------------------ MODULE OrgScope ------------------------------
(***************************************************************************)
(* The org-scoped request: one pooled connection and one transaction for   *)
(* the lifetime of an HTTP request, committed when the response ends and   *)
(* rolled back when the client goes away first.  The handler reaches the   *)
(* connection through AsyncLocalStorage, which keeps pointing at it after  *)
(* it was released: what a handler still does after its client left is a   *)
(* STRAY statement, on a connection that may belong to another request.    *)
(*                                                                         *)
(* A request's work is one write (the row <<"data", r>>), perhaps after a  *)
(* graph search on a second connection, and on audited routes the row      *)
(* <<"audit", r>> that auditLogMiddleware inserts when the response ends.  *)
(***************************************************************************)
EXTENDS Naturals, FiniteSets

CONSTANTS
  Requests,    \* HTTP requests
  Orgs,        \* organizations
  OrgOf,       \* [Requests -> Orgs]: req.user.orgId
  Audited,     \* requests to routes behind auditLogMiddleware
  Searching,   \* requests that search the graph (the query routes)
  Uncaught,    \* requests authenticated where nothing catches the middleware's rejection
  Clients,     \* the pool's connections (max: 20)
  EnforceRLS,  \* the pool connects as a role subject to row-level security
  MaxFaults    \* bound: broken connections

Nobody == "nobody"
NoClient == "no client"

ASSUME OrgScopeAssumption ==
  /\ IsFiniteSet(Requests) /\ IsFiniteSet(Clients)
  /\ Nobody \notin Requests /\ NoClient \notin Clients
  /\ OrgOf \in [Requests -> Orgs]
  /\ Audited \subseteq Requests /\ Searching \subseteq Requests /\ Uncaught \subseteq Requests
  /\ EnforceRLS \in BOOLEAN
  /\ MaxFaults \in Nat

Rows == {"data", "audit"} \X Requests

INSTANCE ScopedConnection

VARIABLES
  conn,    \* the connections
  owner,   \* connection -> the request that has checked it out
  client,  \* request -> the connection its AsyncLocalStorage context holds
  aux,     \* request -> its second connection, during a graph search
  scope,   \* request -> state of its transaction and connection
  pc,      \* request -> where its handler is
  answer,  \* request -> what its client received
  saved,   \* committed rows
  struck,  \* requests whose transaction a stray, or a broken connection, hit
  faults   \* connections broken so far

vars == <<conn, owner, client, aux, scope, pc, answer, saved, struck, faults>>

PCs == {"waiting", "begin", "scope", "handle", "borrow", "lent", "searched",
        "wrote", "threw", "ended", "failed", "done"}
Scopes == {"none", "held", "released"}

Init ==
  /\ conn = [c \in Clients |-> Clean]
  /\ owner = [c \in Clients |-> Nobody]
  /\ client = [r \in Requests |-> NoClient]
  /\ aux = [r \in Requests |-> NoClient]
  /\ scope = [r \in Requests |-> "none"]
  /\ pc = [r \in Requests |-> "waiting"]
  /\ answer = [r \in Requests |-> "none"]
  /\ saved = {} /\ struck = {} /\ faults = 0

Goto(r, l) == pc' = [pc EXCEPT ![r] = l]

\* The handler of r runs on although its transaction is over.
Stray(r) == scope[r] = "released"

\* The connection that a statement of r's handler goes to.
Line(r) == IF client[r] = NoClient THEN [Clean EXCEPT !.tx = "broken"] ELSE conn[client[r]]

\* Whose open transaction a stray statement of r runs in.
Victims(r) ==
  {q \in Requests : /\ Stray(r) /\ Line(r).tx # "none"
                    /\ scope[q] = "held" /\ client[q] = client[r]}

\* client.release() of connection c in state cn; a broken one is gone for all that still
\* point at it.
Release(c, cn) ==
  /\ owner' = [owner EXCEPT ![c] = Nobody]
  /\ conn' = [conn EXCEPT ![c] = Released(cn)]
  /\ client' = [q \in Requests |->
                  IF client[q] = c /\ conn[c].tx = "broken" THEN NoClient ELSE client[q]]

-----------------------------------------------------------------------------
(* orgScopeMiddleware                                                      *)

\* The credential is verified (req.user is set): pool.connect() gives a connection.
Connect(r, c) ==
  /\ pc[r] = "waiting"
  /\ owner[c] = Nobody
  /\ owner' = [owner EXCEPT ![c] = r]
  /\ client' = [client EXCEPT ![r] = c]
  /\ scope' = [scope EXCEPT ![r] = "held"]
  /\ Goto(r, "begin")
  /\ UNCHANGED <<conn, aux, answer, saved, struck, faults>>

\* connectionTimeoutMillis, outside the middleware's try.  requireAuthOrApiKey catches it
\* for a JWT and answers 401; requireAuth and requireApiKey do not catch it.
ConnectTimeout(r) ==
  /\ pc[r] = "waiting"
  /\ r \notin Uncaught
  /\ answer' = [answer EXCEPT ![r] = "error"]
  /\ Goto(r, "done")
  /\ UNCHANGED <<conn, owner, client, aux, scope, saved, struck, faults>>

\* An unhandled rejection ends the Node process; Postgres rolls back every transaction.
\* Requests that have no connection yet stand for those that come after the restart.
TimeoutCrash(r) ==
  /\ pc[r] = "waiting"
  /\ r \in Uncaught
  /\ conn' = [c \in Clients |-> Clean]
  /\ owner' = [c \in Clients |-> Nobody]
  /\ client' = [q \in Requests |-> NoClient]
  /\ aux' = [q \in Requests |-> NoClient]
  /\ scope' = [q \in Requests |-> IF scope[q] = "none" THEN "none" ELSE "released"]
  /\ pc' = [q \in Requests |-> IF pc[q] = "waiting" /\ q # r THEN "waiting" ELSE "done"]
  /\ UNCHANGED <<answer, saved, struck, faults>>

\* The error path of BEGIN and SET LOCAL: release, next(err), a 500 without COMMIT.
BeginFails(r) ==
  /\ pc[r] \in {"begin", "scope"}
  /\ ~Works(conn[client[r]])
  /\ Release(client[r], Line(r))
  /\ scope' = [scope EXCEPT ![r] = "released"]
  /\ answer' = [answer EXCEPT ![r] = "error"]
  /\ Goto(r, "done")
  /\ UNCHANGED <<aux, saved, struck, faults>>

Begin(r) ==
  /\ pc[r] = "begin"
  /\ Works(conn[client[r]])
  /\ conn' = [conn EXCEPT ![client[r]] = Begun(@)]
  /\ Goto(r, "scope")
  /\ UNCHANGED <<owner, client, aux, scope, answer, saved, struck, faults>>

SetOrg(r) ==
  /\ pc[r] = "scope"
  /\ Works(conn[client[r]])
  /\ conn' = [conn EXCEPT ![client[r]] = Scoped(@, OrgOf[r])]
  /\ Goto(r, "handle")
  /\ UNCHANGED <<owner, client, aux, scope, answer, saved, struck, faults>>

-----------------------------------------------------------------------------
(* The handler                                                             *)

\* traversalSearch: ageQuery takes a second connection from the pool.
Borrow(r) ==
  /\ pc[r] = "handle"
  /\ r \in Searching
  /\ Goto(r, "borrow")
  /\ UNCHANGED <<conn, owner, client, aux, scope, answer, saved, struck, faults>>

Lend(r, c) ==
  /\ pc[r] = "borrow"
  /\ owner[c] = Nobody
  /\ owner' = [owner EXCEPT ![c] = r]
  /\ aux' = [aux EXCEPT ![r] = c]
  /\ Goto(r, "lent")
  /\ UNCHANGED <<conn, client, scope, answer, saved, struck, faults>>

\* Mutation: the pool has no connectionTimeoutMillis.
BorrowForever(r) == pc[r] = "borrow" /\ FALSE /\ UNCHANGED vars

\* traversalSearch catches the timeout and finds nothing; the search goes on.
BorrowTimeout(r) ==
  /\ pc[r] = "borrow"
  /\ Goto(r, "searched")
  /\ UNCHANGED <<conn, owner, client, aux, scope, answer, saved, struck, faults>>

\* Mutation: the search runs on the request's own connection and releases that.
ReturnOwn(r) ==
  /\ pc[r] = "lent"
  /\ client[r] # NoClient
  /\ Release(client[r], Line(r))
  /\ Goto(r, "searched")
  /\ UNCHANGED <<aux, scope, answer, saved, struck, faults>>

Return(r) ==
  /\ pc[r] = "lent"
  /\ Release(aux[r], conn[aux[r]])
  /\ aux' = [aux EXCEPT ![r] = NoClient]
  /\ Goto(r, "searched")
  /\ UNCHANGED <<scope, answer, saved, struck, faults>>

\* A statement of r that writes `row': accepted, or rejected by the policy or by the state
\* of the connection.
Accepted(r, row) ==
  /\ Works(Line(r)) /\ Sees(Line(r), OrgOf[r])
  /\ conn' = [conn EXCEPT ![client[r]] = Written(@, row)]
  /\ saved' = Saved(Line(r), row, saved)

Rejected(r) ==
  /\ ~(Works(Line(r)) /\ Sees(Line(r), OrgOf[r]))
  /\ conn' = IF client[r] = NoClient THEN conn ELSE [conn EXCEPT ![client[r]] = Failed(@)]
  /\ UNCHANGED saved

\* The handler's write.  An INSERT that the policy rejects raises; an UPDATE or a DELETE
\* touches no row and goes unnoticed.
Write(r) ==
  /\ pc[r] \in {"handle", "searched"}
  /\ \/ Accepted(r, <<"data", r>>) /\ Goto(r, "wrote")
     \/ Rejected(r) /\ Goto(r, "threw")
     \/ /\ Works(Line(r)) /\ ~Sees(Line(r), OrgOf[r])
        /\ Goto(r, "wrote")
        /\ UNCHANGED <<conn, saved>>
  /\ struck' = struck \cup Victims(r)
  /\ UNCHANGED <<owner, client, aux, scope, answer, faults>>

\* The handler throws for a reason of its own, before or after its write.
Throw(r) ==
  /\ pc[r] \in {"handle", "searched", "wrote"}
  /\ Goto(r, "threw")
  /\ UNCHANGED <<conn, owner, client, aux, scope, answer, saved, struck, faults>>

-----------------------------------------------------------------------------
(* The end of a response                                                   *)

EndLabel(r) == IF pc[r] = "wrote" THEN "ended" ELSE "failed"

\* Mutation: `settled' is not tested, so a stray handler's res.end() commits again.
FinishUnsettled(r) ==
  /\ pc[r] \in {"wrote", "threw"}
  /\ client[r] # NoClient
  /\ conn' = [conn EXCEPT ![client[r]] = Ended(@)]
  /\ saved' = saved \cup (IF Line(r).tx = "open" THEN Line(r).pending ELSE {})
  /\ Goto(r, IF Stray(r) THEN "done" ELSE EndLabel(r))
  /\ UNCHANGED <<owner, client, aux, scope, answer, struck, faults>>

\* Mutation: the response is sent first and COMMIT waits for 'finish' (as it once did).
FinishEarly(r) ==
  /\ pc[r] \in {"wrote", "threw"}
  /\ scope[r] = "held"
  /\ answer' = [answer EXCEPT ![r] = IF pc[r] = "wrote" THEN "ok" ELSE "error"]
  /\ Goto(r, EndLabel(r))
  /\ UNCHANGED <<conn, owner, client, aux, scope, saved, struck, faults>>

\* res.end(), of a success and of an error response alike: COMMIT, its errors swallowed.
Finish(r) ==
  /\ pc[r] \in {"wrote", "threw"}
  /\ scope[r] = "held"
  /\ conn' = [conn EXCEPT ![client[r]] = Ended(@)]
  /\ saved' = saved \cup (IF Line(r).tx = "open" THEN Line(r).pending ELSE {})
  /\ Goto(r, EndLabel(r))
  /\ UNCHANGED <<owner, client, aux, scope, answer, struck, faults>>

\* .finally: release, then the original res.end, which is auditLogMiddleware's on audited
\* routes.  Its INSERT is queued on the connection just released, ahead of the BEGIN of the
\* next request, and fails unnoticed.
Flush(r) ==
  /\ pc[r] \in {"ended", "failed"}
  /\ Release(client[r], Line(r))
  /\ scope' = [scope EXCEPT ![r] = "released"]
  /\ answer' = [answer EXCEPT ![r] = IF pc[r] = "ended" THEN "ok" ELSE "error"]
  /\ saved' = IF /\ pc[r] = "ended" /\ r \in Audited
                /\ Works(Line(r)) /\ Sees(Line(r), OrgOf[r])
             THEN saved \cup {<<"audit", r>>} ELSE saved
  /\ Goto(r, "done")
  /\ UNCHANGED <<aux, struck, faults>>

-----------------------------------------------------------------------------
(* The client goes away                                                    *)

Open(r) == /\ scope[r] = "held"
           /\ pc[r] \in {"handle", "borrow", "lent", "searched", "wrote", "threw"}

\* Mutation: the connection goes back to the pool without a ROLLBACK.
DisconnectReleaseFirst(r) ==
  /\ Open(r)
  /\ owner' = [owner EXCEPT ![client[r]] = Nobody]
  /\ scope' = [scope EXCEPT ![r] = "released"]
  /\ UNCHANGED <<conn, client, aux, pc, answer, saved, struck, faults>>

\* 'close' before res.end(): ROLLBACK, then release.  What a stray sends in between commits
\* by itself, as it does afterwards, so the two are one step.  The handler is not told.
Disconnect(r) ==
  /\ Open(r)
  /\ Release(client[r], Ended(Line(r)))
  /\ scope' = [scope EXCEPT ![r] = "released"]
  /\ UNCHANGED <<aux, pc, answer, saved, struck, faults>>

\* The handler of a request that is gone ends its response: `settled' skips the COMMIT, the
\* audit row is inserted all the same, wherever the connection is by now.
FinishStray(r) ==
  /\ pc[r] \in {"wrote", "threw"}
  /\ Stray(r)
  /\ \/ /\ pc[r] = "wrote" /\ r \in Audited
        /\ Accepted(r, <<"audit", r>>) \/ Rejected(r)
        /\ struck' = struck \cup Victims(r)
     \/ /\ ~(pc[r] = "wrote" /\ r \in Audited)
        /\ UNCHANGED <<conn, saved, struck>>
  /\ Goto(r, "done")
  /\ UNCHANGED <<owner, client, aux, scope, answer, faults>>

\* The connection of a request breaks: its transaction is gone, whatever is sent to it
\* fails.  Before BEGIN or before COMMIT stands for every moment: a break in between makes
\* the handler throw and COMMIT fail, which changes nothing more.
Break(r) ==
  /\ scope[r] = "held" /\ pc[r] \in {"begin", "wrote"}
  /\ faults < MaxFaults
  /\ faults' = faults + 1
  /\ conn' = [conn EXCEPT ![client[r]] = [Clean EXCEPT !.tx = "broken"]]
  /\ struck' = struck \cup {r}
  /\ UNCHANGED <<owner, client, aux, scope, pc, answer, saved>>

-----------------------------------------------------------------------------
Middleware(r) ==
  \/ \E c \in Clients : Connect(r, c)
  \/ ConnectTimeout(r) \/ TimeoutCrash(r) \/ BeginFails(r) \/ Begin(r) \/ SetOrg(r)

Handler(r) ==
  \/ Borrow(r) \/ (\E c \in Clients : Lend(r, c)) \/ BorrowTimeout(r) \/ Return(r)
  \/ Write(r) \/ Throw(r)

Ending(r) == Finish(r) \/ Flush(r) \/ FinishStray(r)

Next ==
  \/ \E r \in Requests : Middleware(r) \/ Handler(r) \/ Ending(r)
  \/ \E r \in Requests : Disconnect(r) \/ Break(r)

\* A request is carried on: the pool's timer fires, queries resolve and
\* handlers end (every external call they wait for has a timeout of its own).
Fairness ==
  \A r \in Requests : WF_vars(Middleware(r) \/ Handler(r) \/ Ending(r))

Spec == Init /\ [][Next]_vars
FairSpec == Spec /\ Fairness

-----------------------------------------------------------------------------
(* Properties                                                              *)

\* Types; outside an open transaction a connection holds no write, and whoever is inside a
\* transaction owns the connection that its context points at.
TypeOK ==
  /\ conn \in [Clients -> Connection]
  /\ \A c \in Clients : conn[c].tx # "open" => conn[c].pending = {}
  /\ \A r \in Requests :
       scope[r] = "held" => client[r] \in Clients /\ owner[client[r]] = r
  /\ owner \in [Clients -> Requests \cup {Nobody}]
  /\ client \in [Requests -> Clients \cup {NoClient}]
  /\ aux \in [Requests -> Clients \cup {NoClient}]
  /\ scope \in [Requests -> Scopes]
  /\ pc \in [Requests -> PCs]
  /\ answer \in [Requests -> {"none", "ok", "error"}]
  /\ saved \subseteq Rows
  /\ struck \subseteq Requests
  /\ faults \in 0..MaxFaults

\* A connection in the pool carries no organization and no uncommitted write into the next
\* request, and no transaction either unless a stray statement had aborted one.
IdleHoldsNothing ==
  \A c \in Clients : owner[c] = Nobody =>
    \/ conn[c] = Clean
    \/ conn[c].tx = "aborted" /\ conn[c].org = NoOrg /\ struck # {}

\* A request's write becomes visible when its own response ends, whole, and never because
\* another request ended a transaction; only the writes of strays escape this.
OwnCommitOnly ==
  [][\A r \in Requests : <<"data", r>> \in saved' \ saved =>
       Stray(r) \/ (pc[r] \in {"wrote", "threw"} /\ pc'[r] # pc[r])]_vars

\* A 2xx answer means that the request's write is committed, unless a stray statement of a
\* request whose client had left, or a broken connection, hit its transaction.
DurableUnlessStruck ==
  \A r \in Requests : answer[r] = "ok" /\ r \notin struck => <<"data", r>> \in saved

\* org-scope.middleware.ts, 40: "COMMIT must happen before the response is flushed to the
\* client".  A 2xx answer means that the request's write is committed.
SuccessIsDurable == \A r \in Requests : answer[r] = "ok" => <<"data", r>> \in saved

\* audit-log.repository.ts, 29: "Inside a request that's set by orgScopeMiddleware, so the
\* normal scoped path works".  A successful request to an audited route leaves its audit row.
AuditWritten ==
  \A r \in Audited : answer[r] = "ok" /\ r \notin struck => <<"audit", r>> \in saved

\* Nobody keeps a connection for ever, although every request that holds one may be waiting
\* for a second one.
ConnectionsReturn == \A c \in Clients : owner[c] # Nobody ~> owner[c] = Nobody

=============================================================================
