------------------------------- MODULE Quota -------------------------------
(***************************************************************************)
(* The monthly query quota of one organization during one billing period:  *)
(* JSON queries (execute) and streamed queries (executeStream), each in    *)
(* its request's transaction, that read the usage counter first and        *)
(* increment it last, and the warning e-mail near the limit.  Connect,     *)
(* BEGIN and SET LOCAL are one step here and so are ROLLBACK and release;  *)
(* OrgScope has them one by one.  What a handler does after its client     *)
(* left goes to the connection its request has released, and a statement   *)
(* of such a handler, of this organization or of another, that Postgres    *)
(* rejects aborts the transaction of the request that has it now.          *)
(***************************************************************************)
EXTENDS Naturals, FiniteSets

CONSTANTS
  Requests,    \* queries of the organization in the period
  Streams,     \* those sent to POST /queries/stream
  Clients,     \* the pool's connections
  Limit,       \* subscriptions.monthly_query_limit
  EnforceRLS   \* the pool connects as a role subject to row-level security

Nobody == "nobody"
NoClient == "no client"

ASSUME QuotaAssumption ==
  /\ IsFiniteSet(Requests) /\ IsFiniteSet(Clients)
  /\ Streams \subseteq Requests
  /\ Limit \in Nat \ {0}
  /\ EnforceRLS \in BOOLEAN
  /\ Nobody \notin Requests /\ NoClient \notin Clients

Org == "org"
Orgs == {Org}

\* usage_counters: the increment of a request, and warning_email_sent set by a request.
Count(r) == <<"count", r>>
Claimed(r) == <<"claim", r>>
Rows == {"count", "claim"} \X Requests

INSTANCE ScopedConnection

VARIABLES
  conn,    \* the connections
  owner,   \* connection -> the request that has checked it out
  client,  \* request -> the connection of its context
  scope,   \* request -> "none", "held" or "released"
  pc,      \* request -> where its handler is
  seen,    \* request -> the query_count it read
  answer,  \* request -> what its client received
  saved,   \* committed rows
  due,     \* requests that claimed the warning e-mail and have not sent it yet
  mails,   \* requests that have sent it
  peak,    \* history: most admitted queries in flight at once
  blind,   \* history: requests that checked the quota where the counter is invisible
  lost,    \* history: claims that were rolled back
  struck   \* history: requests whose transaction another one's stray statement aborted

vars == <<conn, owner, client, scope, pc, seen, answer, saved, due, mails, peak, blind, lost, struck>>
dbVars == <<conn, owner, client, scope>>
ghosts == <<peak, blind, lost, struck>>

PCs == {"waiting", "check", "retrieve", "claim", "answer", "stream", "account",
        "end", "failed", "refused", "done"}

Init ==
  /\ conn = [c \in Clients |-> Clean]
  /\ owner = [c \in Clients |-> Nobody]
  /\ client = [r \in Requests |-> NoClient]
  /\ scope = [r \in Requests |-> "none"]
  /\ pc = [r \in Requests |-> "waiting"]
  /\ seen = [r \in Requests |-> 0]
  /\ answer = [r \in Requests |-> "none"]
  /\ saved = {} /\ due = {} /\ mails = {}
  /\ peak = 0 /\ blind = {} /\ lost = {} /\ struck = {}

Goto(r, l) == pc' = [pc EXCEPT ![r] = l]
Stray(r) == scope[r] = "released"

\* The rows that a statement of r reads: the committed ones and those of the transaction it
\* runs in, or none at all where no organization is set.
View(r) ==
  LET cn == conn[client[r]]
  IN IF Sees(cn, Org) THEN saved \cup cn.pending ELSE {}

Used(rows) == Cardinality({r \in Requests : Count(r) \in rows})
Warned(rows) == \E r \in Requests : Claimed(r) \in rows

\* Another transaction that wrote the counter row holds it until it ends.
RowFree(r) == \A c \in Clients \ {client[r]} : conn[c].pending = {}

\* The statements of r are accepted: its connection is in no aborted transaction.
Accepted(r) == Works(conn[client[r]])

\* The claims that are rolled back with the transaction on connection c.
ClaimsIn(c) == {q \in Requests : Claimed(q) \in conn[c].pending}

\* Admitted, and the handler runs or its count waits in a transaction, its own or the one that
\* the connection it has released belongs to by now.
InFlight ==
  {r \in Requests : \/ pc[r] \notin {"waiting", "check", "refused", "failed", "done"}
                    \/ \E c \in Clients : Count(r) \in conn[c].pending}

\* Mutation: one query more than the limit.
AdmitsLast(rows) == Used(rows) <= Limit

\* getUsageForPeriod finds no row before the first query of the period: limit 1000.
Admits(rows) == Used(rows) = 0 \/ Used(rows) < Limit

\* percent >= WARN_THRESHOLD (80%) of the limit read with the count.
NearLimit(r) == seen[r] > 0 /\ 10 * (seen[r] + 1) >= 8 * Limit

Write(r, row) ==
  /\ conn' = [conn EXCEPT ![client[r]] = Written(@, row)]
  /\ saved' = Saved(conn[client[r]], row, saved)

-----------------------------------------------------------------------------
\* The request gets a connection and its scoped transaction.
Open(r, c) ==
  /\ pc[r] = "waiting"
  /\ owner[c] = Nobody
  /\ owner' = [owner EXCEPT ![c] = r]
  /\ client' = [client EXCEPT ![r] = c]
  /\ conn' = [conn EXCEPT ![c] = Scoped(Begun(@), Org)]
  /\ scope' = [scope EXCEPT ![r] = "held"]
  /\ Goto(r, "check")
  /\ UNCHANGED <<seen, answer, saved, due, mails, ghosts>>

\* getUsageForPeriod; at 100% QuotaExceededError.  Nothing is reserved.
Check(r) ==
  /\ pc[r] = "check" /\ Accepted(r)
  /\ seen' = [seen EXCEPT ![r] = Used(View(r))]
  /\ blind' = IF Sees(conn[client[r]], Org) THEN blind ELSE blind \cup {r}
  /\ IF Admits(View(r))
     THEN /\ Goto(r, "retrieve")
          /\ LET n == Cardinality(InFlight) + 1 IN peak' = IF n > peak THEN n ELSE peak
     ELSE Goto(r, "refused") /\ UNCHANGED peak
  /\ UNCHANGED <<dbVars, answer, saved, due, mails, lost, struck>>

\* The check of the quota in an aborted transaction.
CheckRejected(r) ==
  /\ pc[r] = "check" /\ ~Accepted(r)
  /\ Goto(r, "failed")
  /\ UNCHANGED <<dbVars, seen, answer, saved, due, mails, ghosts>>

\* The next step of a stream after its `meta' event.  gen.return() of a client that left takes
\* effect here, before the try, if 'close' reached it at all; so does the rejection of the
\* organization's row, which is read first.
AfterMeta(r) == (IF Accepted(r) THEN {"answer"} ELSE {"failed"}) \cup (IF Stray(r) THEN {"end"} ELSE {})

\* Embedding, routing and retrieval.
Retrieve(r) ==
  /\ pc[r] = "retrieve"
  /\ \/ Goto(r, "failed")
     \/ r \notin Streams /\ Accepted(r) /\ Goto(r, "answer")
     \/ r \in Streams /\ Accepted(r) /\ NearLimit(r) /\ Goto(r, "claim")
     \/ r \in Streams /\ Accepted(r) /\ ~NearLimit(r) /\ \E l \in AfterMeta(r) : Goto(r, l)
  /\ UNCHANGED <<dbVars, seen, answer, saved, due, mails, ghosts>>

\* Mutation: warning_email_sent is not tested.
ClaimableUnchecked(r) == Used(View(r)) > 0

\* The counter row exists and warning_email_sent = FALSE.
Claimable(r) == Used(View(r)) > 0 /\ ~Warned(View(r))

\* claimQuotaWarningEmail, not awaited, but the next statement queues behind it: before the
\* answer of a stream, after the accounting of a JSON query.  Its rejection is only logged.
Claim(r) ==
  /\ pc[r] = "claim"
  /\ \/ /\ Accepted(r) /\ Claimable(r) /\ RowFree(r)
        /\ Write(r, Claimed(r)) /\ due' = due \cup {r}
     \/ ~(Accepted(r) /\ Claimable(r)) /\ UNCHANGED <<conn, saved, due>>
  /\ \/ r \in Streams /\ \E l \in AfterMeta(r) : Goto(r, l)
     \/ r \notin Streams /\ Goto(r, "end")
  /\ UNCHANGED <<owner, client, scope, seen, answer, mails, ghosts>>

\* The claimed e-mail goes out, whatever became of the claim since.
SendMail(r) ==
  /\ r \in due
  /\ due' = due \ {r}
  /\ mails' \in {mails, mails \cup {r}}
  /\ UNCHANGED <<dbVars, pc, seen, answer, saved, ghosts>>

\* execute: the whole answer, or an error.
Synthesize(r) ==
  /\ pc[r] = "answer" /\ r \notin Streams
  /\ Goto(r, "account") \/ Goto(r, "failed")
  /\ UNCHANGED <<dbVars, seen, answer, saved, due, mails, ghosts>>

\* executeStream: the first delta reaches the client.
FirstDelta(r) ==
  /\ pc[r] = "answer" /\ r \in Streams
  /\ answer' = [answer EXCEPT ![r] = IF Stray(r) THEN "none" ELSE "partial"]
  /\ Goto(r, "stream")
  /\ UNCHANGED <<dbVars, seen, saved, due, mails, ghosts>>

\* Mutation: accounting after the loop instead of in `finally'.
StreamEndsNoFinally(r) ==
  /\ pc[r] \in {"answer", "stream"} /\ r \in Streams
  /\ Goto(r, "account") \/ Goto(r, "failed")
  /\ UNCHANGED <<dbVars, seen, answer, saved, due, mails, ghosts>>

\* The model's stream ends, fails (also before a delta) or is returned: `finally'.
StreamEnds(r) ==
  /\ pc[r] \in {"answer", "stream"} /\ r \in Streams
  /\ Goto(r, "account")
  /\ UNCHANGED <<dbVars, seen, answer, saved, due, mails, ghosts>>

\* _logQuery and incrementQueryCount.  On a released connection the INSERT of the log commits
\* by itself or is rejected, and then nothing is counted; nor is it in an aborted transaction.
Account(r) ==
  /\ pc[r] = "account"
  /\ \/ /\ Accepted(r) /\ Sees(conn[client[r]], Org)
        /\ RowFree(r)
        /\ Write(r, Count(r))
        /\ IF r \notin Streams /\ NearLimit(r) THEN Goto(r, "claim") ELSE Goto(r, "end")
     \/ /\ ~(Accepted(r) /\ Sees(conn[client[r]], Org))
        /\ Goto(r, "failed")
        /\ UNCHANGED <<conn, saved>>
  /\ UNCHANGED <<owner, client, scope, seen, answer, due, mails, ghosts>>

Heard(r) == CASE pc[r] = "end" -> "full"
              [] pc[r] = "refused" -> "quota"
              [] pc[r] = "failed" /\ answer[r] = "partial" -> "cut"
              [] OTHER -> "error"

\* res.end(): COMMIT, release, and only then the end of the answer.  COMMIT of an aborted
\* transaction, whose rows are gone, reports success: the answer is the same.
End(r) ==
  /\ pc[r] \in {"end", "failed", "refused"}
  /\ IF Stray(r)
     THEN UNCHANGED <<dbVars, answer, saved>>
     ELSE /\ conn' = [conn EXCEPT ![client[r]] = Clean]
          /\ owner' = [owner EXCEPT ![client[r]] = Nobody]
          /\ scope' = [scope EXCEPT ![r] = "released"]
          /\ saved' = saved \cup conn[client[r]].pending
          /\ answer' = [answer EXCEPT ![r] = Heard(r)]
          /\ UNCHANGED client
  /\ Goto(r, "done")
  /\ UNCHANGED <<seen, due, mails, ghosts>>

\* Mutation: the connection is released with its transaction.
DisconnectNoRollback(r) ==
  /\ scope[r] = "held"
  /\ owner' = [owner EXCEPT ![client[r]] = Nobody]
  /\ scope' = [scope EXCEPT ![r] = "released"]
  /\ UNCHANGED <<conn, client, pc, seen, answer, saved, due, mails, ghosts>>

\* The client goes away: ROLLBACK and release; the handler goes on.
Disconnect(r) ==
  /\ scope[r] = "held"
  /\ lost' = lost \cup ClaimsIn(client[r])
  /\ conn' = [conn EXCEPT ![client[r]] = Clean]
  /\ owner' = [owner EXCEPT ![client[r]] = Nobody]
  /\ scope' = [scope EXCEPT ![r] = "released"]
  /\ UNCHANGED <<client, pc, seen, answer, saved, due, mails, peak, blind, struck>>

\* A statement that the handler of some departed client, perhaps of another organization, sends
\* to the connection r has now is rejected: it aborts the transaction of r.
Struck(r) ==
  /\ scope[r] = "held" /\ conn[client[r]].tx = "open"
  /\ lost' = lost \cup ClaimsIn(client[r])
  /\ conn' = [conn EXCEPT ![client[r]] = Failed(@)]
  /\ struck' = struck \cup {r}
  /\ UNCHANGED <<owner, client, scope, pc, seen, answer, saved, due, mails, peak, blind>>

-----------------------------------------------------------------------------
Query(r) ==
  \/ \E c \in Clients : Open(r, c)
  \/ Check(r) \/ CheckRejected(r) \/ Retrieve(r) \/ Claim(r)
  \/ Synthesize(r) \/ FirstDelta(r) \/ StreamEnds(r)
  \/ Account(r) \/ End(r)

Next == \E r \in Requests : Query(r) \/ SendMail(r) \/ Disconnect(r) \/ Struck(r)

Spec == Init /\ [][Next]_vars

-----------------------------------------------------------------------------
(* Properties                                                              *)

\* Types; a transaction is open exactly while its request holds the connection.
TypeOK ==
  /\ conn \in [Clients -> Connection]
  /\ \A c \in Clients : (conn[c] = Clean) = (owner[c] = Nobody)
  /\ owner \in [Clients -> Requests \cup {Nobody}]
  /\ client \in [Requests -> Clients \cup {NoClient}]
  /\ scope \in [Requests -> {"none", "held", "released"}]
  /\ pc \in [Requests -> PCs]
  /\ seen \in [Requests -> Nat]
  /\ answer \in [Requests -> {"none", "partial", "full", "cut", "quota", "error"}]
  /\ saved \subseteq Rows /\ due \subseteq Requests /\ mails \subseteq Requests
  /\ peak \in Nat /\ blind \subseteq Requests /\ lost \subseteq Requests /\ struck \subseteq Requests

\* The check reserves nothing, so the limit can be overshot, but by fewer queries than were
\* ever in flight together (plus those that checked where row-level security hides the
\* counter, which only a client that left can make a handler do).
OvershootBounded == Used(saved) < Limit + peak + Cardinality(blind)

\* Every query whose answer was ended for its client, whole or broken off by an error of
\* the model in the middle of the stream, is counted, unless the stray statement of another
\* handler aborted its transaction: COMMIT is a ROLLBACK then and the answer goes out all the
\* same (org-scope.middleware.ts).
DeliveredIsCounted ==
  \A r \in Requests : answer[r] \in {"full", "cut"} => Count(r) \in saved \/ r \in struck

\* One warning e-mail per period, and one more for every claim that was rolled back.
WarningOnce == Cardinality(mails \cup due) <= 1 + Cardinality(lost)

\* query.service.ts, 277: "the query must be logged and counted against quota even if the
\* client disconnects mid-answer".
StreamedIsCounted ==
  \A r \in Requests : answer[r] = "partial" /\ pc[r] = "done" => Count(r) \in saved

=============================================================================
