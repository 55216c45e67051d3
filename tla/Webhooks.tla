------------------------------ MODULE Webhooks ------------------------------
(***************************************************************************)
(* Webhook dispatch and its retries (WebhookService and the scheduler).    *)
(* dispatch posts an event to every active webhook and leaves a row in     *)
(* webhook_deliveries for each failure; a timer polls the rows that are    *)
(* due, whether or not the previous poll is over.  Every statement and     *)
(* every POST is a step of its own.  Both run outside an org scope: a pool *)
(* whose role is subject to row-level security shows them no rows at all.  *)
(***************************************************************************)
EXTENDS Naturals, FiniteSets

CONSTANTS
    Hooks,        \* webhooks
    Deliveries,   \* rows of webhook_deliveries, in the order of creation
    Dispatchers,  \* calls of dispatch under way at once
    Polls,        \* polls under way at once
    PollsSeeRows  \* the pool's role is not subject to row-level security

ASSUME WebhooksAssumption == Deliveries \subseteq Nat \ {0} /\ PollsSeeRows \in BOOLEAN

MaxAttempts == 4   \* RETRY_BACKOFF_SECONDS.length

VARIABLES
    hook,      \* "none", "active" or "deleted"
    failing,   \* webhooks with a failure_count above 0
    row,       \* webhook_deliveries
    dispatch,  \* the calls of dispatch
    poll,      \* the runs of processDueRetries
    failed,    \* history: retries of a row that ended with an error
    answered,  \* history: retries of a row that were answered with 2xx (at most 2)
    shared     \* history: rows that were loaded by two polls at once, or whose
               \* answer was not recorded

webhookVars == <<hook, failing, row, dispatch, poll, failed, answered, shared>>
historyVars == <<failed, answered, shared>>

NoDelivery == [hook |-> "none", status |-> "none", attempts |-> 0, due |-> FALSE]
Resting == [pc |-> "idle", todo |-> {}, cur |-> "none"]
NoLoad == [id |-> 0, attempts |-> 0]
NoPoll == [pc |-> "idle", todo |-> {}, cur |-> NoLoad]

WebhookInit ==
    /\ hook = [h \in Hooks |-> "none"]
    /\ failing = {}
    /\ row = [d \in Deliveries |-> NoDelivery]
    /\ dispatch = [p \in Dispatchers |-> Resting]
    /\ poll = [p \in Polls |-> NoPoll]
    /\ failed = [d \in Deliveries |-> 0]
    /\ answered = [d \in Deliveries |-> 0]
    /\ shared = {}

Loads == [id : Deliveries, attempts : 0 .. MaxAttempts - 1]

WebhookTypeOK ==
    /\ hook \in [Hooks -> {"none", "active", "deleted"}]
    /\ failing \subseteq Hooks
    /\ row \in [Deliveries -> [hook : Hooks \cup {"none"}, attempts : 0 .. MaxAttempts - 1, due : BOOLEAN,
                               status : {"none", "pending", "delivered", "dead_letter", "removed"}]]
    /\ \A p \in Dispatchers :
         /\ dispatch[p].pc \in {"idle", "post", "success", "failure", "enqueue"}
         /\ dispatch[p].todo \subseteq Hooks
    /\ \A p \in Polls :
         /\ poll[p].pc \in {"idle", "next", "post", "accepted", "rejected", "missing", "success"}
         /\ poll[p].todo \subseteq Loads
    /\ failed \in [Deliveries -> Nat] /\ answered \in [Deliveries -> 0 .. 2] /\ shared \subseteq Deliveries

---------------------------------------------------------------------------
(* create: refused when the host resolves to a private address. *)
CreateWebhook(h) ==
    /\ hook[h] = "none"
    /\ hook' = [hook EXCEPT ![h] = "active"]
    /\ UNCHANGED <<failing, row, dispatch, poll, historyVars>>

(* delete: the rows of its deliveries go with it (ON DELETE CASCADE). *)
DeleteWebhook(h) ==
    /\ hook[h] = "active"
    /\ hook' = [hook EXCEPT ![h] = "deleted"]
    /\ failing' = failing \ {h}
    /\ row' = [d \in Deliveries |-> IF row[d].hook = h THEN [NoDelivery EXCEPT !.status = "removed"] ELSE row[d]]
    /\ UNCHANGED <<dispatch, poll, historyVars>>

(* attemptDelivery: an error when the host resolves to a private address   *)
(* by now, when the answer is not 2xx, or when there is none in time.      *)
Outcomes == BOOLEAN

---------------------------------------------------------------------------
Become(p, rec) == dispatch' = [dispatch EXCEPT ![p] = rec]
Rest(p) == [dispatch[p] EXCEPT !.cur = "none", !.pc = IF dispatch[p].todo = {} THEN "idle" ELSE "post"]

Dispatch(p) ==
    /\ dispatch[p].pc = "idle" /\ PollsSeeRows
    /\ \E h \in Hooks : hook[h] = "active"
    /\ Become(p, [pc |-> "post", todo |-> {h \in Hooks : hook[h] = "active"}, cur |-> "none"])
    /\ UNCHANGED <<hook, failing, row, poll, historyVars>>

DispatchPosts(p) ==
    /\ dispatch[p].pc = "post"
    /\ \E h \in dispatch[p].todo : \E ok \in Outcomes :
         Become(p, [pc |-> IF ok THEN "success" ELSE "failure", todo |-> dispatch[p].todo \ {h}, cur |-> h])
    /\ UNCHANGED <<hook, failing, row, poll, historyVars>>

DispatchRecords(p) ==
    /\ \/ /\ dispatch[p].pc = "success"
          /\ failing' = failing \ {dispatch[p].cur}
          /\ Become(p, Rest(p))
       \/ /\ dispatch[p].pc = "failure"
          /\ failing' = IF hook[dispatch[p].cur] = "active" THEN failing \cup {dispatch[p].cur} ELSE failing
          /\ Become(p, [dispatch[p] EXCEPT !.pc = "enqueue"])
    /\ UNCHANGED <<hook, row, poll, historyVars>>

(* The row is due at once.  A webhook that was deleted meanwhile makes the *)
(* INSERT fail, and with it the rest of the call.                          *)
DispatchEnqueues(p) ==
    /\ dispatch[p].pc = "enqueue"
    /\ IF hook[dispatch[p].cur] = "deleted"
       THEN Become(p, Resting) /\ UNCHANGED row
       ELSE \E d \in Deliveries :
              /\ row[d] = NoDelivery /\ \A e \in Deliveries : e < d => row[e] # NoDelivery
              /\ row' = [row EXCEPT ![d] = [hook |-> dispatch[p].cur, status |-> "pending",
                                            attempts |-> 0, due |-> TRUE]]
              /\ Become(p, Rest(p))
    /\ UNCHANGED <<hook, failing, poll, historyVars>>

(* A statement is rejected, or the process ends: the other webhooks of the *)
(* event are not told, and a failure may be counted without a row.         *)
DispatchStops(p) ==
    /\ dispatch[p].pc # "idle"
    /\ Become(p, Resting)
    /\ UNCHANGED <<hook, failing, row, poll, historyVars>>

---------------------------------------------------------------------------
Turn(p, rec) == poll' = [poll EXCEPT ![p] = rec]
Onward(p) == Turn(p, [poll[p] EXCEPT !.cur = NoLoad, !.pc = IF poll[p].todo = {} THEN "idle" ELSE "next"])
AttemptsOf(p) == poll[p].cur.attempts
HeldBy(p) == {l.id : l \in poll[p].todo} \cup (IF poll[p].cur = NoLoad THEN {} ELSE {poll[p].cur.id})

DueAnyStatus == {d \in Deliveries : row[d].status \notin {"none", "removed"} /\ row[d].due}
FindDue == {d \in Deliveries : row[d].status = "pending" /\ row[d].due}

Poll(p) ==
    /\ poll[p].pc = "idle" /\ PollsSeeRows /\ FindDue # {}
    /\ Turn(p, [pc |-> "next", todo |-> {[id |-> d, attempts |-> row[d].attempts] : d \in FindDue}, cur |-> NoLoad])
    /\ shared' = shared \cup {d \in FindDue : \E q \in Polls \ {p} : d \in HeldBy(q)}
    /\ UNCHANGED <<hook, failing, row, dispatch, failed, answered>>

(* findById of the webhook. *)
PollLooksUp(p) ==
    /\ poll[p].pc = "next"
    /\ \E l \in poll[p].todo :
         Turn(p, [poll[p] EXCEPT !.todo = @ \ {l}, !.cur = l,
                    !.pc = IF \E h \in Hooks : row[l.id].hook = h /\ hook[h] = "active" THEN "post" ELSE "missing"])
    /\ UNCHANGED <<hook, failing, row, dispatch, historyVars>>

(* The POST uses the URL that was looked up, whatever became of the row. *)
PollPosts(p) ==
    /\ poll[p].pc = "post"
    /\ LET d == poll[p].cur.id IN
       \E ok \in Outcomes :
         /\ Turn(p, [poll[p] EXCEPT !.pc = IF ok THEN "accepted" ELSE "rejected"])
         /\ answered' = [answered EXCEPT ![d] = IF ok /\ @ < 2 THEN @ + 1 ELSE @]
         /\ failed' = [failed EXCEPT ![d] = IF ~ok /\ @ < MaxAttempts THEN @ + 1 ELSE @]
    /\ UNCHANGED <<hook, failing, row, dispatch, shared>>

(* UPDATE ... WHERE id: nothing happens to a row that is gone. *)
WriteRow(d, rec) == row' = [row EXCEPT ![d] = IF @.status = "removed" THEN @ ELSE rec]

PollDelivered(p) ==
    /\ poll[p].pc = "accepted"
    /\ WriteRow(poll[p].cur.id, [row[poll[p].cur.id] EXCEPT !.status = "delivered"])
    /\ Turn(p, [poll[p] EXCEPT !.pc = "success"])
    /\ UNCHANGED <<hook, failing, dispatch, historyVars>>

PollRecordsSuccess(p) ==
    /\ poll[p].pc = "success"
    /\ failing' = failing \ {row[poll[p].cur.id].hook}
    /\ Onward(p)
    /\ UNCHANGED <<hook, row, dispatch, historyVars>>

GiveUpWhileTriesAreLeft(n) == n < MaxAttempts
GiveUpAt(n) == n + 1 >= MaxAttempts

(* markDeadLetter, or scheduleRetry with the number that was loaded plus   *)
(* one: neither looks at what the row says now.                            *)
PollRejected(p) ==
    /\ poll[p].pc = "rejected"
    /\ LET d == poll[p].cur.id IN
       WriteRow(d, IF GiveUpAt(AttemptsOf(p)) THEN [row[d] EXCEPT !.status = "dead_letter"]
                ELSE [row[d] EXCEPT !.attempts = AttemptsOf(p) + 1, !.due = FALSE])
    /\ Onward(p)
    /\ UNCHANGED <<hook, failing, dispatch, historyVars>>

PollFindsNoWebhook(p) ==
    /\ poll[p].pc = "missing"
    /\ WriteRow(poll[p].cur.id, [row[poll[p].cur.id] EXCEPT !.status = "dead_letter"])
    /\ Onward(p)
    /\ UNCHANGED <<hook, failing, dispatch, historyVars>>

(* A statement is rejected, or the process ends: the rest of the list      *)
(* waits for another poll.                                                 *)
PollStops(p) ==
    /\ poll[p].pc # "idle"
    /\ shared' = IF poll[p].pc = "accepted" THEN shared \cup {poll[p].cur.id} ELSE shared
    /\ Turn(p, NoPoll)
    /\ UNCHANGED <<hook, failing, row, dispatch, failed, answered>>

(* next_retry_at passes; the length of the back-off is not modelled. *)
BackoffElapses(d) ==
    /\ row[d].status = "pending" /\ ~row[d].due
    /\ row' = [row EXCEPT ![d].due = TRUE]
    /\ UNCHANGED <<hook, failing, dispatch, poll, historyVars>>

DispatchStep(p) ==
    Dispatch(p) \/ DispatchPosts(p) \/ DispatchRecords(p) \/ DispatchEnqueues(p) \/ DispatchStops(p)
PollStep(p) ==
    \/ Poll(p) \/ PollLooksUp(p) \/ PollPosts(p) \/ PollDelivered(p) \/ PollRecordsSuccess(p)
    \/ PollRejected(p) \/ PollFindsNoWebhook(p) \/ PollStops(p)

WebhookNext ==
    \/ \E h \in Hooks : CreateWebhook(h) \/ DeleteWebhook(h)
    \/ \E p \in Dispatchers : DispatchStep(p)
    \/ \E p \in Polls : PollStep(p)
    \/ \E d \in Deliveries : BackoffElapses(d)

WebhookSpec == WebhookInit /\ [][WebhookNext]_webhookVars

---------------------------------------------------------------------------
(* An endpoint that answered a retry with 2xx is asked again only when two *)
(* polls had loaded the row, or when the answer was not recorded.          *)
RepeatsOnlyOverlap == \A d \in Deliveries : answered[d] > 1 => d \in shared

(* A delivery is given up only after MAX_ATTEMPTS retries failed, however  *)
(* the polls overwrite each other's attempt count.  (webhooks.active is    *)
(* never unset, and a deleted webhook takes its rows along.)               *)
DeadOnlyAfterAllTries ==
    \A d \in Deliveries : row[d].status = "dead_letter" => failed[d] >= MaxAttempts
============================================================================
