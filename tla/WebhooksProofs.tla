---------------------------- MODULE WebhooksProofs ----------------------------
(***************************************************************************)
(* What overlapping polls may do to a delivery, for any number of          *)
(* webhooks, deliveries, dispatches and polls.  A poll acts on what it has *)
(* loaded, which may be stale by then: the invariant relates every load to *)
(* the row as it is now and to the history of the row.                     *)
(***************************************************************************)
EXTENDS Webhooks, TLAPS

There == {"pending", "delivered", "dead_letter"}
Row == [hook : Hooks \cup {"none"}, attempts : 0 .. MaxAttempts - 1, due : BOOLEAN,
        status : There \cup {"none", "removed"}]
Call == [pc : {"idle", "post", "success", "failure", "enqueue"}, todo : SUBSET Hooks, cur : Hooks \cup {"none"}]
Busy == {"post", "accepted", "rejected", "missing", "success"}
Run == [pc : Busy \cup {"idle", "next"}, todo : SUBSET Loads, cur : Loads \cup {NoLoad}]

Types ==
    /\ hook \in [Hooks -> {"none", "active", "deleted"}]
    /\ row \in [Deliveries -> Row]
    /\ dispatch \in [Dispatchers -> Call] /\ poll \in [Polls -> Run]
    /\ failed \in [Deliveries -> 0 .. MaxAttempts] /\ answered \in [Deliveries -> 0 .. 2]
    /\ shared \subseteq Deliveries

(* A dispatch works on webhooks that were created. *)
Calls == \A p \in Dispatchers :
    /\ \A h \in dispatch[p].todo : hook[h] # "none"
    /\ dispatch[p].pc \in {"success", "failure", "enqueue"} =>
         dispatch[p].cur \in Hooks /\ hook[dispatch[p].cur] # "none"

(* A row that is there belongs to a webhook that is there. *)
RowsLive == \A d \in Deliveries : row[d].status \in There =>
    row[d].hook \in Hooks /\ hook[row[d].hook] = "active"

(* What a poll has loaded was counted by failed retries; a row whose       *)
(* webhook it did not find is gone.                                        *)
Loaded == \A p \in Polls :
    /\ \A l \in poll[p].todo : row[l.id].status # "none" /\ l.attempts <= failed[l.id]
    /\ poll[p].pc \in Busy => /\ poll[p].cur \in Loads /\ row[poll[p].cur.id].status # "none"
                              /\ poll[p].cur.attempts <= failed[poll[p].cur.id]
    /\ poll[p].pc = "rejected" => poll[p].cur.attempts + 1 <= failed[poll[p].cur.id]
    /\ poll[p].pc = "missing" => row[poll[p].cur.id].status = "removed"
Tried == \A d \in Deliveries : row[d].attempts <= failed[d]

(* A poll has loaded a row once. *)
Distinct == \A p \in Polls :
    /\ \A l, m \in poll[p].todo : l.id = m.id => l = m
    /\ poll[p].pc \in Busy => \A l \in poll[p].todo : l.id # poll[p].cur.id
Exclusive == \A d \in Deliveries \ shared : \A p, q \in Polls : d \in HeldBy(p) /\ d \in HeldBy(q) => p = q

(* A row that was answered is about to be marked or was marked. *)
Marking(d) == \E p \in Polls : poll[p].pc = "accepted" /\ poll[p].cur.id = d
Marked(d) == /\ row[d].status # "pending"
             /\ \A p \in Polls : d \in HeldBy(p) => poll[p].pc = "success" /\ poll[p].cur.id = d
Once == \A d \in Deliveries :
    /\ row[d].status = "none" => answered[d] = 0
    /\ d \notin shared => answered[d] <= 1
    /\ d \notin shared /\ answered[d] = 1 => Marking(d) \/ Marked(d)

WebhookInv == Types /\ Calls /\ RowsLive /\ Loaded /\ Tried /\ Distinct /\ Exclusive /\ Once
              /\ DeadOnlyAfterAllTries

(* A load is never mistaken for none. *)
LEMMA LoadsApart == NoLoad \notin Loads /\ \A l \in Loads : l.id \in Deliveries /\ l.attempts \in 0 .. MaxAttempts - 1
  BY WebhooksAssumption DEF NoLoad, Loads

LEMMA InitInv == WebhookInit => WebhookInv
<1> SUFFICES ASSUME WebhookInit PROVE WebhookInv
  OBVIOUS
<1>1. Types
  BY DEF WebhookInit, Types, Row, NoDelivery, MaxAttempts, There, Call, Resting, Run, NoPoll, Busy
<1>2. Calls /\ RowsLive /\ Tried /\ DeadOnlyAfterAllTries
  BY DEF WebhookInit, Calls, RowsLive, Tried, DeadOnlyAfterAllTries, Resting, NoDelivery, There
<1>3. Loaded /\ Distinct
  BY DEF WebhookInit, Loaded, Distinct, NoPoll, Busy
<1>4. Exclusive
  BY DEF WebhookInit, Exclusive, HeldBy, NoPoll
<1>5. Once
  BY DEF WebhookInit, Once
<1> QED
  BY <1>1, <1>2, <1>3, <1>4, <1>5 DEF WebhookInv

---------------------------------------------------------------------------
(* A call that is over, or goes on with the next webhook. *)
LEMMA RestOfCall ==
  /\ Resting \in Call /\ Resting.todo = {} /\ Resting.pc = "idle"
  /\ \A p \in Dispatchers : dispatch[p] \in Call =>
       Rest(p) \in Call /\ Rest(p).todo = dispatch[p].todo /\ Rest(p).pc \in {"idle", "post"}
<1>1. Resting \in Call /\ Resting.todo = {} /\ Resting.pc = "idle"
  <2>1. {} \in SUBSET Hooks
    OBVIOUS
  <2> QED
    BY <2>1 DEF Resting, Call
<1>2. ASSUME NEW p \in Dispatchers, dispatch[p] \in Call
      PROVE  Rest(p) \in Call /\ Rest(p).todo = dispatch[p].todo /\ Rest(p).pc \in {"idle", "post"}
  <2> DEFINE l == IF dispatch[p].todo = {} THEN "idle" ELSE "post"
  <2>1. l \in {"idle", "post"} /\ Rest(p) = [dispatch[p] EXCEPT !.cur = "none", !.pc = l]
    BY DEF Rest
  <2> HIDE DEF l
  <2> QED
    BY <1>2, <2>1 DEF Call
<1> QED
  BY <1>1, <1>2

(* The steps of a dispatch that write no row. *)
LEMMA DispatchKeepsInv ==
  ASSUME WebhookInv, NEW p \in Dispatchers,
         Dispatch(p) \/ DispatchPosts(p) \/ DispatchRecords(p) \/ DispatchStops(p)
  PROVE  WebhookInv'
<1>1. UNCHANGED <<hook, row, poll, failed, answered, shared>>
  BY DEF Dispatch, DispatchPosts, DispatchRecords, DispatchStops, historyVars
<1>2. dispatch \in [Dispatchers -> Call] /\ dispatch[p] \in Call
  BY DEF WebhookInv, Types
<1>3. PICK rec \in Call :
        /\ dispatch' = [dispatch EXCEPT ![p] = rec]
        /\ \A h \in rec.todo : hook[h] # "none"
        /\ rec.pc \in {"success", "failure", "enqueue"} => rec.cur \in Hooks /\ hook[rec.cur] # "none"
  <2>1. CASE Dispatch(p)
    <3> DEFINE S == {h \in Hooks : hook[h] = "active"}
               rec == [pc |-> "post", todo |-> S, cur |-> "none"]
    <3>1. S \in SUBSET Hooks /\ \A h \in S : hook[h] # "none"
      OBVIOUS
    <3>2. dispatch' = [dispatch EXCEPT ![p] = rec]
      BY <2>1 DEF Dispatch, Become
    <3> HIDE DEF S
    <3>3. rec \in Call /\ rec.todo = S /\ rec.pc = "post"
      BY <3>1 DEF Call
    <3> HIDE DEF rec
    <3> QED
      BY <3>1, <3>2, <3>3
  <2>2. CASE DispatchPosts(p)
    <3>1. PICK h \in dispatch[p].todo, ok \in BOOLEAN :
            Become(p, [pc |-> IF ok THEN "success" ELSE "failure", todo |-> dispatch[p].todo \ {h}, cur |-> h])
      BY <2>2 DEF DispatchPosts, Outcomes
    <3> DEFINE S == dispatch[p].todo \ {h}
               l == IF ok THEN "success" ELSE "failure"
               rec == [pc |-> l, todo |-> S, cur |-> h]
    <3>2. S \in SUBSET Hooks /\ h \in Hooks /\ hook[h] # "none" /\ \A g \in S : hook[g] # "none"
      BY <1>2 DEF Call, WebhookInv, Calls
    <3>3. dispatch' = [dispatch EXCEPT ![p] = rec]
      BY <3>1 DEF Become
    <3>4. l \in {"success", "failure"}
      OBVIOUS
    <3> HIDE DEF S, l
    <3>5. rec \in Call /\ rec.todo = S /\ rec.cur = h
      BY <3>2, <3>4 DEF Call
    <3> HIDE DEF rec
    <3> QED
      BY <3>2, <3>3, <3>5
  <2>3. CASE DispatchRecords(p)
    <3>1. CASE dispatch[p].pc = "success"
      <4>1. dispatch' = [dispatch EXCEPT ![p] = Rest(p)]
        BY <2>3, <3>1 DEF DispatchRecords, Become
      <4>2. Rest(p) \in Call /\ Rest(p).todo = dispatch[p].todo /\ Rest(p).pc \in {"idle", "post"}
        BY <1>2, RestOfCall
      <4>3. \A h \in Rest(p).todo : hook[h] # "none"
        BY <4>2 DEF WebhookInv, Calls
      <4> QED
        BY <4>1, <4>2, <4>3
    <3>2. CASE dispatch[p].pc = "failure"
      <4> DEFINE rec == [dispatch[p] EXCEPT !.pc = "enqueue"]
      <4>1. dispatch' = [dispatch EXCEPT ![p] = rec]
        BY <2>3, <3>2 DEF DispatchRecords, Become
      <4>2. rec \in Call /\ rec.todo = dispatch[p].todo /\ rec.cur = dispatch[p].cur
        BY <1>2 DEF Call
      <4> HIDE DEF rec
      <4> QED
        BY <4>1, <4>2, <3>2 DEF WebhookInv, Calls
    <3> QED
      BY <2>3, <3>1, <3>2 DEF DispatchRecords
  <2>4. CASE DispatchStops(p)
    <3>1. dispatch' = [dispatch EXCEPT ![p] = Resting]
      BY <2>4 DEF DispatchStops, Become
    <3> QED
      BY <3>1, RestOfCall
  <2> QED
    BY <2>1, <2>2, <2>3, <2>4
<1>4. Types'
  BY <1>1, <1>3 DEF WebhookInv, Types
<1>5. Calls'
  BY <1>1, <1>2, <1>3 DEF WebhookInv, Calls
<1>6. RowsLive' /\ Loaded' /\ Tried' /\ Distinct' /\ Exclusive' /\ Once' /\ DeadOnlyAfterAllTries'
  BY <1>1 DEF WebhookInv, RowsLive, Loaded, Tried, Distinct, Exclusive, Once, DeadOnlyAfterAllTries, HeldBy, Marking, Marked
<1> QED
  BY <1>4, <1>5, <1>6 DEF WebhookInv

(* The row of a failed first dispatch is new: no poll has it. *)
LEMMA EnqueueKeepsInv == ASSUME WebhookInv, NEW p \in Dispatchers, DispatchEnqueues(p) PROVE WebhookInv'
<1>1. UNCHANGED <<hook, poll, failed, answered, shared>>
  BY DEF DispatchEnqueues, historyVars
<1>2. dispatch[p] \in Call /\ dispatch[p].cur \in Hooks /\ hook[dispatch[p].cur] \in {"active", "deleted"}
  BY DEF WebhookInv, Types, Calls, DispatchEnqueues
<1>3. PICK rec \in Call : dispatch' = [dispatch EXCEPT ![p] = rec] /\ rec.todo \subseteq dispatch[p].todo
                          /\ rec.pc \in {"idle", "post"}
  <2>1. dispatch' = [dispatch EXCEPT ![p] = Resting] \/ dispatch' = [dispatch EXCEPT ![p] = Rest(p)]
    BY <1>2 DEF DispatchEnqueues, Become
  <2>2. Rest(p) \in Call /\ Rest(p).todo = dispatch[p].todo /\ Rest(p).pc \in {"idle", "post"}
    BY <1>2, RestOfCall
  <2>3. CASE dispatch' = [dispatch EXCEPT ![p] = Resting]
    BY <2>3, RestOfCall
  <2>4. CASE dispatch' = [dispatch EXCEPT ![p] = Rest(p)]
    BY <2>2, <2>4
  <2> QED
    BY <2>1, <2>3, <2>4
<1>4. Calls' /\ dispatch' \in [Dispatchers -> Call]
  BY <1>1, <1>3 DEF WebhookInv, Types, Calls
<1>5. CASE UNCHANGED row
  BY <1>1, <1>4, <1>5 DEF WebhookInv, Types, RowsLive, Loaded, Tried, Distinct, Exclusive, Once,
                      DeadOnlyAfterAllTries, HeldBy, Marking, Marked
<1>6. CASE row' # row
  <2>1. hook[dispatch[p].cur] = "active"
    BY <1>2, <1>6 DEF DispatchEnqueues
  <2>2. PICK d \in Deliveries :
          /\ row[d] = NoDelivery
          /\ row' = [row EXCEPT ![d] = [hook |-> dispatch[p].cur, status |-> "pending", attempts |-> 0, due |-> TRUE]]
    BY <1>2, <2>1 DEF DispatchEnqueues
  <2>3. /\ row \in [Deliveries -> Row] /\ row[d].status = "none" /\ row'[d].hook = dispatch[p].cur
        /\ row'[d].status = "pending" /\ row'[d].attempts = 0 /\ row'[d] \in Row
        /\ \A e \in Deliveries : e # d => row'[e] = row[e]
    BY <2>2, <1>2 DEF WebhookInv, Types, NoDelivery, Row, There, MaxAttempts
  <2>4. Types'
    BY <1>1, <1>4, <2>2, <2>3 DEF WebhookInv, Types
  <2>5. RowsLive' /\ Tried' /\ DeadOnlyAfterAllTries'
    BY <1>1, <1>2, <2>1, <2>3 DEF WebhookInv, Types, RowsLive, Tried, DeadOnlyAfterAllTries, There
  <2>6. Loaded'
    BY <1>1, <2>3, LoadsApart DEF WebhookInv, Types, Run, Loaded
  <2>7. Distinct' /\ Exclusive'
    BY <1>1 DEF WebhookInv, Distinct, Exclusive, HeldBy
  <2>8. Once'
    BY <1>1, <2>3 DEF WebhookInv, Once, HeldBy, Marking, Marked
  <2> QED
    BY <1>4, <2>4, <2>5, <2>6, <2>7, <2>8 DEF WebhookInv
<1> QED
  BY <1>5, <1>6

---------------------------------------------------------------------------
(* A webhook that is created or deleted, and the passing of a back-off. *)
LEMMA HooksKeepInv ==
  ASSUME WebhookInv, NEW h \in Hooks, CreateWebhook(h) \/ DeleteWebhook(h)
  PROVE  WebhookInv'
<1>1. UNCHANGED <<dispatch, poll, failed, answered, shared>>
  BY DEF CreateWebhook, DeleteWebhook, historyVars
<1>2. CASE CreateWebhook(h)
  <2>1. UNCHANGED row /\ hook' = [hook EXCEPT ![h] = "active"] /\ hook \in [Hooks -> {"none", "active", "deleted"}]
    BY <1>2 DEF CreateWebhook, WebhookInv, Types
  <2>2. Types'
    BY <1>1, <2>1 DEF WebhookInv, Types
  <2>3. Calls'
    BY <1>1, <2>1 DEF WebhookInv, Types, Calls, Call
  <2>4. RowsLive'
    BY <2>1 DEF WebhookInv, RowsLive
  <2>5. Loaded' /\ Tried' /\ Distinct' /\ Exclusive' /\ Once' /\ DeadOnlyAfterAllTries'
    BY <1>1, <2>1 DEF WebhookInv, Loaded, Tried, Distinct, Exclusive, Once, DeadOnlyAfterAllTries, HeldBy, Marking, Marked
  <2> QED
    BY <2>2, <2>3, <2>4, <2>5 DEF WebhookInv
<1>3. CASE DeleteWebhook(h)
  <2> DEFINE gone == [NoDelivery EXCEPT !.status = "removed"]
  <2>1. /\ hook' = [hook EXCEPT ![h] = "deleted"] /\ hook \in [Hooks -> {"none", "active", "deleted"}]
        /\ row' = [d \in Deliveries |-> IF row[d].hook = h THEN gone ELSE row[d]]
    BY <1>3 DEF DeleteWebhook, WebhookInv, Types
  <2>2. gone \in Row /\ gone.status = "removed" /\ gone.attempts = 0
    <3>1. NoDelivery \in Row /\ NoDelivery.attempts = 0
      BY DEF NoDelivery, Row, MaxAttempts
    <3> QED
      BY <3>1 DEF Row
  <2> HIDE DEF gone
  <2>3. Types'
    BY <1>1, <2>1, <2>2 DEF WebhookInv, Types
  <2>4. Calls'
    BY <1>1, <2>1 DEF WebhookInv, Types, Calls, Call
  <2>5. RowsLive'
    BY <2>1, <2>2 DEF WebhookInv, RowsLive, There
  <2>6. Tried' /\ DeadOnlyAfterAllTries'
    BY <1>1, <2>1, <2>2 DEF WebhookInv, Types, Tried, DeadOnlyAfterAllTries
  <2>7. Loaded'
    BY <1>1, <2>1, <2>2, LoadsApart DEF WebhookInv, Types, Run, Loaded
  <2>8. Distinct' /\ Exclusive'
    BY <1>1 DEF WebhookInv, Distinct, Exclusive, HeldBy
  <2>9. Once'
    BY <1>1, <2>1, <2>2 DEF WebhookInv, Once, HeldBy, Marking, Marked
  <2> QED
    BY <2>3, <2>4, <2>5, <2>6, <2>7, <2>8, <2>9 DEF WebhookInv
<1> QED
  BY <1>2, <1>3

LEMMA BackoffKeepsInv == ASSUME WebhookInv, NEW d \in Deliveries, BackoffElapses(d) PROVE WebhookInv'
<1>1. UNCHANGED <<hook, dispatch, poll, failed, answered, shared>>
  BY DEF BackoffElapses, historyVars
<1>2. row \in [Deliveries -> Row] /\ row' = [row EXCEPT ![d] = [row[d] EXCEPT !.due = TRUE]]
  BY DEF BackoffElapses, WebhookInv, Types
<1>3. [row[d] EXCEPT !.due = TRUE] \in Row
  BY <1>2 DEF Row
<1>4. \A e \in Deliveries : row'[e].status = row[e].status /\ row'[e].hook = row[e].hook /\ row'[e].attempts = row[e].attempts
  BY <1>2 DEF Row
<1>5. Types' /\ Calls'
  BY <1>1, <1>2, <1>3 DEF WebhookInv, Types, Calls
<1>6. RowsLive' /\ Tried' /\ DeadOnlyAfterAllTries'
  BY <1>1, <1>4 DEF WebhookInv, RowsLive, Tried, DeadOnlyAfterAllTries
<1>7. Loaded'
  BY <1>1, <1>4, LoadsApart DEF WebhookInv, Types, Run, Loaded
<1>8. Distinct' /\ Exclusive'
  BY <1>1 DEF WebhookInv, Distinct, Exclusive, HeldBy
<1>9. Once'
  BY <1>1, <1>4 DEF WebhookInv, Once, HeldBy, Marking, Marked
<1> QED
  BY <1>5, <1>6, <1>7, <1>8, <1>9 DEF WebhookInv

---------------------------------------------------------------------------
(* A poll that goes on with its list, or has none. *)
LEMMA OnwardOfRun ==
  ASSUME WebhookInv, NEW p \in Polls
  PROVE  /\ poll[p] \in Run /\ NoPoll \in Run /\ NoPoll.todo = {} /\ NoPoll.cur = NoLoad /\ NoPoll.pc = "idle"
         /\ Onward(p) => \E rec \in Run : /\ poll' = [poll EXCEPT ![p] = rec] /\ rec.todo = poll[p].todo
                                          /\ rec.cur = NoLoad /\ rec.pc \in {"idle", "next"}
<1>1. poll[p] \in Run
  BY DEF WebhookInv, Types
<1>2. {} \in SUBSET Loads
  OBVIOUS
<1>3. NoPoll \in Run /\ NoPoll.todo = {} /\ NoPoll.cur = NoLoad /\ NoPoll.pc = "idle"
  BY <1>2 DEF NoPoll, Run
<1>4. ASSUME Onward(p)
      PROVE  \E rec \in Run : /\ poll' = [poll EXCEPT ![p] = rec] /\ rec.todo = poll[p].todo
                              /\ rec.cur = NoLoad /\ rec.pc \in {"idle", "next"}
  <2> DEFINE l == IF poll[p].todo = {} THEN "idle" ELSE "next"
             rec == [poll[p] EXCEPT !.cur = NoLoad, !.pc = l]
  <2>1. l \in {"idle", "next"} /\ poll' = [poll EXCEPT ![p] = rec]
    BY <1>4 DEF Onward, Turn
  <2> HIDE DEF l
  <2>2. rec \in Run /\ rec.todo = poll[p].todo /\ rec.cur = NoLoad /\ rec.pc = l
    BY <1>1, <2>1 DEF Run
  <2> HIDE DEF rec
  <2> QED
    BY <2>1, <2>2
<1> QED
  BY <1>1, <1>3, <1>4

(* A poll loads every row that is due; the ones that another poll has are  *)
(* shared from now on.                                                     *)
LEMMA PollKeepsInv == ASSUME WebhookInv, NEW p \in Polls, Poll(p) PROVE WebhookInv'
<1> DEFINE T == {[id |-> d, attempts |-> row[d].attempts] : d \in FindDue}
           rec == [pc |-> "next", todo |-> T, cur |-> NoLoad]
<1>1. UNCHANGED <<hook, row, dispatch, failed, answered>> /\ poll[p].pc = "idle" /\ poll' = [poll EXCEPT ![p] = rec]
  BY DEF Poll, Turn
<1>2. FindDue \subseteq Deliveries /\ \A d \in FindDue : row[d].status = "pending" /\ row[d] \in Row
  BY DEF FindDue, WebhookInv, Types
<1>3. /\ T \subseteq Loads
      /\ \A l \in T : l.id \in FindDue /\ l.attempts = row[l.id].attempts
  BY <1>2 DEF Row, Loads
<1>4. \A l, m \in T : l.id = m.id => l = m
  OBVIOUS
<1> HIDE DEF T
<1>5. rec \in Run /\ rec.todo = T /\ rec.cur = NoLoad /\ rec.pc = "next"
  BY <1>3 DEF Run
<1> HIDE DEF rec
<1>6. poll \in [Polls -> Run]
  BY DEF WebhookInv, Types
<1>7. poll'[p] = rec /\ \A q \in Polls \ {p} : poll'[q] = poll[q]
  BY <1>1, <1>6
<1>8. HeldBy(p)' \subseteq FindDue /\ \A q \in Polls \ {p} : HeldBy(q)' = HeldBy(q)
  BY <1>3, <1>5, <1>7 DEF HeldBy
<1>9. shared' = shared \cup {d \in FindDue : \E q \in Polls \ {p} : d \in HeldBy(q)}
  BY DEF Poll
<1>10. Types'
  BY <1>1, <1>2, <1>5, <1>9 DEF WebhookInv, Types
<1>11. Calls' /\ RowsLive' /\ Tried' /\ DeadOnlyAfterAllTries'
  BY <1>1 DEF WebhookInv, Calls, RowsLive, Tried, DeadOnlyAfterAllTries
<1>12. Loaded'
  BY <1>1, <1>2, <1>3, <1>5, <1>7 DEF WebhookInv, Loaded, Tried, Busy
<1>13. Distinct'
  BY <1>4, <1>5, <1>7 DEF WebhookInv, Distinct, Busy
<1>14. Exclusive'
  BY <1>8, <1>9 DEF WebhookInv, Exclusive
<1>15. Once'
  <2> SUFFICES ASSUME NEW d \in Deliveries, d \notin shared', answered[d] = 1 PROVE Marking(d)' \/ Marked(d)'
    BY <1>1, <1>9 DEF WebhookInv, Once
  <2>1. CASE Marking(d)
    BY <2>1, <1>1, <1>7 DEF Marking
  <2>2. CASE Marked(d)
    BY <2>2, <1>1, <1>2, <1>7, <1>8 DEF Marked
  <2> QED
    BY <1>9, <2>1, <2>2 DEF WebhookInv, Once
<1> QED
  BY <1>10, <1>11, <1>12, <1>13, <1>14, <1>15 DEF WebhookInv

LEMMA LooksUpKeepsInv == ASSUME WebhookInv, NEW p \in Polls, PollLooksUp(p) PROVE WebhookInv'
<1> DEFINE found(l) == \E h \in Hooks : row[l.id].hook = h /\ hook[h] = "active"
<1>1. UNCHANGED <<hook, row, dispatch, failed, answered, shared>> /\ poll[p].pc = "next"
  BY DEF PollLooksUp, historyVars
<1>2. PICK l \in poll[p].todo :
        poll' = [poll EXCEPT ![p] = [poll[p] EXCEPT !.todo = poll[p].todo \ {l}, !.cur = l,
                                                    !.pc = IF found(l) THEN "post" ELSE "missing"]]
  BY OnwardOfRun DEF PollLooksUp, Turn, Run
<1> DEFINE T == poll[p].todo \ {l}
           s == IF found(l) THEN "post" ELSE "missing"
           rec == [poll[p] EXCEPT !.todo = T, !.cur = l, !.pc = s]
<1>3. poll \in [Polls -> Run] /\ poll[p] \in Run /\ poll[p].todo \subseteq Loads /\ T \in SUBSET Loads
  BY DEF WebhookInv, Types, Run
<1>4. l \in Loads /\ l # NoLoad /\ l.id \in Deliveries /\ l.attempts <= failed[l.id] /\ row[l.id].status # "none"
  BY <1>3, LoadsApart DEF WebhookInv, Loaded
<1>5. s \in {"post", "missing"} /\ (s = "missing" => ~found(l))
  OBVIOUS
<1>6. s = "missing" => row[l.id].status = "removed"
  <2>1. row[l.id] \in Row
    BY <1>4 DEF WebhookInv, Types
  <2>2. row[l.id].status \in There => found(l)
    BY <1>4 DEF WebhookInv, RowsLive
  <2> QED
    BY <1>4, <1>5, <2>1, <2>2 DEF Row, There
<1>7. \A m \in T : m \in poll[p].todo /\ m # l
  OBVIOUS
<1>8. poll' = [poll EXCEPT ![p] = rec]
  BY <1>2
<1> HIDE DEF T, s, found
<1>9. rec \in Run /\ rec.todo = T /\ rec.cur = l /\ rec.pc = s
  BY <1>3, <1>4, <1>5 DEF Run, Busy
<1> HIDE DEF rec
<1>10. poll'[p] = rec /\ \A q \in Polls \ {p} : poll'[q] = poll[q]
  BY <1>3, <1>8
<1>11. HeldBy(p)' \subseteq HeldBy(p) /\ \A q \in Polls \ {p} : HeldBy(q)' = HeldBy(q)
  BY <1>7, <1>9, <1>10 DEF HeldBy
<1>12. Types' /\ Calls' /\ RowsLive' /\ Tried' /\ DeadOnlyAfterAllTries'
  BY <1>1, <1>8, <1>9 DEF WebhookInv, Types, Calls, RowsLive, Tried, DeadOnlyAfterAllTries
<1>13. Loaded'
  BY <1>1, <1>4, <1>5, <1>6, <1>7, <1>9, <1>10 DEF WebhookInv, Loaded
<1>14. Distinct'
  BY <1>7, <1>9, <1>10 DEF WebhookInv, Distinct
<1>15. Exclusive'
  BY <1>1, <1>11 DEF WebhookInv, Exclusive
<1>16. Once'
  <2> SUFFICES ASSUME NEW d \in Deliveries, d \notin shared, answered[d] = 1 PROVE Marking(d)' \/ Marked(d)'
    BY <1>1 DEF WebhookInv, Once
  <2>1. CASE Marking(d)
    BY <2>1, <1>1, <1>10 DEF Marking
  <2>2. CASE Marked(d)
    BY <2>2, <1>1, <1>10, <1>11 DEF Marked
  <2> QED
    BY <2>1, <2>2 DEF WebhookInv, Once
<1> QED
  BY <1>12, <1>13, <1>14, <1>15, <1>16 DEF WebhookInv

(* An answer is counted: if nobody else has the row, it is the first. *)
LEMMA PostsKeepsInv == ASSUME WebhookInv, NEW p \in Polls, PollPosts(p) PROVE WebhookInv'
<1>1. UNCHANGED <<hook, row, dispatch, shared>> /\ poll[p].pc = "post"
  BY DEF PollPosts
<1>0. PICK d \in Deliveries : d = poll[p].cur.id
  BY <1>1, LoadsApart DEF WebhookInv, Loaded, Busy
<1>2. PICK ok \in BOOLEAN :
        /\ poll' = [poll EXCEPT ![p] = [poll[p] EXCEPT !.pc = IF ok THEN "accepted" ELSE "rejected"]]
        /\ answered' = [answered EXCEPT ![d] = IF ok /\ answered[d] < 2 THEN answered[d] + 1 ELSE answered[d]]
        /\ failed' = [failed EXCEPT ![d] = IF ~ok /\ failed[d] < MaxAttempts THEN failed[d] + 1 ELSE failed[d]]
  <2>1. answered \in [Deliveries -> 0 .. 2] /\ failed \in [Deliveries -> 0 .. MaxAttempts]
    BY DEF WebhookInv, Types
  <2> QED
    BY <1>0, <2>1 DEF PollPosts, Turn, Outcomes
<1>3. /\ poll \in [Polls -> Run] /\ poll[p] \in Run /\ poll[p].todo \subseteq Loads
      /\ answered \in [Deliveries -> 0 .. 2] /\ failed \in [Deliveries -> 0 .. MaxAttempts]
  BY DEF WebhookInv, Types, Run
<1>4. /\ poll[p].cur \in Loads /\ poll[p].cur # NoLoad /\ d \in Deliveries /\ poll[p].cur.attempts \in 0 .. MaxAttempts - 1
      /\ poll[p].cur.attempts <= failed[d] /\ row[d].status # "none"
  BY <1>0, <1>1, LoadsApart DEF WebhookInv, Loaded, Busy
<1> DEFINE s == IF ok THEN "accepted" ELSE "rejected"
           rec == [poll[p] EXCEPT !.pc = s]
<1>5. s \in {"accepted", "rejected"} /\ (s = "rejected" <=> ~ok) /\ poll' = [poll EXCEPT ![p] = rec]
  BY <1>2
<1> HIDE DEF s
<1>6. rec \in Run /\ rec.todo = poll[p].todo /\ rec.cur = poll[p].cur /\ rec.pc = s
  BY <1>3, <1>5 DEF Run, Busy
<1> HIDE DEF rec
<1>7. poll'[p] = rec /\ \A q \in Polls \ {p} : poll'[q] = poll[q]
  BY <1>3, <1>5
<1>8. \A q \in Polls : HeldBy(q)' = HeldBy(q)
  BY <1>6, <1>7 DEF HeldBy
<1>9. /\ failed' \in [Deliveries -> 0 .. MaxAttempts] /\ \A e \in Deliveries : failed[e] <= failed'[e]
      /\ (~ok => poll[p].cur.attempts + 1 <= failed'[d])
  BY <1>2, <1>3, <1>4 DEF MaxAttempts
<1>10. answered' \in [Deliveries -> 0 .. 2] /\ \A e \in Deliveries \ {d} : answered'[e] = answered[e]
  <2>1. answered[d] \in 0 .. 2
    BY <1>3
  <2>2. (IF ok /\ answered[d] < 2 THEN answered[d] + 1 ELSE answered[d]) \in 0 .. 2
    BY <2>1
  <2> QED
    BY <1>2, <1>3, <2>2
<1>11. Types'
  BY <1>1, <1>5, <1>6, <1>9, <1>10 DEF WebhookInv, Types
<1>12. Calls' /\ RowsLive'
  BY <1>1 DEF WebhookInv, Calls, RowsLive
<1>13. Tried' /\ DeadOnlyAfterAllTries'
  <2>1. \A e \in Deliveries : row[e].attempts \in Nat
    BY DEF WebhookInv, Types, Row, MaxAttempts
  <2> QED
    BY <1>1, <1>3, <1>9, <2>1 DEF WebhookInv, Tried, DeadOnlyAfterAllTries, MaxAttempts
<1>14. Loaded'
  <2>1. \A q \in Polls : \A l \in poll[q].todo : l.id \in Deliveries /\ l.attempts \in Nat
    BY <1>3, LoadsApart DEF Run, MaxAttempts
  <2>2. \A q \in Polls : poll[q].pc \in Busy => poll[q].cur.id \in Deliveries /\ poll[q].cur.attempts \in Nat
    BY LoadsApart DEF WebhookInv, Loaded, MaxAttempts
  <2> SUFFICES ASSUME NEW q \in Polls
               PROVE  /\ \A l \in poll'[q].todo : row[l.id].status # "none" /\ l.attempts <= failed'[l.id]
                      /\ poll'[q].pc \in Busy => /\ poll'[q].cur \in Loads /\ row[poll'[q].cur.id].status # "none"
                                                 /\ poll'[q].cur.attempts <= failed'[poll'[q].cur.id]
                      /\ poll'[q].pc = "rejected" => poll'[q].cur.attempts + 1 <= failed'[poll'[q].cur.id]
                      /\ poll'[q].pc = "missing" => row[poll'[q].cur.id].status = "removed"
    BY <1>1 DEF Loaded
  <2>3. \A e \in Deliveries : failed[e] \in Nat /\ failed'[e] \in Nat /\ failed[e] <= failed'[e]
    BY <1>3, <1>9 DEF MaxAttempts
  <2>4. poll'[q].todo = poll[q].todo /\ poll'[q].cur = poll[q].cur
    BY <1>6, <1>7
  <2>5. \A l \in poll'[q].todo : row[l.id].status # "none" /\ l.attempts <= failed'[l.id]
    BY <2>1, <2>3, <2>4 DEF WebhookInv, Loaded
  <2>6. CASE q = p
    BY <2>5, <2>6, <2>3, <1>0, <1>4, <1>5, <1>6, <1>7, <1>9
  <2>7. CASE q # p
    BY <2>5, <2>7, <2>3, <2>2, <1>7 DEF WebhookInv, Loaded, Busy
  <2> QED
    BY <2>6, <2>7
<1>15. Distinct'
  BY <1>1, <1>6, <1>7 DEF WebhookInv, Distinct, Busy
<1>16. Exclusive'
  BY <1>1, <1>8 DEF WebhookInv, Exclusive
<1>17. Once'
  <2>1. d \in HeldBy(p)
    BY <1>0, <1>4 DEF HeldBy
  <2>2. d \notin shared => answered[d] = 0
    <3>1. ASSUME d \notin shared, Marking(d) PROVE FALSE
      <4>1. PICK q \in Polls : poll[q].pc = "accepted" /\ poll[q].cur.id = d
        BY <3>1 DEF Marking
      <4>2. poll[q].cur \in Loads
        BY <4>1 DEF WebhookInv, Loaded, Busy
      <4>3. d \in HeldBy(q)
        BY <4>1, <4>2, LoadsApart DEF HeldBy
      <4>4. p = q
        BY <2>1, <3>1, <4>3, <1>4 DEF WebhookInv, Exclusive
      <4> QED
        BY <4>1, <4>4, <1>1
    <3>2. ~Marked(d)
      BY <2>1, <1>1 DEF Marked
    <3>3. d \notin shared => answered[d] # 1 /\ answered[d] <= 1
      BY <1>4, <3>1, <3>2 DEF WebhookInv, Once
    <3> QED
      BY <3>3, <1>3, <1>4
  <2>3. d \notin shared => answered'[d] <= 1 /\ (answered'[d] = 1 => Marking(d)')
    <3> SUFFICES ASSUME d \notin shared PROVE answered'[d] <= 1 /\ (answered'[d] = 1 => Marking(d)')
      OBVIOUS
    <3>1. answered'[d] = IF ok THEN 1 ELSE 0
      BY <2>2, <1>2, <1>3, <1>4
    <3>2. ok => poll'[p].pc = "accepted" /\ poll'[p].cur.id = d
      BY <1>0, <1>5, <1>6, <1>7
    <3> QED
      BY <3>1, <3>2 DEF Marking
  <2>4. ASSUME NEW e \in Deliveries, e # d, e \notin shared, answered[e] = 1 PROVE Marking(e)' \/ Marked(e)'
    <3>1. CASE Marking(e)
      BY <3>1, <2>4, <1>1, <1>7 DEF Marking
    <3>2. CASE Marked(e)
      BY <3>2, <1>1, <1>7, <1>8 DEF Marked
    <3> QED
      BY <2>4, <3>1, <3>2 DEF WebhookInv, Once
  <2> SUFFICES ASSUME NEW e \in Deliveries
               PROVE  /\ row[e].status = "none" => answered'[e] = 0
                      /\ e \notin shared => answered'[e] <= 1
                      /\ e \notin shared /\ answered'[e] = 1 => Marking(e)' \/ Marked(e)'
    BY <1>1 DEF Once
  <2>5. CASE e = d
    BY <2>3, <2>5, <1>4
  <2>6. CASE e # d
    BY <2>4, <2>6, <1>10 DEF WebhookInv, Once
  <2> QED
    BY <2>5, <2>6
<1> QED
  BY <1>11, <1>12, <1>13, <1>14, <1>15, <1>16, <1>17 DEF WebhookInv

---------------------------------------------------------------------------
(* What a poll may write to the row it works on, and where it goes then. *)
LEMMA WriteKeepsInv ==
  ASSUME WebhookInv, NEW p \in Polls, poll[p].pc \in Busy, NEW d \in Deliveries, d = poll[p].cur.id,
         UNCHANGED <<hook, dispatch, failed, answered, shared>>,
         NEW new \in Row, row' = [row EXCEPT ![d] = new],
         new.hook = row[d].hook, new.attempts <= failed[d],
         new.status # "none", new.status = "removed" <=> row[d].status = "removed",
         new.status = "dead_letter" => failed[d] >= MaxAttempts,
         new.status = "pending" => row[d].status = "pending",
         NEW rec \in Run, poll' = [poll EXCEPT ![p] = rec], rec.todo = poll[p].todo,
         \/ rec.cur = NoLoad /\ rec.pc \in {"idle", "next"}
         \/ rec.cur = poll[p].cur /\ rec.pc = "success",
         poll[p].pc = "accepted" => new.status # "pending" /\ rec.cur = poll[p].cur
  PROVE  WebhookInv'
<1>1. /\ poll \in [Polls -> Run] /\ poll[p] \in Run /\ poll[p].todo \subseteq Loads
      /\ row \in [Deliveries -> Row] /\ row[d] \in Row
  BY DEF WebhookInv, Types, Run
<1>2. poll[p].cur \in Loads /\ poll[p].cur # NoLoad /\ row[d].status # "none" /\ poll[p].cur.attempts <= failed[d]
  BY LoadsApart DEF WebhookInv, Loaded
<1>3. poll'[p] = rec /\ \A q \in Polls \ {p} : poll'[q] = poll[q]
  BY <1>1
<1>4. row'[d] = new /\ \A e \in Deliveries \ {d} : row'[e] = row[e]
  BY <1>1
<1>5. d \in HeldBy(p) /\ HeldBy(p)' \subseteq HeldBy(p) /\ \A q \in Polls \ {p} : HeldBy(q)' = HeldBy(q)
  BY <1>2, <1>3 DEF HeldBy
<1>6. d \in HeldBy(p)' => rec.pc = "success" /\ rec.cur = poll[p].cur
  BY <1>1, <1>3 DEF HeldBy, WebhookInv, Distinct
<1>7. Types' /\ Calls'
  BY <1>1 DEF WebhookInv, Types, Calls
<1>8. RowsLive'
  <2>1. new.status \in There => row[d].status \in There
    BY <1>1, <1>2 DEF Row, There
  <2> QED
    BY <1>4, <2>1 DEF WebhookInv, RowsLive
<1>9. Tried' /\ DeadOnlyAfterAllTries'
  BY <1>4 DEF WebhookInv, Tried, DeadOnlyAfterAllTries
<1>10. Loaded'
  <2>1. \A q \in Polls : \A l \in poll[q].todo : l.id \in Deliveries
    BY <1>1, LoadsApart DEF Run
  <2>2. \A q \in Polls : poll[q].pc \in Busy => poll[q].cur.id \in Deliveries
    BY LoadsApart DEF WebhookInv, Loaded
  <2>3. \A e \in Deliveries : (row[e].status # "none" => row'[e].status # "none")
                              /\ (row[e].status = "removed" => row'[e].status = "removed")
    BY <1>4
  <2>4. rec.pc \in Busy => rec.pc = "success" /\ rec.cur = poll[p].cur
    BY DEF Busy
  <2> SUFFICES ASSUME NEW q \in Polls
               PROVE  /\ \A l \in poll'[q].todo : row'[l.id].status # "none" /\ l.attempts <= failed[l.id]
                      /\ poll'[q].pc \in Busy => /\ poll'[q].cur \in Loads /\ row'[poll'[q].cur.id].status # "none"
                                                 /\ poll'[q].cur.attempts <= failed[poll'[q].cur.id]
                      /\ poll'[q].pc = "rejected" => poll'[q].cur.attempts + 1 <= failed[poll'[q].cur.id]
                      /\ poll'[q].pc = "missing" => row'[poll'[q].cur.id].status = "removed"
    BY DEF Loaded
  <2>5. CASE q = p
    BY <2>1, <2>3, <2>4, <2>5, <1>2, <1>3, <1>4 DEF WebhookInv, Loaded, Busy
  <2>6. CASE q # p
    BY <2>1, <2>2, <2>3, <2>6, <1>3 DEF WebhookInv, Loaded, Busy
  <2> QED
    BY <2>5, <2>6
<1>11. Distinct'
  BY <1>3 DEF WebhookInv, Distinct, Busy
<1>12. Exclusive'
  BY <1>5 DEF WebhookInv, Exclusive
<1>13. Once'
  <2>1. ASSUME d \notin shared, Marking(d) PROVE Marked(d)'
    <3>1. PICK q \in Polls : poll[q].pc = "accepted" /\ poll[q].cur.id = d
      BY <2>1 DEF Marking
    <3>2. d \in HeldBy(q)
      BY <3>1, LoadsApart DEF HeldBy, WebhookInv, Loaded, Busy
    <3>3. q = p
      BY <2>1, <3>2, <1>5 DEF WebhookInv, Exclusive
    <3>4. \A o \in Polls \ {p} : d \notin HeldBy(o)'
      BY <2>1, <1>5 DEF WebhookInv, Exclusive
    <3> QED
      BY <3>1, <3>3, <3>4, <1>3, <1>4, <1>6 DEF Marked
  <2>2. ASSUME Marked(d) PROVE Marked(d)'
    <3>1. \A q \in Polls \ {p} : d \in HeldBy(q)' => poll'[q].pc = "success" /\ poll'[q].cur.id = d
      BY <2>2, <1>3, <1>5 DEF Marked
    <3> QED
      BY <2>2, <3>1, <1>3, <1>4, <1>6 DEF Marked
  <2>3. ASSUME NEW e \in Deliveries \ {d}, Marking(e) PROVE Marking(e)'
    BY <2>3, <1>3 DEF Marking
  <2>4. ASSUME NEW e \in Deliveries \ {d}, Marked(e) PROVE Marked(e)'
    <3>1. e \notin HeldBy(p)
      BY <2>4 DEF Marked
    <3> QED
      BY <2>4, <3>1, <1>3, <1>4, <1>5 DEF Marked
  <2> SUFFICES ASSUME NEW e \in Deliveries
               PROVE  /\ row'[e].status = "none" => answered[e] = 0
                      /\ e \notin shared => answered[e] <= 1
                      /\ e \notin shared /\ answered[e] = 1 => Marking(e)' \/ Marked(e)'
    BY DEF Once
  <2>5. CASE e = d
    BY <2>1, <2>2, <2>5, <1>4 DEF WebhookInv, Once
  <2>6. CASE e # d
    BY <2>3, <2>4, <2>6, <1>4 DEF WebhookInv, Once
  <2> QED
    BY <2>5, <2>6
<1> QED
  BY <1>7, <1>8, <1>9, <1>10, <1>11, <1>12, <1>13 DEF WebhookInv

(* The four steps that end a poll's work on a row.  A row is given up with *)
(* the count that was loaded, so it is given up only after that many tries.*)
LEMMA WorkKeepsInv ==
  ASSUME WebhookInv, NEW p \in Polls,
         PollDelivered(p) \/ PollRecordsSuccess(p) \/ PollRejected(p) \/ PollFindsNoWebhook(p)
  PROVE  WebhookInv'
<1>1. UNCHANGED <<hook, dispatch, failed, answered, shared>> /\ poll[p].pc \in Busy
  BY DEF PollDelivered, PollRecordsSuccess, PollRejected, PollFindsNoWebhook, historyVars, Busy
<1>2. /\ poll \in [Polls -> Run] /\ poll[p] \in Run /\ row \in [Deliveries -> Row]
      /\ failed \in [Deliveries -> 0 .. MaxAttempts]
  BY DEF WebhookInv, Types
<1>3. PICK d \in Deliveries : d = poll[p].cur.id
  BY <1>1, LoadsApart DEF WebhookInv, Loaded
<1>4. row[d] \in Row /\ row[d].status # "none" /\ row[d].attempts <= failed[d] /\ failed[d] \in 0 .. MaxAttempts
  BY <1>1, <1>2, <1>3 DEF WebhookInv, Loaded, Tried
<1>5. row[d].status = "dead_letter" => failed[d] >= MaxAttempts
  BY DEF WebhookInv, DeadOnlyAfterAllTries
<1>6. CASE PollDelivered(p)
  <2> DEFINE new == IF row[d].status = "removed" THEN row[d] ELSE [row[d] EXCEPT !.status = "delivered"]
             rec == [poll[p] EXCEPT !.pc = "success"]
  <2>1. row' = [row EXCEPT ![d] = new] /\ poll' = [poll EXCEPT ![p] = rec]
    BY <1>2, <1>3, <1>6 DEF PollDelivered, WriteRow, Turn
  <2>2. [row[d] EXCEPT !.status = "delivered"] \in Row
    BY <1>4 DEF Row, There
  <2>3. /\ new \in Row /\ new.hook = row[d].hook /\ new.attempts = row[d].attempts /\ new.status # "none"
        /\ new.status # "pending" /\ new.status # "dead_letter" /\ (new.status = "removed" <=> row[d].status = "removed")
    BY <1>4, <2>2 DEF Row
  <2>4. rec \in Run /\ rec.todo = poll[p].todo /\ rec.cur = poll[p].cur /\ rec.pc = "success"
    BY <1>2 DEF Run, Busy
  <2> HIDE DEF new, rec
  <2> QED
    BY <1>1, <1>3, <1>4, <2>1, <2>3, <2>4, WriteKeepsInv
<1>7. CASE PollRecordsSuccess(p)
  <2>1. PICK rec \in Run : /\ poll' = [poll EXCEPT ![p] = rec] /\ rec.todo = poll[p].todo
                           /\ rec.cur = NoLoad /\ rec.pc \in {"idle", "next"}
    BY <1>7, OnwardOfRun DEF PollRecordsSuccess
  <2>2. row' = [row EXCEPT ![d] = row[d]] /\ poll[p].pc # "accepted"
    BY <1>2, <1>7 DEF PollRecordsSuccess
  <2> QED
    BY <1>1, <1>3, <1>4, <1>5, <2>1, <2>2, WriteKeepsInv
<1>8. CASE PollRejected(p)
  <2> DEFINE n == poll[p].cur.attempts
             gone == [row[d] EXCEPT !.status = "dead_letter"]
             later == [row[d] EXCEPT !.attempts = n + 1, !.due = FALSE]
             new == IF row[d].status = "removed" THEN row[d] ELSE IF GiveUpAt(n) THEN gone ELSE later
  <2>1. PICK rec \in Run : /\ poll' = [poll EXCEPT ![p] = rec] /\ rec.todo = poll[p].todo
                           /\ rec.cur = NoLoad /\ rec.pc \in {"idle", "next"}
    BY <1>8, OnwardOfRun DEF PollRejected
  <2>2. row' = [row EXCEPT ![d] = new] /\ poll[p].pc = "rejected"
    BY <1>2, <1>3, <1>8 DEF PollRejected, WriteRow, AttemptsOf
  <2>3. n \in 0 .. MaxAttempts - 1 /\ n + 1 <= failed[d]
    BY <1>1, <1>3, <2>2, LoadsApart DEF WebhookInv, Loaded
  <2>4. gone \in Row /\ gone.hook = row[d].hook /\ gone.attempts = row[d].attempts /\ gone.status = "dead_letter"
    BY <1>4 DEF Row, There
  <2>5. ~GiveUpAt(n) => /\ later \in Row /\ later.hook = row[d].hook /\ later.attempts <= failed[d]
                        /\ later.status = row[d].status
    <3>1. ~GiveUpAt(n) => n + 1 \in 0 .. MaxAttempts - 1
      BY <2>3 DEF GiveUpAt, MaxAttempts
    <3> HIDE DEF n
    <3> QED
      BY <1>4, <2>3, <3>1 DEF Row
  <2>6. GiveUpAt(n) => failed[d] >= MaxAttempts
    BY <2>3, <1>4 DEF GiveUpAt, MaxAttempts
  <2> HIDE DEF gone, later, n
  <2>7. /\ new \in Row /\ new.hook = row[d].hook /\ new.attempts <= failed[d]
        /\ new.status # "none" /\ (new.status = "removed" <=> row[d].status = "removed")
        /\ (new.status = "dead_letter" => failed[d] >= MaxAttempts)
        /\ (new.status = "pending" => row[d].status = "pending")
    BY <1>4, <1>5, <2>4, <2>5, <2>6
  <2> HIDE DEF new
  <2> QED
    BY <1>1, <1>3, <2>1, <2>2, <2>7, WriteKeepsInv
<1>9. CASE PollFindsNoWebhook(p)
  <2>1. PICK rec \in Run : /\ poll' = [poll EXCEPT ![p] = rec] /\ rec.todo = poll[p].todo
                           /\ rec.cur = NoLoad /\ rec.pc \in {"idle", "next"}
    BY <1>9, OnwardOfRun DEF PollFindsNoWebhook
  <2>2. poll[p].pc = "missing" /\ row[d].status = "removed"
    BY <1>3, <1>9 DEF PollFindsNoWebhook, WebhookInv, Loaded
  <2>3. row' = [row EXCEPT ![d] = row[d]]
    BY <1>2, <1>3, <1>9, <2>2 DEF PollFindsNoWebhook, WriteRow
  <2> QED
    BY <1>1, <1>3, <1>4, <1>5, <2>1, <2>2, <2>3, WriteKeepsInv
<1> QED
  BY <1>6, <1>7, <1>8, <1>9

(* A poll that stops forgets its list; an answer it had is not recorded. *)
LEMMA StopsKeepsInv == ASSUME WebhookInv, NEW p \in Polls, PollStops(p) PROVE WebhookInv'
<1>1. UNCHANGED <<hook, row, dispatch, failed, answered>> /\ poll' = [poll EXCEPT ![p] = NoPoll]
  BY DEF PollStops, Turn
<1>2. /\ poll \in [Polls -> Run] /\ NoPoll \in Run /\ NoPoll.todo = {} /\ NoPoll.cur = NoLoad /\ NoPoll.pc = "idle"
  BY OnwardOfRun DEF WebhookInv, Types
<1>3. poll'[p] = NoPoll /\ \A q \in Polls \ {p} : poll'[q] = poll[q]
  BY <1>1, <1>2
<1>4. HeldBy(p)' = {} /\ \A q \in Polls \ {p} : HeldBy(q)' = HeldBy(q)
  BY <1>2, <1>3 DEF HeldBy
<1>5. shared \subseteq shared' /\ shared' \subseteq Deliveries /\ (poll[p].pc = "accepted" => poll[p].cur.id \in shared')
  BY LoadsApart DEF PollStops, WebhookInv, Types, Loaded, Busy
<1>6. Types' /\ Calls' /\ RowsLive' /\ Tried' /\ DeadOnlyAfterAllTries'
  BY <1>1, <1>2, <1>5 DEF WebhookInv, Types, Calls, RowsLive, Tried, DeadOnlyAfterAllTries
<1>7. Loaded' /\ Distinct'
  <2>1. Loaded'
    BY <1>1, <1>2, <1>3 DEF WebhookInv, Loaded, Busy
  <2>2. Distinct'
    BY <1>2, <1>3 DEF WebhookInv, Distinct, Busy
  <2> QED
    BY <2>1, <2>2
<1>8. Exclusive'
  BY <1>4, <1>5 DEF WebhookInv, Exclusive
<1>9. Once'
  <2> SUFFICES ASSUME NEW d \in Deliveries, d \notin shared', answered[d] = 1 PROVE Marking(d)' \/ Marked(d)'
    BY <1>1, <1>5 DEF WebhookInv, Once
  <2>1. CASE Marking(d)
    BY <2>1, <1>3, <1>5 DEF Marking
  <2>2. CASE Marked(d)
    BY <2>2, <1>1, <1>3, <1>4 DEF Marked
  <2> QED
    BY <1>5, <2>1, <2>2 DEF WebhookInv, Once
<1> QED
  BY <1>6, <1>7, <1>8, <1>9 DEF WebhookInv

---------------------------------------------------------------------------
LEMMA NextInv == WebhookInv /\ [WebhookNext]_webhookVars => WebhookInv'
<1> SUFFICES ASSUME WebhookInv, [WebhookNext]_webhookVars PROVE WebhookInv'
  OBVIOUS
<1>1. CASE \E h \in Hooks : CreateWebhook(h) \/ DeleteWebhook(h)
  BY <1>1, HooksKeepInv
<1>2. CASE \E p \in Dispatchers : DispatchStep(p)
  BY <1>2, DispatchKeepsInv, EnqueueKeepsInv DEF DispatchStep
<1>3. CASE \E p \in Polls : PollStep(p)
  BY <1>3, PollKeepsInv, LooksUpKeepsInv, PostsKeepsInv, WorkKeepsInv, StopsKeepsInv DEF PollStep
<1>4. CASE \E d \in Deliveries : BackoffElapses(d)
  BY <1>4, BackoffKeepsInv
<1>5. CASE UNCHANGED webhookVars
  BY <1>5 DEF webhookVars, WebhookInv, Types, Calls, RowsLive, Loaded, Tried, Distinct, Exclusive, Once,
              DeadOnlyAfterAllTries, HeldBy, Marking, Marked
<1> QED
  BY <1>1, <1>2, <1>3, <1>4, <1>5 DEF WebhookNext

LEMMA SpecInv == WebhookSpec => []WebhookInv
<1> QED
  BY InitInv, NextInv, PTL DEF WebhookSpec

(* processDueRetries gives a delivery up only after MAX_ATTEMPTS retries   *)
(* failed, although overlapping polls overwrite each other's counts.       *)
THEOREM GivenUpCorrect == WebhookSpec => []DeadOnlyAfterAllTries
<1>1. WebhookInv => DeadOnlyAfterAllTries
  BY DEF WebhookInv
<1> QED
  BY <1>1, SpecInv, PTL

(* An endpoint that answered a retry is asked again only when two polls    *)
(* had loaded the row at once, or the answer was never recorded.           *)
THEOREM RepeatsCorrect == WebhookSpec => []RepeatsOnlyOverlap
<1>1. WebhookInv => RepeatsOnlyOverlap
  BY DEF WebhookInv, Types, Once, RepeatsOnlyOverlap
<1> QED
  BY <1>1, SpecInv, PTL
==============================================================================
