----------------------------- MODULE QuotaProofs -----------------------------
(***************************************************************************)
(* What the query quota keeps for any number of requests, connections and  *)
(* streams and any limit: an answer that reached its client is counted,    *)
(* the warning is mailed once unless a claim was rolled back, and the      *)
(* limit is overshot by what was in flight together at most.  They rest on *)
(* which connection a request holds, and on what the transactions that are *)
(* open have written.                                                      *)
(***************************************************************************)
EXTENDS Quota, FiniteSetTheorems, TLAPS

(* A connection that is checked out is in its holder's scoped transaction, *)
(* which only another handler's stray has aborted.                         *)
Conns ==
  /\ conn \in [Clients -> Connection] /\ owner \in [Clients -> Requests \cup {Nobody}]
  /\ \A c \in Clients : owner[c] = Nobody => conn[c] = Clean
  /\ \A c \in Clients : owner[c] # Nobody =>
       /\ conn[c].tx \in {"open", "aborted"} /\ conn[c].org = Org
       /\ scope[owner[c]] = "held" /\ client[owner[c]] = c
       /\ conn[c].tx = "aborted" => conn[c].pending = {} /\ owner[c] \in struck
Handlers ==
  /\ client \in [Requests -> Clients \cup {NoClient}] /\ scope \in [Requests -> {"none", "held", "released"}]
  /\ pc \in [Requests -> PCs]
  /\ \A r \in Requests : pc[r] # "waiting" => client[r] \in Clients /\ scope[r] # "none"
  /\ \A r \in Requests : scope[r] = "held" => client[r] \in Clients /\ owner[client[r]] = r /\ pc[r] # "waiting"
Answers ==
  /\ seen \in [Requests -> Nat]
  /\ answer \in [Requests -> {"none", "partial", "full", "cut", "quota", "error"}]
Sets ==
  /\ saved \subseteq Rows /\ due \subseteq Requests /\ mails \subseteq Requests
  /\ peak \in Nat /\ blind \subseteq Requests /\ lost \subseteq Requests /\ struck \subseteq Requests

(* A handler that is about to end its answer has written its count, unless *)
(* its transaction was struck.                                             *)
Counting ==
  /\ \A r \in Requests : scope[r] = "held" /\ (pc[r] = "end" \/ (pc[r] = "claim" /\ r \notin Streams))
       => Count(r) \in conn[client[r]].pending \/ r \in struck
  /\ \A r \in Requests : scope[r] = "held" /\ answer[r] = "partial"
       => r \in Streams /\ (pc[r] \in {"stream", "account", "end"} \/ (pc[r] = "failed" /\ r \in struck))
  /\ \A r \in Requests : pc[r] = "waiting" => answer[r] = "none"
  /\ DeliveredIsCounted

(* The claims that were not rolled back: at most one. *)
Alive(r) == Claimed(r) \in saved \/ \E c \in Clients : Claimed(r) \in conn[c].pending
Claims ==
  /\ \A r \in due \cup mails : Alive(r) \/ r \in lost
  /\ \A q, r \in Requests : Alive(q) /\ Alive(r) => q = r

(* What is counted already and what is still in flight: a query that sees  *)
(* the counter is admitted below the limit, whatever is in flight then.    *)
Outstanding == {r \in Requests : Count(r) \in saved} \cup InFlight
Admissions ==
  /\ \A r \in blind : pc[r] \notin {"waiting", "check"}
  /\ Cardinality(Outstanding) < Limit + peak + Cardinality(blind)

QuotaInv == Conns /\ Handlers /\ Answers /\ Sets /\ Counting /\ Claims /\ Admissions

---------------------------------------------------------------------------
LEMMA RowsApart ==
  /\ \A r \in Requests : Count(r) \in Rows /\ Claimed(r) \in Rows
  /\ \A q, r \in Requests : Count(q) # Claimed(r) /\ (Count(q) = Count(r) => q = r) /\ (Claimed(q) = Claimed(r) => q = r)
  BY DEF Count, Claimed, Rows

(* The number of counted queries among the rows. *)
LEMMA UsedIsNat == ASSUME NEW S PROVE Used(S) \in Nat /\ (S = {} => Used(S) = 0)
<1> DEFINE T == {r \in Requests : Count(r) \in S}
<1>1. IsFiniteSet(T)
  BY QuotaAssumption, FS_Subset
<1>2. Cardinality(T) \in Nat
  BY <1>1, FS_CardinalityType
<1>3. S = {} => T = {}
  OBVIOUS
<1>4. Cardinality({}) = 0
  BY FS_EmptySet
<1> QED
  BY <1>2, <1>3, <1>4 DEF Used

(* So are the queries outstanding, and those admitted where the counter is *)
(* invisible; fewer of the former keep the bound.                          *)
LEMMA OutstandingIsFinite ==
  /\ IsFiniteSet(Outstanding) /\ Cardinality(Outstanding) \in Nat
  /\ IsFiniteSet(InFlight) /\ Cardinality(InFlight) \in Nat
  /\ Sets => IsFiniteSet(blind) /\ Cardinality(blind) \in Nat
<1>1. Outstanding \subseteq Requests /\ InFlight \subseteq Requests /\ (Sets => blind \subseteq Requests)
  BY DEF Outstanding, InFlight, Sets
<1> QED
  BY <1>1, QuotaAssumption, FS_Subset, FS_CardinalityType

LEMMA OneMore ==
  ASSUME NEW S, IsFiniteSet(S), NEW x
  PROVE  /\ IsFiniteSet(S \cup {x}) /\ Cardinality(S \cup {x}) \in Nat
         /\ Cardinality(S \cup {x}) <= Cardinality(S) + 1
<1>1. IsFiniteSet(S \cup {x}) /\ (Cardinality(S \cup {x}) = Cardinality(S) \/ Cardinality(S \cup {x}) = Cardinality(S) + 1)
  BY FS_AddElement
<1>2. Cardinality(S) \in Nat /\ Cardinality(S \cup {x}) \in Nat
  BY <1>1, FS_CardinalityType
<1> QED
  BY <1>1, <1>2

LEMMA FewerOutstanding ==
  ASSUME QuotaInv, UNCHANGED <<peak, blind>>, Outstanding' \subseteq Outstanding,
         \A q \in blind : pc'[q] \notin {"waiting", "check"}
  PROVE  Admissions'
<1> DEFINE S == Outstanding  T == Outstanding'
<1>1. IsFiniteSet(S) /\ Cardinality(S) \in Nat /\ Cardinality(blind) \in Nat /\ peak \in Nat /\ Limit \in Nat
  BY OutstandingIsFinite, QuotaAssumption DEF QuotaInv, Sets
<1>2. T \subseteq S /\ Cardinality(S) < Limit + peak + Cardinality(blind)
  BY DEF QuotaInv, Admissions
<1> HIDE DEF S, T
<1>3. IsFiniteSet(T) /\ Cardinality(T) <= Cardinality(S)
  BY <1>1, <1>2, FS_Subset
<1>4. Cardinality(T) \in Nat
  BY <1>3, FS_CardinalityType
<1>5. Cardinality(T) < Limit + peak + Cardinality(blind)
  BY <1>1, <1>2, <1>3, <1>4
<1> QED
  BY <1>5 DEF T, Admissions

LEMMA CleanIsConnection == Clean \in Connection /\ Clean.pending = {} /\ Clean.tx = "none"
<1>1. {} \in SUBSET Rows
  OBVIOUS
<1> QED
  BY <1>1 DEF Clean, Connection

LEMMA OpenedIsConnection ==
  LET cn == Scoped(Begun(Clean), Org) IN
  cn \in Connection /\ cn.tx = "open" /\ cn.org = Org /\ cn.pending = {}
  BY CleanIsConnection DEF Scoped, Begun, Connection, Orgs

(* A write goes to the transaction, or is committed where there is none. *)
LEMMA WriteOfRow ==
  ASSUME NEW cn \in Connection, cn.tx = "open" \/ cn = Clean, NEW row \in Rows, NEW rows
  PROVE  /\ Written(cn, row) \in Connection
         /\ Written(cn, row).tx = cn.tx /\ Written(cn, row).org = cn.org
         /\ cn = Clean => Written(cn, row) = Clean /\ Saved(cn, row, rows) = rows \cup {row}
         /\ cn.tx = "open" => Written(cn, row).pending = cn.pending \cup {row} /\ Saved(cn, row, rows) = rows
<1>1. CASE cn.tx = "open"
  <2> DEFINE P == cn.pending \cup {row}
  <2>1. P \in SUBSET Rows /\ Written(cn, row) = [cn EXCEPT !.pending = P] /\ cn # Clean
    BY <1>1, CleanIsConnection DEF Written, Connection
  <2> HIDE DEF P
  <2>2. Written(cn, row) \in Connection /\ Written(cn, row).tx = cn.tx /\ Written(cn, row).org = cn.org
        /\ Written(cn, row).pending = P
    BY <2>1 DEF Connection
  <2> QED
    BY <1>1, <2>1, <2>2 DEF Saved, P
<1>2. CASE cn = Clean
  BY <1>2, CleanIsConnection DEF Written, Saved
<1> QED
  BY <1>1, <1>2

LEMMA InitInv == Init => QuotaInv
<1> SUFFICES ASSUME Init PROVE QuotaInv
  OBVIOUS
<1>1. Conns /\ Handlers /\ Answers /\ Sets
  BY CleanIsConnection DEF Init, Conns, Handlers, Answers, Sets, PCs
<1>2. Counting /\ Claims
  BY CleanIsConnection DEF Init, Counting, Claims, Alive, DeliveredIsCounted
<1>3. Admissions
  <2>1. Outstanding = {} /\ blind = {} /\ peak = 0
    BY CleanIsConnection DEF Init, Outstanding, InFlight
  <2> QED
    BY <2>1, QuotaAssumption, FS_EmptySet DEF Admissions
<1> QED
  BY <1>1, <1>2, <1>3 DEF QuotaInv

---------------------------------------------------------------------------
(* A request gets a connection that nobody has, and opens its transaction. *)
LEMMA OpenKeepsInv == ASSUME QuotaInv, NEW r \in Requests, NEW c \in Clients, Open(r, c) PROVE QuotaInv'
<1> DEFINE cn == Scoped(Begun(Clean), Org)
<1>1. /\ pc[r] = "waiting" /\ owner[c] = Nobody /\ r # Nobody /\ scope[r] # "held"
      /\ owner' = [owner EXCEPT ![c] = r] /\ client' = [client EXCEPT ![r] = c]
      /\ scope' = [scope EXCEPT ![r] = "held"] /\ pc' = [pc EXCEPT ![r] = "check"]
      /\ UNCHANGED <<seen, answer, saved, due, mails, peak, blind, lost, struck>>
  BY QuotaAssumption DEF Open, Goto, ghosts, QuotaInv, Handlers
<1>2. conn' = [conn EXCEPT ![c] = cn] /\ conn[c] = Clean
  BY <1>1 DEF Open, QuotaInv, Conns
<1> HIDE DEF cn
<1>3. cn \in Connection /\ cn.tx = "open" /\ cn.org = Org /\ cn.pending = {}
  BY OpenedIsConnection DEF cn
<1>4. \A d \in Clients : conn'[d].pending = conn[d].pending
  BY <1>2, <1>3, CleanIsConnection DEF QuotaInv, Conns
<1>5. Conns'
  BY <1>1, <1>2, <1>3 DEF QuotaInv, Conns, Handlers
<1>6. Handlers'
  <2>1. /\ client' \in [Requests -> Clients \cup {NoClient}] /\ scope' \in [Requests -> {"none", "held", "released"}]
        /\ pc' \in [Requests -> PCs]
    BY <1>1 DEF QuotaInv, Handlers, PCs
  <2>2. client'[r] = c /\ scope'[r] = "held" /\ pc'[r] = "check" /\ owner'[c] = r
    BY <1>1 DEF QuotaInv, Conns, Handlers
  <2>3. \A q \in Requests \ {r} : /\ client'[q] = client[q] /\ scope'[q] = scope[q] /\ pc'[q] = pc[q]
                                  /\ (client[q] \in Clients /\ owner[client[q]] = q => owner'[client[q]] = q)
    BY <1>1, QuotaAssumption DEF QuotaInv, Conns, Handlers
  <2> QED
    BY <2>1, <2>2, <2>3 DEF QuotaInv, Handlers
<1>7. Answers' /\ Sets'
  BY <1>1 DEF QuotaInv, Answers, Sets
<1>8. Counting'
  <2>1. \A q \in Requests \ {r} : scope'[q] = scope[q] /\ pc'[q] = pc[q] /\ client'[q] = client[q]
    BY <1>1 DEF QuotaInv, Handlers
  <2>2. pc'[r] = "check" /\ answer[r] # "partial"
    BY <1>1 DEF QuotaInv, Handlers, Counting
  <2> QED
    BY <1>1, <1>4, <2>1, <2>2 DEF QuotaInv, Handlers, Counting, DeliveredIsCounted
<1>9. Claims'
  BY <1>1, <1>4 DEF QuotaInv, Claims, Alive
<1>10. Admissions'
  <2>1. pc \in [Requests -> PCs] /\ pc'[r] = "check" /\ \A q \in Requests \ {r} : pc'[q] = pc[q]
    BY <1>1 DEF QuotaInv, Handlers
  <2>2. Outstanding' \subseteq Outstanding
    BY <1>1, <1>4, <2>1 DEF Outstanding, InFlight
  <2>3. \A q \in blind : pc'[q] \notin {"waiting", "check"}
    BY <1>1, <2>1 DEF QuotaInv, Sets, Admissions
  <2> QED
    BY <1>1, <2>2, <2>3, FewerOutstanding
<1> QED
  BY <1>5, <1>6, <1>7, <1>8, <1>9, <1>10 DEF QuotaInv

(* The query is admitted: below the limit where it sees the counter, so    *)
(* that the bound holds of whatever is in flight with it; elsewhere it is  *)
(* one more of the blind.                                                  *)
LEMMA CheckKeepsAdmissions == ASSUME QuotaInv, NEW r \in Requests, Check(r) PROVE Admissions'
<1>1. /\ UNCHANGED <<conn, client, saved>> /\ pc[r] = "check" /\ r \notin blind
      /\ \A q \in Requests \ {r} : pc'[q] = pc[q]
      /\ pc \in [Requests -> PCs] /\ blind \subseteq Requests
  BY DEF Check, Goto, dbVars, QuotaInv, Handlers, Sets, Admissions
<1>2. /\ Limit \in Nat \ {0} /\ peak \in Nat /\ IsFiniteSet(blind) /\ Cardinality(blind) \in Nat
      /\ Cardinality(Outstanding) < Limit + peak + Cardinality(blind)
  BY OutstandingIsFinite, QuotaAssumption DEF QuotaInv, Sets, Admissions
<1>3. pc'[r] \in {"retrieve", "refused"} /\ blind' \subseteq blind \cup {r}
  BY <1>1 DEF Check, Goto
<1>4. \A q \in blind' : pc'[q] \notin {"waiting", "check"}
  BY <1>1, <1>3 DEF QuotaInv, Admissions
<1>5. InFlight' \subseteq InFlight \cup {r} /\ Outstanding' \subseteq Outstanding \cup {r}
  BY <1>1, <1>3 DEF InFlight, Outstanding
<1>6. CASE pc'[r] = "refused"
  <2>1. peak' = peak /\ Admits(View(r)) = FALSE
    BY <1>1, <1>6 DEF Check, Goto
  <2>2. View(r) # {}
    BY <2>1, UsedIsNat DEF Admits
  <2>3. blind' = blind
    BY <2>2 DEF Check, View
  <2>4. Outstanding' \subseteq Outstanding
    BY <1>1, <1>6 DEF InFlight, Outstanding
  <2> QED
    BY <1>4, <2>1, <2>3, <2>4, FewerOutstanding
<1>7. CASE pc'[r] = "retrieve"
  <2>1. Admits(View(r)) /\ peak' = IF Cardinality(InFlight) + 1 > peak THEN Cardinality(InFlight) + 1 ELSE peak
    BY <1>1, <1>7 DEF Check, Goto
  <2>2. peak' \in Nat /\ peak' >= peak /\ peak' >= Cardinality(InFlight) + 1
    BY <1>2, <2>1, OutstandingIsFinite
  <2>3. CASE Sees(conn[client[r]], Org)
    <3> DEFINE K == {q \in Requests : Count(q) \in saved}  V == {q \in Requests : Count(q) \in View(r)}
    <3>1. blind' = blind /\ K \subseteq V
      BY <2>3 DEF Check, View
    <3>2. IsFiniteSet(K) /\ IsFiniteSet(V)
      BY QuotaAssumption, FS_Subset
    <3>3. Cardinality(K) <= Cardinality(V) /\ Cardinality(K) \in Nat /\ Cardinality(V) \in Nat
      BY <3>1, <3>2, FS_Subset, FS_CardinalityType
    <3>4. Cardinality(V) < Limit
      BY <1>2, <2>1 DEF Admits, Used
    <3>5. Outstanding' \subseteq K \cup (InFlight \cup {r})
      BY <1>1, <1>5 DEF Outstanding
    <3> DEFINE F == InFlight \cup {r}  T == Outstanding'
    <3>6. IsFiniteSet(F) /\ Cardinality(F) <= Cardinality(InFlight) + 1 /\ Cardinality(F) \in Nat
      BY OutstandingIsFinite, OneMore
    <3> HIDE DEF K, V, F, T
    <3>7. IsFiniteSet(K \cup F) /\ Cardinality(K \cup F) <= Cardinality(K) + Cardinality(F)
      <4>1. IsFiniteSet(K \cap F)
        BY <3>2, FS_Intersection
      <4>2. /\ IsFiniteSet(K \cup F) /\ Cardinality(K \cap F) \in Nat
            /\ Cardinality(K \cup F) = Cardinality(K) + Cardinality(F) - Cardinality(K \cap F)
        BY <3>2, <3>6, <4>1, FS_Union, FS_CardinalityType
      <4> QED
        BY <3>3, <3>6, <4>2
    <3>8. T \subseteq K \cup F
      BY <3>5 DEF F, T
    <3>9. Cardinality(T) <= Cardinality(K \cup F) /\ Cardinality(T) \in Nat /\ Cardinality(K \cup F) \in Nat
      BY <3>7, <3>8, FS_Subset, FS_CardinalityType
    <3>10. Cardinality(T) < Limit + peak' + Cardinality(blind)
      BY <1>2, <2>2, <3>3, <3>4, <3>6, <3>7, <3>9, OutstandingIsFinite
    <3> QED
      BY <1>4, <3>1, <3>10 DEF T, Admissions
  <2>4. CASE ~Sees(conn[client[r]], Org)
    <3> DEFINE S == Outstanding  T == Outstanding'
    <3>1. blind' = blind \cup {r}
      BY <2>4 DEF Check
    <3>2. Cardinality(blind') = Cardinality(blind) + 1
      BY <1>1, <1>2, <3>1, FS_AddElement
    <3>3. IsFiniteSet(S) /\ Cardinality(S) \in Nat /\ T \subseteq S \cup {r}
      BY <1>5, OutstandingIsFinite
    <3> HIDE DEF S, T
    <3>4. IsFiniteSet(S \cup {r}) /\ Cardinality(S \cup {r}) <= Cardinality(S) + 1
      BY <3>3, OneMore
    <3>5. Cardinality(T) <= Cardinality(S \cup {r}) /\ Cardinality(T) \in Nat /\ Cardinality(S \cup {r}) \in Nat
      BY <3>3, <3>4, FS_Subset, FS_CardinalityType
    <3>6. Cardinality(T) < Limit + peak' + Cardinality(blind')
      BY <1>2, <2>2, <3>2, <3>3, <3>4, <3>5 DEF S
    <3> QED
      BY <1>4, <3>6 DEF T, Admissions
  <2> QED
    BY <2>3, <2>4
<1> QED
  BY <1>3, <1>6, <1>7

(* The steps that write nothing: the quota check, retrieval, the model's   *)
(* answer and the e-mail itself.                                           *)
LEMMA HandlerKeepsInv ==
  ASSUME QuotaInv, NEW r \in Requests,
         Check(r) \/ CheckRejected(r) \/ Retrieve(r) \/ Synthesize(r) \/ FirstDelta(r) \/ StreamEnds(r)
  PROVE  QuotaInv'
<1>1. UNCHANGED <<conn, owner, client, scope, saved, due, mails, lost, struck>>
  BY DEF Check, CheckRejected, Retrieve, Synthesize, FirstDelta, StreamEnds, dbVars, ghosts
<1>2. pc \in [Requests -> PCs] /\ answer \in [Requests -> {"none", "partial", "full", "cut", "quota", "error"}]
  BY DEF QuotaInv, Handlers, Answers
<1>3. PICK l \in PCs :
        /\ pc' = [pc EXCEPT ![r] = l] /\ pc[r] # "waiting" /\ l # "waiting"
        /\ scope[r] = "held" => ~(l = "end" \/ (l = "claim" /\ r \notin Streams))
        /\ scope[r] = "held" => \/ answer'[r] # "partial"
                                \/ r \in Streams /\ l \in {"stream", "account"}
  <2>1. CASE Check(r)
    BY <2>1, <1>2 DEF Check, Goto, PCs, QuotaInv, Counting
  <2>6. CASE CheckRejected(r)
    BY <2>6, <1>2 DEF CheckRejected, Goto, PCs, QuotaInv, Counting
  <2>2. CASE Retrieve(r)
    BY <2>2, <1>2 DEF Retrieve, Goto, AfterMeta, Stray, PCs, QuotaInv, Counting
  <2>3. CASE Synthesize(r)
    BY <2>3, <1>2 DEF Synthesize, Goto, PCs, QuotaInv, Counting
  <2>4. CASE FirstDelta(r)
    BY <2>4, <1>2 DEF FirstDelta, Goto, PCs
  <2>5. CASE StreamEnds(r)
    BY <2>5, <1>2 DEF StreamEnds, Goto, PCs
  <2> QED
    BY <2>1, <2>2, <2>3, <2>4, <2>5, <2>6
<1>4. /\ answer' \in [Requests -> {"none", "partial", "full", "cut", "quota", "error"}]
      /\ \A q \in Requests : answer'[q] = answer[q] \/ (q = r /\ answer'[q] \in {"none", "partial"})
  <2>1. CASE FirstDelta(r)
    <3>1. PICK a \in {"none", "partial"} : answer' = [answer EXCEPT ![r] = a]
      BY <2>1 DEF FirstDelta
    <3> QED
      BY <1>2, <3>1
  <2>2. CASE ~FirstDelta(r)
    BY <1>2, <2>2 DEF Check, CheckRejected, Retrieve, Synthesize, StreamEnds
  <2> QED
    BY <2>1, <2>2
<1>5. pc'[r] = l /\ \A q \in Requests \ {r} : pc'[q] = pc[q]
  BY <1>2, <1>3
<1>6. Conns' /\ Claims'
  BY <1>1 DEF QuotaInv, Conns, Claims, Alive
<1>7. Handlers'
  BY <1>1, <1>2, <1>3, <1>5 DEF QuotaInv, Handlers
<1>8. Answers' /\ Sets'
  <2>1. CASE Check(r)
    <3>1. Used(View(r)) \in Nat
      BY UsedIsNat
    <3>2. IsFiniteSet(InFlight)
      BY QuotaAssumption, FS_Subset DEF InFlight
    <3>3. Cardinality(InFlight) + 1 \in Nat
      BY <3>2, FS_CardinalityType
    <3>4. peak' \in Nat /\ blind' \subseteq Requests
      BY <2>1, <3>3 DEF Check, QuotaInv, Sets
    <3>5. seen' \in [Requests -> Nat]
      BY <2>1, <3>1 DEF Check, QuotaInv, Answers
    <3> QED
      BY <1>1, <1>4, <3>4, <3>5 DEF QuotaInv, Answers, Sets
  <2>2. CASE ~Check(r)
    <3>1. UNCHANGED <<seen, peak, blind>>
      BY <2>2 DEF CheckRejected, Retrieve, Synthesize, FirstDelta, StreamEnds, ghosts
    <3> QED
      BY <1>1, <1>4, <3>1 DEF QuotaInv, Answers, Sets
  <2> QED
    BY <2>1, <2>2
<1>9. Counting'
  BY <1>1, <1>3, <1>4, <1>5 DEF QuotaInv, Counting, DeliveredIsCounted
<1>10. Admissions'
  <2>1. CASE Check(r)
    BY <2>1, CheckKeepsAdmissions
  <2>2. CASE ~Check(r)
    <3>1. /\ UNCHANGED <<peak, blind>> /\ pc[r] # "waiting" /\ pc'[r] # "check"
          /\ pc[r] \in {"retrieve", "answer", "stream"} \/ pc'[r] = "failed"
      BY <1>2, <2>2 DEF CheckRejected, Retrieve, Synthesize, FirstDelta, StreamEnds, Goto, AfterMeta, ghosts
    <3>2. Outstanding' \subseteq Outstanding
      BY <1>1, <1>5, <3>1 DEF Outstanding, InFlight
    <3>3. \A q \in blind : pc'[q] \notin {"waiting", "check"}
      BY <1>3, <1>5, <3>1 DEF QuotaInv, Sets, Admissions
    <3> QED
      BY <3>1, <3>2, <3>3, FewerOutstanding
  <2> QED
    BY <2>1, <2>2
<1> QED
  BY <1>6, <1>7, <1>8, <1>9, <1>10 DEF QuotaInv

LEMMA SendMailKeepsInv == ASSUME QuotaInv, NEW r \in Requests, SendMail(r) PROVE QuotaInv'
<1>1. UNCHANGED <<conn, owner, client, scope, pc, seen, answer, saved, peak, blind, lost, struck>>
      /\ due' \subseteq due /\ mails' \subseteq mails \cup {r} /\ r \in due
  BY DEF SendMail, dbVars, ghosts
<1>2. Conns' /\ Handlers' /\ Answers' /\ Counting'
  BY <1>1 DEF QuotaInv, Conns, Handlers, Answers, Counting, DeliveredIsCounted
<1>3. Sets' /\ Claims'
  BY <1>1 DEF QuotaInv, Sets, Claims, Alive
<1>4. Admissions'
  <2>1. Outstanding' = Outstanding
    BY <1>1 DEF Outstanding, InFlight
  <2> QED
    BY <1>1, <2>1 DEF QuotaInv, Admissions
<1> QED
  BY <1>2, <1>3, <1>4 DEF QuotaInv

---------------------------------------------------------------------------
(* A row that is written is committed, or is in the transaction of the     *)
(* connection that the writer knows, which may be another request's.       *)
LEMMA WriteKeepsRows ==
  ASSUME QuotaInv, NEW r \in Requests, client[r] \in Clients, NEW row \in Rows, Accepted(r), Write(r, row), UNCHANGED owner
  PROVE  /\ conn' \in [Clients -> Connection] /\ saved \subseteq saved' /\ saved' \subseteq saved \cup {row}
         /\ \A c \in Clients : /\ conn'[c].tx = conn[c].tx /\ conn'[c].org = conn[c].org
                               /\ conn[c] = Clean => conn'[c] = Clean
                               /\ conn[c].pending \subseteq conn'[c].pending
                               /\ conn'[c].pending \subseteq conn[c].pending \cup {row}
         /\ conn[client[r]].tx = "open" => row \in conn'[client[r]].pending
         /\ conn[client[r]].tx # "open" => row \in saved'
         /\ \A c \in Clients \ {client[r]} : conn'[c] = conn[c]
<1> DEFINE k == client[r]
<1>1. conn \in [Clients -> Connection] /\ (conn[k].tx = "open" \/ conn[k] = Clean)
  BY DEF QuotaInv, Conns, Accepted, Works
<1>2. conn' = [conn EXCEPT ![k] = Written(conn[k], row)] /\ saved' = Saved(conn[k], row, saved)
  BY DEF Write
<1>3. /\ Written(conn[k], row) \in Connection
      /\ Written(conn[k], row).tx = conn[k].tx /\ Written(conn[k], row).org = conn[k].org
      /\ conn[k] = Clean => Written(conn[k], row) = Clean /\ Saved(conn[k], row, saved) = saved \cup {row}
      /\ conn[k].tx = "open" => Written(conn[k], row).pending = conn[k].pending \cup {row}
                                /\ Saved(conn[k], row, saved) = saved
  BY <1>1, WriteOfRow
<1>4. Clean.tx # "open"
  BY CleanIsConnection
<1> QED
  BY <1>1, <1>2, <1>3, <1>4

(* A claim is made only where the writer sees that nobody has claimed, and *)
(* no other transaction has the row.                                       *)
LEMMA ClaimKeepsInv == ASSUME QuotaInv, NEW r \in Requests, Claim(r) PROVE QuotaInv'
<1>1. /\ UNCHANGED <<owner, client, scope, seen, answer, mails, peak, blind, lost, struck>> /\ pc[r] = "claim"
      /\ client[r] \in Clients
  BY DEF Claim, ghosts, QuotaInv, Handlers
<1>2. PICK l \in {"answer", "end", "failed"} :
        pc' = [pc EXCEPT ![r] = l] /\ (scope[r] = "held" /\ r \in Streams => l # "end") /\ (r \notin Streams => l = "end")
  BY DEF Claim, Goto, AfterMeta, Stray
<1>3. pc \in [Requests -> PCs] /\ pc'[r] = l /\ \A q \in Requests \ {r} : pc'[q] = pc[q]
  BY <1>2 DEF QuotaInv, Handlers
<1>4. Handlers' /\ Answers'
  BY <1>1, <1>2, <1>3 DEF QuotaInv, Handlers, Answers, PCs
<1>7. \A q \in blind : pc'[q] \notin {"waiting", "check"}
  BY <1>2, <1>3 DEF QuotaInv, Sets, Admissions
<1>5. CASE UNCHANGED <<conn, saved, due>>
  <2>1. Conns' /\ Sets' /\ Claims'
    BY <1>1, <1>5 DEF QuotaInv, Conns, Sets, Claims, Alive
  <2>2. Counting'
    BY <1>1, <1>2, <1>3, <1>5 DEF QuotaInv, Counting, DeliveredIsCounted
  <2>3. Outstanding' \subseteq Outstanding
    BY <1>1, <1>2, <1>3, <1>5 DEF Outstanding, InFlight
  <2> QED
    BY <1>1, <1>4, <1>7, <2>1, <2>2, <2>3, FewerOutstanding DEF QuotaInv
<1>6. CASE Accepted(r) /\ Claimable(r) /\ RowFree(r) /\ Write(r, Claimed(r)) /\ due' = due \cup {r}
  <2>1. Claimed(r) \in Rows
    BY RowsApart
  <2>2. /\ conn' \in [Clients -> Connection] /\ saved \subseteq saved' /\ saved' \subseteq saved \cup {Claimed(r)}
        /\ \A c \in Clients : /\ conn'[c].tx = conn[c].tx /\ conn'[c].org = conn[c].org
                              /\ conn[c] = Clean => conn'[c] = Clean
                              /\ conn[c].pending \subseteq conn'[c].pending
                              /\ conn'[c].pending \subseteq conn[c].pending \cup {Claimed(r)}
        /\ conn[client[r]].tx = "open" => Claimed(r) \in conn'[client[r]].pending
        /\ conn[client[r]].tx # "open" => Claimed(r) \in saved'
        /\ conn[client[r]].tx # "aborted" /\ \A c \in Clients \ {client[r]} : conn'[c] = conn[c]
    BY <1>1, <1>6, <2>1, WriteKeepsRows DEF Accepted, Works
  <2>3. Conns' /\ Sets'
    BY <1>1, <1>6, <2>1, <2>2 DEF QuotaInv, Conns, Sets
  <2>4. Counting'
    BY <1>1, <1>2, <1>3, <2>2 DEF QuotaInv, Handlers, Counting, DeliveredIsCounted
  <2>5. View(r) = saved \cup conn[client[r]].pending
    <3>1. View(r) # {}
      BY <1>6, UsedIsNat DEF Claimable
    <3> QED
      BY <3>1 DEF View
  <2>6. \A q \in Requests : ~Alive(q)
    BY <2>5, <1>6 DEF Claimable, Warned, RowFree, Alive
  <2>7. \A q \in Requests : Alive(q)' => q = r
    BY <2>2, <2>6, RowsApart DEF Alive
  <2>8. Alive(r)'
    BY <1>1, <2>2 DEF Alive
  <2>9. Claims'
    BY <1>1, <1>6, <2>6, <2>7, <2>8 DEF QuotaInv, Sets, Claims
  <2>10. Outstanding' \subseteq Outstanding
    BY <1>1, <1>2, <1>3, <2>2, RowsApart DEF Outstanding, InFlight
  <2> QED
    BY <1>1, <1>4, <1>7, <2>3, <2>4, <2>9, <2>10, FewerOutstanding DEF QuotaInv
<1> QED
  BY <1>5, <1>6 DEF Claim

(* The count goes to the transaction whose COMMIT ends the answer. *)
LEMMA AccountKeepsInv == ASSUME QuotaInv, NEW r \in Requests, Account(r) PROVE QuotaInv'
<1>1. /\ UNCHANGED <<owner, client, scope, seen, answer, due, mails, peak, blind, lost, struck>> /\ pc[r] = "account"
      /\ client[r] \in Clients
  BY DEF Account, ghosts, QuotaInv, Handlers
<1>2. scope[r] = "held" /\ r \notin struck
        => conn[client[r]].tx = "open" /\ Accepted(r) /\ Sees(conn[client[r]], Org)
  BY <1>1, QuotaAssumption DEF QuotaInv, Conns, Handlers, Sees, Accepted, Works
<1>3. PICK l \in {"claim", "end", "failed"} : pc' = [pc EXCEPT ![r] = l] /\ (l = "claim" => r \notin Streams)
                                              /\ (l = "failed" => scope[r] # "held" \/ r \in struck)
                                              /\ (l = "failed" <=> ~Write(r, Count(r)) \/ ~(Accepted(r) /\ Sees(conn[client[r]], Org)))
  BY <1>2 DEF Account, Goto
<1>4. pc \in [Requests -> PCs] /\ pc'[r] = l /\ \A q \in Requests \ {r} : pc'[q] = pc[q]
  BY <1>3 DEF QuotaInv, Handlers
<1>5. Handlers' /\ Answers'
  BY <1>1, <1>3, <1>4 DEF QuotaInv, Handlers, Answers, PCs
<1>8. \A q \in blind : pc'[q] \notin {"waiting", "check"}
  BY <1>4 DEF QuotaInv, Sets, Admissions
<1>6. CASE UNCHANGED <<conn, saved>> /\ l = "failed"
  <2>1. Conns' /\ Sets' /\ Claims'
    BY <1>1, <1>6 DEF QuotaInv, Conns, Sets, Claims, Alive
  <2>2. Counting'
    BY <1>1, <1>3, <1>4, <1>6 DEF QuotaInv, Counting, DeliveredIsCounted
  <2>3. Outstanding' \subseteq Outstanding
    BY <1>1, <1>4, <1>6 DEF Outstanding, InFlight
  <2> QED
    BY <1>1, <1>5, <1>8, <2>1, <2>2, <2>3, FewerOutstanding DEF QuotaInv
<1>7. CASE Accepted(r) /\ Write(r, Count(r)) /\ l # "failed"
  <2>1. Count(r) \in Rows
    BY RowsApart
  <2>2. /\ conn' \in [Clients -> Connection] /\ saved \subseteq saved' /\ saved' \subseteq saved \cup {Count(r)}
        /\ \A c \in Clients : /\ conn'[c].tx = conn[c].tx /\ conn'[c].org = conn[c].org
                              /\ conn[c] = Clean => conn'[c] = Clean
                              /\ conn[c].pending \subseteq conn'[c].pending
                              /\ conn'[c].pending \subseteq conn[c].pending \cup {Count(r)}
        /\ conn[client[r]].tx = "open" => Count(r) \in conn'[client[r]].pending
        /\ conn[client[r]].tx # "open" => Count(r) \in saved'
        /\ conn[client[r]].tx # "aborted" /\ \A c \in Clients \ {client[r]} : conn'[c] = conn[c]
    BY <1>1, <1>7, <2>1, WriteKeepsRows DEF Accepted, Works
  <2>3. Conns' /\ Sets'
    BY <1>1, <2>1, <2>2 DEF QuotaInv, Conns, Sets
  <2>4. Counting'
    BY <1>1, <1>2, <1>3, <1>4, <1>7, <2>2 DEF QuotaInv, Handlers, Counting, DeliveredIsCounted
  <2>5. \A q \in Requests : Alive(q)' <=> Alive(q)
    BY <2>2, RowsApart DEF Alive
  <2>6. Claims'
    BY <1>1, <2>5 DEF QuotaInv, Sets, Claims
  <2>7. Outstanding' \subseteq Outstanding
    BY <1>1, <1>4, <2>2, RowsApart DEF Outstanding, InFlight
  <2> QED
    BY <1>1, <1>5, <1>8, <2>3, <2>4, <2>6, <2>7, FewerOutstanding DEF QuotaInv
<1> QED
  BY <1>3, <1>4, <1>6, <1>7 DEF Account

---------------------------------------------------------------------------
(* COMMIT of a request that still holds its connection; a handler whose    *)
(* client left only stops.                                                 *)
LEMMA EndKeepsInv == ASSUME QuotaInv, NEW r \in Requests, End(r) PROVE QuotaInv'
<1>1. UNCHANGED <<client, seen, due, mails, peak, blind, lost, struck>> /\ pc[r] \in {"end", "failed", "refused"}
  BY DEF End, dbVars, ghosts
<1>2. /\ pc' = [pc EXCEPT ![r] = "done"] /\ pc \in [Requests -> PCs]
      /\ pc'[r] = "done" /\ \A q \in Requests \ {r} : pc'[q] = pc[q]
  BY DEF End, Goto, QuotaInv, Handlers
<1>5. \A q \in blind : pc'[q] \notin {"waiting", "check"}
  BY <1>2 DEF QuotaInv, Sets, Admissions
<1>3. CASE Stray(r)
  <2>1. UNCHANGED <<conn, owner, scope, answer, saved>>
    BY <1>3 DEF End, dbVars
  <2>2. Conns' /\ Answers' /\ Sets' /\ Claims'
    BY <1>1, <2>1 DEF QuotaInv, Conns, Answers, Sets, Claims, Alive
  <2>3. Handlers'
    BY <1>1, <1>2, <2>1 DEF QuotaInv, Handlers, PCs
  <2>4. Counting'
    BY <1>1, <1>2, <1>3, <2>1 DEF QuotaInv, Counting, DeliveredIsCounted, Stray
  <2>5. Outstanding' \subseteq Outstanding
    BY <1>1, <1>2, <2>1 DEF Outstanding, InFlight
  <2> QED
    BY <1>1, <1>5, <2>2, <2>3, <2>4, <2>5, FewerOutstanding DEF QuotaInv
<1>4. CASE ~Stray(r)
  <2> DEFINE k == client[r]
  <2>1. /\ conn' = [conn EXCEPT ![k] = Clean] /\ owner' = [owner EXCEPT ![k] = Nobody]
        /\ scope' = [scope EXCEPT ![r] = "released"] /\ saved' = saved \cup conn[k].pending
        /\ answer' = [answer EXCEPT ![r] = Heard(r)]
    BY <1>4 DEF End
  <2>2. scope[r] = "held" /\ k \in Clients /\ owner[k] = r /\ r # Nobody
    BY <1>1, <1>4, QuotaAssumption DEF QuotaInv, Handlers, Stray
  <2>3. /\ conn \in [Clients -> Connection] /\ scope \in [Requests -> {"none", "held", "released"}]
        /\ owner \in [Clients -> Requests \cup {Nobody}] /\ conn[k] \in Connection /\ conn[k].pending \subseteq Rows
    BY <2>2 DEF QuotaInv, Conns, Handlers, Connection
  <2>4. Conns'
    BY <1>1, <2>1, <2>2, <2>3, CleanIsConnection DEF QuotaInv, Conns
  <2>5. Handlers'
    BY <1>1, <1>2, <2>1, <2>2, <2>3, QuotaAssumption DEF QuotaInv, Handlers, PCs
  <2>6. Heard(r) \in {"full", "cut", "quota", "error"} /\ (Heard(r) \in {"full", "cut"} => Count(r) \in conn[k].pending \/ r \in struck)
    <3>1. CASE pc[r] = "end"
      <4>1. Heard(r) = "full"
        BY <3>1 DEF Heard
      <4> QED
        BY <2>2, <3>1, <4>1 DEF QuotaInv, Counting
    <3>2. CASE pc[r] = "refused"
      <4>1. Heard(r) = "quota"
        BY <3>2 DEF Heard
      <4> QED
        BY <4>1
    <3>3. CASE pc[r] = "failed"
      <4>1. answer[r] = "partial" => r \in struck
        BY <2>2, <3>3 DEF QuotaInv, Counting
      <4>2. Heard(r) = IF answer[r] = "partial" THEN "cut" ELSE "error"
        BY <3>3 DEF Heard
      <4> QED
        BY <4>1, <4>2
    <3> QED
      BY <1>1, <3>1, <3>2, <3>3
  <2>7. Answers' /\ Sets'
    BY <1>1, <2>1, <2>3, <2>6 DEF QuotaInv, Answers, Sets
  <2>8. \A q \in Requests \ {r} : scope[q] = "held" => client[q] # k
    BY <2>2 DEF QuotaInv, Handlers
  <2>9. Counting'
    BY <1>1, <1>2, <2>1, <2>2, <2>3, <2>6, <2>8 DEF QuotaInv, Handlers, Answers, Counting, DeliveredIsCounted
  <2>10. \A q \in Requests : Alive(q)' <=> Alive(q)
    BY <2>1, <2>2, <2>3, CleanIsConnection DEF Alive
  <2>11. Claims'
    BY <1>1, <2>10 DEF QuotaInv, Sets, Claims
  <2>12. Outstanding' \subseteq Outstanding
    <3>1. \A c \in Clients : conn'[c].pending \subseteq conn[c].pending
      BY <2>1, <2>2, <2>3, CleanIsConnection
    <3> QED
      BY <1>1, <1>2, <2>1, <2>2, <3>1 DEF Outstanding, InFlight
  <2> QED
    BY <1>1, <1>5, <2>4, <2>5, <2>7, <2>9, <2>11, <2>12, FewerOutstanding DEF QuotaInv
<1> QED
  BY <1>3, <1>4

(* ROLLBACK: the claims of the transaction are lost with its counts. *)
LEMMA DisconnectKeepsInv == ASSUME QuotaInv, NEW r \in Requests, Disconnect(r) PROVE QuotaInv'
<1> DEFINE k == client[r]
<1>1. /\ UNCHANGED <<client, pc, seen, answer, saved, due, mails, peak, blind, struck>> /\ scope[r] = "held"
      /\ conn' = [conn EXCEPT ![k] = Clean] /\ owner' = [owner EXCEPT ![k] = Nobody]
      /\ scope' = [scope EXCEPT ![r] = "released"]
      /\ lost' = lost \cup {q \in Requests : Claimed(q) \in conn[k].pending}
  BY DEF Disconnect, ClaimsIn
<1>2. k \in Clients /\ owner[k] = r /\ r # Nobody
  BY <1>1, QuotaAssumption DEF QuotaInv, Handlers
<1>3. /\ conn \in [Clients -> Connection] /\ scope \in [Requests -> {"none", "held", "released"}]
      /\ owner \in [Clients -> Requests \cup {Nobody}]
  BY DEF QuotaInv, Conns, Handlers
<1>4. Conns'
  BY <1>1, <1>2, <1>3, CleanIsConnection DEF QuotaInv, Conns
<1>5. Handlers'
  BY <1>1, <1>2, <1>3, QuotaAssumption DEF QuotaInv, Handlers
<1>6. Answers' /\ Sets'
  BY <1>1 DEF QuotaInv, Answers, Sets
<1>7. \A q \in Requests \ {r} : scope[q] = "held" => client[q] # k
  BY <1>2 DEF QuotaInv, Handlers
<1>8. Counting'
  BY <1>1, <1>2, <1>3, <1>7 DEF QuotaInv, Handlers, Counting, DeliveredIsCounted
<1>9. \A q \in Requests : (Alive(q)' => Alive(q)) /\ (Alive(q) => Alive(q)' \/ q \in lost')
  BY <1>1, <1>2, <1>3, CleanIsConnection DEF Alive
<1>10. Claims'
  BY <1>1, <1>9 DEF QuotaInv, Sets, Claims
<1>11. Admissions'
  <2>1. \A c \in Clients : conn'[c].pending \subseteq conn[c].pending
    BY <1>1, <1>2, <1>3, CleanIsConnection
  <2>2. Outstanding' \subseteq Outstanding
    BY <1>1, <2>1 DEF Outstanding, InFlight
  <2> QED
    BY <1>1, <2>2, FewerOutstanding DEF QuotaInv, Admissions
<1> QED
  BY <1>4, <1>5, <1>6, <1>8, <1>10, <1>11 DEF QuotaInv

(* A stray statement of another handler aborts the transaction: what it    *)
(* has written is gone, and the request is one of the struck.              *)
LEMMA StruckKeepsInv == ASSUME QuotaInv, NEW r \in Requests, Struck(r) PROVE QuotaInv'
<1> DEFINE k == client[r]  cn == Failed(conn[k])
<1>1. /\ UNCHANGED <<owner, client, scope, pc, seen, answer, saved, due, mails, peak, blind>>
      /\ scope[r] = "held" /\ conn[k].tx = "open" /\ conn' = [conn EXCEPT ![k] = cn]
      /\ lost' = lost \cup {q \in Requests : Claimed(q) \in conn[k].pending} /\ struck' = struck \cup {r}
  BY DEF Struck, ClaimsIn
<1>2. k \in Clients /\ owner[k] = r /\ r # Nobody
  BY <1>1, QuotaAssumption DEF QuotaInv, Handlers
<1>3. conn \in [Clients -> Connection] /\ conn[k] \in Connection
  BY <1>2 DEF QuotaInv, Conns
<1>4. cn \in Connection /\ cn.tx = "aborted" /\ cn.org = conn[k].org /\ cn.pending = {}
  <2>1. cn = [conn[k] EXCEPT !.tx = "aborted", !.pending = {}]
    BY <1>1 DEF Failed
  <2>2. {} \in SUBSET Rows
    OBVIOUS
  <2> QED
    BY <1>3, <2>1, <2>2 DEF Connection
<1> HIDE DEF cn
<1>5. Conns'
  <2>1. conn' \in [Clients -> Connection] /\ conn'[k] = cn /\ \A c \in Clients \ {k} : conn'[c] = conn[c]
    BY <1>1, <1>2, <1>3, <1>4
  <2> QED
    BY <1>1, <1>2, <1>4, <2>1 DEF QuotaInv, Conns
<1>6. Handlers' /\ Answers' /\ Sets'
  BY <1>1 DEF QuotaInv, Handlers, Answers, Sets
<1>7. \A q \in Requests \ {r} : scope[q] = "held" => client[q] # k
  BY <1>2 DEF QuotaInv, Handlers
<1>8. Counting'
  BY <1>1, <1>2, <1>3, <1>7 DEF QuotaInv, Handlers, Counting, DeliveredIsCounted
<1>9. \A q \in Requests : (Alive(q)' => Alive(q)) /\ (Alive(q) => Alive(q)' \/ q \in lost')
  BY <1>1, <1>2, <1>3, <1>4 DEF Alive
<1>10. Claims'
  BY <1>1, <1>9 DEF QuotaInv, Sets, Claims
<1>11. Admissions'
  <2>1. \A c \in Clients : conn'[c].pending \subseteq conn[c].pending
    BY <1>1, <1>2, <1>3, <1>4
  <2>2. Outstanding' \subseteq Outstanding
    BY <1>1, <2>1 DEF Outstanding, InFlight
  <2> QED
    BY <1>1, <2>2, FewerOutstanding DEF QuotaInv, Admissions
<1> QED
  BY <1>5, <1>6, <1>8, <1>10, <1>11 DEF QuotaInv

LEMMA NextInv == QuotaInv /\ [Next]_vars => QuotaInv'
<1> SUFFICES ASSUME QuotaInv, [Next]_vars PROVE QuotaInv'
  OBVIOUS
<1>1. CASE UNCHANGED vars
  <2>1. UNCHANGED <<conn, owner, client, scope, pc, seen, answer, saved, due, mails, peak, blind, lost, struck>>
    BY <1>1 DEF vars
  <2>2. (Conns /\ Handlers /\ Answers /\ Sets /\ Counting /\ Claims)'
    BY <2>1 DEF QuotaInv, Conns, Handlers, Answers, Sets, Counting, Claims, Alive, DeliveredIsCounted
  <2>3. Outstanding' = Outstanding
    BY <2>1 DEF Outstanding, InFlight
  <2> QED
    BY <2>1, <2>2, <2>3 DEF QuotaInv, Admissions
<1>2. CASE Next
  <2>1. PICK r \in Requests : Query(r) \/ SendMail(r) \/ Disconnect(r) \/ Struck(r)
    BY <1>2 DEF Next
  <2> QED
    BY <2>1, OpenKeepsInv, HandlerKeepsInv, ClaimKeepsInv, AccountKeepsInv, EndKeepsInv, SendMailKeepsInv,
       DisconnectKeepsInv, StruckKeepsInv DEF Query
<1> QED
  BY <1>1, <1>2

LEMMA SpecInv == Spec => []QuotaInv
<1> QED
  BY InitInv, NextInv, PTL DEF Spec

---------------------------------------------------------------------------
(* Types, and a transaction is open exactly while a request holds its      *)
(* connection.                                                             *)
THEOREM TypeCorrect == Spec => []TypeOK
<1>1. QuotaInv => TypeOK
  <2> SUFFICES ASSUME QuotaInv PROVE TypeOK
    OBVIOUS
  <2>1. \A c \in Clients : conn[c] = Clean <=> owner[c] = Nobody
    BY CleanIsConnection DEF QuotaInv, Conns
  <2> QED
    BY <2>1 DEF QuotaInv, Conns, Handlers, Answers, Sets, TypeOK
<1> QED
  BY <1>1, SpecInv, PTL

(* incrementQueryCount runs in the request's transaction, and the answer   *)
(* ends after its COMMIT: no answer that was ended for a client is free,   *)
(* except where another handler's stray aborted the transaction.           *)
THEOREM DeliveredCorrect == Spec => []DeliveredIsCounted
<1>1. QuotaInv => DeliveredIsCounted
  BY DEF QuotaInv, Counting
<1> QED
  BY <1>1, SpecInv, PTL

(* claimQuotaWarningEmail: one e-mail, and one more for every rollback of  *)
(* a claim.                                                                *)
THEOREM WarningCorrect == Spec => []WarningOnce
<1>1. QuotaInv => WarningOnce
  <2> SUFFICES ASSUME QuotaInv PROVE WarningOnce
    OBVIOUS
  <2> DEFINE S == mails \cup due
  <2>1. S \subseteq Requests /\ lost \subseteq Requests
    BY DEF QuotaInv, Sets
  <2>2. IsFiniteSet(lost) /\ Cardinality(lost) \in Nat
    BY <2>1, QuotaAssumption, FS_Subset, FS_CardinalityType
  <2>3. ASSUME NEW x, S \subseteq lost \cup {x} PROVE WarningOnce
    <3>1. IsFiniteSet(lost \cup {x}) /\ Cardinality(lost \cup {x}) <= Cardinality(lost) + 1
      BY <2>2, FS_AddElement
    <3>2. IsFiniteSet(S) /\ Cardinality(S) <= Cardinality(lost \cup {x})
      BY <2>3, <3>1, FS_Subset
    <3>3. Cardinality(S) \in Nat /\ Cardinality(lost \cup {x}) \in Nat
      BY <3>1, <3>2, FS_CardinalityType
    <3> QED
      BY <2>2, <3>1, <3>2, <3>3 DEF WarningOnce
  <2>4. \E x : S \subseteq lost \cup {x}
    <3>1. CASE \E x \in Requests : Alive(x)
      <4>1. PICK x \in Requests : Alive(x)
        BY <3>1
      <4>2. S \subseteq lost \cup {x}
        BY <2>1, <4>1 DEF QuotaInv, Claims
      <4> QED
        BY <4>2
    <3>2. CASE ~ \E x \in Requests : Alive(x)
      BY <2>1, <3>2 DEF QuotaInv, Claims
    <3> QED
      BY <3>1, <3>2
  <2> QED
    BY <2>3, <2>4
<1> QED
  BY <1>1, SpecInv, PTL

(* Check reserves nothing: the queries counted beyond the limit are fewer  *)
(* than were ever in flight together, and those the counter was hidden     *)
(* from.                                                                   *)
THEOREM OvershootCorrect == Spec => []OvershootBounded
<1>1. QuotaInv => OvershootBounded
  <2> SUFFICES ASSUME QuotaInv PROVE OvershootBounded
    OBVIOUS
  <2> DEFINE K == {r \in Requests : Count(r) \in saved}  S == Outstanding
  <2>1. K \subseteq S /\ IsFiniteSet(S) /\ Cardinality(S) \in Nat /\ Cardinality(blind) \in Nat
        /\ Cardinality(S) < Limit + peak + Cardinality(blind) /\ peak \in Nat /\ Limit \in Nat
    BY OutstandingIsFinite, QuotaAssumption DEF Outstanding, QuotaInv, Sets, Admissions
  <2> HIDE DEF K, S
  <2>2. Cardinality(K) <= Cardinality(S) /\ Cardinality(K) \in Nat
    BY <2>1, FS_Subset, FS_CardinalityType
  <2>3. Cardinality(K) < Limit + peak + Cardinality(blind)
    BY <2>1, <2>2
  <2> QED
    BY <2>3 DEF K, OvershootBounded, Used
<1> QED
  BY <1>1, SpecInv, PTL
==============================================================================
