----------------------------- MODULE ServicesProofs -----------------------------
(***************************************************************************)
(* Theorems about four of the parts that MCServices looks at side by side: *)
(* the rate limiter's window for every number of requests and every limit, *)
(* the warm-up of the centroids that queries share, the dashboard's lists  *)
(* and secrets for every number of rows, calls and visits, and the limit   *)
(* that billing and sign-ups write.                                        *)
(***************************************************************************)
EXTENDS RateLimit, Retrieval, Console, Billing, FiniteSetTheorems, TLAPS

(* The rate limiter: what was let through within the last window is in the *)
(* set, and the key outlives it: a delayed request removes only what is    *)
(* older than its own window, and its EXPIRE never shortens the key's life.*)
Kept == \A m \in admitted :
    /\ m.at <= clock /\ m.at + Window <= ttl
    /\ m.at > clock - Window => m \in members

RateInv ==
    /\ RateTypeOK /\ IsFiniteSet(members)
    /\ \A c \in Callers : asked[c] <= clock
    /\ Kept /\ WindowHolds

LEMMA PipelineKeeps ==
  ASSUME RateInv, NEW c \in Callers, ExecutePipeline(c)
  PROVE  RateInv'
<1> USE RateLimitAssumption
<1>1. /\ asked[c] \in Times /\ asked[c] <= clock /\ clock \in Times /\ Times \subseteq Nat
      /\ members \subseteq Members /\ admitted \subseteq Members /\ entries \in Nat /\ entries < MaxAdmitted
      /\ UNCHANGED clock /\ ttl' = clock + Window /\ entries' = entries + 1 /\ ttl \in Nat
      /\ Window \in Nat /\ Window > 0 /\ MaxRequests \in Nat
  BY DEF ExecutePipeline, RateInv, RateTypeOK, Times, NoTime
<1> DEFINE new == Member(asked[c])
<1>2. new \in Members /\ new.at = asked[c] /\ members' = RemoveOld(Live, asked[c]) \cup {new}
  BY <1>1 DEF ExecutePipeline, Executed, Member, Members
<1>3. \/ admitted' = admitted
      \/ admitted' = admitted \cup {new} /\ asked[c] = clock /\ Cardinality(members') <= MaxRequests
  BY DEF ExecutePipeline
<1> HIDE DEF new
<1>4. RemoveOld(Live, asked[c]) \subseteq members
  BY DEF RemoveOld, Live
<1>5. members' \subseteq Members /\ IsFiniteSet(members')
  <2>1. IsFiniteSet(RemoveOld(Live, asked[c]))
    BY <1>4, FS_Subset DEF RateInv
  <2>2. IsFiniteSet(members')
    BY <1>2, <2>1, FS_AddElement
  <2> QED
    BY <1>1, <1>2, <1>4, <2>2
<1>6. \A m \in Members : m.at \in Nat
  BY <1>1 DEF Members
<1>7. ASSUME NEW m \in admitted'
      PROVE  /\ m \in Members /\ m.at <= clock /\ m.at + Window <= ttl'
             /\ m.at > clock - Window => m \in members'
  <2>1. CASE m \in admitted
    <3>1. m.at <= clock /\ m.at + Window <= ttl /\ (m.at > clock - Window => m \in members) /\ m.at \in Nat
      BY <1>1, <1>6, <2>1 DEF RateInv, Kept
    <3>2. ASSUME m.at > clock - Window PROVE m \in RemoveOld(Live, asked[c])
      <4>1. ttl > clock /\ m \in members /\ m.at > asked[c] - Window
        BY <1>1, <3>1, <3>2 DEF Times
      <4>2. Live = members
        BY <4>1 DEF Live
      <4> QED
        BY <4>1, <4>2 DEF RemoveOld
    <3> QED
      BY <1>1, <1>2, <2>1, <3>1, <3>2
  <2>2. CASE m = new /\ asked[c] = clock
    BY <1>1, <1>2, <2>2
  <2> QED
    BY <1>3, <1>7, <2>1, <2>2
<1>8. Kept'
  BY <1>1, <1>7 DEF Kept
<1>9. WindowHolds'
  <2> SUFFICES ASSUME NEW t \in Times
               PROVE  Cardinality({m \in admitted' : t - Window < m.at /\ m.at <= t}) <= MaxRequests
    BY DEF WindowHolds
  <2> DEFINE seenBy(s) == {m \in s : t - Window < m.at /\ m.at <= t}
  <2>1. CASE admitted' = admitted \/ t < clock
    <3>1. seenBy(admitted') = seenBy(admitted)
      BY <1>1, <1>2, <1>3, <1>6, <2>1
    <3> QED
      BY <3>1 DEF RateInv, WindowHolds
  <2>2. CASE admitted' # admitted /\ t >= clock
    <3>1. Cardinality(members') <= MaxRequests
      BY <1>3, <2>2
    <3>2. seenBy(admitted') \subseteq members'
      BY <1>1, <1>6, <1>7, <2>2
    <3> HIDE DEF seenBy
    <3>3. Cardinality(seenBy(admitted')) <= Cardinality(members')
          /\ Cardinality(seenBy(admitted')) \in Nat /\ Cardinality(members') \in Nat
      BY <1>5, <3>2, FS_Subset, FS_CardinalityType
    <3> QED
      BY <1>1, <3>1, <3>3 DEF seenBy
  <2> QED
    BY <1>1, <2>1, <2>2
<1>10. RateTypeOK' /\ \A d \in Callers : asked'[d] <= clock'
  <2>1. asked' = [asked EXCEPT ![c] = NoTime]
    BY DEF ExecutePipeline
  <2>2. admitted' \subseteq Members /\ entries' \in 0 .. MaxAdmitted /\ ttl' \in 0 .. MaxClock + Window
    BY <1>1, <1>7 DEF Times
  <2> QED
    BY <1>1, <1>5, <2>1, <2>2 DEF RateInv, RateTypeOK, NoTime
<1> QED
  BY <1>5, <1>8, <1>9, <1>10 DEF RateInv

LEMMA RateInductive == (RateInit => RateInv) /\ (RateInv /\ [RateNext]_rateVars => RateInv')
<1> USE RateLimitAssumption
<1>1. RateInit => RateInv
  <2> SUFFICES ASSUME RateInit PROVE RateInv
    OBVIOUS
  <2>1. Cardinality({}) = 0 /\ IsFiniteSet({})
    BY FS_EmptySet
  <2>2. \A t \in Times : {m \in admitted : t - Window < m.at /\ m.at <= t} = {}
    BY DEF RateInit
  <2>3. WindowHolds
    BY <2>1, <2>2 DEF WindowHolds
  <2> QED
    BY <2>1, <2>3 DEF RateInit, RateInv, RateTypeOK, Kept, Times, NoTime
<1>2. RateInv /\ [RateNext]_rateVars => RateInv'
  <2> SUFFICES ASSUME RateInv, [RateNext]_rateVars PROVE RateInv'
    OBVIOUS
  <2>1. CASE UNCHANGED rateVars
    BY <2>1 DEF rateVars, RateInv, RateTypeOK, Kept, WindowHolds
  <2>2. CASE Tick
    <3>1. clock' = clock + 1 /\ clock' \in Times /\ clock \in Nat /\ UNCHANGED <<members, ttl, asked, admitted, entries>>
      BY <2>2 DEF Tick, RateInv, RateTypeOK, Times
    <3>2. Kept'
      <4>1. \A m \in admitted : m.at \in Nat
        BY DEF RateInv, RateTypeOK, Members, Times
      <4> QED
        BY <3>1, <4>1 DEF RateInv, Kept
    <3>3. \A c \in Callers : asked'[c] <= clock'
      BY <3>1 DEF RateInv, RateTypeOK, Times, NoTime
    <3> QED
      BY <3>1, <3>2, <3>3 DEF RateInv, RateTypeOK, WindowHolds
  <2>3. ASSUME NEW c \in Callers, Ask(c) \/ FailOpen(c) PROVE RateInv'
    <3>1. /\ UNCHANGED <<clock, members, ttl, admitted, entries>> /\ clock \in Times
          /\ \E t \in {clock, NoTime} : asked' = [asked EXCEPT ![c] = t]
      BY <2>3 DEF Ask, FailOpen, RateInv, RateTypeOK
    <3>2. asked' \in [Callers -> Times \cup {NoTime}] /\ \A d \in Callers : asked'[d] <= clock'
      BY <3>1 DEF RateInv, RateTypeOK, Times, NoTime
    <3> QED
      BY <3>1, <3>2 DEF RateInv, RateTypeOK, Kept, WindowHolds
  <2> QED
    BY <2>1, <2>2, <2>3, PipelineKeeps DEF RateNext
<1> QED
  BY <1>1, <1>2

(* Of the requests that are counted without delay, makeRateLimiter never   *)
(* lets more than MAX_REQUESTS through in a window, whatever delayed ones  *)
(* remove, add or do to the key's expiry.                                  *)
THEOREM WindowCorrect == RateSpec => []WindowHolds
<1>1. RateInv => WindowHolds
  BY DEF RateInv
<1> QED
  BY <1>1, RateInductive, PTL DEF RateSpec

---------------------------------------------------------------------------
Question == [pc : {"idle", "embedding", "embedded", "waiting", "routed", "vector", "graph"},
             text : Texts \cup {"none"}, own : BOOLEAN, sure : BOOLEAN, strategy : Strategies \cup {"none"},
             classifier : {"none", "forced", "rule_based", "embedding_centroid"}]

(* The promise of a warm-up that failed is never there to be found.        *)
FallbackInv ==
    /\ ask \in [Askers -> Question] /\ warming \in {"none", "running"}
    /\ FallbackHadAnAttempt

(* One query becomes the record x.                                         *)
LEMMA OneAskTurns ==
  ASSUME FallbackInv, NEW a \in Askers, NEW x \in Question, Turns(a, x), warming' \in {"none", "running"},
         \A b \in Askers \ {a} : b \in blamed => b \in blamed',
         x.classifier = "rule_based" /\ ~x.sure => a \in blamed'
  PROVE  FallbackInv'
<1>1. ask' \in [Askers -> Question] /\ ask'[a] = x /\ \A b \in Askers \ {a} : ask'[b] = ask[b]
  BY DEF Turns, FallbackInv
<1> QED
  BY <1>1 DEF FallbackInv, FallbackHadAnAttempt

(* The records that the steps of a query write.                            *)
LEMMA RoutedQuestion ==
  ASSUME FallbackInv, NEW a \in Askers, NEW s \in Strategies, NEW sure \in BOOLEAN,
         NEW k \in {"forced", "rule_based", "embedding_centroid"}
  PROVE  Routed(a, k, sure, s) \in Question /\ Routed(a, k, sure, s).classifier = k /\ Routed(a, k, sure, s).sure = sure
<1>1. ask[a] \in Question
  BY DEF FallbackInv
<1> QED
  BY <1>1 DEF Routed, Question

LEMMA MovedQuestion ==
  ASSUME FallbackInv, NEW a \in Askers, NEW x,
         \/ \E pc \in {"waiting", "graph", "vector"} : x = [ask[a] EXCEPT !.pc = pc]
         \/ x = [ask[a] EXCEPT !.pc = "embedded", !.text = "none"]
  PROVE  x \in Question /\ x.classifier = ask[a].classifier /\ x.sure = ask[a].sure
<1>1. ask[a] \in Question
  BY DEF FallbackInv
<1>2. ASSUME NEW pc \in {"waiting", "graph", "vector"}, x = [ask[a] EXCEPT !.pc = pc]
      PROVE  x \in Question /\ x.classifier = ask[a].classifier /\ x.sure = ask[a].sure
  BY <1>1, <1>2 DEF Question
<1>3. CASE x = [ask[a] EXCEPT !.pc = "embedded", !.text = "none"]
  BY <1>1, <1>3 DEF Question
<1> QED
  BY <1>2, <1>3

LEMMA BlankQuestion == ASSUME NEW x, x = NoQuestion PROVE x \in Question /\ x.classifier = "none"
BY DEF NoQuestion, Question

LEMMA AskKeepsFallback ==
  ASSUME FallbackInv, NEW a \in Askers,
         \/ \E t \in Texts, own \in BOOLEAN : EmbedSingle(a, t, own)
         \/ Embedded(a) \/ ForcedStrategy(a) \/ KeywordsDecide(a)
         \/ EnsureCentroids(a) \/ Route(a) \/ SimilaritySearch(a) \/ TraversalSearch(a, Rows)
  PROVE  FallbackInv'
<1>a. warming \in {"none", "running"} /\ (ask[a].classifier = "rule_based" /\ ~ask[a].sure => a \in blamed)
  BY DEF FallbackInv, FallbackHadAnAttempt
<1>1. ASSUME NEW t \in Texts, NEW own \in BOOLEAN, EmbedSingle(a, t, own) PROVE FallbackInv'
  <2>1. UNCHANGED <<warming, blamed>>
    BY <1>1 DEF EmbedSingle
  <2>2. \/ Turns(a, [NoQuestion EXCEPT !.pc = "embedded", !.own = own])
        \/ Turns(a, [NoQuestion EXCEPT !.pc = "embedding", !.own = own, !.text = t])
    BY <1>1 DEF EmbedSingle
  <2>3. ASSUME NEW x, \/ x = [NoQuestion EXCEPT !.pc = "embedded", !.own = own]
                      \/ x = [NoQuestion EXCEPT !.pc = "embedding", !.own = own, !.text = t]
        PROVE  x \in Question /\ x.classifier = "none"
    BY <2>3 DEF NoQuestion, Question
  <2> QED
    BY <1>a, <2>1, <2>2, <2>3, OneAskTurns
<1>2. CASE Embedded(a)
  <2>1. /\ UNCHANGED <<warming, blamed>>
        /\ \E x : Turns(a, x) /\ (x = NoQuestion \/ x = [ask[a] EXCEPT !.pc = "embedded", !.text = "none"])
    BY <1>2 DEF Embedded
  <2>2. PICK x : Turns(a, x) /\ (x = NoQuestion \/ x = [ask[a] EXCEPT !.pc = "embedded", !.text = "none"])
    BY <2>1
  <2>3. x \in Question /\ (x.classifier = "none" \/ (x.classifier = ask[a].classifier /\ x.sure = ask[a].sure))
    BY <2>2, BlankQuestion, MovedQuestion
  <2> QED
    BY <1>a, <2>1, <2>2, <2>3, OneAskTurns
<1>3. CASE ForcedStrategy(a) \/ KeywordsDecide(a) 
  <2>1. /\ UNCHANGED <<warming, blamed>>
        /\ \E s \in Strategies, k \in {"forced", "rule_based"} : Turns(a, Routed(a, k, TRUE, s))
    BY <1>3 DEF ForcedStrategy, KeywordsDecide, RuleBased, Strategies
  <2>2. ASSUME NEW s \in Strategies, NEW k \in {"forced", "rule_based"}, NEW x,
               x = Routed(a, k, TRUE, s), Turns(a, x)
        PROVE  FallbackInv'
    <3>1. x \in Question /\ x.sure = TRUE
      BY <2>2, RoutedQuestion
    <3> QED
      BY <1>a, <2>1, <2>2, <3>1, OneAskTurns
  <2> QED
    BY <2>1, <2>2
<1>4. CASE EnsureCentroids(a)
  <2>1. /\ UNCHANGED blamed /\ warming' \in {"none", "running"}
        /\ \/ \E s \in Strategies : Turns(a, Routed(a, "embedding_centroid", FALSE, s))
           \/ Turns(a, [ask[a] EXCEPT !.pc = "waiting"])
    BY <1>a, <1>4 DEF EnsureCentroids, NearestCentroid
  <2>2. PICK x : /\ Turns(a, x)
                 /\ \/ \E s \in Strategies : x = Routed(a, "embedding_centroid", FALSE, s)
                    \/ x = [ask[a] EXCEPT !.pc = "waiting"]
    BY <2>1
  <2>3. x \in Question /\ (x.classifier = "embedding_centroid" \/ (x.classifier = ask[a].classifier /\ x.sure = ask[a].sure))
    <3>1. ASSUME NEW s \in Strategies, x = Routed(a, "embedding_centroid", FALSE, s)
          PROVE  x \in Question /\ x.classifier = "embedding_centroid"
      BY <3>1, RoutedQuestion
    <3>2. CASE x = [ask[a] EXCEPT !.pc = "waiting"]
      BY <3>2, MovedQuestion
    <3> QED
      BY <2>2, <3>1, <3>2
  <2> QED
    BY <1>a, <2>1, <2>2, <2>3, OneAskTurns
<1>5. CASE Route(a)
  <2>1. /\ UNCHANGED warming /\ blamed' = blamed \ {a}
        /\ Turns(a, [NoQuestion EXCEPT !.pc = Needs(ask[a].strategy), !.strategy = ask[a].strategy])
    BY <1>5 DEF Route
  <2>2. ASSUME NEW x, x = [NoQuestion EXCEPT !.pc = Needs(ask[a].strategy), !.strategy = ask[a].strategy]
        PROVE  x \in Question /\ x.classifier = "none"
    <3>1. ask[a].strategy \in Strategies \cup {"none"} /\ Needs(ask[a].strategy) \in {"graph", "vector"}
      BY DEF FallbackInv, Question, Needs
    <3> QED
      BY <2>2, <3>1 DEF NoQuestion, Question
  <2> QED
    BY <1>a, <2>1, <2>2, OneAskTurns
<1>6. CASE SimilaritySearch(a) \/ TraversalSearch(a, Rows)
  <2>1. /\ UNCHANGED <<warming, blamed>>
        /\ \/ Turns(a, NoQuestion)
           \/ \E pc \in {"graph", "vector"} : Turns(a, [ask[a] EXCEPT !.pc = pc])
    BY <1>6 DEF SimilaritySearch, TraversalSearch
  <2>2. PICK x : /\ Turns(a, x)
                 /\ x = NoQuestion \/ \E pc \in {"waiting", "graph", "vector"} : x = [ask[a] EXCEPT !.pc = pc]
    BY <2>1
  <2>3. x \in Question /\ (x.classifier = "none" \/ (x.classifier = ask[a].classifier /\ x.sure = ask[a].sure))
    BY <2>2, BlankQuestion, MovedQuestion
  <2> QED
    BY <1>a, <2>1, <2>2, <2>3, OneAskTurns
<1> QED
  BY <1>1, <1>2, <1>3, <1>4, <1>5, <1>6

LEMMA FallbackInductive ==
  /\ RetrievalInit => FallbackInv
  /\ FallbackInv /\ [RetrievalNext]_retrievalVars => FallbackInv'
<1>1. RetrievalInit => FallbackInv
  BY DEF RetrievalInit, FallbackInv, FallbackHadAnAttempt, NoQuestion, Question
<1>2. FallbackInv /\ [RetrievalNext]_retrievalVars => FallbackInv'
  <2> SUFFICES ASSUME FallbackInv, [RetrievalNext]_retrievalVars PROVE FallbackInv'
    OBVIOUS
  <2>1. CASE UNCHANGED retrievalVars \/ \E t \in Texts : Expire(t)
    BY <2>1 DEF retrievalVars, Expire, FallbackInv, FallbackHadAnAttempt
  <2>2. CASE WarmUpEnds
    <3>1. PICK ok \in EmbedBatch(payer), nearest \in [Askers -> Strategies] :
            /\ warming' = "none"
            /\ ask' = [a \in Askers |-> IF ask[a].pc # "waiting" THEN ask[a]
                                        ELSE IF ok THEN Routed(a, "embedding_centroid", FALSE, nearest[a])
                                        ELSE Fallback(a)]
            /\ blamed' = IF ok THEN blamed ELSE blamed \cup {a \in Askers : ask[a].pc = "waiting"}
      BY <2>2 DEF WarmUpEnds, Forgotten, NearestCentroid
    <3>2. ASSUME NEW a \in Askers
          PROVE  /\ ask'[a] \in Question
                 /\ ask'[a].classifier = "rule_based" /\ ~ask'[a].sure => a \in blamed'
      <4>1. CASE ask[a].pc # "waiting"
        BY <3>1, <4>1 DEF FallbackInv, FallbackHadAnAttempt
      <4>2. CASE ask[a].pc = "waiting" /\ ok
        <5>1. ask'[a] = Routed(a, "embedding_centroid", FALSE, nearest[a]) /\ nearest[a] \in Strategies
          BY <3>1, <4>2
        <5> QED
          BY <5>1, RoutedQuestion
      <4>3. CASE ask[a].pc = "waiting" /\ ~ok
        <5>1. ask'[a] = Fallback(a) /\ a \in blamed'
          BY <3>1, <4>3
        <5>2. RuleBased(0, 0) \in Strategies
          BY DEF RuleBased, Strategies
        <5>3. Fallback(a) \in Question
          BY <5>2, RoutedQuestion DEF Fallback
        <5> QED
          BY <5>1, <5>3
      <4> QED
        BY <4>1, <4>2, <4>3
    <3> QED
      BY <3>1, <3>2 DEF FallbackInv, FallbackHadAnAttempt
  <2> QED
    BY <2>1, <2>2, AskKeepsFallback DEF RetrievalNext, PipelineNext
<1> QED
  BY <1>1, <1>2

(* A query falls back on the rules only when its own attempt to warm the   *)
(* centroids up failed: ensureCentroids forgets a rejected promise before  *)
(* anybody can find it.                                                    *)
THEOREM FallbackCorrect == RetrievalSpec => []FallbackHadAnAttempt
<1>1. FallbackInv => FallbackHadAnAttempt
  BY DEF FallbackInv
<1> QED
  BY <1>1, FallbackInductive, PTL DEF RetrievalSpec

---------------------------------------------------------------------------
CallRecord == [op : {"create", "remove", "retry"}, id : Entries \cup {Nobody},
               no : 1 .. MaxCalls, visit : 1 .. MaxVisits, phase : Phases]

ListRequest == [pc : {"idle", "asked", "read"}, got : Snapshots \cup {NoList}]
PageRecord == [create : BOOLEAN, confirm : Entries \cup {Nobody}, shown : Entries \cup {Nobody}]

(* What a call is about is settled when it is executed: a row of its own   *)
(* for a create, which stays out of the table until the COMMIT, and a row  *)
(* that the page had listed for the others.                                *)
CallOK(c) ==
    /\ c.visit <= visit.no
    /\ c.phase \notin {"sent", "refused", "adrift"} => c.id \in Entries
    /\ c.op # "create" => c.id \in Entries /\ table[c.id] # "absent" /\ kind # "queries"
    /\ c.op = "create" /\ c.phase \in {"done", "told"} => table[c.id] = "absent"
    /\ Secretive => c.op # "retry"
CallsOK ==
    /\ \A c \in calls : CallOK(c)
    /\ \A c, d \in calls : c.op = "create" /\ d.op = "create" /\ c.id = d.id /\ c.id \in Entries => c = d
    /\ Secretive => \A c, d \in Pending : c.op = "create" /\ d.op = "create" => c = d

(* A dialog belongs to a page that is open, a secret to a form that has    *)
(* had its answer.                                                         *)
PageOK ==
    /\ ~visit.open => page = Blank
    /\ visit.open => visit.no >= 1
    /\ page.create => kind \in {"keys", "webhooks", "team"}
    /\ page.confirm # Nobody => kind # "queries"
    /\ page.shown # Nobody => Secretive /\ ~Loading("create")
    /\ page.shown # Nobody /\ page.confirm = Nobody => page.shown \in seen

(* The browser knows no row that has not been committed.                   *)
RowsKnown == \A e \in Entries : table[e] = "absent" =>
    cached[e] \notin Present /\ fetch.got[e] \notin Present /\ page.confirm # e

Accounted(e) == e \in seen \/ e \in forgone \/ page.shown = e
SecretsOK == Secretive =>
    /\ \A c \in calls : c.op = "create" /\ c.phase = "told" => Accounted(c.id)
    /\ \A e \in Entries : table[e] = "there" =>
         Accounted(e) \/ \E c \in calls : c.op = "create" /\ c.id = e /\ c.phase = "committed"

(* What is going to bring the list up to date with the row e, or has.      *)
Agree(s, e) == (s[e] \in Present) = (table[e] \in Present)
UpToDate(e) ==
    \/ \E c \in calls : c.id = e /\ c.phase = "committed" /\ c.op \in {"create", "remove"}
    \/ stale
    \/ fetch.pc = "asked"
    \/ fetch.pc = "read" /\ Agree(fetch.got, e)
    \/ fetch.pc = "idle" /\ (broken \/ Agree(cached, e) \/ (~visit.open /\ cached = NoList))
ListOK ==
    /\ \A e \in Entries \ raced : UpToDate(e)
    /\ stale /\ fetch.pc = "idle" => \E c \in calls : Unanswered(c)

ConsoleInv == ConsoleTypeOK /\ CallsOK /\ PageOK /\ RowsKnown /\ SecretsOK /\ ListOK

(* What a page offers, an element at a time.                               *)
LEMMA OfferMember ==
  ASSUME NEW op, NEW e, NEW p, NEW es
  PROVE  <<op, e>> \in Offer(p, es) <=> op = p /\ e \in es
BY DEF Offer

LEMMA OffersFit ==
  ASSUME ConsoleInv, NEW op, NEW e, <<op, e>> \in Offers
  PROVE  /\ visit.open
         /\ op = "create" => /\ e = Nobody /\ page.shown = Nobody
                             /\ Secretive => ~Loading("create")
         /\ op \in {"remove", "retry", "ask"} => e \in Entries /\ table[e] # "absent" /\ kind # "queries"
         /\ op = "retry" => ~Secretive
         /\ op \in {"openForm", "ask"} => page.confirm = Nobody /\ page.shown = Nobody
         /\ op = "openForm" => kind \in {"keys", "webhooks", "team"}
<1> USE ConsoleAssumption
<1>1. visit.open
  BY DEF Offers
<1>2. CASE page.confirm # Nobody
  <2>1. <<op, e>> \in ConfirmDialog
    BY <1>1, <1>2 DEF Offers
  <2>2. op = "dismiss" \/ (op = "remove" /\ e = page.confirm)
    BY <2>1, OfferMember DEF ConfirmDialog, Modal, Button
  <2>3. page.confirm \in Entries /\ table[page.confirm] # "absent" /\ kind # "queries"
    BY <1>2 DEF ConsoleInv, ConsoleTypeOK, PageOK, RowsKnown, PageRecord, ListRequest
  <2> QED
    BY <1>1, <2>2, <2>3
<1>3. CASE page.confirm = Nobody /\ page.shown # Nobody
  BY <1>1, <1>3, OfferMember DEF Offers, RevealKey, RevealSecret, Modal
<1>4. CASE page.confirm = Nobody /\ page.shown = Nobody /\ page.create
  <2>1. kind \in {"keys", "webhooks", "team"}
    BY <1>4 DEF ConsoleInv, PageOK
  <2>2. op = "dismiss" \/ (op = "create" /\ e = Nobody /\ ~Loading("create"))
    BY <1>1, <1>4, <2>1, OfferMember DEF Offers, ApiKeyForm, WebhookForm, InviteForm, Modal, Button
  <2> QED
    BY <1>1, <1>4, <2>2
<1>5. CASE page.confirm = Nobody /\ page.shown = Nobody /\ ~page.create
  <2>1. <<op, e>> \in View /\ kind \in Kinds
    BY <1>1, <1>5 DEF Offers, ConsoleInv, ConsoleTypeOK, PageRecord, ListRequest
  <2>2. /\ Listed \subseteq {x \in Entries : cached[x] \in Present} /\ "failed" \in Present
        /\ \A x \in Entries : cached[x] \in Present => table[x] # "absent"
    BY DEF Listed, ConsoleInv, RowsKnown, Present
  <2>3. \A p, x : <<p, x>> \in TryAgain => p = "refetch"
    BY OfferMember DEF TryAgain
  <2>4. CASE kind = "keys"
    <3>1. \/ op \in {"openForm", "refetch"}
          \/ op = "ask" /\ e \in Listed
      BY <2>1, <2>3, <2>4, OfferMember DEF View, ApiKeysView
    <3> QED
      BY <1>1, <1>5, <2>2, <2>4, <3>1
  <2>5. CASE kind = "webhooks"
    <3>1. \/ op \in {"openForm", "refetch"}
          \/ op = "remove" /\ e \in Listed
      BY <2>1, <2>3, <2>5, OfferMember DEF View, WebhooksView
    <3> QED
      BY <1>1, <1>5, <2>2, <2>5, <3>1
  <2>6. CASE kind = "team"
    <3>1. \/ op \in {"openForm", "refetch"}
          \/ op = "ask" /\ e \in Listed
      BY <2>1, <2>3, <2>6, OfferMember DEF View, TeamView
    <3> QED
      BY <1>1, <1>5, <2>2, <2>6, <3>1
  <2>7. CASE kind = "documents"
    <3>1. \/ op = "refetch"
          \/ op = "create" /\ e = Nobody
          \/ op = "retry" /\ e \in Listed
          \/ op = "ask" /\ e \in Listed
      BY <2>1, <2>3, <2>7, OfferMember DEF View, UploadZone, DocumentsError, DocumentsTable
    <3> QED
      BY <1>1, <1>5, <2>2, <2>7, <3>1 DEF Secretive
  <2>8. CASE kind = "document"
    <3>1. \/ op = "refetch"
          \/ op = "retry" /\ e \in Entries /\ cached[e] = "failed"
      BY <2>1, <2>3, <2>8, OfferMember DEF View, DocumentDetail
    <3> QED
      BY <1>1, <1>5, <2>2, <2>8, <3>1 DEF Secretive
  <2>9. CASE kind = "queries"
    <3>1. op = "create" /\ e = Nobody
      BY <2>1, <2>9, OfferMember DEF View, QueryExplorer
    <3> QED
      BY <1>1, <1>5, <2>9, <3>1 DEF Secretive
  <2> QED
    BY <2>1, <2>4, <2>5, <2>6, <2>7, <2>8, <2>9 DEF Kinds
<1> QED
  BY <1>2, <1>3, <1>4, <1>5

(* Steps that touch neither the calls nor the table nor the list.          *)
LEMMA DialogKeeps ==
  ASSUME ConsoleInv, UNCHANGED <<kind, table, using, listVars, calls, visit, raced>>,
         page' \in PageRecord,
         seen \subseteq seen', seen' \subseteq Entries, forgone \subseteq forgone', forgone' \subseteq Entries,
         \A e \in Entries : Accounted(e) => Accounted(e)',
         \A e \in Entries : table[e] = "absent" => page'.confirm # e,
         PageOK'
  PROVE  ConsoleInv'
<1>1. ConsoleTypeOK'
  BY DEF ConsoleInv, ConsoleTypeOK, listVars, PageRecord, ListRequest
<1>2. CallsOK'
  BY DEF ConsoleInv, CallsOK, CallOK, Secretive, Pending, Mine
<1>3. RowsKnown'
  BY DEF ConsoleInv, RowsKnown, listVars
<1>4. SecretsOK'
  BY DEF ConsoleInv, SecretsOK, Secretive, CallsOK, CallOK
<1>5. ListOK'
  BY DEF ConsoleInv, ListOK, UpToDate, Agree, listVars
<1> QED
  BY <1>1, <1>2, <1>3, <1>4, <1>5 DEF ConsoleInv

LEMMA OpenDialogKeeps == ASSUME ConsoleInv, OpenDialog PROVE ConsoleInv'
<1> USE ConsoleAssumption
<1>1. UNCHANGED <<kind, table, using, listVars, calls, visit, secretVars>>
  BY DEF OpenDialog
<1>2. page.confirm = Nobody /\ page.shown = Nobody /\ visit.open
  BY OffersFit DEF OpenDialog
<1>3. page \in PageRecord
      /\ seen \subseteq Entries /\ forgone \subseteq Entries
  BY DEF ConsoleInv, ConsoleTypeOK, PageRecord, ListRequest
<1>4. \/ page' = [page EXCEPT !.create = TRUE] /\ kind \in {"keys", "webhooks", "team"}
      \/ \E e \in Entries : /\ page' = [page EXCEPT !.confirm = e]
                            /\ table[e] # "absent" /\ kind # "queries"
  BY OffersFit DEF OpenDialog
<1>5. /\ page' \in PageRecord
      /\ page'.shown = Nobody /\ (page'.create => kind \in {"keys", "webhooks", "team"})
      /\ page'.confirm # Nobody => kind # "queries" /\ table[page'.confirm] # "absent"
  BY <1>2, <1>3, <1>4 DEF ConsoleInv, PageOK, PageRecord
<1>6. PageOK'
  BY <1>1, <1>2, <1>5 DEF ConsoleInv, PageOK
<1>7. \A e \in Entries : (Accounted(e) => Accounted(e)') /\ (table[e] = "absent" => page'.confirm # e)
  BY <1>1, <1>2, <1>5 DEF Accounted, secretVars
<1> QED
  BY <1>1, <1>3, <1>5, <1>6, <1>7, DialogKeeps DEF secretVars

LEMMA DismissKeeps == ASSUME ConsoleInv, Dismiss PROVE ConsoleInv'
<1> USE ConsoleAssumption
<1>1. UNCHANGED <<kind, table, using, listVars, calls, visit, forgone, raced>> /\ Look(page')
  BY DEF Dismiss
<1>2. visit.open
  BY OffersFit DEF Dismiss
<1>3. page \in PageRecord
      /\ seen \subseteq Entries /\ forgone \subseteq Entries
  BY DEF ConsoleInv, ConsoleTypeOK, PageRecord, ListRequest
<1>4. \/ page.confirm # Nobody /\ page' = [page EXCEPT !.confirm = Nobody]
      \/ page.confirm = Nobody /\ page.shown # Nobody /\ page' = [page EXCEPT !.shown = Nobody]
      \/ page.confirm = Nobody /\ page.shown = Nobody /\ page' = [page EXCEPT !.create = FALSE]
  BY DEF Dismiss
<1>5. /\ page' \in PageRecord
      /\ page'.confirm = Nobody /\ (page'.create => page.create)
      /\ page'.shown # Nobody => page'.shown = page.shown
      /\ page'.shown # page.shown => page.confirm = Nobody
  BY <1>3, <1>4 DEF PageRecord
<1>6. seen' = seen \cup ({page'.shown} \ {Nobody})
  BY <1>1, <1>5 DEF Look
<1>7. PageOK'
  BY <1>1, <1>2, <1>5, <1>6 DEF ConsoleInv, PageOK, Secretive, Loading, Pending, Mine
<1>8. \A e \in Entries : Accounted(e) => Accounted(e)'
  BY <1>1, <1>5, <1>6 DEF Accounted, ConsoleInv, PageOK
<1> QED
  BY <1>1, <1>3, <1>5, <1>6, <1>7, <1>8, DialogKeeps DEF PageRecord

LEMMA EscapeKeeps == ASSUME ConsoleInv, Escape PROVE ConsoleInv'
<1> USE ConsoleAssumption
<1>1. UNCHANGED <<kind, table, using, listVars, calls, visit, seen, raced>> /\ page' = Blank
      /\ forgone' = forgone \cup Covered
  BY DEF Escape
<1>2. visit.open
  BY OffersFit DEF Escape
<1>3. page \in PageRecord
      /\ seen \subseteq Entries /\ forgone \subseteq Entries
  BY DEF ConsoleInv, ConsoleTypeOK, PageRecord, ListRequest
<1>4. Covered \subseteq Entries /\ \A e \in Entries : Accounted(e) => Accounted(e)'
  BY <1>1, <1>3 DEF Covered, Accounted, ConsoleInv, PageOK, PageRecord
<1>5. PageOK'
  BY <1>1, <1>2 DEF Blank, ConsoleInv, PageOK
<1> QED
  BY <1>1, <1>3, <1>4, <1>5, DialogKeeps DEF Blank, PageRecord

(* Steps of the visit.                                                     *)
LEMMA VisitKeeps ==
  ASSUME ConsoleInv, OpenPage \/ LeavePage
  PROVE  ConsoleInv'
<1> USE ConsoleAssumption
<1>1. UNCHANGED <<kind, table, using, cached, broken, stale, calls, seen, raced>>
  BY DEF OpenPage, LeavePage, listVars, secretVars
<1>2. visit' \in [no : 0 .. MaxVisits, open : BOOLEAN, asked : 0 .. MaxCalls] /\ visit.no <= visit'.no
      /\ visit.no \in Nat /\ visit'.no \in Nat
      /\ (visit'.open => ~visit.open /\ visit'.no = visit.no + 1)
  <2>1. visit \in [no : 0 .. MaxVisits, open : BOOLEAN, asked : 0 .. MaxCalls]
    BY DEF ConsoleInv, ConsoleTypeOK, PageRecord, ListRequest
  <2>a. visit.no \in 0 .. MaxVisits /\ MaxVisits \in Nat
    BY <2>1
  <2>2. CASE OpenPage
    <3>1. visit' = [visit EXCEPT !.no = visit.no + 1, !.open = TRUE] /\ visit.no < MaxVisits /\ ~visit.open
      BY <2>2 DEF OpenPage
    <3>2. visit.no + 1 \in 0 .. MaxVisits /\ visit.no <= visit.no + 1
      BY <2>a, <3>1
    <3>3. visit'.no = visit.no + 1
      BY <2>1, <3>1
    <3>4. visit' \in [no : 0 .. MaxVisits, open : BOOLEAN, asked : 0 .. MaxCalls]
      BY <2>1, <3>1, <3>2
    <3> QED
      BY <2>a, <3>1, <3>2, <3>3, <3>4
  <2>3. CASE LeavePage
    <3>1. visit' = [visit EXCEPT !.open = FALSE]
      BY <2>3 DEF LeavePage
    <3>2. visit' \in [no : 0 .. MaxVisits, open : BOOLEAN, asked : 0 .. MaxCalls] /\ visit'.no = visit.no /\ ~visit'.open
      BY <2>1, <3>1
    <3> QED
      BY <2>a, <3>2
  <2> QED
    BY <2>2, <2>3
<1>3. /\ page' \in PageRecord
      /\ page' = Blank /\ forgone \subseteq forgone' /\ forgone' \subseteq Entries
      /\ \A e \in Entries : Accounted(e) => Accounted(e)'
  <2>1. page \in PageRecord
        /\ seen \subseteq Entries /\ forgone \subseteq Entries
    BY DEF ConsoleInv, ConsoleTypeOK, PageRecord, ListRequest
  <2>2. CASE OpenPage
    BY <1>1, <2>1, <2>2 DEF OpenPage, Accounted, ConsoleInv, PageOK, secretVars
  <2>3. CASE LeavePage
    BY <1>1, <2>1, <2>3 DEF LeavePage, Accounted, ConsoleInv, PageOK, Covered, Blank, PageRecord
  <2> QED
    BY <2>2, <2>3
<1>4. \A c \in calls : c \in CallRecord /\ c.visit <= visit.no
  BY DEF ConsoleInv, ConsoleTypeOK, CallsOK, CallOK, CallRecord, PageRecord, ListRequest
<1>5. Pending' = {}
  BY <1>1, <1>2, <1>4 DEF Pending, Mine, CallRecord
<1>6. fetch' \in ListRequest /\ fetch'.got = fetch.got
      /\ \/ UNCHANGED fetch /\ (fetch.pc = "idle" /\ visit'.open => cached # NoList)
         \/ fetch'.pc = "asked"
  BY <1>1 DEF OpenPage, LeavePage, ConsoleInv, ConsoleTypeOK, listVars, PageRecord, ListRequest
<1>7. ConsoleTypeOK'
  BY <1>1, <1>2, <1>3, <1>6 DEF ConsoleInv, ConsoleTypeOK, PageRecord, ListRequest
<1>8. CallsOK'
  <2>1. \A c \in calls : CallOK(c)'
    BY <1>1, <1>2, <1>4 DEF ConsoleInv, CallsOK, CallOK, Secretive, CallRecord
  <2> QED
    BY <1>1, <1>5, <2>1 DEF ConsoleInv, CallsOK, Secretive
<1>9. PageOK'
  BY <1>2, <1>3 DEF Blank, PageOK
<1>10. RowsKnown'
  BY <1>1, <1>3, <1>6 DEF ConsoleInv, RowsKnown, Blank
<1>11. SecretsOK'
  BY <1>1, <1>3 DEF ConsoleInv, SecretsOK, Secretive, CallsOK, CallOK
<1>12. ListOK'
  BY <1>1, <1>6 DEF ConsoleInv, ListOK, UpToDate, Agree, OpenPage, LeavePage
<1> QED
  BY <1>7, <1>8, <1>9, <1>10, <1>11, <1>12 DEF ConsoleInv

(* Steps of the list.                                                      *)
LEMMA ListKeeps ==
  ASSUME ConsoleInv, UNCHANGED <<kind, table, using, calls, visit, page, secretVars>>,
         cached' \in Snapshots \cup {NoList}, broken' \in BOOLEAN, stale' \in BOOLEAN,
         fetch' \in ListRequest,
         \A e \in Entries : table[e] = "absent" => cached'[e] \notin Present /\ fetch'.got[e] \notin Present,
         ListOK'
  PROVE  ConsoleInv'
<1>1. ConsoleTypeOK'
  BY DEF ConsoleInv, ConsoleTypeOK, secretVars, PageRecord, ListRequest
<1>2. CallsOK'
  BY DEF ConsoleInv, CallsOK, CallOK, Secretive, Pending, Mine
<1>3. RowsKnown'
  BY DEF ConsoleInv, RowsKnown
<1>4. SecretsOK' /\ PageOK'
  BY DEF ConsoleInv, SecretsOK, PageOK, Accounted, Secretive, Loading, Pending, Mine, secretVars
<1> QED
  BY <1>1, <1>2, <1>3, <1>4 DEF ConsoleInv

LEMMA NothingKnown == \A e \in Entries : NoList[e] \notin Present
BY DEF NoList, Present

LEMMA RefetchKeeps == ASSUME ConsoleInv, Refetch \/ CacheExpires \/ ReadList PROVE ConsoleInv'
<1>0. /\ UNCHANGED <<kind, table, using, calls, visit, page, secretVars>>
      /\ cached \in Snapshots \cup {NoList} /\ broken \in BOOLEAN /\ stale \in BOOLEAN /\ table \in Snapshots
      /\ fetch \in ListRequest
  BY DEF Refetch, CacheExpires, ReadList, ConsoleInv, ConsoleTypeOK, listVars, PageRecord, ListRequest
<1>1. CASE Refetch
  <2>1. fetch' = [fetch EXCEPT !.pc = "asked"] /\ UNCHANGED <<cached, broken, stale>>
    BY <1>1 DEF Refetch
  <2>2. ListOK'
    BY <1>0, <2>1 DEF ListOK, UpToDate
  <2> QED
    BY <1>0, <2>1, <2>2, ListKeeps DEF ConsoleInv, RowsKnown, ListRequest
<1>2. CASE CacheExpires
  <2>1. cached' = NoList /\ broken' = FALSE /\ ~visit.open /\ UNCHANGED <<fetch, stale>> /\ fetch.pc = "idle"
    BY <1>2 DEF CacheExpires
  <2>2. ListOK'
    BY <1>0, <2>1 DEF ListOK, UpToDate, ConsoleInv
  <2> QED
    BY <1>0, <2>1, <2>2, NothingKnown, ListKeeps DEF ConsoleInv, RowsKnown
<1>3. CASE ReadList
  <2>1. fetch' = [pc |-> "read", got |-> table] /\ UNCHANGED <<cached, broken, stale>>
    BY <1>3 DEF ReadList
  <2>2. ListOK'
    BY <1>0, <2>1 DEF ListOK, UpToDate, Agree
  <2>3. \A e \in Entries : table[e] = "absent" => table[e] \notin Present
    BY DEF Present
  <2> QED
    BY <1>0, <2>1, <2>2, <2>3, ListKeeps DEF ConsoleInv, RowsKnown, ListRequest
<1> QED
  BY <1>1, <1>2, <1>3

(* When the tags are settled, a new list is asked for, or the old one is   *)
(* dropped: a row that was going to be fresh still is.                     *)
LEMMA Settles ==
  ASSUME NEW f, NEW cs, NEW data, NEW bad \in BOOLEAN, NEW tags \in BOOLEAN,
         Settle(f, cs, data, bad, tags), visit.open \in BOOLEAN
  PROVE  \/ /\ fetch' = f /\ cached' = data /\ broken' = bad /\ stale' = tags
            /\ tags /\ f.pc = "idle" => Mutations(cs) # {}
         \/ /\ fetch' = [pc |-> "asked", got |-> NoList]
            /\ cached' = data /\ broken' = bad /\ stale' = FALSE
         \/ /\ fetch' = [pc |-> "idle", got |-> NoList]
            /\ cached' = NoList /\ broken' = FALSE /\ stale' = FALSE /\ ~visit.open
<1>1. CASE ~tags \/ f.pc # "idle" \/ Mutations(cs) # {}
  BY <1>1 DEF Settle
<1>2. CASE tags /\ f.pc = "idle" /\ Mutations(cs) = {} /\ visit.open
  <2>1. fetch' = [Idle EXCEPT !.pc = "asked"] /\ cached' = data /\ broken' = bad /\ stale' = FALSE
    BY <1>2 DEF Settle
  <2>2. fetch' = [pc |-> "asked", got |-> NoList]
    BY <2>1 DEF Idle
  <2> QED
    BY <2>1, <2>2
<1>3. CASE tags /\ f.pc = "idle" /\ Mutations(cs) = {} /\ ~visit.open
  <2>1. fetch' = Idle /\ cached' = NoList /\ broken' = FALSE /\ stale' = FALSE
    BY <1>3 DEF Settle
  <2> QED
    BY <1>3, <2>1 DEF Idle
<1> QED
  BY <1>1, <1>2, <1>3

LEMMA SettleKeeps ==
  ASSUME NEW f \in ListRequest, NEW cs \in SUBSET calls,
         NEW data \in Snapshots \cup {NoList}, NEW bad \in BOOLEAN, NEW tags \in BOOLEAN,
         Settle(f, cs, data, bad, tags), visit.open \in BOOLEAN, cs \subseteq calls',
         \A e \in Entries : table[e] = "absent" => data[e] \notin Present /\ f.got[e] \notin Present
  PROVE  /\ cached' \in Snapshots \cup {NoList} /\ broken' \in BOOLEAN /\ stale' \in BOOLEAN
         /\ fetch' \in ListRequest
         /\ \A e \in Entries : table[e] = "absent" => cached'[e] \notin Present /\ fetch'.got[e] \notin Present
         /\ stale' /\ fetch'.pc = "idle" => \E c \in calls' : Unanswered(c)
<1>1. Mutations(cs) # {} => \E c \in calls' : Unanswered(c)
  BY DEF Mutations
<1>2. CASE /\ fetch' = f /\ cached' = data /\ broken' = bad /\ stale' = tags
           /\ tags /\ f.pc = "idle" => Mutations(cs) # {}
  BY <1>1, <1>2
<1>3. CASE /\ fetch' \in {[pc |-> "asked", got |-> NoList], [pc |-> "idle", got |-> NoList]}
           /\ cached' \in {data, NoList} /\ broken' \in BOOLEAN /\ stale' = FALSE
  <2>1. fetch' \in ListRequest /\ fetch'.got = NoList
    BY <1>3 DEF ListRequest
  <2> QED
    BY <1>3, <2>1, NothingKnown
<1>4. \/ /\ fetch' = f /\ cached' = data /\ broken' = bad /\ stale' = tags
         /\ tags /\ f.pc = "idle" => Mutations(cs) # {}
      \/ /\ fetch' \in {[pc |-> "asked", got |-> NoList], [pc |-> "idle", got |-> NoList]}
         /\ cached' \in {data, NoList} /\ broken' \in BOOLEAN /\ stale' = FALSE
  <2>1. \/ /\ fetch' = f /\ cached' = data /\ broken' = bad /\ stale' = tags
           /\ tags /\ f.pc = "idle" => Mutations(cs) # {}
        \/ /\ fetch' = [pc |-> "asked", got |-> NoList]
           /\ cached' = data /\ broken' = bad /\ stale' = FALSE
        \/ /\ fetch' = [pc |-> "idle", got |-> NoList]
           /\ cached' = NoList /\ broken' = FALSE /\ stale' = FALSE /\ ~visit.open
    BY Settles, Zenon
  <2> QED
    BY <2>1
<1> QED
  BY <1>2, <1>3, <1>4

LEMMA SettleFresh ==
  ASSUME NEW f, NEW cs, NEW data, NEW bad \in BOOLEAN, NEW tags \in BOOLEAN, NEW e \in Entries,
         Settle(f, cs, data, bad, tags), visit.open \in BOOLEAN, UNCHANGED <<table, visit>>,
         \/ \E c \in calls' : c.id = e /\ c.phase = "committed" /\ c.op \in {"create", "remove"}
         \/ tags
         \/ f.pc = "asked"
         \/ f.pc = "read" /\ Agree(f.got, e)
         \/ f.pc = "idle" /\ (bad \/ Agree(data, e) \/ (~visit.open /\ data = NoList))
  PROVE  UpToDate(e)'
<1>1. CASE fetch' = f /\ cached' = data /\ broken' = bad /\ stale' = tags
  BY <1>1 DEF UpToDate, Agree
<1>2. CASE fetch' = [pc |-> "asked", got |-> NoList]
  <2>1. fetch'.pc = "asked"
    BY <1>2
  <2> QED
    BY <2>1 DEF UpToDate
<1>3. CASE fetch' = [pc |-> "idle", got |-> NoList] /\ cached' = NoList /\ ~visit.open
  <2>1. fetch'.pc = "idle"
    BY <1>3
  <2> QED
    BY <1>3, <2>1 DEF UpToDate
<1>4. \/ fetch' = f /\ cached' = data /\ broken' = bad /\ stale' = tags
      \/ fetch' = [pc |-> "asked", got |-> NoList]
      \/ fetch' = [pc |-> "idle", got |-> NoList] /\ cached' = NoList /\ ~visit.open
  BY Settles
<1> QED
  BY <1>1, <1>2, <1>3, <1>4

LEMMA StillFresh ==
  ASSUME NEW cs, NEW tags \in BOOLEAN, NEW e \in Entries, Settle(fetch, cs, cached, broken, tags),
         visit.open \in BOOLEAN, broken \in BOOLEAN, UNCHANGED <<table, visit>>,
         \/ \E c \in calls' : c.id = e /\ c.phase = "committed" /\ c.op \in {"create", "remove"}
         \/ tags
         \/ fetch.pc = "asked"
         \/ fetch.pc = "read" /\ Agree(fetch.got, e)
         \/ fetch.pc = "idle" /\ (broken \/ Agree(cached, e) \/ (~visit.open /\ cached = NoList))
  PROVE  UpToDate(e)'
<1>1. PICK f, data, bad : f = fetch /\ data = cached /\ bad = broken
  OBVIOUS
<1>2. /\ Settle(f, cs, data, bad, tags) /\ bad \in BOOLEAN
      /\ \/ \E c \in calls' : c.id = e /\ c.phase = "committed" /\ c.op \in {"create", "remove"}
         \/ tags
         \/ f.pc = "asked"
         \/ f.pc = "read" /\ Agree(f.got, e)
         \/ f.pc = "idle" /\ (bad \/ Agree(data, e) \/ (~visit.open /\ data = NoList))
  BY <1>1
<1> QED
  BY <1>2, SettleFresh, Zenon

LEMMA ListAnswerKeeps == ASSUME ConsoleInv, ListArrives \/ ListFails PROVE ConsoleInv'
<1>0. /\ UNCHANGED <<kind, table, using, calls, visit, page, secretVars>> /\ UNCHANGED raced
      /\ cached \in Snapshots \cup {NoList} /\ broken \in BOOLEAN /\ stale \in BOOLEAN
      /\ fetch \in ListRequest
      /\ \A e \in Entries : table[e] = "absent" => cached[e] \notin Present /\ fetch.got[e] \notin Present
  BY DEF ListArrives, ListFails, ConsoleInv, ConsoleTypeOK, RowsKnown, secretVars, PageRecord, ListRequest
<1>a. /\ Idle \in ListRequest
      /\ \A e \in Entries : Idle.got[e] \notin Present
      /\ Idle.pc = "idle"
  BY NothingKnown DEF Idle, ListRequest
<1>1. PICK f \in ListRequest, cs \in SUBSET calls,
           data \in Snapshots \cup {NoList}, bad \in BOOLEAN :
        /\ Settle(f, cs, data, bad, stale) /\ f.pc = "idle" /\ cs = calls
        /\ \A e \in Entries : table[e] = "absent" => data[e] \notin Present /\ f.got[e] \notin Present
        /\ \/ fetch.pc = "read" /\ data = fetch.got
           \/ bad
  <2>1. CASE ListArrives
    <3>1. Settle(Idle, calls, fetch.got, FALSE, stale) /\ fetch.pc = "read" /\ fetch.got \in Snapshots \cup {NoList}
      BY <1>0, <2>1 DEF ListArrives, ListRequest
    <3> QED
      BY <1>0, <1>a, <3>1
  <2>2. CASE ListFails
    <3>1. Settle(Idle, calls, cached, TRUE, stale)
      BY <2>2 DEF ListFails
    <3> QED
      BY <1>0, <1>a, <3>1
  <2> QED
    BY <2>1, <2>2
<1>2. cs \subseteq calls'
  BY <1>0, <1>1
<1>3. UNCHANGED <<table, visit>> /\ visit.open \in BOOLEAN
  BY <1>0 DEF ConsoleInv, ConsoleTypeOK, PageRecord, ListRequest
<1>4. /\ cached' \in Snapshots \cup {NoList} /\ broken' \in BOOLEAN /\ stale' \in BOOLEAN
      /\ fetch' \in ListRequest
      /\ \A e \in Entries : table[e] = "absent" => cached'[e] \notin Present /\ fetch'.got[e] \notin Present
      /\ stale' /\ fetch'.pc = "idle" => \E c \in calls' : Unanswered(c)
  BY <1>0, <1>1, <1>2, <1>3, SettleKeeps
<1>5. ASSUME NEW e \in Entries \ raced PROVE UpToDate(e)'
  <2>1. \/ \E c \in calls' : c.id = e /\ c.phase = "committed" /\ c.op \in {"create", "remove"}
        \/ stale \/ bad \/ Agree(data, e)
    BY <1>0, <1>1 DEF ConsoleInv, ListOK, UpToDate
  <2>2. PICK tags \in BOOLEAN : tags = stale
    BY <1>0
  <2>3. /\ \/ \E c \in calls' : c.id = e /\ c.phase = "committed" /\ c.op \in {"create", "remove"}
           \/ tags
           \/ f.pc = "asked"
           \/ f.pc = "read" /\ Agree(f.got, e)
           \/ f.pc = "idle" /\ (bad \/ Agree(data, e) \/ (~visit.open /\ data = NoList))
        /\ e \in Entries /\ Settle(f, cs, data, bad, tags)
    BY <1>0, <1>1, <2>1, <2>2
  <2> QED
    BY <1>3, <2>3, SettleFresh, Zenon
<1>6. ListOK'
  BY <1>0, <1>4, <1>5 DEF ListOK
<1> QED
  BY <1>0, <1>4, <1>6, ListKeeps

LEMMA SubmitKeeps ==
  ASSUME ConsoleInv, NEW op \in {"create", "remove", "retry"}, NEW e \in Entries \cup {Nobody}, Submit(op, e)
  PROVE  ConsoleInv'
<1> USE ConsoleAssumption
<1>0. PICK new : new = [op |-> op, id |-> e, no |-> visit.asked + 1, visit |-> visit.no, phase |-> "sent"]
  OBVIOUS
<1>1. UNCHANGED <<kind, table, using, listVars, page, secretVars>> /\ calls' = calls \cup {new}
      /\ visit' = [visit EXCEPT !.asked = @ + 1] /\ visit.asked < MaxCalls /\ <<op, e>> \in Offers
  BY <1>0 DEF Submit
<1>2. /\ visit.open
      /\ op = "create" => e = Nobody /\ page.shown = Nobody /\ (Secretive => ~Loading("create"))
      /\ op # "create" => e \in Entries /\ table[e] # "absent" /\ kind # "queries"
      /\ Secretive => op # "retry"
  BY <1>1, OffersFit
<1>3. visit \in [no : 0 .. MaxVisits, open : BOOLEAN, asked : 0 .. MaxCalls] /\ visit.no >= 1
      /\ calls \subseteq CallRecord
  BY <1>2 DEF ConsoleInv, ConsoleTypeOK, PageOK, CallRecord
<1>4. /\ visit' \in [no : 0 .. MaxVisits, open : BOOLEAN, asked : 0 .. MaxCalls]
      /\ visit'.no = visit.no /\ visit'.open = visit.open
      /\ visit.asked + 1 \in 1 .. MaxCalls
  BY <1>1, <1>3
<1>5. /\ new \in CallRecord /\ new.op = op /\ new.id = e /\ new.phase = "sent"
      /\ new.visit = visit.no /\ visit.no <= visit.no
  BY <1>0, <1>3, <1>4 DEF CallRecord, Phases
<1>6. ConsoleTypeOK'
  BY <1>1, <1>3, <1>4, <1>5 DEF ConsoleInv, ConsoleTypeOK, CallRecord, listVars, secretVars
<1>7. Pending' \subseteq Pending \cup {new} /\ Pending \subseteq Pending'
  BY <1>1, <1>4 DEF Pending, Mine, Unanswered
<1>8. CallsOK'
  <2>1. CallOK(new)'
    BY <1>1, <1>2, <1>4, <1>5 DEF CallOK, Secretive
  <2>2. \A c \in calls : CallOK(c)'
    BY <1>1, <1>4 DEF ConsoleInv, CallsOK, CallOK, Secretive
  <2>3. \A c, d \in calls' : c.op = "create" /\ d.op = "create" /\ c.id = d.id /\ c.id \in Entries => c = d
    BY <1>1, <1>2, <1>5 DEF ConsoleInv, CallsOK
  <2>4. ASSUME Secretive, NEW c \in Pending', NEW d \in Pending', c.op = "create", d.op = "create" PROVE c = d
    BY <1>2, <1>5, <1>7, <2>4 DEF ConsoleInv, CallsOK, Loading
  <2> QED
    BY <1>1, <2>1, <2>2, <2>3, <2>4 DEF CallsOK, Secretive
<1>9. PageOK'
  <2>1. page.shown # Nobody => ~Loading("create")'
    BY <1>2, <1>5, <1>7 DEF ConsoleInv, PageOK, Loading
  <2> QED
    BY <1>1, <1>4, <2>1 DEF ConsoleInv, PageOK, Secretive, secretVars
<1>10. RowsKnown'
  BY <1>1 DEF ConsoleInv, RowsKnown, listVars
<1>11. SecretsOK'
  BY <1>1, <1>5 DEF ConsoleInv, SecretsOK, Secretive, Accounted, secretVars
<1>12. ListOK'
  BY <1>1, <1>4 DEF ConsoleInv, ListOK, UpToDate, Agree, listVars, secretVars
<1> QED
  BY <1>6, <1>8, <1>9, <1>10, <1>11, <1>12 DEF ConsoleInv

(* A call that becomes the record d on the server, answered or not as      *)
(* before.                                                                 *)
LEMMA CallTurns ==
  ASSUME ConsoleInv, NEW c \in calls, NEW d \in CallRecord, calls' = (calls \ {c}) \cup {d},
         d.op = c.op, d.visit = c.visit, Unanswered(d) => Unanswered(c),
         UNCHANGED <<kind, visit, page, seen>>,
         \A x \in calls' : CallOK(x)',
         d.op = "create" /\ d.id \in Entries => \A x \in calls \ {c} : x.op = "create" => x.id # d.id
  PROVE  CallsOK' /\ PageOK'
<1>1. Pending' \subseteq (Pending \ {c}) \cup {d} /\ (d \in Pending' => c \in Pending)
  BY DEF Pending, Mine, Unanswered
<1>2. ASSUME NEW op, Loading(op)' PROVE Loading(op)
  BY <1>1, <1>2 DEF Loading
<1>3. \A x, y \in calls' : x.op = "create" /\ y.op = "create" /\ x.id = y.id /\ x.id \in Entries => x = y
  BY DEF ConsoleInv, CallsOK
<1>4. ASSUME Secretive, NEW x \in Pending', NEW y \in Pending', x.op = "create", y.op = "create" PROVE x = y
  BY <1>1, <1>4 DEF ConsoleInv, CallsOK
<1>5. CallsOK'
  BY <1>3, <1>4 DEF CallsOK, Secretive
<1>6. PageOK'
  BY <1>2 DEF ConsoleInv, PageOK, Secretive
<1> QED
  BY <1>5, <1>6

LEMMA ExecuteKeeps == ASSUME ConsoleInv, NEW c \in calls, ExecuteCall(c) PROVE ConsoleInv'
<1>0. /\ c \in CallRecord /\ calls \subseteq CallRecord /\ CallOK(c) /\ c.phase = "sent"
      /\ UNCHANGED <<kind, table, using, listVars, visit, page, secretVars>>
  BY DEF ConsoleInv, ConsoleTypeOK, CallsOK, CallRecord, ExecuteCall
<1>1. PICK d : /\ calls' = (calls \ {c}) \cup {d}
               /\ \/ d = [c EXCEPT !.phase = "refused"]
                  \/ \E e \in Entries : Executable(c, e) /\ d = [c EXCEPT !.id = e, !.phase = "done"]
  BY DEF ExecuteCall, Step
<1>2. /\ d \in CallRecord /\ d.op = c.op /\ d.visit = c.visit
      /\ \/ d.phase = "refused" /\ d.id = c.id
         \/ d.phase = "done" /\ d.id \in Entries /\ Executable(c, d.id)
  <2>1. CASE d = [c EXCEPT !.phase = "refused"]
    BY <1>0, <2>1 DEF CallRecord, Phases
  <2>2. ASSUME NEW e \in Entries, Executable(c, e), d = [c EXCEPT !.id = e, !.phase = "done"]
        PROVE  d \in CallRecord /\ d.op = c.op /\ d.visit = c.visit /\ d.phase = "done" /\ d.id = e
    BY <1>0, <2>2 DEF CallRecord, Phases
  <2> QED
    BY <1>1, <2>1, <2>2
<1>3. /\ c.op = "create" /\ d.phase = "done" => Unused(d.id)
      /\ c.op # "create" => d.id = c.id
  BY <1>0, <1>2 DEF Executable, CallRecord
<1>4. CallOK(d)
  BY <1>0, <1>2, <1>3 DEF CallOK, Unused
<1>5. \A x \in calls' : CallOK(x)'
  BY <1>0, <1>1, <1>4 DEF ConsoleInv, CallsOK, CallOK, Secretive
<1>6. ASSUME d.op = "create", d.id \in Entries, NEW x \in calls \ {c}, x.op = "create" PROVE x.id # d.id
  BY <1>2, <1>3, <1>6 DEF Unused, ConsoleInv, CallsOK
<1>7. CallsOK' /\ PageOK'
  <2>1. UNCHANGED <<kind, visit, page, seen>>
    BY <1>0 DEF secretVars
  <2>2. Unanswered(d) => Unanswered(c)
    BY <1>0 DEF Unanswered
  <2> QED
    BY <1>0, <1>1, <1>2, <1>5, <1>6, <2>1, <2>2, CallTurns
<1>8. ConsoleTypeOK'
  <2>1. calls' \subseteq CallRecord
    BY <1>0, <1>1, <1>2
  <2> QED
    BY <1>0, <2>1 DEF ConsoleInv, ConsoleTypeOK, PageRecord, ListRequest, CallRecord, listVars, secretVars
<1>9. RowsKnown'
  BY <1>0 DEF ConsoleInv, RowsKnown, listVars
<1>10. SecretsOK'
  <2>1. \A e : Accounted(e)' <=> Accounted(e)
    BY <1>0 DEF Accounted, secretVars
  <2>2. \A x \in calls' : x.phase = "told" => x \in calls
    BY <1>1, <1>2
  <2>3. \A x \in calls : x.phase = "committed" => x \in calls'
    BY <1>0, <1>1
  <2> QED
    BY <1>0, <2>1, <2>2, <2>3 DEF ConsoleInv, SecretsOK, Secretive
<1>11. ListOK'
  <2>1. \A e \in Entries : UpToDate(e) => UpToDate(e)'
    BY <1>0, <1>1 DEF UpToDate, Agree, listVars
  <2>2. Unanswered(d) /\ d \in calls'
    BY <1>1, <1>2 DEF Unanswered
  <2>3. (\E x \in calls : Unanswered(x)) => \E x \in calls' : Unanswered(x)
    BY <2>2
  <2> QED
    BY <1>0, <2>1, <2>3 DEF ConsoleInv, ListOK, listVars, secretVars
<1> QED
  BY <1>7, <1>8, <1>9, <1>10, <1>11 DEF ConsoleInv

LEMMA ExecuteUnheardKeeps == ASSUME ConsoleInv, NEW c \in calls, ExecuteUnheard(c) PROVE ConsoleInv'
<1>0. /\ c \in CallRecord /\ calls \subseteq CallRecord /\ CallOK(c) /\ c.phase = "adrift" /\ ~Unanswered(c)
      /\ UNCHANGED <<kind, table, using, listVars, visit, page, seen, raced>> /\ forgone \subseteq Entries
  BY DEF ConsoleInv, ConsoleTypeOK, CallsOK, CallRecord, ExecuteUnheard, Unanswered
<1>a. PICK e \in Entries \cup {Nobody} :
        \/ /\ calls' = (calls \ {c}) \cup {[c EXCEPT !.id = e, !.phase = "told"]}
           /\ e \in Entries /\ Executable(c, e)
           /\ forgone' = forgone \cup (IF c.op = "create" /\ Secretive THEN {e} ELSE {})
        \/ calls' = calls \ {c} /\ forgone' = forgone
  BY DEF ExecuteUnheard, Step
<1>b. PICK d : d = [c EXCEPT !.id = e, !.phase = "told"]
  OBVIOUS
<1>1. /\ d = [c EXCEPT !.id = e, !.phase = "told"]
      /\ \/ /\ calls' = (calls \ {c}) \cup {d} /\ e \in Entries /\ Executable(c, e)
            /\ forgone' = forgone \cup (IF c.op = "create" /\ Secretive THEN {e} ELSE {})
         \/ calls' = calls \ {c} /\ forgone' = forgone
  BY <1>a, <1>b
<1>2. d \in CallRecord /\ d.op = c.op /\ d.visit = c.visit /\ d.phase = "told" /\ d.id = e /\ ~Unanswered(d)
  BY <1>0, <1>1 DEF CallRecord, Phases, Unanswered
<1>3. d \in calls' => \/ d \in calls
                      \/ /\ e \in Entries /\ Executable(c, e)
                         /\ forgone' = forgone \cup (IF c.op = "create" /\ Secretive THEN {e} ELSE {})
  BY <1>1
<1>4. Executable(c, e) => /\ c.op = "create" => Unused(e)
                          /\ c.op # "create" => e = c.id
  BY <1>0 DEF Executable, CallRecord
<1>5. e \in Entries /\ Executable(c, e) => CallOK(d)
  BY <1>0, <1>2, <1>4 DEF CallOK, Unused
<1>6. \A x \in calls' : CallOK(x)'
  <2>1. \A x \in calls' : CallOK(x)
    BY <1>1, <1>3, <1>5 DEF ConsoleInv, CallsOK
  <2> QED
    BY <1>0, <2>1 DEF CallOK, Secretive
<1>7. CallsOK' /\ PageOK'
  <2>1. CASE calls' = calls \ {c}
    <3>1. Pending' = Pending
      BY <1>0, <2>1 DEF Pending, Mine, Unanswered
    <3> QED
      BY <1>0, <1>6, <2>1, <3>1 DEF ConsoleInv, CallsOK, PageOK, Secretive, Loading
  <2>2. CASE calls' = (calls \ {c}) \cup {d} /\ e \in Entries /\ Executable(c, e)
    <3>1. ASSUME d.op = "create", d.id \in Entries, NEW x \in calls \ {c}, x.op = "create" PROVE x.id # d.id
      BY <1>2, <1>4, <2>2, <3>1 DEF Unused
    <3>2. UNCHANGED <<kind, visit, page, seen>>
      BY <1>0
    <3> QED
      BY <1>0, <1>2, <1>6, <2>2, <3>1, <3>2, CallTurns
  <2> QED
    BY <1>1, <2>1, <2>2
<1>8. ConsoleTypeOK'
  <2>1. calls' \subseteq CallRecord /\ forgone' \subseteq Entries
    BY <1>0, <1>1, <1>2
  <2> QED
    BY <1>0, <2>1 DEF ConsoleInv, ConsoleTypeOK, PageRecord, ListRequest, CallRecord, listVars
<1>9. RowsKnown'
  BY <1>0 DEF ConsoleInv, RowsKnown, listVars
<1>10. SecretsOK'
  <2> SUFFICES ASSUME Secretive PROVE SecretsOK'
    BY <1>0 DEF SecretsOK, Secretive
  <2>1. \A x : Accounted(x) => Accounted(x)'
    BY <1>0, <1>1 DEF Accounted
  <2>2. ASSUME NEW x \in calls', x.op = "create", x.phase = "told" PROVE Accounted(x.id)'
    <3>1. CASE x \in calls
      BY <2>1, <2>2, <3>1 DEF ConsoleInv, SecretsOK
    <3>2. CASE x \notin calls
      <4>1. x = d
        BY <1>1, <3>2
      <4>2. x.id \in forgone'
        BY <1>2, <1>3, <2>2, <3>2, <4>1
      <4> QED
        BY <4>2 DEF Accounted
    <3> QED
      BY <3>1, <3>2
  <2>3. \A x \in calls : x.phase = "committed" => x \in calls'
    BY <1>0, <1>1
  <2> QED
    BY <1>0, <2>1, <2>2, <2>3 DEF ConsoleInv, SecretsOK, Secretive
<1>11. ListOK'
  <2>1. \A x \in calls : x.phase = "committed" \/ Unanswered(x) => x \in calls'
    BY <1>0, <1>1
  <2>2. \A x \in Entries : UpToDate(x) => UpToDate(x)'
    BY <1>0, <2>1 DEF UpToDate, Agree, listVars
  <2> QED
    BY <1>0, <2>1, <2>2 DEF ConsoleInv, ListOK, listVars
<1> QED
  BY <1>7, <1>8, <1>9, <1>10, <1>11 DEF ConsoleInv

(* A row of the table changes, and is never absent again.                  *)
LEMMA RowTurns ==
  ASSUME ConsoleInv, NEW r \in Entries, table' \in Snapshots, UNCHANGED <<kind, visit>>,
         \A e \in Entries \ {r} : table'[e] = table[e], table'[r] # "absent" \/ table' = table,
         NEW x \in calls, x.op = "create" /\ x.id = r /\ x.phase \in {"done", "told"} => table' = table
  PROVE  CallOK(x)'
BY DEF ConsoleInv, CallsOK, CallOK, Secretive

(* A call whose page has been told, or that is not there any more.         *)
LEMMA CallEnds ==
  ASSUME ConsoleInv, NEW c \in calls, NEW d, calls' \subseteq (calls \ {c}) \cup {d},
         d.op = c.op, d.id = c.id, ~Unanswered(d), UNCHANGED <<kind, visit>>, \A x \in calls' : CallOK(x)'
  PROVE  CallsOK' /\ Pending' \subseteq Pending \ {c}
<1>1. Pending' \subseteq Pending \ {c}
  BY DEF Pending, Mine, Unanswered
<1>2. \A x, y \in calls' : x.op = "create" /\ y.op = "create" /\ x.id = y.id /\ x.id \in Entries => x = y
  BY DEF ConsoleInv, CallsOK
<1>3. Secretive => \A x, y \in Pending' : x.op = "create" /\ y.op = "create" => x = y
  BY <1>1 DEF ConsoleInv, CallsOK
<1> QED
  BY <1>1, <1>2, <1>3 DEF CallsOK, Secretive

LEMMA CommitKeeps == ASSUME ConsoleInv, NEW c \in calls, Commit(c) \/ RollBack(c) PROVE ConsoleInv'
<1>0. /\ c \in CallRecord /\ calls \subseteq CallRecord /\ CallOK(c) /\ c.phase \in {"done", "told"} /\ c.id \in Entries
      /\ UNCHANGED <<kind, using, listVars, visit, page, seen, forgone>> /\ table \in Snapshots /\ raced \subseteq Entries
  BY DEF ConsoleInv, ConsoleTypeOK, CallsOK, CallOK, CallRecord, Commit, RollBack, secretVars
<1>1. PICK d : d \in CallRecord /\ d.op = c.op /\ d.visit = c.visit /\ d.id = c.id
               /\ \/ /\ c.phase = "done" /\ calls' = (calls \ {c}) \cup {d} /\ raced' = raced
                     /\ d.phase = IF Commit(c) THEN "committed" ELSE "void"
                  \/ /\ c.phase = "told" /\ calls' = calls \ {c} /\ d.phase = "told"
                     /\ raced' = IF Commit(c) THEN raced \cup {c.id} ELSE raced
  <2>1. CASE c.phase = "told"
    BY <1>0, <2>1 DEF Commit, RollBack, secretVars
  <2>2. CASE c.phase = "done" /\ Commit(c)
    <3>1. PICK d : d = [c EXCEPT !.phase = "committed"]
      OBVIOUS
    <3>2. calls' = (calls \ {c}) \cup {d} /\ raced' = raced
      BY <2>2, <3>1 DEF Commit, Step
    <3>3. d \in CallRecord /\ d.op = c.op /\ d.visit = c.visit /\ d.id = c.id /\ d.phase = "committed"
      BY <1>0, <3>1 DEF CallRecord, Phases
    <3> QED
      BY <2>2, <3>2, <3>3
  <2>3. CASE c.phase = "done" /\ ~Commit(c)
    <3>1. PICK d : d = [c EXCEPT !.phase = "void"]
      OBVIOUS
    <3>2. calls' = (calls \ {c}) \cup {d} /\ raced' = raced
      BY <2>3, <3>1 DEF RollBack, Step, secretVars
    <3>3. d \in CallRecord /\ d.op = c.op /\ d.visit = c.visit /\ d.id = c.id /\ d.phase = "void"
      BY <1>0, <3>1 DEF CallRecord, Phases
    <3> QED
      BY <2>3, <3>2, <3>3
  <2> QED
    BY <1>0, <2>1, <2>2, <2>3
<1>2. \/ Commit(c) /\ table' = [table EXCEPT ![c.id] = Changed(c)]
      \/ ~Commit(c) /\ table' = [table EXCEPT ![c.id] = "gone"] /\ c.op = "create"
      \/ ~Commit(c) /\ table' = table
  BY DEF Commit, RollBack
<1>3. /\ Changed(c) \in {"there", "gone", table[c.id]} /\ table[c.id] \in RowStates
      /\ c.op = "create" => Changed(c) = "there" /\ table[c.id] = "absent"
      /\ c.op = "remove" => Changed(c) = "gone"
      /\ c.op = "retry" => (Changed(c) \in Present <=> table[c.id] \in Present)
      /\ c.op = "retry" => Changed(c) # "absent" /\ ~Secretive
  BY <1>0 DEF Changed, CallRecord, CallOK, Snapshots, Present
<1>a. PICK v \in RowStates : /\ table' = [table EXCEPT ![c.id] = v]
                             /\ Commit(c) => v = Changed(c)
                             /\ ~Commit(c) => v = IF c.op = "create" THEN "gone" ELSE table[c.id]
  <2>1. CASE Commit(c)
    <3>1. Changed(c) \in RowStates
      BY <1>3 DEF RowStates, Present
    <3> QED
      BY <1>2, <2>1, <3>1
  <2>2. CASE ~Commit(c) /\ c.op = "create"
    BY <2>2 DEF RollBack, RowStates
  <2>3. CASE ~Commit(c) /\ c.op # "create"
    <3>1. table' = table
      BY <2>3 DEF RollBack
    <3>2. table = [table EXCEPT ![c.id] = table[c.id]]
      BY <1>0 DEF Snapshots
    <3> QED
      BY <1>3, <2>3, <3>1, <3>2
  <2> QED
    BY <2>1, <2>2, <2>3
<1>4. table' \in Snapshots /\ table'[c.id] = v /\ \A e \in Entries \ {c.id} : table'[e] = table[e]
  BY <1>0, <1>a DEF Snapshots
<1>5. v # "absent"
  BY <1>0, <1>a, <1>3 DEF CallOK
<1>6. ASSUME NEW x \in calls \ {c} PROVE CallOK(x)'
  <2>1. ASSUME x.op = "create", x.id = c.id, x.phase \in {"done", "told"} PROVE FALSE
    <3>1. table[c.id] = "absent"
      BY <2>1 DEF ConsoleInv, CallsOK, CallOK
    <3>2. c.op = "create"
      BY <1>0, <3>1 DEF CallOK
    <3> QED
      BY <1>0, <2>1, <3>2 DEF ConsoleInv, CallsOK
  <2> QED
    BY <1>0, <1>4, <1>5, <2>1, RowTurns
<1>7. ASSUME d \in calls' PROVE CallOK(d)' \/ c.phase = "told"
  BY <1>0, <1>1, <1>4, <1>5, <1>7 DEF CallOK, Secretive
<1>8. \A x \in calls' : CallOK(x)'
  BY <1>1, <1>6, <1>7
<1>9. CallsOK' /\ PageOK'
  <2>1. CASE c.phase = "done"
    <3>1. UNCHANGED <<kind, visit, page, seen>>
      BY <1>0
    <3>2. Unanswered(c) /\ calls' = (calls \ {c}) \cup {d}
      BY <1>1, <2>1 DEF Unanswered
    <3>3. \A x \in calls \ {c} : d.op = "create" /\ d.id \in Entries /\ x.op = "create" => x.id # d.id
      BY <1>1 DEF ConsoleInv, CallsOK
    <3> QED
      BY <1>1, <1>8, <3>1, <3>2, <3>3, CallTurns
  <2>2. CASE c.phase = "told"
    <3>1. calls' \subseteq (calls \ {c}) \cup {d} /\ ~Unanswered(d) /\ UNCHANGED <<kind, visit>>
      BY <1>0, <1>1, <2>2 DEF Unanswered
    <3>2. CallsOK' /\ Pending' \subseteq Pending
      BY <1>1, <1>8, <3>1, CallEnds
    <3> QED
      BY <1>0, <3>2 DEF ConsoleInv, PageOK, Secretive, Loading
  <2> QED
    BY <1>0, <2>1, <2>2
<1>10. ConsoleTypeOK'
  BY <1>0, <1>1, <1>4 DEF ConsoleInv, ConsoleTypeOK, CallRecord, listVars
<1>11. RowsKnown'
  BY <1>0, <1>4, <1>5 DEF ConsoleInv, RowsKnown, listVars
<1>12. SecretsOK'
  <2> SUFFICES ASSUME Secretive PROVE SecretsOK'
    BY <1>0 DEF SecretsOK, Secretive
  <2>1. \A e : Accounted(e)' <=> Accounted(e)
    BY <1>0 DEF Accounted
  <2>2. \A x \in calls' : x.phase = "told" => x \in calls
    BY <1>1
  <2>3. \A x \in calls : x.phase = "committed" => x \in calls'
    BY <1>0, <1>1
  <2>4. ASSUME NEW e \in Entries, table'[e] = "there"
        PROVE  Accounted(e) \/ \E x \in calls' : x.op = "create" /\ x.id = e /\ x.phase = "committed"
    <3>1. CASE table[e] = "there"
      BY <2>3, <3>1 DEF ConsoleInv, SecretsOK
    <3>2. CASE table[e] # "there"
      <4>1. e = c.id /\ v = "there" /\ Commit(c) /\ c.op = "create"
        BY <1>0, <1>a, <1>3, <1>4, <2>4, <3>2 DEF CallRecord
      <4>2. c.phase = "told" => Accounted(e)
        BY <4>1 DEF ConsoleInv, SecretsOK
      <4>3. c.phase = "done" => d \in calls' /\ d.phase = "committed"
        BY <1>1, <4>1
      <4> QED
        BY <1>0, <1>1, <4>1, <4>2, <4>3
    <3> QED
      BY <3>1, <3>2
  <2> QED
    BY <2>1, <2>2, <2>4 DEF ConsoleInv, SecretsOK
<1>13. ListOK'
  <2>1. stale /\ fetch.pc = "idle" => \E x \in calls' : Unanswered(x)
    <3>1. c.phase = "done" => Unanswered(d) /\ d \in calls'
      BY <1>1 DEF Unanswered
    <3>2. c.phase = "told" => ~Unanswered(c) /\ calls' = calls \ {c}
      BY <1>1 DEF Unanswered
    <3> QED
      BY <1>0, <1>1, <3>1, <3>2 DEF ConsoleInv, ListOK
  <2>2. ASSUME NEW e \in Entries \ raced', UpToDate(e), (table'[e] \in Present) = (table[e] \in Present) PROVE UpToDate(e)'
    <3>1. \A x \in calls : x.phase = "committed" => x \in calls'
      BY <1>0, <1>1
    <3> QED
      BY <1>0, <2>2, <3>1 DEF UpToDate, Agree, listVars
  <2>3. ASSUME NEW e \in Entries \ raced', (table'[e] \in Present) # (table[e] \in Present) PROVE UpToDate(e)'
    <3>1. e = c.id /\ Commit(c) /\ c.op \in {"create", "remove"}
      BY <1>0, <1>a, <1>3, <1>4, <2>3 DEF CallRecord, CallOK, Present
    <3>2. d \in calls' /\ d.phase = "committed"
      BY <1>1, <2>3, <3>1
    <3> QED
      BY <1>1, <3>1, <3>2 DEF UpToDate
  <2>4. ASSUME NEW e \in Entries \ raced' PROVE UpToDate(e)'
    <3>1. UpToDate(e)
      BY <1>1 DEF ConsoleInv, ListOK
    <3> QED
      BY <2>2, <2>3, <3>1
  <2> QED
    BY <1>0, <2>1, <2>4 DEF ListOK, listVars
<1> QED
  BY <1>9, <1>10, <1>11, <1>12, <1>13 DEF ConsoleInv

LEMMA WorkKeeps ==
  ASSUME ConsoleInv, \/ \E e \in Entries : Work(e) \/ RequireApiKey(e)
                     \/ UpdateLastUsed
  PROVE  ConsoleInv'
<1>0. UNCHANGED <<kind, listVars, calls, visit, page, secretVars>> /\ using' \in BOOLEAN
  BY DEF Work, RequireApiKey, UpdateLastUsed, ConsoleInv, ConsoleTypeOK
<1>1. PICK r \in Entries \cup {Nobody} :
        \/ table' = table
        \/ /\ r \in Entries /\ table' = [table EXCEPT ![r] = "failed"] /\ table[r] = "there" /\ ~Secretive
  BY DEF Work, RequireApiKey, UpdateLastUsed, Secretive
<1>2. /\ table' \in Snapshots
      /\ \A e \in Entries : \/ table'[e] = table[e]
                            \/ table'[e] = "failed" /\ table[e] = "there" /\ ~Secretive
  <2>1. table \in Snapshots
    BY DEF ConsoleInv, ConsoleTypeOK
  <2> QED
    BY <1>1, <2>1 DEF Snapshots, RowStates, Present
<1>3. /\ \A e \in Entries : (table'[e] \in Present) = (table[e] \in Present) /\ (table'[e] = "absent" <=> table[e] = "absent")
      /\ Secretive => \A e \in Entries : table'[e] = table[e]
  BY <1>2 DEF Present
<1>4. ConsoleTypeOK'
  BY <1>0, <1>2 DEF ConsoleInv, ConsoleTypeOK, PageRecord, ListRequest, listVars, secretVars
<1>5. CallsOK'
  <2>1. \A c \in calls : CallOK(c)'
    BY <1>0, <1>3 DEF ConsoleInv, CallsOK, CallOK, Secretive
  <2> QED
    BY <1>0, <2>1 DEF ConsoleInv, CallsOK, Secretive, Pending, Mine
<1>6. PageOK'
  BY <1>0 DEF ConsoleInv, PageOK, Secretive, Loading, Pending, Mine, secretVars
<1>7. RowsKnown'
  BY <1>0, <1>3 DEF ConsoleInv, RowsKnown, listVars
<1>8. SecretsOK'
  <2>1. \A e : Accounted(e)' <=> Accounted(e)
    BY <1>0 DEF Accounted, secretVars
  <2> QED
    BY <1>0, <1>3, <2>1 DEF ConsoleInv, SecretsOK, Secretive
<1>9. ListOK'
  BY <1>0, <1>3 DEF ConsoleInv, ListOK, UpToDate, Agree, listVars, secretVars
<1> QED
  BY <1>4, <1>5, <1>6, <1>7, <1>8, <1>9 DEF ConsoleInv

LEMMA Invalidated ==
  ASSUME kind \in Kinds, NEW op \in {"create", "remove"}, kind = "queries" => op = "create"
  PROVE  Invalidates(op)
BY DEF Invalidates, Kinds, ApiKeyTags, QueryLogTags, WebhookTags, TeamTags, DocumentTags

(* What an answer and an error have in common for the page: the call c is  *)
(* over or, when the server is not done with it, has become the record d.  *)
LEMMA ReplyKeeps ==
  ASSUME ConsoleInv, NEW c \in calls, NEW d \in CallRecord, NEW tags \in BOOLEAN,
         calls' \subseteq (calls \ {c}) \cup {d}, calls \ {c} \subseteq calls', Unanswered(c),
         d.op = c.op, d.id = c.id, d.phase \in {"told", "adrift"}, d \in calls' => CallOK(d),
         Settle(fetch, calls \ {c}, cached, broken, tags), stale => tags,
         c.phase = "committed" /\ c.op \in {"create", "remove"} /\ c.id \notin raced' => tags,
         raced \subseteq raced', raced' \subseteq Entries, forgone \subseteq forgone', forgone' \subseteq Entries,
         UNCHANGED <<kind, table, using, visit>>, Look(page'), page' \in PageRecord, ~visit.open => page' = page,
         \/ page'.shown = page.shown
         \/ page'.shown = c.id /\ Mine(c) /\ c.op = "create" /\ Secretive,
         page'.confirm \in {page.confirm, Nobody}, page'.create => page.create,
         Secretive /\ c.op = "create" /\ c.id \in Entries => Accounted(c.id)'
  PROVE  ConsoleInv'
<1> USE ConsoleAssumption
<1>0. /\ fetch \in ListRequest /\ cached \in Snapshots \cup {NoList} /\ broken \in BOOLEAN
      /\ visit.open \in BOOLEAN /\ page \in PageRecord /\ seen \subseteq Entries /\ calls \subseteq CallRecord
  BY DEF ConsoleInv, ConsoleTypeOK, PageRecord, ListRequest, CallRecord
<1>1. /\ cached' \in Snapshots \cup {NoList} /\ broken' \in BOOLEAN /\ stale' \in BOOLEAN /\ fetch' \in ListRequest
      /\ \A e \in Entries : table[e] = "absent" => cached'[e] \notin Present /\ fetch'.got[e] \notin Present
      /\ stale' /\ fetch'.pc = "idle" => \E x \in calls' : Unanswered(x)
  <2>1. \A e \in Entries : table[e] = "absent" => cached[e] \notin Present /\ fetch.got[e] \notin Present
    BY DEF ConsoleInv, RowsKnown
  <2>2. calls \ {c} \in SUBSET calls
    OBVIOUS
  <2> QED
    BY <1>0, <2>1, <2>2, SettleKeeps
<1>2. \A x \in calls' : CallOK(x)'
  BY DEF ConsoleInv, CallsOK, CallOK, Secretive
<1>3. CallsOK' /\ Pending' \subseteq Pending \ {c}
  <2>1. ~Unanswered(d)
    BY DEF Unanswered
  <2> QED
    BY <1>2, <2>1, CallEnds
<1>4. seen' = IF page'.confirm = Nobody THEN seen \cup ({page'.shown} \ {Nobody}) ELSE seen
  BY DEF Look
<1>5. Mine(c) /\ c.op = "create" /\ Secretive => page.shown = Nobody /\ ~Loading("create")'
  <2> SUFFICES ASSUME Mine(c), c.op = "create", Secretive PROVE page.shown = Nobody /\ ~Loading("create")'
    OBVIOUS
  <2>1. c \in Pending
    BY DEF Pending
  <2> QED
    BY <1>3, <2>1 DEF ConsoleInv, PageOK, CallsOK, Loading
<1>6. \A e \in Entries : Accounted(e) => Accounted(e)'
  BY <1>4, <1>5 DEF Accounted
<1>7. ConsoleTypeOK'
  <2>1. seen' \subseteq Entries
    BY <1>0, <1>4 DEF PageRecord
  <2>2. calls' \subseteq CallRecord
    BY <1>0
  <2> QED
    BY <1>0, <1>1, <2>1, <2>2 DEF ConsoleInv, ConsoleTypeOK, CallRecord, PageRecord, ListRequest
<1>8. PageOK'
  <2>1. Loading("create")' => Loading("create")
    BY <1>3 DEF Loading
  <2>2. page'.shown # Nobody => Secretive /\ ~Loading("create")'
    BY <1>5, <2>1 DEF ConsoleInv, PageOK
  <2> QED
    BY <1>4, <2>2 DEF ConsoleInv, PageOK, Secretive
<1>9. RowsKnown'
  BY <1>1 DEF ConsoleInv, RowsKnown
<1>10. SecretsOK'
  <2> SUFFICES ASSUME Secretive PROVE SecretsOK'
    BY DEF SecretsOK, Secretive
  <2>1. ASSUME NEW x \in calls', x.op = "create", x.phase = "told" PROVE Accounted(x.id)'
    <3>1. x.id \in Entries
      BY <1>2, <2>1 DEF CallOK
    <3>2. CASE x = d
      BY <3>1, <3>2, <2>1
    <3>3. CASE x \in calls
      BY <1>6, <2>1, <3>1, <3>3 DEF ConsoleInv, SecretsOK
    <3> QED
      BY <3>2, <3>3
  <2>2. ASSUME NEW e \in Entries, table'[e] = "there"
        PROVE  Accounted(e)' \/ \E x \in calls' : x.op = "create" /\ x.id = e /\ x.phase = "committed"
    <3>1. Accounted(e) \/ \E x \in calls : x.op = "create" /\ x.id = e /\ x.phase = "committed"
      BY <2>2 DEF ConsoleInv, SecretsOK
    <3> QED
      BY <1>6, <3>1
  <2> QED
    BY <2>1, <2>2 DEF SecretsOK
<1>11. ListOK'
  <2>1. ASSUME NEW e \in Entries \ raced' PROVE UpToDate(e)'
    <3>1. UpToDate(e)
      BY DEF ConsoleInv, ListOK
    <3>2. \/ \E x \in calls' : x.id = e /\ x.phase = "committed" /\ x.op \in {"create", "remove"}
          \/ tags
          \/ fetch.pc = "asked"
          \/ fetch.pc = "read" /\ Agree(fetch.got, e)
          \/ fetch.pc = "idle" /\ (broken \/ Agree(cached, e) \/ (~visit.open /\ cached = NoList))
      BY <3>1 DEF UpToDate
    <3>3. UNCHANGED <<table, visit>> /\ e \in Entries
      OBVIOUS
    <3> QED
      BY <1>0, <3>2, <3>3, StillFresh
  <2> QED
    BY <1>1, <2>1 DEF ListOK
<1> QED
  BY <1>3, <1>7, <1>8, <1>9, <1>10, <1>11 DEF ConsoleInv

LEMMA AnswerKeeps == ASSUME ConsoleInv, NEW c \in calls, Answer(c) \/ Fails(c) PROVE ConsoleInv'
<1> USE ConsoleAssumption
<1>0. /\ c \in CallRecord /\ CallOK(c) /\ page \in PageRecord /\ stale \in BOOLEAN /\ kind \in Kinds
      /\ raced \subseteq Entries /\ forgone \subseteq Entries /\ Unanswered(c)
      /\ UNCHANGED <<kind, table, using, visit>> /\ Look(page') /\ (~visit.open => page = Blank)
      /\ c.phase \in {"done", "committed", "void"} => c.id \in Entries
  BY DEF ConsoleInv, ConsoleTypeOK, CallsOK, CallOK, PageOK, CallRecord, PageRecord, Answer, Fails, Unanswered
<1>1. PICK d : d = [c EXCEPT !.phase = IF c.phase = "sent" THEN "adrift" ELSE "told"]
  OBVIOUS
<1>2. /\ d \in CallRecord /\ d.op = c.op /\ d.id = c.id /\ d.visit = c.visit
      /\ d.phase = IF c.phase = "sent" THEN "adrift" ELSE "told"
  BY <1>0, <1>1 DEF CallRecord, Phases
<1>3. /\ calls' \subseteq (calls \ {c}) \cup {d} /\ calls \ {c} \subseteq calls'
      /\ d \in calls' => CallOK(d)
  <2>1. CASE calls' = (calls \ {c}) \cup {d} /\ c.phase \in {"sent", "done"}
    <3>1. CallOK(d)
      BY <1>0, <1>2, <2>1 DEF CallOK
    <3> QED
      BY <2>1, <3>1
  <2>2. CASE calls' = calls \ {c}
    BY <2>2 DEF ConsoleInv, CallsOK
  <2>3. CASE Answer(c)
    <3>1. c.phase = "done" => d = [c EXCEPT !.phase = "told"]
      BY <1>1
    <3> QED
      BY <2>1, <2>2, <2>3, <3>1 DEF Answer
  <2>4. CASE Fails(c)
    <3>1. c.phase = "done" => d = [c EXCEPT !.phase = "told"]
      BY <1>1
    <3>2. c.phase = "sent" => d = [c EXCEPT !.phase = "adrift"]
      BY <1>1
    <3>3. PICK rest \in Remains(c) : calls' = (calls \ {c}) \cup rest
      BY <2>4 DEF Fails
    <3>4. rest = {} \/ (c.phase \in {"sent", "done"} /\ rest = {d})
      BY <3>1, <3>2, <3>3 DEF Remains
    <3> QED
      BY <2>1, <2>2, <3>3, <3>4
  <2> QED
    BY <2>3, <2>4
<1>4. Invalidates(c.op) \in BOOLEAN
  BY DEF Invalidates
<1>5. c.op \in {"create", "remove"} => Invalidates(c.op)
  BY <1>0, Invalidated DEF CallOK
<1>6. PICK tags \in BOOLEAN :
        /\ Settle(fetch, calls \ {c}, cached, broken, tags) /\ (stale => tags)
        /\ c.phase = "committed" /\ c.op \in {"create", "remove"} /\ c.id \notin raced' => tags
  <2>1. CASE Answer(c)
    <3>1. Settle(fetch, calls \ {c}, cached, broken, stale \/ Invalidates(c.op))
      BY <2>1 DEF Answer
    <3>2. (stale \/ Invalidates(c.op)) \in BOOLEAN
      BY <1>0, <1>4
    <3> QED
      BY <1>5, <3>1, <3>2
  <2>2. CASE Fails(c)
    <3>1. Settle(fetch, calls \ {c}, cached, broken, stale \/ (kind # "queries" /\ Invalidates(c.op)))
      BY <2>2 DEF Fails
    <3>2. (stale \/ (kind # "queries" /\ Invalidates(c.op))) \in BOOLEAN
      BY <1>0, <1>4
    <3>3. kind = "queries" /\ c.phase = "committed" => c.id \in raced'
      BY <1>0, <2>2 DEF Fails
    <3> QED
      BY <1>5, <3>1, <3>2, <3>3
  <2> QED
    BY <2>1, <2>2
<1>7. /\ raced \subseteq raced' /\ raced' \subseteq Entries /\ forgone \subseteq forgone' /\ forgone' \subseteq Entries
  <2>1. c.id \in Entries \cup {Nobody}
    BY <1>0 DEF CallRecord
  <2> QED
    BY <1>0, <2>1 DEF Answer, Fails, Secret
<1>8. /\ page' \in PageRecord /\ (~visit.open => page' = page)
      /\ page'.shown = page.shown \/ (page'.shown = c.id /\ Mine(c) /\ c.op = "create" /\ Secretive)
      /\ page'.confirm \in {page.confirm, Nobody} /\ (page'.create => page.create)
      /\ Answer(c) /\ Mine(c) /\ c.op = "create" /\ Secretive => page'.shown = c.id
  <2>1. c.id \in Entries \cup {Nobody} /\ c.op \in {"create", "remove", "retry"}
    BY <1>0 DEF CallRecord
  <2>2. CASE page' = page /\ ~(Answer(c) /\ Mine(c))
    BY <1>0, <2>2
  <2>3. CASE Mine(c) /\ c.op = "create" /\ Secretive /\ page' = [page EXCEPT !.shown = c.id, !.create = FALSE]
    BY <1>0, <2>1, <2>3 DEF PageRecord, Mine
  <2>4. CASE Mine(c) /\ c.op = "create" /\ ~Secretive /\ page' = [page EXCEPT !.create = FALSE]
    BY <1>0, <2>4 DEF PageRecord, Mine
  <2>5. CASE Mine(c) /\ c.op = "remove" /\ page' = [page EXCEPT !.confirm = Nobody]
    BY <1>0, <2>5 DEF PageRecord, Mine
  <2>6. CASE Mine(c) /\ c.op = "retry" /\ page' = page
    BY <1>0, <2>6
  <2>7. CASE Answer(c)
    <3>1. page' = IF Mine(c) THEN Handled(c) ELSE page
      BY <2>7 DEF Answer
    <3> QED
      BY <2>1, <2>2, <2>3, <2>4, <2>5, <2>6, <3>1 DEF Handled
  <2>8. CASE Fails(c) /\ ~Answer(c)
    <3>1. page' = IF Mine(c) /\ c.op = "remove" THEN [page EXCEPT !.confirm = Nobody] ELSE page
      BY <2>8 DEF Fails
    <3> QED
      BY <2>2, <2>5, <2>8, <3>1
  <2> QED
    BY <2>7, <2>8
<1>9. ASSUME Secretive, c.op = "create", c.id \in Entries PROVE Accounted(c.id)'
  <2>1. c.id \in Secret(c)
    BY <1>9 DEF Secret
  <2>2. Answer(c) /\ Mine(c) => page'.shown = c.id
    BY <1>8, <1>9
  <2>3. ~(Answer(c) /\ Mine(c)) => c.id \in forgone'
    BY <2>1 DEF Answer, Fails
  <2>4. c.id \in forgone' \/ page'.shown = c.id
    BY <2>2, <2>3
  <2> QED
    BY <2>4 DEF Accounted
<1>10. Secretive /\ c.op = "create" /\ c.id \in Entries => Accounted(c.id)'
  BY <1>9
<1>11. d.phase \in {"told", "adrift"}
  BY <1>2
<1> QED
  BY <1>0, <1>2, <1>11, <1>3, <1>6, <1>7, <1>8, <1>10, ReplyKeeps

LEMMA ConsoleInductive ==
  /\ ConsoleInit => ConsoleInv
  /\ ConsoleInv /\ [ConsoleNext]_consoleVars => ConsoleInv'
<1> USE ConsoleAssumption
<1>1. ASSUME ConsoleInit PROVE ConsoleInv
  <2>1. /\ visit.no = 0 /\ visit.open = FALSE /\ visit.asked = 0 /\ page = Blank /\ calls = {}
        /\ cached = NoList /\ fetch = Idle /\ broken = FALSE /\ stale = FALSE /\ using = FALSE
        /\ seen = Leaders /\ forgone = {} /\ raced = {} /\ Leaders \subseteq Entries
        /\ \A e \in Entries : table[e] = IF e \notin Leaders THEN "absent" ELSE "there"
    BY <1>1 DEF ConsoleInit
  <2>2. ConsoleTypeOK
    <3>1. table \in Snapshots
      BY <1>1 DEF ConsoleInit, Snapshots, RowStates, Present
    <3>2. visit \in [no : 0 .. MaxVisits, open : BOOLEAN, asked : 0 .. MaxCalls]
      BY <1>1 DEF ConsoleInit
    <3>3. page \in PageRecord /\ fetch \in ListRequest /\ kind \in Kinds
      BY <1>1 DEF ConsoleInit, PageRecord, ListRequest, Blank, Idle
    <3> QED
      BY <2>1, <3>1, <3>2, <3>3 DEF ConsoleTypeOK, PageRecord, ListRequest
  <2>3. CallsOK
    BY <2>1 DEF CallsOK, Pending
  <2>4. PageOK
    BY <2>1 DEF PageOK, Blank
  <2>5. RowsKnown
    BY <2>1, NothingKnown DEF RowsKnown, Idle, Blank
  <2>6. SecretsOK
    BY <2>1 DEF SecretsOK, Accounted
  <2>7. ListOK
    BY <2>1 DEF ListOK, UpToDate, Idle
  <2> QED
    BY <2>2, <2>3, <2>4, <2>5, <2>6, <2>7 DEF ConsoleInv
<1>2. ASSUME ConsoleInv, [ConsoleNext]_consoleVars PROVE ConsoleInv'
  <2>1. CASE UNCHANGED consoleVars
    <3>1. UNCHANGED <<kind, table, using, calls, visit, page, secretVars>> /\ UNCHANGED <<cached, fetch, broken, stale>>
      BY <2>1 DEF consoleVars, secretVars
    <3>2. ListOK'
      BY <1>2, <3>1 DEF ConsoleInv, ListOK, UpToDate, Agree, secretVars
    <3>3. /\ cached' \in Snapshots \cup {NoList} /\ broken' \in BOOLEAN /\ stale' \in BOOLEAN /\ fetch' \in ListRequest
          /\ \A e \in Entries : table[e] = "absent" => cached'[e] \notin Present /\ fetch'.got[e] \notin Present
      BY <1>2, <3>1 DEF ConsoleInv, ConsoleTypeOK, RowsKnown, ListRequest
    <3> QED
      BY <1>2, <3>1, <3>2, <3>3, ListKeeps
  <2>2. CASE UserStep
    BY <1>2, <2>2, VisitKeeps, RefetchKeeps, OpenDialogKeeps, DismissKeeps, EscapeKeeps, SubmitKeeps DEF UserStep
  <2>3. CASE ServerStep
    BY <1>2, <2>3, ExecuteKeeps, ExecuteUnheardKeeps, CommitKeeps, WorkKeeps, RefetchKeeps DEF ServerStep
  <2>4. CASE BrowserStep
    BY <1>2, <2>4, ListAnswerKeeps, AnswerKeeps DEF BrowserStep
  <2> QED
    BY <1>2, <2>1, <2>2, <2>3, <2>4 DEF ConsoleNext
<1> QED
  BY <1>1, <1>2

(* A secret that ApiKeysPage or WebhooksPage shows only once is shown, or  *)
(* was given up by leaving the page, by a lost answer or by an Escape.     *)
THEOREM SecretsCorrect == ConsoleSpec => []UnseenKeysWereAbandoned
<1>1. ConsoleInv => UnseenKeysWereAbandoned
  BY DEF ConsoleInv, SecretsOK, Accounted, UnseenKeysWereAbandoned
<1> QED
  BY <1>1, ConsoleInductive, PTL DEF ConsoleSpec

(* However answers, errors, refetches and late COMMITs cross, an open page *)
(* that has come to rest lists what the table holds, but for changes that  *)
(* were committed after the page had been told.                            *)
THEOREM SettledListsAreFresh == ConsoleSpec => []SettledListIsFresh
<1>1. ConsoleInv => SettledListIsFresh
  BY DEF ConsoleInv, ListOK, UpToDate, Agree, SettledListIsFresh
<1> QED
  BY <1>1, ConsoleInductive, PTL DEF ConsoleSpec

---------------------------------------------------------------------------
(* Billing.  BonusesAddUp is not inductive: what COMMIT writes was         *)
(* computed when the referrer's row was locked, so the invariant says that *)
(* the row has not changed since, that one sign-up at a time has it, and   *)
(* that every UPDATE ran in the scope of the row it is about.              *)
PlanRow == [exists : BOOLEAN, limit : Nat, customer : BOOLEAN]

PlanRows == plan \in [Accounts -> PlanRow] /\ referred \in [Accounts -> Nat]
Stripe == /\ checkout \subseteq Customers \X Paid /\ bought \in Seq(Subscription)
          /\ sent \in Seq([type : {"updated", "payment_failed", "deleted"}, sub : Nat])
          /\ Len(sent) <= MaxEvents /\ refused \subseteq DOMAIN sent

(* Where a sign-up's transaction is tells its scope and its own row. *)
Stage(n, u) ==
  /\ u.pc \in {"created", "granted", "scoped", "both"} => u.referrer \in Customers
  /\ u.pc \in {"created", "granted"} => u.scope = n
  /\ u.pc = "scoped" => u.scope = u.referrer
  /\ u.pc = "created" => u.own = StartLimit
  /\ u.pc \in {"granted", "scoped", "both"} => u.own = StartLimit + Bonus
SignUps == signup \in [Newcomers -> SignUp] /\ \A n \in Newcomers : Stage(n, signup[n])

(* The UPDATE of the referrer's row holds until COMMIT. *)
LockedValue == \A n \in Newcomers : signup[n].pc = "both" =>
                   signup[n].value = plan[signup[n].referrer].limit + Bonus
OneHolder == \A m, n \in Newcomers :
                 signup[m].pc = "both" /\ signup[n].pc = "both" /\ signup[m].referrer = signup[n].referrer => m = n

BillingInv == PlanRows /\ Stripe /\ SignUps /\ LockedValue /\ OneHolder /\ BonusesAddUp

(* A sign-up's organization is not one that has customers' rows. *)
LEMMA AccountsApart == Customers \subseteq Accounts /\ Newcomers \subseteq Accounts /\ Customers \cap Newcomers = {}
  BY BillingAssumption DEF Accounts

LEMMA BillingStarts == BillingInit => BillingInv
<1> SUFFICES ASSUME BillingInit PROVE BillingInv
  OBVIOUS
<1>1. PlanRows
  <2>1. ASSUME NEW o \in Accounts
        PROVE  [exists |-> o \in Customers, limit |-> StartLimit, customer |-> FALSE] \in PlanRow
    <3>1. (o \in Customers) \in BOOLEAN /\ StartLimit \in Nat
      BY DEF StartLimit
    <3> QED
      BY <3>1 DEF PlanRow
  <2>2. plan \in [Accounts -> PlanRow]
    BY <2>1, Zenon DEF BillingInit
  <2> QED
    BY <2>2 DEF BillingInit, PlanRows
<1>2. Stripe
  BY BillingAssumption DEF BillingInit, Stripe
<1>3. SignUps /\ LockedValue /\ OneHolder
  <2> DEFINE u == [pc |-> "none", referrer |-> NoAccount, scope |-> NoAccount, own |-> 0, value |-> 0]
  <2>1. u \in SignUp /\ u.pc = "none"
    BY DEF SignUp
  <2>2. signup = [n \in Newcomers |-> u]
    BY DEF BillingInit
  <2> HIDE DEF u
  <2> QED
    BY <2>1, <2>2 DEF SignUps, Stage, LockedValue, OneHolder
<1>4. BonusesAddUp
  BY DEF BillingInit, BonusesAddUp, StartLimit, Bonus
<1> QED
  BY <1>1, <1>2, <1>3, <1>4 DEF BillingInv

(* One more event: the refused ones are still among those sent. *)
LEMMA SendKeepsEvents ==
  ASSUME BillingInv, NEW type \in {"updated", "payment_failed", "deleted"}, NEW id \in Nat, Send(type, id)
  PROVE  /\ sent' \in Seq([type : {"updated", "payment_failed", "deleted"}, sub : Nat])
         /\ Len(sent') <= MaxEvents /\ refused \subseteq DOMAIN sent'
<1> DEFINE e == [type |-> type, sub |-> id]  E == [type : {"updated", "payment_failed", "deleted"}, sub : Nat]
<1>1. e \in E /\ sent \in Seq(E) /\ sent' = Append(sent, e) /\ Len(sent) < MaxEvents /\ refused \subseteq DOMAIN sent
  BY DEF BillingInv, Stripe, Send
<1> HIDE DEF e, E
<1>2. sent' \in Seq(E) /\ Len(sent') = Len(sent) + 1 /\ DOMAIN sent \subseteq DOMAIN sent'
  BY <1>1
<1>3. Len(sent) \in Nat
  BY <1>1
<1> QED
  BY <1>1, <1>2, <1>3, BillingAssumption DEF E

LEMMA PaysKeepsStripe == ASSUME BillingInv, Pays PROVE Stripe'
<1>1. PICK c \in checkout :
        /\ bought' = Append(bought, [org |-> c[1], tier |-> c[2], status |-> "active"])
        /\ checkout' = checkout \ {c}
  BY DEF Pays
<1> DEFINE b == [org |-> c[1], tier |-> c[2], status |-> "active"]
<1>2. c[1] \in Customers /\ c[2] \in Paid
  BY DEF BillingInv, Stripe
<1>3. b \in Subscription
  BY <1>2, AccountsApart DEF Subscription
<1>4. bought \in Seq(Subscription) /\ bought' = Append(bought, b)
  BY <1>1 DEF BillingInv, Stripe
<1> HIDE DEF b
<1>5. bought' \in Seq(Subscription) /\ Len(bought) + 1 \in Nat
  BY <1>3, <1>4
<1>6. Send("updated", Len(bought) + 1) /\ UNCHANGED refused
  BY DEF Pays
<1> QED
  BY <1>1, <1>5, <1>6, SendKeepsEvents DEF BillingInv, Stripe

LEMMA ChangesKeepsStripe == ASSUME BillingInv, NEW id \in DOMAIN bought, Changes(id) PROVE Stripe'
<1>1. bought \in Seq(Subscription) /\ bought[id] \in Subscription /\ id \in Nat
  BY DEF BillingInv, Stripe
<1>2. PICK type \in {"updated", "payment_failed", "deleted"} :
        /\ Send(type, id)
        /\ \E t \in Paid, st \in {"active", "past_due", "canceled"} :
             bought' = [bought EXCEPT ![id] = [bought[id] EXCEPT !.tier = t, !.status = st]]
  <2>1. CASE \E t \in Paid : bought' = [bought EXCEPT ![id].tier = t, ![id].status = "active"] /\ Send("updated", id)
    BY <2>1, <1>1 DEF Subscription
  <2>2. CASE bought' = [bought EXCEPT ![id].status = "past_due"] /\ Send("payment_failed", id)
    <3>1. bought' = [bought EXCEPT ![id] = [bought[id] EXCEPT !.tier = bought[id].tier, !.status = "past_due"]]
      BY <2>2, <1>1 DEF Subscription
    <3>2. bought[id].tier \in Paid
      BY <1>1 DEF Subscription
    <3> QED
      BY <2>2, <3>1, <3>2
  <2>3. CASE bought' = [bought EXCEPT ![id].status = "canceled"] /\ Send("deleted", id)
    <3>1. bought' = [bought EXCEPT ![id] = [bought[id] EXCEPT !.tier = bought[id].tier, !.status = "canceled"]]
      BY <2>3, <1>1 DEF Subscription
    <3>2. bought[id].tier \in Paid
      BY <1>1 DEF Subscription
    <3> QED
      BY <2>3, <3>1, <3>2
  <2> QED
    BY <2>1, <2>2, <2>3 DEF Changes
<1>3. PICK t \in Paid, st \in {"active", "past_due", "canceled"} :
        bought' = [bought EXCEPT ![id] = [bought[id] EXCEPT !.tier = t, !.status = st]]
  BY <1>2
<1>4. [bought[id] EXCEPT !.tier = t, !.status = st] \in Subscription
  BY <1>1 DEF Subscription
<1>5. bought' \in Seq(Subscription)
  BY <1>1, <1>3, <1>4
<1>6. UNCHANGED <<checkout, refused>>
  BY DEF Changes
<1> QED
  BY <1>1, <1>2, <1>5, <1>6, SendKeepsEvents DEF BillingInv, Stripe

(* What a sign-up does to its own record, the rows being as they were. *)
LEMMA StageKeepsInv ==
  ASSUME BillingInv, NEW n \in Newcomers, NEW u \in SignUp, signup' = [signup EXCEPT ![n] = u], Stage(n, u),
         UNCHANGED <<plan, checkout, bought, sent, refused, referred>>,
         u.pc = "both" => /\ u.value = plan[u.referrer].limit + Bonus
                          /\ \A m \in Newcomers : signup[m].pc = "both" => signup[m].referrer # u.referrer
  PROVE  BillingInv'
<1>1. PlanRows' /\ Stripe' /\ BonusesAddUp'
  BY DEF BillingInv, PlanRows, Stripe, BonusesAddUp
<1>2. signup \in [Newcomers -> SignUp] /\ signup'[n] = u /\ \A m \in Newcomers \ {n} : signup'[m] = signup[m]
  BY DEF BillingInv, SignUps
<1>3. SignUps'
  BY <1>2 DEF BillingInv, SignUps
<1>4. LockedValue' /\ OneHolder'
  BY <1>2 DEF BillingInv, LockedValue, OneHolder
<1> QED
  BY <1>1, <1>3, <1>4 DEF BillingInv

(* The sign-up computes the bonus with the row in its hand and in the      *)
(* scope of the row's organization.                                        *)
LEMMA SignUpKeepsInv ==
  ASSUME BillingInv, NEW n \in Newcomers,
         \/ CreateSubscription(n) \/ GrantOwnBonus(n) \/ ScopeReferrer(n)
         \/ GrantReferrerBonus(n) \/ RollbackSignUp(n)
  PROVE  BillingInv'
<1> DEFINE s == signup[n]
<1>1. signup \in [Newcomers -> SignUp] /\ s \in SignUp /\ Stage(n, s) /\ n \in Accounts
  BY AccountsApart DEF BillingInv, SignUps
<1>2. CASE CreateSubscription(n)
  <2>1. PICK r \in Customers :
          signup' = [signup EXCEPT ![n] = [pc |-> "created", referrer |-> r, scope |-> n,
                                           own |-> StartLimit, value |-> 0]]
    BY <1>2 DEF CreateSubscription
  <2> DEFINE u == [pc |-> "created", referrer |-> r, scope |-> n, own |-> StartLimit, value |-> 0]
  <2>2. u \in SignUp /\ Stage(n, u) /\ u.pc # "both"
    BY <1>1, AccountsApart DEF SignUp, Stage, StartLimit
  <2>3. signup' = [signup EXCEPT ![n] = u]
    BY <2>1
  <2> HIDE DEF u
  <2> QED
    BY <1>2, <2>2, <2>3, StageKeepsInv DEF CreateSubscription
<1>3. CASE GrantOwnBonus(n)
  <2> DEFINE o == StartLimit + Bonus  u == [s EXCEPT !.pc = "granted", !.own = o]
  <2>1. s.own = StartLimit /\ Matches(n, n)
    BY <1>1, <1>3 DEF GrantOwnBonus, Stage, Matches
  <2>2. signup' = [signup EXCEPT ![n] = u]
    BY <1>1, <1>3, <2>1 DEF GrantOwnBonus, SignUp
  <2>4. o \in Nat /\ o = StartLimit + Bonus
    BY DEF StartLimit, Bonus
  <2>5. s.pc = "created" /\ s.referrer \in Customers /\ s.scope = n
    BY <1>1, <1>3 DEF GrantOwnBonus, Stage
  <2> HIDE DEF o
  <2>6. u \in SignUp /\ u.pc = "granted" /\ u.own = o /\ u.referrer = s.referrer /\ u.scope = s.scope
    BY <1>1, <2>4 DEF SignUp
  <2>3. u \in SignUp /\ Stage(n, u) /\ u.pc # "both"
    BY <2>4, <2>5, <2>6 DEF Stage
  <2> HIDE DEF u
  <2> QED
    BY <1>3, <2>2, <2>3, StageKeepsInv DEF GrantOwnBonus
<1>4. CASE ScopeReferrer(n)
  <2> DEFINE u == [s EXCEPT !.pc = "scoped", !.scope = s.referrer]
  <2>1. signup' = [signup EXCEPT ![n] = u]
    BY <1>1, <1>4 DEF ScopeReferrer, SignUp
  <2>2. u \in SignUp /\ Stage(n, u) /\ u.pc # "both"
    BY <1>1, <1>4 DEF ScopeReferrer, SignUp, Stage
  <2> HIDE DEF u
  <2> QED
    BY <1>4, <2>1, <2>2, StageKeepsInv DEF ScopeReferrer
<1>5. CASE GrantReferrerBonus(n)
  <2> DEFINE r == s.referrer  v == plan[r].limit + Bonus
             u == [s EXCEPT !.pc = "both", !.scope = n, !.value = v]
  <2>1. r \in Customers /\ s.scope = r /\ s.own = StartLimit + Bonus /\ plan[r].limit \in Nat /\ ~Locked(r)
    BY <1>1, <1>5, AccountsApart DEF GrantReferrerBonus, Stage, BillingInv, PlanRows, PlanRow
  <2>2. v \in Nat /\ Matches(n, r)
    BY <2>1 DEF Bonus, Matches
  <2>3. signup' = [signup EXCEPT ![n] = u]
    BY <1>1, <1>5, <2>2 DEF GrantReferrerBonus, SignUp
  <2>4. \A m \in Newcomers : signup[m].pc = "both" => signup[m].referrer # r
    BY <2>1 DEF Locked
  <2>5. v = plan[r].limit + Bonus
    OBVIOUS
  <2> HIDE DEF v, r
  <2>6. u \in SignUp /\ u.pc = "both" /\ u.value = v /\ u.referrer = r
    BY <1>1, <2>2 DEF SignUp, r
  <2>7. Stage(n, u)
    BY <1>1, <2>1, <2>6 DEF Stage, SignUp
  <2> HIDE DEF u
  <2> QED
    BY <1>5, <2>3, <2>4, <2>5, <2>6, <2>7, StageKeepsInv DEF GrantReferrerBonus
<1>6. CASE RollbackSignUp(n)
  <2> DEFINE u == [s EXCEPT !.pc = "over"]
  <2>1. signup' = [signup EXCEPT ![n] = u] /\ u \in SignUp /\ Stage(n, u) /\ u.pc # "both"
    BY <1>1, <1>6 DEF RollbackSignUp, SignUp, Stage
  <2> HIDE DEF u
  <2> QED
    BY <1>6, <2>1, StageKeepsInv DEF RollbackSignUp
<1> QED
  BY <1>2, <1>3, <1>4, <1>5, <1>6

(* COMMIT writes both rows and counts the sign-up for both. *)
LEMMA CommitKeepsInv == ASSUME BillingInv, NEW n \in Newcomers, CommitSignUp(n) PROVE BillingInv'
<1> DEFINE r == signup[n].referrer
           own == [plan[n] EXCEPT !.exists = TRUE, !.limit = signup[n].own]
           his == [plan[r] EXCEPT !.limit = signup[n].value]
<1>1. /\ plan \in [Accounts -> PlanRow] /\ referred \in [Accounts -> Nat] /\ signup \in [Newcomers -> SignUp]
      /\ signup[n].pc = "both" /\ signup[n].value = plan[r].limit + Bonus /\ signup[n].value \in Nat
      /\ signup[n].own = StartLimit + Bonus /\ signup[n].own \in Nat
  BY DEF BillingInv, PlanRows, SignUps, SignUp, Stage, LockedValue, CommitSignUp
<1>2. r \in Customers /\ r # n /\ r \in Accounts /\ n \in Accounts /\ plan[n] \in PlanRow /\ plan[r] \in PlanRow
  BY <1>1, AccountsApart DEF BillingInv, SignUps, Stage
<1>3. /\ own \in PlanRow /\ own.limit = StartLimit + Bonus
      /\ his \in PlanRow /\ his.limit = plan[r].limit + Bonus /\ his.exists = plan[r].exists
  BY <1>1, <1>2 DEF PlanRow
<1>4. plan' = [plan EXCEPT ![n] = own, ![r] = his] /\ referred' = [referred EXCEPT ![n] = 1, ![r] = referred[r] + 1]
  BY <1>1, <1>2 DEF CommitSignUp, PlanRow
<1>5. signup' = [signup EXCEPT ![n] = [signup[n] EXCEPT !.pc = "over"]]
  BY <1>1 DEF CommitSignUp, SignUp
<1> HIDE DEF own, his
<1>6. plan'[n] = own /\ plan'[r] = his /\ \A a \in Accounts \ {n, r} : plan'[a] = plan[a]
  BY <1>1, <1>2, <1>4
<1>7. referred'[n] = 1 /\ referred'[r] = referred[r] + 1 /\ \A a \in Accounts \ {n, r} : referred'[a] = referred[a]
  BY <1>1, <1>2, <1>4
<1>8. PlanRows'
  BY <1>1, <1>2, <1>3, <1>4 DEF PlanRows
<1>9. Stripe'
  BY DEF BillingInv, Stripe, CommitSignUp
<1>10. SignUps' /\ OneHolder'
  <2>1. [signup[n] EXCEPT !.pc = "over"] \in SignUp /\ Stage(n, [signup[n] EXCEPT !.pc = "over"])
    BY <1>1 DEF SignUp, Stage
  <2>2. signup'[n].pc = "over" /\ \A m \in Newcomers \ {n} : signup'[m] = signup[m]
    BY <1>1, <1>5 DEF SignUp
  <2> QED
    BY <1>1, <1>5, <2>1, <2>2 DEF BillingInv, SignUps, OneHolder
<1>11. LockedValue'
  <2> SUFFICES ASSUME NEW m \in Newcomers, signup'[m].pc = "both"
               PROVE  signup'[m].value = plan'[signup'[m].referrer].limit + Bonus
    BY DEF LockedValue
  <2>1. m # n /\ signup'[m] = signup[m] /\ signup[m].pc = "both"
    BY <1>1, <1>5 DEF SignUp
  <2>2. signup[m].referrer \in Customers
    BY <2>1 DEF BillingInv, SignUps, Stage
  <2>3. signup[m].referrer # r /\ signup[m].referrer # n
    BY <2>1, <2>2, <1>1, AccountsApart DEF BillingInv, OneHolder
  <2>4. plan'[signup[m].referrer] = plan[signup[m].referrer]
    BY <2>2, <2>3, <1>6, AccountsApart
  <2> QED
    BY <2>1, <2>4 DEF BillingInv, LockedValue
<1>12. BonusesAddUp'
  <2> SUFFICES ASSUME NEW a \in Accounts, plan'[a].exists
               PROVE  plan'[a].limit = StartLimit + Bonus * referred'[a]
    BY DEF BonusesAddUp
  <2>1. CASE a = n
    BY <2>1, <1>3, <1>6, <1>7 DEF StartLimit, Bonus
  <2>2. CASE a = r
    <3>1. plan[r].limit = StartLimit + Bonus * referred[r] /\ referred[r] \in Nat
      BY <2>2, <1>1, <1>2, <1>3, <1>6 DEF BillingInv, BonusesAddUp
    <3>2. plan'[a].limit = plan[r].limit + Bonus /\ referred'[a] = referred[r] + 1
      BY <2>2, <1>3, <1>6, <1>7
    <3> QED
      BY <3>1, <3>2 DEF StartLimit, Bonus
  <2>3. CASE a # n /\ a # r
    BY <2>3, <1>6, <1>7 DEF BillingInv, BonusesAddUp
  <2> QED
    BY <2>1, <2>2, <2>3
<1> QED
  BY <1>8, <1>9, <1>10, <1>11, <1>12 DEF BillingInv

(* Every step of the check-out, of Stripe, of the webhook and of the       *)
(* sign-ups keeps the invariant.                                           *)
LEMMA BillingNextInv == BillingInv /\ [BillingNext]_billingVars => BillingInv'
<1> SUFFICES ASSUME BillingInv, [BillingNext]_billingVars PROVE BillingInv'
  OBVIOUS
<1>1. ASSUME NEW o \in Customers, NEW t \in Paid, CreateCheckoutSession(o, t) PROVE BillingInv'
  <2>1. plan' = [plan EXCEPT ![o] = [plan[o] EXCEPT !.customer = TRUE]] /\ plan \in [Accounts -> PlanRow] /\ o \in Accounts
    BY <1>1, AccountsApart DEF CreateCheckoutSession, BillingInv, PlanRows
  <2>2. [plan[o] EXCEPT !.customer = TRUE] \in PlanRow
    BY <2>1 DEF PlanRow
  <2>3. plan' \in [Accounts -> PlanRow] /\ \A a \in Accounts : plan'[a].limit = plan[a].limit /\ plan'[a].exists = plan[a].exists
    BY <2>1, <2>2 DEF PlanRow
  <2>4. Stripe'
    BY <1>1 DEF CreateCheckoutSession, BillingInv, Stripe
  <2>5. UNCHANGED <<referred, signup>>
    BY <1>1 DEF CreateCheckoutSession
  <2>6. PlanRows' /\ SignUps' /\ OneHolder' /\ BonusesAddUp'
    BY <2>3, <2>5 DEF BillingInv, PlanRows, SignUps, OneHolder, BonusesAddUp
  <2>7. LockedValue'
    BY <2>3, <2>5, AccountsApart DEF BillingInv, LockedValue, SignUps, Stage
  <2> QED
    BY <2>4, <2>6, <2>7 DEF BillingInv
<1>2. ASSUME UNCHANGED <<plan, signup, referred>>, Stripe' PROVE BillingInv'
  BY <1>2 DEF BillingInv, PlanRows, SignUps, LockedValue, OneHolder, BonusesAddUp
<1>3. ASSUME Pays PROVE BillingInv'
  BY <1>2, <1>3, PaysKeepsStripe DEF Pays
<1>4. ASSUME NEW id \in DOMAIN bought, Changes(id) PROVE BillingInv'
  BY <1>2, <1>4, ChangesKeepsStripe DEF Changes
<1>5. ASSUME NEW i \in DOMAIN sent, Delivered(i) PROVE BillingInv'
  <2>1. Stripe'
    BY <1>5 DEF Delivered, BillingInv, Stripe
  <2> QED
    BY <1>2, <1>5, <2>1 DEF Delivered
<1>6. ASSUME UNCHANGED billingVars PROVE BillingInv'
  <2>1. Stripe'
    BY <1>6 DEF billingVars, BillingInv, Stripe
  <2> QED
    BY <1>2, <1>6, <2>1 DEF billingVars
<1> QED
  BY <1>1, <1>3, <1>4, <1>5, <1>6, SignUpKeepsInv, CommitKeepsInv DEF BillingNext

(* A referral bonus is permanent (subscription.repository.ts, 64-66): the  *)
(* limit is the one a row starts with and a bonus for every committed      *)
(* sign-up, however the sign-ups (auth.service.ts) overlap.                *)
THEOREM BonusesCorrect == BillingSpec => []BonusesAddUp
<1>1. BillingInit => BillingInv
  BY BillingStarts
<1>2. BillingInv /\ [BillingNext]_billingVars => BillingInv'
  BY BillingNextInv
<1>3. BillingInv => BonusesAddUp
  BY DEF BillingInv
<1> QED
  BY <1>1, <1>2, <1>3, PTL DEF BillingSpec
==============================================================================
