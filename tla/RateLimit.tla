------------------------------ MODULE RateLimit ------------------------------
(***************************************************************************)
(* The sliding window of the rate limiter, for one key (an organization or *)
(* an address).  A request reads the clock, and later the four commands    *)
(* are executed as one MULTI: requests may reach Redis in another order    *)
(* than they read the clock.  An error of any kind lets a request through. *)
(***************************************************************************)
EXTENDS Integers, FiniteSets

CONSTANTS
    Callers,     \* requests under way at once
    Window,      \* WINDOW_MS, in ticks of the clock
    MaxRequests, \* MAX_REQUESTS
    MaxClock,    \* bound on the clock
    MaxAdmitted  \* bound on the requests that are counted

ASSUME RateLimitAssumption ==
    /\ Window \in Nat \ {0} /\ MaxRequests \in Nat \ {0} /\ MaxClock \in Nat /\ MaxAdmitted \in Nat

NoTime == -1

VARIABLES
    clock,
    members,   \* the sorted set: every member has a score and a value of its own
    ttl,       \* when the key expires
    asked,     \* the time each request under way has read, or NoTime
    admitted,  \* history: the members of the requests that were counted in the tick in
               \* which they read the clock, and let through
    entries    \* history: how many requests were counted

rateVars == <<clock, members, ttl, asked, admitted, entries>>

Times == 0 .. MaxClock
Members == [at : Times, no : 1 .. MaxAdmitted]

RateInit ==
    /\ clock = 0
    /\ members = {}
    /\ ttl = 0
    /\ asked = [c \in Callers |-> NoTime]
    /\ admitted = {}
    /\ entries = 0

RateTypeOK ==
    /\ clock \in Times
    /\ members \subseteq Members
    /\ ttl \in 0 .. MaxClock + Window
    /\ asked \in [Callers -> Times \cup {NoTime}]
    /\ admitted \subseteq Members /\ entries \in 0 .. MaxAdmitted

Tick ==
    /\ clock < MaxClock
    /\ clock' = clock + 1
    /\ UNCHANGED <<members, ttl, asked, admitted, entries>>

(* Date.now() *)
Ask(c) ==
    /\ asked[c] = NoTime /\ entries < MaxAdmitted
    /\ asked' = [asked EXCEPT ![c] = clock]
    /\ UNCHANGED <<clock, members, ttl, admitted, entries>>

(* zRemRangeByScore -inf .. windowStart, zAdd, zCard, expire. *)
RemoveOldAndEdge(s, now) == {m \in s : m.at > now - Window + 1}
RemoveOld(s, now) == {m \in s : m.at > now - Window}
Live == IF ttl > clock THEN members ELSE {}
Member(now) == [at |-> now, no |-> entries + 1]
Executed(now) == RemoveOld(Live, now) \cup {Member(now)}

ExecutePipeline(c) ==
    /\ asked[c] # NoTime /\ entries < MaxAdmitted
    /\ members' = Executed(asked[c])
    /\ ttl' = clock + Window
    /\ entries' = entries + 1
    /\ admitted' = IF Cardinality(members') <= MaxRequests /\ asked[c] = clock
                   THEN admitted \cup {Member(clock)} ELSE admitted
    /\ asked' = [asked EXCEPT ![c] = NoTime]
    /\ UNCHANGED clock

(* Redis is not there: the request is let through and not counted. *)
FailOpen(c) ==
    /\ asked[c] # NoTime
    /\ asked' = [asked EXCEPT ![c] = NoTime]
    /\ UNCHANGED <<clock, members, ttl, admitted, entries>>

RateNext ==
    \/ Tick
    \/ \E c \in Callers : Ask(c) \/ ExecutePipeline(c) \/ FailOpen(c)

RateSpec == RateInit /\ [][RateNext]_rateVars

---------------------------------------------------------------------------
(* Of the requests that Redis counts without delay, never more than the    *)
(* limit are let through within one window, whatever delayed ones remove,  *)
(* add, or do to the key's expiry in between.  (Delayed ones may exceed    *)
(* it: a younger request has removed what they would have counted.)        *)
WindowHolds ==
    \A t \in Times : Cardinality({m \in admitted : t - Window < m.at /\ m.at <= t}) <= MaxRequests
==============================================================================
