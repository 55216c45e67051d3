------------------------------- MODULE Billing -------------------------------
(***************************************************************************)
(* Subscriptions: check-out, Stripe's events (BillingService) and the      *)
(* referral bonus that a sign-up grants (AuthService), which is what       *)
(* changes monthly_query_limit.  Stripe delivers each event at least once  *)
(* and in any order.  No event gets past the check of its signature: the   *)
(* body was parsed before the webhook's router sees it.  The handlers      *)
(* behind that check are not modelled, since they never run.               *)
(***************************************************************************)
EXTENDS Naturals, Sequences, FiniteSets

CONSTANTS
    Customers,   \* organizations that exist
    Newcomers,   \* organizations that sign up with a referral code
    MaxEvents,   \* bound on the events that Stripe sends
    RowsScoped   \* the pool's role is subject to row-level security

ASSUME BillingAssumption ==
    Customers \cap Newcomers = {} /\ MaxEvents \in Nat /\ RowsScoped \in BOOLEAN

Accounts == Customers \cup Newcomers
Bonus == 500
StartLimit == 1000
NoAccount == "no organization"
Paid == {"pro", "enterprise"}

VARIABLES
    plan,      \* subscriptions: the committed row of an organization
    checkout,  \* sessions that were handed out and not paid yet
    bought,    \* Stripe's subscriptions, oldest first
    sent,      \* Stripe's events, oldest first
    refused,   \* those that were answered with 400
    signup,    \* sign-ups with a referral: where the transaction is
    referred   \* history: committed sign-ups that named the organization, or were its own

billingVars == <<plan, checkout, bought, sent, refused, signup, referred>>

BillingInit ==
    /\ plan = [o \in Accounts |-> [exists |-> o \in Customers, limit |-> StartLimit, customer |-> FALSE]]
    /\ checkout = {} /\ bought = <<>> /\ sent = <<>> /\ refused = {}
    /\ signup = [n \in Newcomers |-> [pc |-> "none", referrer |-> NoAccount, scope |-> NoAccount,
                                      own |-> 0, value |-> 0]]
    /\ referred = [o \in Accounts |-> 0]

Subscription == [org : Accounts, tier : Paid, status : {"active", "past_due", "canceled"}]
SignUp == [pc : {"none", "created", "granted", "scoped", "both", "over"}, referrer : Accounts \cup {NoAccount},
           scope : Accounts \cup {NoAccount}, own : Nat, value : Nat]

BillingTypeOK ==
    /\ plan \in [Accounts -> [exists : BOOLEAN, limit : Nat, customer : BOOLEAN]]
    /\ checkout \subseteq Customers \X Paid
    /\ bought \in Seq(Subscription)
    /\ Len(sent) <= MaxEvents /\ refused \subseteq DOMAIN sent
    /\ signup \in [Newcomers -> SignUp]
    /\ referred \in [Accounts -> Nat]

(* An UPDATE waits while a sign-up's transaction has the row. *)
Locked(o) == \E n \in Newcomers : signup[n].pc = "both" /\ signup[n].referrer = o

---------------------------------------------------------------------------
(* createCheckoutSession: a customer is made once and remembered. *)
CreateCheckoutSession(o, tier) ==
    /\ plan[o].exists /\ (plan[o].customer \/ ~Locked(o))
    /\ checkout' = checkout \cup {<<o, tier>>}
    /\ plan' = [plan EXCEPT ![o].customer = TRUE]
    /\ UNCHANGED <<bought, sent, refused, signup, referred>>

Send(type, id) ==
    /\ Len(sent) < MaxEvents
    /\ sent' = Append(sent, [type |-> type, sub |-> id])

Pays ==
    /\ \E c \in checkout :
         /\ bought' = Append(bought, [org |-> c[1], tier |-> c[2], status |-> "active"])
         /\ checkout' = checkout \ {c}
    /\ Send("updated", Len(bought) + 1)
    /\ UNCHANGED <<plan, refused, signup, referred>>

(* A renewal or a change of tier, a payment that fails, the end. *)
Changes(id) ==
    /\ bought[id].status # "canceled"
    /\ \/ \E t \in Paid : bought' = [bought EXCEPT ![id].tier = t, ![id].status = "active"] /\ Send("updated", id)
       \/ bought' = [bought EXCEPT ![id].status = "past_due"] /\ Send("payment_failed", id)
       \/ bought' = [bought EXCEPT ![id].status = "canceled"] /\ Send("deleted", id)
    /\ UNCHANGED <<plan, checkout, refused, signup, referred>>

(* express.json parses a body of type application/json that nobody has     *)
(* read yet, and express.raw leaves one that was read as it is; app.ts     *)
(* puts the former before the routers.                                     *)
ExpressJson(body) == IF body = "unread" THEN "object" ELSE body
ExpressRaw(body) == IF body = "unread" THEN "buffer" ELSE body
BodyAtHandler == ExpressRaw(ExpressJson("unread"))

(* constructEvent computes the signature over the bytes Stripe signed. *)
Verifies(body) == body = "buffer"

(* handleStripeWebhook: a ValidationError, and Stripe tries again later. *)
Delivered(i) ==
    /\ ~Verifies(BodyAtHandler)
    /\ refused' = refused \cup {i}
    /\ UNCHANGED <<plan, checkout, bought, sent, signup, referred>>

---------------------------------------------------------------------------
(* signUp with a referral code, one transaction: the row, its bonus, the   *)
(* switch to the referrer's scope and the referrer's bonus.  An UPDATE     *)
(* outside the transaction's scope matches no row and raises no error.     *)
Matches(n, o) == RowsScoped => signup[n].scope = o

CreateSubscription(n) ==
    /\ signup[n].pc = "none"
    /\ \E r \in Customers :
         signup' = [signup EXCEPT ![n] = [pc |-> "created", referrer |-> r, scope |-> n,
                                          own |-> StartLimit, value |-> 0]]
    /\ UNCHANGED <<plan, checkout, bought, sent, refused, referred>>

GrantOwnBonus(n) ==
    /\ signup[n].pc = "created"
    /\ signup' = [signup EXCEPT ![n].pc = "granted",
                                ![n].own = IF Matches(n, n) THEN @ + Bonus ELSE @]
    /\ UNCHANGED <<plan, checkout, bought, sent, refused, referred>>

(* Mutation: the scope stays the newcomer's. *)
ScopeKept(n) ==
    /\ signup[n].pc = "granted"
    /\ signup' = [signup EXCEPT ![n].pc = "scoped"]
    /\ UNCHANGED <<plan, checkout, bought, sent, refused, referred>>

(* SET LOCAL app.current_org_id. *)
ScopeReferrer(n) ==
    /\ signup[n].pc = "granted"
    /\ signup' = [signup EXCEPT ![n].pc = "scoped", ![n].scope = signup[n].referrer]
    /\ UNCHANGED <<plan, checkout, bought, sent, refused, referred>>

(* value is what the UPDATE computed, or the row as it was. *)
GrantReferrerBonus(n) ==
    LET r == signup[n].referrer IN
    /\ signup[n].pc = "scoped" /\ ~Locked(r)
    /\ signup' = [signup EXCEPT ![n].pc = "both", ![n].scope = n,
                                ![n].value = plan[r].limit + (IF Matches(n, r) THEN Bonus ELSE 0)]
    /\ UNCHANGED <<plan, checkout, bought, sent, refused, referred>>

CommitSignUp(n) ==
    LET r == signup[n].referrer IN
    /\ signup[n].pc = "both"
    /\ plan' = [plan EXCEPT ![n].exists = TRUE, ![n].limit = signup[n].own, ![r].limit = signup[n].value]
    /\ referred' = [referred EXCEPT ![n] = 1, ![r] = @ + 1]
    /\ signup' = [signup EXCEPT ![n].pc = "over"]
    /\ UNCHANGED <<checkout, bought, sent, refused>>

RollbackSignUp(n) ==
    /\ signup[n].pc \in {"created", "granted", "scoped", "both"}
    /\ signup' = [signup EXCEPT ![n].pc = "over"]
    /\ UNCHANGED <<plan, checkout, bought, sent, refused, referred>>

BillingNext ==
    \/ \E o \in Customers, t \in Paid : CreateCheckoutSession(o, t)
    \/ Pays
    \/ \E id \in DOMAIN bought : Changes(id)
    \/ \E i \in DOMAIN sent : Delivered(i)
    \/ \E n \in Newcomers :
         \/ CreateSubscription(n) \/ GrantOwnBonus(n) \/ ScopeReferrer(n) \/ GrantReferrerBonus(n)
         \/ CommitSignUp(n) \/ RollbackSignUp(n)

BillingSpec == BillingInit /\ [][BillingNext]_billingVars

---------------------------------------------------------------------------
(* grantReferralBonus "permanently raises an org's monthly query limit":   *)
(* however sign-ups overlap each other and check-outs, fail or switch      *)
(* their scope, an organization's limit is the one its row starts with and *)
(* a bonus for each committed sign-up that it referred or was.             *)
BonusesAddUp ==
    \A o \in Accounts : plan[o].exists => plan[o].limit = StartLimit + Bonus * referred[o]
==============================================================================
