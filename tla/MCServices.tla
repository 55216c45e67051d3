----------------------------- MODULE MCServices -----------------------------
(***************************************************************************)
(* Small instances of the parts that share no state with each other, side  *)
(* by side: a behaviour is one of the part that its initial state chooses. *)
(***************************************************************************)
EXTENDS Webhooks, Billing, RateLimit, Console, Credentials, AnswerStream, Retrieval

CONSTANT Parts   \* the parts that are looked at
VARIABLE part

(* Parallel edges, a loop, and two ways through another organization's     *)
(* nodes.  With a precision of 8 the ids of a, b and f are rounded to the  *)
(* same number, and those of two edges.                                    *)
Threads == [ab |-> {"a", "b"}, ba |-> {"a", "b"}, af |-> {"a", "f"}, fc |-> {"f", "c"},
            ag |-> {"a", "g"}, gc |-> {"g", "c"}, cc |-> {"c"}]
Numbers == [a |-> 11, b |-> 12, c |-> 2, f |-> 13, g |-> 3,
            ab |-> 17, ba |-> 18, af |-> 4, fc |-> 5, ag |-> 6, gc |-> 7, cc |-> 10]
FixedList == <<"f1", "f2">>
LiveList == <<"l1", "m2">>
FallbackList == <<"m2">>
Pieces == <<"d1", "d2">>

(* The retrieval is looked at twice: several questions at a time in a      *)
(* graph that answers with one node at most, and one question at a time    *)
(* that gets any rows.                                                     *)
Short == {rows \in Rows : Len(rows) < 2 /\ \A p \in ToSet(rows) : p.edges = <<>>}
Alone == \A a, b \in Askers : a # b => ask'[a] = NoQuestion \/ ask'[b] = NoQuestion

(* Only the part that runs chooses among its initial states. *)
Init ==
    /\ part \in Parts
    /\ WebhookInit /\ BillingInit /\ RateInit
    /\ ConsoleInit /\ (part # "console" => kind = "keys")
    /\ CredentialsInit /\ (part # "credentials" => stored = NoCredential)
    /\ AnswerInit /\ (part # "answers" => vendor = "openai" /\ client = "browser")
    /\ RetrievalInit /\ (part # "retrieval" => embedder = "openai" /\ envKey)

Next ==
    \/ /\ part = "webhooks" /\ WebhookNext
       /\ UNCHANGED <<part, billingVars, rateVars, consoleVars, credentialVars, answerVars, retrievalVars>>
    \/ /\ part = "billing" /\ BillingNext
       /\ UNCHANGED <<part, webhookVars, rateVars, consoleVars, credentialVars, answerVars, retrievalVars>>
    \/ /\ part = "rates" /\ RateNext
       /\ UNCHANGED <<part, webhookVars, billingVars, consoleVars, credentialVars, answerVars, retrievalVars>>
    \/ /\ part = "console" /\ ConsoleNext
       /\ UNCHANGED <<part, webhookVars, billingVars, rateVars, credentialVars, answerVars, retrievalVars>>
    \/ /\ part = "credentials" /\ CredentialsNext
       /\ UNCHANGED <<part, webhookVars, billingVars, rateVars, consoleVars, answerVars, retrievalVars>>
    \/ /\ part = "answers" /\ AnswerNext
       /\ UNCHANGED <<part, webhookVars, billingVars, rateVars, consoleVars, credentialVars, retrievalVars>>
    \/ /\ part = "retrieval"
       /\ PipelineNext \/ \E a \in Askers : TraversalSearch(a, Short)
       /\ UNCHANGED <<part, webhookVars, billingVars, rateVars, consoleVars, credentialVars, answerVars>>
    \/ /\ part = "paths" /\ RetrievalNext /\ Alone
       /\ UNCHANGED <<part, webhookVars, billingVars, rateVars, consoleVars, credentialVars, answerVars>>

allVars == <<part, webhookVars, billingVars, rateVars, consoleVars, credentialVars, answerVars, retrievalVars>>

Spec == Init /\ [][Next]_allVars

(* Every part keeps its types. *)
TypeOK ==
    /\ WebhookTypeOK /\ BillingTypeOK /\ RateTypeOK /\ ConsoleTypeOK
    /\ CredentialsTypeOK /\ AnswerTypeOK /\ RetrievalTypeOK
=============================================================================
