---------------------------- MODULE Credentials ----------------------------
(***************************************************************************)
(* An organization's LLM credential: the settings page of one browser with *)
(* its two cached queries (the stored credential, the models of the chosen *)
(* provider), the model catalog, and the server's verify-and-store.  What  *)
(* a React effect does after a render is part of the step that causes it.  *)
(***************************************************************************)
EXTENDS Naturals, Sequences, SequencesExt

CONSTANTS
    FixedProvider,   \* anthropic: the page's first choice, with a fixed list of models
    OpenRouter,      \* openrouter: its list is fetched, cached or a fallback
    FixedModels, LiveModels, FallbackModels,   \* lists of models, the default first
    MaxSaves,        \* bound on the saves and removals
    MaxChoices       \* bound on the user's changes of provider and model

ASSUME CredentialsAssumption ==
    /\ FixedProvider # OpenRouter
    /\ \A s \in {FixedModels, LiveModels, FallbackModels} : s \in Seq(STRING) /\ Len(s) > 0
    /\ MaxSaves \in Nat /\ MaxChoices \in Nat

Providers == {FixedProvider, OpenRouter}
Models == ToSet(FixedModels) \cup ToSet(LiveModels) \cup ToSet(FallbackModels)
Lists == {FixedModels, LiveModels, FallbackModels}
NoModel == "no model"
NoCredential == [provider |-> "none", model |-> NoModel]
Unread == [provider |-> "unread", model |-> NoModel]
Stored == [provider : Providers, model : Models] \cup {NoCredential}

VARIABLES
    catalog,   \* the server's cache of OpenRouter's list: none, fresh or old
    stored,    \* organization_llm_credentials
    lists,     \* the browser's cache of the lists: none, asked, failed or loaded
    shown,     \* modelsData: the last list that was loaded for a provider on display
    choice,    \* provider, model, and who chose the model
    known,     \* credentialData, and where its request is
    save,      \* saveCredential
    removing,  \* removeCredential: idle, sent, done or refused
    danger,    \* the deletion of the organization: closed (none), deleting or out
    counts     \* saves and removals, and choices so far

credentialVars == <<catalog, stored, lists, shown, choice, known, save, removing, danger, counts>>

NoRequest == [pc |-> "none", got |-> <<>>]
NoSave == [pc |-> "idle", provider |-> FixedProvider, model |-> NoModel]

CredentialsInit ==
    /\ catalog = "none"
    /\ stored \in {NoCredential, [provider |-> OpenRouter, model |-> Head(LiveModels)]}
    /\ lists = [p \in Providers |-> IF p = FixedProvider THEN [NoRequest EXCEPT !.pc = "asked"] ELSE NoRequest]
    /\ shown = <<>>
    /\ choice = [provider |-> FixedProvider, model |-> NoModel, by |-> "nobody"]
    /\ known = [row |-> Unread, pc |-> "asked", got |-> Unread, again |-> FALSE]
    /\ save = NoSave
    /\ removing = "idle"
    /\ danger = "closed"
    /\ counts = [saves |-> 0, choices |-> 0]

CredentialsTypeOK ==
    /\ catalog \in {"none", "fresh", "old"} /\ stored \in Stored
    /\ \A p \in Providers : lists[p].pc \in {"none", "asked", "failed", "loaded"} /\ lists[p].got \in Lists \cup {<<>>}
    /\ shown \in Lists \cup {<<>>}
    /\ choice \in [provider : Providers, model : Models \cup {NoModel}, by : {"nobody", "default", "user", "row"}]
    /\ known \in [row : Stored \cup {Unread}, pc : {"idle", "asked", "read"}, got : Stored \cup {Unread}, again : BOOLEAN]
    /\ save \in [pc : {"idle", "sent", "testing", "done", "refused"}, provider : Providers, model : Models \cup {NoModel}]
    /\ removing \in {"idle", "sent", "done", "refused"}
    /\ danger \in {"closed", "deleting", "out"}

---------------------------------------------------------------------------
(* ModelCatalogService. *)

(* Free models first, the preferred ones before the others. *)
FetchOpenRouterModels == LiveModels
(* What getModels may answer, and the cache it leaves behind. *)
GetModels(p) ==
    IF p = FixedProvider THEN {<<FixedModels, catalog>>}
    ELSE IF catalog = "fresh" THEN {<<LiveModels, "fresh">>}
    ELSE {<<FetchOpenRouterModels, "fresh">>,
          <<IF catalog = "old" THEN LiveModels ELSE FallbackModels, catalog>>}
IsValidModel(answer, m) == m \in ToSet(answer[1])

CatalogExpires ==
    /\ catalog = "fresh"
    /\ catalog' = "old"
    /\ UNCHANGED <<stored, lists, shown, choice, known, save, removing, danger, counts>>

---------------------------------------------------------------------------
(* The page renders: a provider that is on display for the first time has  *)
(* its list asked for, and modelsData stays the previous one until then.   *)
Wanted(p, ls) == IF ls[p].pc = "none" THEN [ls EXCEPT ![p].pc = "asked"] ELSE ls
Data(p, ls) == IF ls[p].pc = "loaded" THEN ls[p].got ELSE shown
(* The second effect: the first entry of whatever list there is. *)
Default(c, data) ==
    IF c.model = NoModel /\ data # <<>> THEN [c EXCEPT !.model = Head(data), !.by = "default"] ELSE c

Render(c, ls) ==
    /\ lists' = Wanted(c.provider, ls)
    /\ shown' = Data(c.provider, ls)
    /\ choice' = Default(c, Data(c.provider, ls))

OnPage == danger # "out"
Counted(f) == counts[f] < (IF f = "saves" THEN MaxSaves ELSE MaxChoices) /\ counts' = [counts EXCEPT ![f] = @ + 1]

HandleProviderChange(p) ==
    /\ danger = "closed" /\ p # choice.provider /\ Counted("choices")
    /\ Render([provider |-> p, model |-> NoModel, by |-> "nobody"], lists)
    /\ UNCHANGED <<catalog, stored, known, save, removing, danger>>

(* The select is disabled while the list is on its way. *)
PickModel(m) ==
    /\ danger = "closed" /\ lists[choice.provider].pc # "asked" /\ m \in ToSet(shown) /\ m # choice.model
    /\ Counted("choices")
    /\ choice' = [choice EXCEPT !.model = m, !.by = "user"]
    /\ UNCHANGED <<catalog, stored, lists, shown, known, save, removing, danger>>

(* listModels, and its answer. *)
ListModels(p) ==
    /\ OnPage /\ lists[p].pc = "asked"
    /\ \E answer \in GetModels(p) :
         /\ catalog' = answer[2]
         /\ Render(choice, [lists EXCEPT ![p] = [pc |-> "loaded", got |-> answer[1]]])
    /\ UNCHANGED <<stored, known, save, removing, danger, counts>>

ListModelsFails(p) ==
    /\ OnPage /\ lists[p].pc = "asked"
    /\ lists' = [lists EXCEPT ![p].pc = "failed"]
    /\ UNCHANGED <<catalog, stored, shown, choice, known, save, removing, danger, counts>>

---------------------------------------------------------------------------
(* invalidatesTags: after a request that is under way, if there is one. *)
Again(k) == IF k.pc = "idle" THEN [k EXCEPT !.pc = "asked"] ELSE [k EXCEPT !.again = TRUE]
Over(k) == [k EXCEPT !.pc = IF k.again THEN "asked" ELSE "idle", !.got = Unread, !.again = FALSE]

(* getCredential: the display form of the row. *)
ReadCredential ==
    /\ known.pc = "asked"
    /\ known' = [known EXCEPT !.pc = "read", !.got = stored]
    /\ UNCHANGED <<catalog, stored, lists, shown, choice, save, removing, danger, counts>>

(* The first effect runs when the data has changed; it does not ask what   *)
(* has been chosen on the page in the meantime.                            *)
CredentialArrives ==
    /\ OnPage /\ known.pc = "read"
    /\ known' = Over([known EXCEPT !.row = known.got])
    /\ IF known.got # known.row /\ known.got # NoCredential
       THEN Render([provider |-> known.got.provider, model |-> known.got.model, by |-> "row"], lists)
       ELSE UNCHANGED <<lists, shown, choice>>
    /\ UNCHANGED <<catalog, stored, save, removing, danger, counts>>

GetCredentialFails ==
    /\ OnPage /\ known.pc # "idle"
    /\ known' = Over(known)
    /\ UNCHANGED <<catalog, stored, lists, shown, choice, save, removing, danger, counts>>

---------------------------------------------------------------------------
(* handleSaveCredential: with a key typed in, and one save at a time. *)
HandleSaveCredential ==
    /\ danger = "closed" /\ save.pc = "idle" /\ Counted("saves")
    /\ save' = [pc |-> "sent", provider |-> choice.provider, model |-> choice.model]
    /\ UNCHANGED <<catalog, stored, lists, shown, choice, known, removing, danger>>

(* CredentialController.save: the pair must be in the catalog. *)
SaveChecks ==
    /\ save.pc = "sent"
    /\ \E answer \in GetModels(save.provider) :
         /\ catalog' = answer[2]
         /\ save' = [save EXCEPT !.pc = IF IsValidModel(answer, save.model) THEN "testing" ELSE "refused"]
    /\ UNCHANGED <<stored, lists, shown, choice, known, removing, danger, counts>>

(* testCredential: the provider is asked with the key before it is stored. *)
TestFails ==
    /\ save.pc = "testing"
    /\ save' = [save EXCEPT !.pc = "refused"]
    /\ UNCHANGED <<catalog, stored, lists, shown, choice, known, removing, danger, counts>>

Upsert ==
    /\ save.pc = "testing"
    /\ stored' = [provider |-> save.provider, model |-> save.model]
    /\ save' = [save EXCEPT !.pc = "done"]
    /\ UNCHANGED <<catalog, lists, shown, choice, known, removing, danger, counts>>

(* Answered, refused, or lost on the way. *)
SaveReturns ==
    /\ save.pc # "idle" /\ save.pc # "testing" /\ OnPage
    /\ save' = NoSave
    /\ known' = Again(known)
    /\ UNCHANGED <<catalog, stored, lists, shown, choice, removing, danger, counts>>

HandleRemoveCredential ==
    /\ danger = "closed" /\ known.row \in Stored \ {NoCredential} /\ removing = "idle" /\ Counted("saves")
    /\ removing' = "sent"
    /\ UNCHANGED <<catalog, stored, lists, shown, choice, known, save, danger>>

RemoveRow ==
    /\ removing = "sent"
    /\ \/ removing' = "done" /\ stored' = NoCredential
       \/ removing' = "refused" /\ UNCHANGED stored
    /\ UNCHANGED <<catalog, lists, shown, choice, known, save, danger, counts>>

RemoveReturns ==
    /\ removing \in {"done", "refused"} /\ OnPage
    /\ removing' = "idle"
    /\ known' = Again(known)
    /\ UNCHANGED <<catalog, stored, lists, shown, choice, save, danger, counts>>

(* handleDeleteOrganization: on success the user is logged out.  (The      *)
(* dialog itself is ConfirmDialog.)                                        *)
HandleDeleteOrganization ==
    /\ danger' \in CASE danger = "closed" -> {"deleting"} [] danger = "deleting" -> {"closed", "out"} [] danger = "out" -> {}
    /\ UNCHANGED <<catalog, stored, lists, shown, choice, known, save, removing, counts>>

CredentialsNext ==
    \/ CatalogExpires \/ ReadCredential \/ CredentialArrives \/ GetCredentialFails
    \/ \E p \in Providers : HandleProviderChange(p) \/ ListModels(p) \/ ListModelsFails(p)
    \/ \E m \in Models : PickModel(m)
    \/ HandleSaveCredential \/ SaveChecks \/ TestFails \/ Upsert \/ SaveReturns
    \/ HandleRemoveCredential \/ RemoveRow \/ RemoveReturns \/ HandleDeleteOrganization

CredentialsSpec == CredentialsInit /\ [][CredentialsNext]_credentialVars

---------------------------------------------------------------------------
(* "Once the model list for the selected provider loads, default to its    *)
(* first entry unless a model is already set": a model that the page has   *)
(* chosen by itself is one of the selected provider's.                     *)
SelectedModelIsOffered ==
    lists[choice.provider].pc = "loaded" /\ choice.by = "default" =>
        choice.model \in ToSet(lists[choice.provider].got)
============================================================================
