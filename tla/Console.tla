------------------------------- MODULE Console -------------------------------
(***************************************************************************)
(* The dashboard's list pages (documents, one document, API keys,          *)
(* webhooks, the team, and the query explorer with the team's history of   *)
(* queries) over the RTK Query cache of one browser, and the server's side *)
(* of their calls: a handler answers, and only when the answer is written  *)
(* out does its transaction commit.  A connection that breaks is an error  *)
(* to the page, while the handler may go on and commit.  A page is the set *)
(* of things its elements let the user do; kind tells which page the       *)
(* behaviour is about, all of them share the cache, dialogs and calls.     *)
(***************************************************************************)
EXTENDS Naturals, FiniteSets

CONSTANTS
    Entries,    \* rows of the page's table
    Nobody,     \* no row
    Leaders,    \* the rows to begin with; in the team, the user's own and the owner's
    MaxCalls,   \* bound on the mutations that are asked for
    MaxVisits   \* bound on the times the page is opened

ASSUME ConsoleAssumption ==
    /\ Nobody \notin Entries /\ Leaders \subseteq Entries
    /\ MaxCalls \in Nat \ {0} /\ MaxVisits \in Nat \ {0}

Kinds == {"documents", "document", "keys", "webhooks", "team", "queries"}
Present == {"there", "failed"}   \* a document that is pending, processing or ready is "there"
RowStates == Present \cup {"absent", "gone"}
Snapshots == [Entries -> RowStates]
NoList == [e \in Entries |-> "unknown"]

VARIABLES
    kind,       \* the page
    table,      \* the committed rows
    using,      \* a request has been admitted with an API key
    cached,     \* data of the list's cache entry
    fetch,      \* the list's request: idle, asked, or read with what it has read
    broken,     \* isError: the last request failed
    stale,      \* pendingTagInvalidations
    calls,      \* mutations, numbered: sent, done (executed), committed...; told (the page
                \* has its answer or its error), adrift (an error came before the execution)
    visit,      \* [no, open, asked]: the page's visits and the mutations asked for
    page,       \* [create, confirm, shown]: the form, the row to be confirmed, the secret
    seen,       \* history: secrets that were on top of the page
    forgone,    \* history: secrets that were lost by leaving, by an error or by Escape
    raced       \* history: rows whose change was committed after the page had its answer or
                \* its error, and queries that were logged without an answer to the page

consoleVars == <<kind, table, using, cached, fetch, broken, stale, calls, visit, page, seen, forgone, raced>>
listVars == <<cached, fetch, broken, stale>>
secretVars == <<seen, forgone, raced>>

Secretive == kind \in {"keys", "webhooks"}
Idle == [pc |-> "idle", got |-> NoList]
Blank == [create |-> FALSE, confirm |-> Nobody, shown |-> Nobody]

ConsoleInit ==
    /\ kind \in Kinds
    /\ table = [e \in Entries |-> IF e \notin Leaders THEN "absent" ELSE "there"]
    /\ using = FALSE
    /\ cached = NoList /\ fetch = Idle /\ broken = FALSE /\ stale = FALSE
    /\ calls = {}
    /\ visit = [no |-> 0, open |-> FALSE, asked |-> 0]
    /\ page = Blank
    /\ seen = Leaders /\ forgone = {} /\ raced = {}

Phases == {"sent", "done", "committed", "void", "told", "refused", "adrift"}
ConsoleTypeOK ==
    /\ kind \in Kinds /\ table \in Snapshots /\ using \in BOOLEAN
    /\ cached \in Snapshots \cup {NoList}
    /\ fetch \in [pc : {"idle", "asked", "read"}, got : Snapshots \cup {NoList}]
    /\ broken \in BOOLEAN /\ stale \in BOOLEAN
    /\ calls \subseteq [op : {"create", "remove", "retry"}, id : Entries \cup {Nobody},
                        no : 1 .. MaxCalls, visit : 1 .. MaxVisits, phase : Phases]
    /\ visit \in [no : 0 .. MaxVisits, open : BOOLEAN, asked : 0 .. MaxCalls]
    /\ page \in [create : BOOLEAN, confirm : Entries \cup {Nobody}, shown : Entries \cup {Nobody}]
    /\ seen \subseteq Entries /\ forgone \subseteq Entries /\ raced \subseteq Entries

---------------------------------------------------------------------------
(* What a page offers. *)

Mine(c) == visit.open /\ c.visit = visit.no
Unanswered(c) == c.phase \notin {"told", "adrift"}
Pending == {c \in calls : Mine(c) /\ Unanswered(c)}
Loading(op) == \E c \in Pending : c.op = op

IsLoading == cached = NoList /\ fetch.pc # "idle"
IsError == broken /\ fetch.pc = "idle"
Listed == IF IsLoading \/ IsError THEN {} ELSE {e \in Entries : cached[e] \in Present}
Offer(op, es) == {<<op, e>> : e \in es}
TryAgain == IF ~IsLoading /\ IsError THEN Offer("refetch", {Nobody}) ELSE {}

(* The button in the header; the empty state has another one. *)
ApiKeysView == Offer("openForm", {Nobody}) \cup TryAgain \cup Offer("ask", Listed)
(* No dialog, and no loading state: the row can be clicked again. *)
WebhooksView == Offer("openForm", {Nobody}) \cup TryAgain \cup Offer("remove", Listed)
TeamView == Offer("openForm", {Nobody}) \cup TryAgain \cup Offer("ask", Listed \ Leaders)
DocumentsError == TryAgain
DocumentsTable == Offer("retry", {e \in Listed : cached[e] = "failed"}) \cup Offer("ask", Listed)
(* Disabled for the pointer while a file is sent, but not for the keyboard. *)
UploadZone == Offer("create", {Nobody})
(* The page of one document keeps its data when a later request fails. *)
DocumentDetail == TryAgain \cup Offer("retry", {e \in Entries : cached[e] = "failed"})

(* The form is there unless a query runs, or the quota was used up when    *)
(* the session began: the subscription that says so is not asked for again.*)
QueryExplorer == Offer("create", IF Loading("create") THEN {} ELSE {Nobody})

View ==
    CASE kind = "keys" -> ApiKeysView
      [] kind = "webhooks" -> WebhooksView
      [] kind = "team" -> TeamView
      [] kind = "documents" -> UploadZone \cup DocumentsError \cup DocumentsTable
      [] kind = "document" -> DocumentDetail
      [] kind = "queries" -> QueryExplorer

(* Button: disabled while loading. *)
Button(op, e, loading) == IF loading THEN {} ELSE Offer(op, {e})
Modal == Offer("dismiss", {Nobody})
(* Both buttons wait for the answer, Escape and the backdrop do not. *)
ConfirmDialog == Modal \cup Button("remove", page.confirm, Loading("remove")) \cup Button("dismiss", Nobody, Loading("remove"))
ApiKeyForm == Modal \cup Button("create", Nobody, Loading("create"))
WebhookForm == Modal \cup Button("create", Nobody, Loading("create"))
InviteForm == Modal \cup Button("create", Nobody, Loading("create"))
RevealKey == Modal
RevealSecret == Modal

(* The dialog that comes last in the page is on top, and alone is reached. *)
Offers ==
    IF ~visit.open THEN {}
    ELSE IF page.confirm # Nobody THEN ConfirmDialog
    ELSE IF page.shown # Nobody THEN IF kind = "keys" THEN RevealKey ELSE RevealSecret
    ELSE IF page.create
         THEN CASE kind = "keys" -> ApiKeyForm [] kind = "webhooks" -> WebhookForm [] kind = "team" -> InviteForm
    ELSE View

---------------------------------------------------------------------------
(* The user. *)

Look(p) == seen' = seen \cup (IF p.confirm = Nobody THEN {p.shown} \ {Nobody} ELSE {})
Covered == IF page.confirm # Nobody THEN {page.shown} \ {Nobody} ELSE {}

(* The list is asked for unless the cache has it. *)
OpenPage ==
    /\ ~visit.open /\ visit.no < MaxVisits
    /\ visit' = [visit EXCEPT !.no = @ + 1, !.open = TRUE]
    /\ fetch' = IF cached = NoList /\ fetch.pc = "idle" THEN [fetch EXCEPT !.pc = "asked"] ELSE fetch
    /\ UNCHANGED <<kind, table, using, cached, broken, stale, calls, page, secretVars>>

(* The state of the page goes with it; its calls do not. *)
LeavePage ==
    /\ visit.open
    /\ visit' = [visit EXCEPT !.open = FALSE]
    /\ page' = Blank
    /\ forgone' = forgone \cup Covered
    /\ UNCHANGED <<kind, table, using, listVars, calls, seen, raced>>

(* keepUnusedDataFor *)
CacheExpires ==
    /\ ~visit.open /\ fetch.pc = "idle" /\ cached # NoList
    /\ cached' = NoList /\ broken' = FALSE
    /\ UNCHANGED <<kind, table, using, fetch, stale, calls, visit, page, secretVars>>

Refetch ==
    /\ <<"refetch", Nobody>> \in Offers
    /\ fetch' = [fetch EXCEPT !.pc = "asked"]
    /\ UNCHANGED <<kind, table, using, cached, broken, stale, calls, visit, page, secretVars>>

OpenDialog ==
    /\ \/ <<"openForm", Nobody>> \in Offers /\ page' = [page EXCEPT !.create = TRUE]
       \/ \E e \in Entries : <<"ask", e>> \in Offers /\ page' = [page EXCEPT !.confirm = e]
    /\ UNCHANGED <<kind, table, using, listVars, calls, visit, secretVars>>

(* Cancel, Done, the backdrop and the cross close the dialog on top. *)
Dismiss ==
    /\ <<"dismiss", Nobody>> \in Offers
    /\ page' = CASE page.confirm # Nobody -> [page EXCEPT !.confirm = Nobody]
                 [] page.confirm = Nobody /\ page.shown # Nobody -> [page EXCEPT !.shown = Nobody]
                 [] OTHER -> [page EXCEPT !.create = FALSE]
    /\ Look(page')
    /\ UNCHANGED <<kind, table, using, listVars, calls, visit, forgone, raced>>

(* Every open dialog listens to the key. *)
Escape ==
    /\ <<"dismiss", Nobody>> \in Offers
    /\ page' = Blank
    /\ forgone' = forgone \cup Covered
    /\ UNCHANGED <<kind, table, using, listVars, calls, visit, seen, raced>>

Submit(op, e) ==
    /\ <<op, e>> \in Offers /\ visit.asked < MaxCalls
    /\ \A c \in Pending : <<c.op, c.id>> # <<op, e>>
    /\ calls' = calls \cup {[op |-> op, id |-> e, no |-> visit.asked + 1, visit |-> visit.no, phase |-> "sent"]}
    /\ visit' = [visit EXCEPT !.asked = @ + 1]
    /\ UNCHANGED <<kind, table, using, listVars, page, secretVars>>

---------------------------------------------------------------------------
(* The server. *)

Step(c, d) == calls' = (calls \ {c}) \cup {d}
Unused(e) == table[e] = "absent" /\ \A c \in calls : c.id # e

(* The handlers of POST, DELETE and retry, up to the answer. *)
Executable(c, e) ==
    CASE c.op = "create" -> Unused(e)
      [] c.op = "remove" -> e = c.id /\ (kind \in {"documents", "team"} => table[e] \in Present)
      [] c.op = "retry" -> e = c.id /\ table[e] = "failed"

ExecuteCall(c) ==
    /\ c.phase = "sent"
    /\ \/ \E e \in Entries : Executable(c, e) /\ Step(c, [c EXCEPT !.id = e, !.phase = "done"])
       \/ Step(c, [c EXCEPT !.phase = "refused"])
    /\ UNCHANGED <<kind, table, using, listVars, visit, page, secretVars>>

(* The page has been told of an error, nobody hears the answer: a secret   *)
(* that is made now is lost.                                               *)
ExecuteUnheard(c) ==
    /\ c.phase = "adrift"
    /\ \/ \E e \in Entries :
            /\ Executable(c, e) /\ Step(c, [c EXCEPT !.id = e, !.phase = "told"])
            /\ forgone' = forgone \cup (IF c.op = "create" /\ Secretive THEN {e} ELSE {})
       \/ calls' = calls \ {c} /\ UNCHANGED forgone
    /\ UNCHANGED <<kind, table, using, listVars, visit, page, seen, raced>>

Changed(c) ==
    CASE c.op = "create" -> "there"
      [] c.op = "remove" -> "gone"
      [] c.op = "retry" -> IF table[c.id] = "failed" THEN "there" ELSE table[c.id]

(* The answer is on its way or has been received, or the connection broke. *)
Commit(c) ==
    /\ c.phase \in {"done", "told"}
    /\ table' = [table EXCEPT ![c.id] = Changed(c)]
    /\ IF c.phase = "done"
       THEN Step(c, [c EXCEPT !.phase = "committed"]) /\ UNCHANGED raced
       ELSE calls' = calls \ {c} /\ raced' = raced \cup {c.id}
    /\ UNCHANGED <<kind, using, listVars, visit, page, seen, forgone>>

(* COMMIT fails and the answer stands, or the connection broke before the  *)
(* answer was written out.                                                 *)
RollBack(c) ==
    /\ c.phase \in {"done", "told"}
    /\ IF c.phase = "done" THEN Step(c, [c EXCEPT !.phase = "void"]) ELSE calls' = calls \ {c}
    /\ table' = IF c.op = "create" THEN [table EXCEPT ![c.id] = "gone"] ELSE table   \* the number is not used again
    /\ UNCHANGED <<kind, using, listVars, visit, page, secretVars>>

(* The ingestion worker gives a document up. *)
Work(e) ==
    /\ kind \in {"documents", "document"} /\ table[e] = "there"
    /\ table' = [table EXCEPT ![e] = "failed"]
    /\ UNCHANGED <<kind, using, listVars, calls, visit, page, secretVars>>

(* find_api_key_by_hash: a request is admitted, whatever follows. *)
RequireApiKey(e) ==
    /\ kind = "keys" /\ ~using /\ table[e] = "there"
    /\ using' = TRUE
    /\ UNCHANGED <<kind, table, listVars, calls, visit, page, secretVars>>
UpdateLastUsed ==
    /\ using
    /\ using' = FALSE
    /\ UNCHANGED <<kind, table, listVars, calls, visit, page, secretVars>>

---------------------------------------------------------------------------
(* What the browser does with answers. *)

(* The mutations that invalidate the tag of the list. *)
CreatedKeysOnly == {"create"}
ApiKeyTags == {"create", "remove"}
WebhookTags == {"create", "remove"}
DocumentTags == {"create", "remove", "retry"}
TeamTags == {"create", "remove"}
QueryLogTags == {"create"}   \* dispatched by the page itself, after an answer
Invalidates(op) ==
    op \in CASE kind = "keys" -> ApiKeyTags [] kind = "queries" -> QueryLogTags [] kind = "webhooks" -> WebhookTags [] kind = "team" -> TeamTags
             [] kind \in {"documents", "document"} -> DocumentTags

(* RTK's delayed invalidation: tags wait until no request is pending; then *)
(* the list is fetched again, or dropped when no page shows it.            *)
Mutations(cs) == {c \in cs : Mine(c) /\ Unanswered(c) /\ kind # "queries"}
Settle(f, cs, data, bad, tags) ==
    IF ~tags \/ f.pc # "idle" \/ Mutations(cs) # {}
    THEN fetch' = f /\ cached' = data /\ broken' = bad /\ stale' = tags
    ELSE /\ stale' = FALSE
         /\ fetch' = IF visit.open THEN [Idle EXCEPT !.pc = "asked"] ELSE Idle
         /\ cached' = IF visit.open THEN data ELSE NoList
         /\ broken' = (bad /\ visit.open)

ReadList ==
    /\ fetch.pc = "asked"
    /\ fetch' = [pc |-> "read", got |-> table]
    /\ UNCHANGED <<kind, table, using, cached, broken, stale, calls, visit, page, secretVars>>

ListArrives ==
    /\ fetch.pc = "read"
    /\ Settle(Idle, calls, fetch.got, FALSE, stale)
    /\ UNCHANGED <<kind, table, using, calls, visit, page, secretVars>>

ListFails ==
    /\ fetch.pc # "idle"
    /\ Settle(Idle, calls, cached, TRUE, stale)
    /\ UNCHANGED <<kind, table, using, calls, visit, page, secretVars>>

(* handleCreate, handleRevoke, handleDelete, handleRemove: `finally` closes *)
(* whichever dialog is open by now.                                         *)
RevealIfFormOpen(c) ==
    CASE c.op = "create" /\ Secretive /\ page.create -> [page EXCEPT !.shown = c.id, !.create = FALSE]
      [] c.op = "remove" -> [page EXCEPT !.confirm = Nobody]
      [] OTHER -> [page EXCEPT !.create = FALSE]
Handled(c) ==
    CASE c.op = "create" /\ Secretive -> [page EXCEPT !.shown = c.id, !.create = FALSE]
      [] c.op = "create" /\ ~Secretive -> [page EXCEPT !.create = FALSE]
      [] c.op = "remove" -> [page EXCEPT !.confirm = Nobody]
      [] c.op = "retry" -> page

Secret(c) == IF c.op = "create" /\ Secretive THEN {c.id} \ {Nobody} ELSE {}

Answer(c) ==
    /\ c.phase \in {"done", "committed", "void"}
    /\ calls' = (calls \ {c}) \cup (IF c.phase = "done" THEN {[c EXCEPT !.phase = "told"]} ELSE {})
    /\ Settle(fetch, calls \ {c}, cached, broken, stale \/ Invalidates(c.op))
    /\ page' = IF Mine(c) THEN Handled(c) ELSE page
    /\ Look(page')
    /\ forgone' = IF Mine(c) THEN forgone ELSE forgone \cup Secret(c)
    /\ UNCHANGED <<kind, table, using, visit, raced>>

(* What is left on the server of a call whose connection broke: a handler  *)
(* that runs goes on to its COMMIT or ROLLBACK.                            *)
Remains(c) ==
    CASE c.phase = "sent" -> {{}, {[c EXCEPT !.phase = "adrift"]}}
      [] c.phase = "done" -> {{[c EXCEPT !.phase = "told"]}}
      [] OTHER -> {{}}

(* Refused, or the connection broke on the way there or back: the same to  *)
(* the page.  An error of a mutation invalidates the list like an answer,  *)
(* that of a query does not.                                               *)
Fails(c) ==
    /\ Unanswered(c)
    /\ \E rest \in Remains(c) : calls' = (calls \ {c}) \cup rest
    /\ Settle(fetch, calls \ {c}, cached, broken, stale \/ (kind # "queries" /\ Invalidates(c.op)))
    /\ page' = IF Mine(c) /\ c.op = "remove" THEN [page EXCEPT !.confirm = Nobody] ELSE page
    /\ Look(page')
    /\ forgone' = forgone \cup Secret(c)
    /\ raced' = IF kind = "queries" THEN raced \cup ({c.id} \ {Nobody}) ELSE raced
    /\ UNCHANGED <<kind, table, using, visit>>

UserStep ==
    \/ OpenPage \/ LeavePage \/ CacheExpires \/ Refetch \/ OpenDialog \/ Dismiss \/ Escape
    \/ \E op \in {"create", "remove", "retry"}, e \in Entries \cup {Nobody} : Submit(op, e)
ServerStep ==
    \/ \E c \in calls : ExecuteCall(c) \/ ExecuteUnheard(c) \/ Commit(c) \/ RollBack(c)
    \/ \E e \in Entries : Work(e) \/ RequireApiKey(e)
    \/ UpdateLastUsed \/ ReadList
BrowserStep == ListArrives \/ ListFails \/ \E c \in calls : Answer(c) \/ Fails(c)

ConsoleNext == UserStep \/ ServerStep \/ BrowserStep

ConsoleSpec == ConsoleInit /\ [][ConsoleNext]_consoleVars

---------------------------------------------------------------------------
(* A secret that is shown only once is shown: a key or a webhook whose     *)
(* secret nobody has seen was given up by leaving the page, by a lost      *)
(* answer, or by an Escape that was meant for the dialog on top.           *)
UnseenKeysWereAbandoned ==
    Secretive => \A e \in Entries :
        table[e] = "there" /\ e \notin seen => 
            \/ e \in forgone \/ page.shown = e
            \/ \E c \in calls : c.id = e /\ c.phase # "told"

(* Once nothing is under way any more, the open page lists the rows that   *)
(* are there, whatever order the calls, their answers, their errors and    *)
(* the list's requests had: except for changes that were committed only    *)
(* after the page had the answer or an error, which the new list may have  *)
(* been read before, and for queries whose answer was lost.                *)
SettledListIsFresh ==
    visit.open /\ calls = {} /\ fetch.pc = "idle" /\ ~broken =>
        \A e \in Entries \ raced : (cached[e] \in Present) = (table[e] \in Present)
==============================================================================
