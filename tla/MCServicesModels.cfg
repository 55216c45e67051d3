SPECIFICATION Spec
CONSTANTS
    Parts = {"credentials"}
    Hooks = {h1}
    Deliveries = {1}
    Dispatchers = {d1}
    Polls = {p1, p2}
    PollsSeeRows = TRUE
    Customers = {o1}
    Newcomers = {o2, o3}
    MaxEvents = 2
    RowsScoped = TRUE
    Callers = {c1, c2}
    Window = 2
    MaxRequests = 2
    MaxClock = 4
    MaxAdmitted = 5
    Entries = {e1, e2}
    Nobody = Nobody
    Leaders = {e1}
    MaxCalls = 2
    MaxVisits = 2
    FixedProvider = "anthropic"
    OpenRouter = "openrouter"
    FixedModels <- FixedList
    LiveModels <- LiveList
    FallbackModels <- FallbackList
    MaxSaves = 1
    MaxChoices = 2
    Deltas <- Pieces
    Vendors = {"anthropic", "openai", "openrouter", "grok", "gemini"}
    Clients = {"browser", "typescript", "go", "tsExecute", "goExecute", "python"}
    Askers = {a1, a2}
    Texts = {t1, t2}
    Embedders = {"openai", "gemini"}
    CacheSize = 1
    Nodes = {"a", "b", "c", "f", "g"}
    Foreign = {"f", "g"}
    Edges = {"ab", "ba", "af", "fc", "ag", "gc", "cc"}
    Joins <- Threads
    Id <- Numbers
    Precision = 8
    MaxRows = 1
INVARIANT SelectedModelIsOffered
CHECK_DEADLOCK FALSE
