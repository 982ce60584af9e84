SPECIFICATION MCSpec
VIEW Stored
SYMMETRY AnyClient
CONSTANTS
    Ids = {1, 2}
    MaxClock = 2
    DayTicks = 2
    StripDays = 1
    MaxNotes = 1
    MaxAttempts = 1
    MaxResults = 2
    None = None
    Clients = {c1, c2}
    c1 = c1
    c2 = c2
    Areas = {"targets", "beats", "results", "incidents", "notes", "pages", "components", "assets", "windows", "silences", "subscribers", "deliveries", "variables", "channels", "bindings", "tokens", "users", "sessions", "api_tokens", "links", "escalation", "on_call", "postmortems", "shares"}
PROPERTY MirrorsMemory
CHECK_DEADLOCK FALSE
