\* Two queries and a client race on a conversation with room for two messages.
SPECIFICATION FairSpec
CONSTANTS
    c1 = c1
    q1 = q1
    q2 = q2
    k1 = k1
    Conversations = {c1}
    Queries = {q1, q2}
    Clients = {k1}
    MaxConversationHistory = 1
INVARIANTS
    TypeOK
    HistoryWellFormed
    CacheIsCurrent
PROPERTIES
    AppendsOnly
    GoneStaysGone
    DeletedIsForgotten
