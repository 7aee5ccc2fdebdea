SPECIFICATION Spec
CONSTANTS
    None = None
    Keys = {k1}
    Users = {u1}
    Messages = {m1}
    Dates = {d1, d2}
    Texts = {t1}
    Intents = {i1, i2, i3}
    Requests = {r1, r2}
    Types = {"defer", "reset", "note", "assign", "priority", "contact", "message_draft", "message_sent"}
SYMMETRY Symmetry
INVARIANTS
    DatesChain
    OncePerIntent
PROPERTIES
    LedgerSpec
