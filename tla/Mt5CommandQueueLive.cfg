\* One order and every word the EA may use, with fairness; the time to live
\* allows three dispatches.
CONSTANTS
    c1 = c1
    c2 = c2
    e1 = e1
    e2 = e2
    Commands = {c1}
    Clients = {e1, e2}
    Anonymous = anonymous
    Owner <- OneOwner
    Ttl = 5
    Lease = 2
    Wait = 2
    Limit = 1
    RefusalWords = {"ok", "expired", "cancelled", "rejected", "other"}
SPECIFICATION FairSpec
PROPERTIES
    EventuallyAnswered
    EventuallyClosed
