\* Two orders for one EA terminal; a second terminal polls the same account.
\* Ttl is two leases long, so that a dispatch can be repeated once.
CONSTANTS
    c1 = c1
    c2 = c2
    e1 = e1
    e2 = e2
    Commands = {c1, c2}
    Clients = {e1, e2}
    Anonymous = anonymous
    Owner <- OneOwner
    Ttl = 3
    Lease = 2
    Wait = 1
    Limit = 1
    RefusalWords = {"ok", "other"}
SPECIFICATION Spec
INVARIANTS
    TypeOK
    TruthfulAnswer
    DeliveryBound
    FirstDispatchInOrder
PROPERTIES
    ClosedForGood
    ImplementsContract
