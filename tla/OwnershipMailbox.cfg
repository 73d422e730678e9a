\* Three processors so that two receivers can race a publisher; two tickets
\* so that a second publish can find the slot occupied.
CONSTANTS
    Procs = {p1, p2, p3}
    Tickets = {t1, t2}
    Nobody = Nobody
SPECIFICATION MSpec
INVARIANTS MTypeOK LinearOwnership ExclusiveAccess
PROPERTIES ClaimReleased ImplementsSlot
\* Once the mailbox is dropped there is nothing left to do.
CHECK_DEADLOCK FALSE
