\* Two requests at a time over one table and one slot, on two days.
CONSTANTS
    r1 = r1  r2 = r2  u1 = u1  u2 = u2  t1 = t1  t2 = t2
    s1 = s1  s2 = s2  b1 = b1  b2 = b2  None = None
    Requests = {r1, r2}
    Users = {u1, u2}
    Tables = {t1}
    Slots = {s1}
    SlotStart <- MCStart
    SlotEnd <- MCEnd
    Bookings = {b1, b2}
    Batches = {1, 2}
    PairSets <- OnePair
    Patches <- RacePatches
    MaxDay = 1
    Midnights = 0
SYMMETRY Symmetry
SPECIFICATION Spec
INVARIANTS TypeOK
PROPERTIES DoubleBookingNeedsRace LockedNeedsRace MailTellsOwnCommit
