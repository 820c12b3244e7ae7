\* One request at a time, over a midnight, from clients that send no unchecked update.
CONSTANTS
    r1 = r1  r2 = r2  u1 = u1  u2 = u2  t1 = t1  t2 = t2
    s1 = s1  s2 = s2  b1 = b1  b2 = b2  None = None
    Requests = {r1}
    Users = {u1, u2}
    Tables = {t1, t2}
    Slots = {s1, s2}
    SlotStart <- MCStart
    SlotEnd <- MCEnd
    Bookings = {b1, b2}
    Batches = {1, 2}
    PairSets <- SerialPairs
    Patches <- AllPatches
    MaxDay = 1
    Midnights = 1
SPECIFICATION DisciplinedSpec
INVARIANTS NoDoubleBooking
PROPERTY ImplementsReservations
