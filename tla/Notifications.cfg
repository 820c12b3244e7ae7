SPECIFICATION Spec
CONSTANTS
    Day = 7
    Workers = {w1}
    Bookings = {b1}
    Slots = {s1, s2}
    Tables = {t1, t2}
    ActiveSlots = {s1, s2}
    SlotTime <- TwoSlots
    Rows <- SomeRows
    Plans <- SomePlans
    Reachable = {"client"}
    MaxToday = 0
    MaxWrites = 2
    MaxFaults = 1
    None = None
    w1 = w1
    b1 = b1
    t1 = t1
    t2 = t2
    s1 = s1
    s2 = s2
INVARIANTS TypeOK ContradictionsNeedWrites RepeatsNeedLosses NothingForgotten RemindedInTime
    RepeatedRemindersExplained LateRemindersNeedMidnight
