\* Two requests at a time, four in all, over two tasks and three tables of schedules.
CONSTANTS
    h1 = h1  h2 = h2  k1 = k1  k2 = k2  None = None
    daily = daily  weekly = weekly  reminders = reminders  cleanup = cleanup  moscow = moscow  utc = utc
    Handlers = {h1, h2}
    MaxSchedules = 2
    Tasks = {k1, k2}
    Names = {reminders, cleanup}
    Times = {daily, weekly}
    Zone = moscow
    TableZone = utc
    Removals = {"orphans", "cascade", "refused"}
    Specs <- MCSpecs
    Bodies <- MCBodies
    Given <- MCGiven
    MaxRequests = 4
CHECK_DEADLOCK FALSE
SYMMETRY Symmetry
SPECIFICATION Spec
INVARIANTS TypeOK SchedulesOnce ErrorsChangeNothing
PROPERTIES OnlyAskedChanges PointersAsked
