\* Two requests at a time, two in all, over two cafes, two slots and two tables.
CONSTANTS
    c1 = c1  c2 = c2  s1 = s1  s2 = s2  t1 = t1  t2 = t2  b1 = b1  None = None
    customer = customer  manager = manager  admin = admin  h1 = h1  h2 = h2
    Users = {customer, manager, admin}
    Cafes = {c1, c2}
    Slots = {s1, s2}
    Tables = {t1, t2}
    Bookings = {b1}
    RoleOf <- MCRoleOf
    Handlers = {h1, h2}
    Stock <- MCStock
    Values = {0, 1, 2}
    Bodies <- MCBodies
    MaxRequests = 2
SYMMETRY Symmetry
SPECIFICATION Spec
INVARIANTS TypeOK DuplicatesNeedRaces StaleHasCause ServedOwnQuery
