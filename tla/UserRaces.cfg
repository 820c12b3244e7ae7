\* Three requests of seven kinds over an administrator, a user and a free id.
CONSTANTS
    ann = ann  una = una  zoe = zoe  q1 = q1  q2 = q2  q3 = q3
    Null = Null  Unset = Unset
    Users = {ann, una, zoe}
    Requests = {q1, q2, q3}
    Values <- Columns
    Calls <- AllCalls
    Initial <- Table0
SYMMETRY Symmetry
SPECIFICATION Spec
INVARIANTS TypeOK
PROPERTIES LostOnlyToOldCopies ConflictsOnlyFromRaces NewRolesFromAdmins
