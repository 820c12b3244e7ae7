\* The same requests: a user's own update and the role an administrator gave.
CONSTANTS
    ann = ann  una = una  zoe = zoe  q1 = q1  q2 = q2  q3 = q3
    Null = Null  Unset = Unset
    Users = {ann, una, zoe}
    Requests = {q1, q2, q3}
    Values <- Columns
    Calls <- AllCalls
    Initial <- Table0
SPECIFICATION Spec
PROPERTIES OwnRoleStays
