--------------------------- MODULE MCUserAccounts ---------------------------
(* Small instances of UserAccounts: an administrator, a user, and an id to *)
(* be registered.                                                          *)
EXTENDS UserAccounts, TLC

CONSTANTS ann, una, zoe, q1, q2, q3

Columns == {"ann", "una", "new", "e1", "e2", "1", "2", "h1", "ADMIN", "MANAGER", "USER", "true"}

Account(name, email, phone, role) == [f \in Fields |->
    CASE f = "username" -> name [] f = "email" -> email [] f = "phone" -> phone
      [] f = "password" -> "h1" [] f = "tg_id" -> Null [] f = "role" -> role
      [] f = "is_active" -> "true"]

Table0 == (ann :> Account("ann", Null, "1", "ADMIN")) @@ (una :> Account("una", "e1", "2", "USER"))
            @@ (zoe :> NoRow)

Body(set) == set @@ [f \in Fields |-> Unset]
Me(x, set) == [kind |-> "me", actor |-> x, target |-> x, patch |-> Body(set)]
Id(x, y, set) == [kind |-> "id", actor |-> x, target |-> y, patch |-> Body(set)]
Create(set) == [kind |-> "create", actor |-> zoe, target |-> zoe, patch |-> Body(set)]

\* una moves to another address, or drops it, or sends a null name; ann promotes
\* una, or removes her phone; una, once a manager, tries to demote ann; zoe
\* registers with una's address.
AllCalls == {
    Me(una, "email" :> "e2"), Me(una, "email" :> Null), Me(una, "username" :> Null),
    Id(ann, una, "role" :> "MANAGER"), Id(ann, una, "phone" :> Null), Id(una, ann, "role" :> "USER"),
    Create("username" :> "new" @@ "password" :> "h1" @@ "email" :> "e1")}

Symmetry == Permutations(Requests)
=============================================================================
