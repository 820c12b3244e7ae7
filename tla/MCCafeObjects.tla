--------------------------- MODULE MCCafeObjects ---------------------------
EXTENDS CafeObjects, TLC

CONSTANTS c1, c2, s1, s2, t1, t2, b1, customer, manager, admin, h1, h2

MCRoleOf == (customer :> "USER") @@ (manager :> "MANAGER") @@ (admin :> "ADMIN")

Send(x, y, active) == [x |-> x, y |-> y, active |-> active]
\* A cafe with a slot and a table.
MCStock == [o \in {c1, c2, s1, s2, t1, t2} |->
    CASE o = s1 -> [cafe |-> c1, x |-> 0, y |-> 2, active |-> TRUE]
      [] o \in {c2, s2, t2} -> None
      [] OTHER  -> [cafe |-> c1, x |-> 1, y |-> 1, active |-> TRUE]]

\* A new slot, one edge moved alone, a slot or a table hidden, a cafe renamed or closed.
MCBodies == [
    cafe  |-> {Send(2, 1, None), Send(2, None, None), Send(None, None, FALSE)},
    slot  |-> {Send(0, 1, None), Send(None, 1, None), Send(2, None, None), Send(None, None, FALSE)},
    table |-> {Send(1, 1, None), Send(None, None, FALSE)}]

Symmetry == Permutations({h1, h2})
=============================================================================
