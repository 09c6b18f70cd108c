\* Any two calls, one mishap: a crash, a failing call, a sick container or a
\* Caddy that lost its routes.
SPECIFICATION Spec
CONSTANTS
    o1 = o1
    o2 = o2
    None = None
    Ops = {o1, o2}
    Kinds = {"deploy", "restart", "stop", "rollback", "delete"}
    MaxTrouble = 1
SYMMETRY MCSymmetry
CHECK_DEADLOCK FALSE
INVARIANTS
    RowServed
