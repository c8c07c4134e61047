------------------------------ MODULE MCConsole ------------------------------
(* Two tabs of one browser, two workspaces; a cast for each page, with what it *)
(* takes for its races to happen.                                              *)
EXTENDS Console

CONSTANTS a, b, w1, w2, n1, n2

HomeOf == [e \in Entries |-> IF e = 3 THEN w2 ELSE w1]

Cast(s, ts, rows, births, more, clks, flts) ==
    [scene |-> s, tabs |-> ts, rows |-> rows, births |-> births,
     cookies |-> IF s = "approvals" THEN Workspaces ELSE {w1},
     drift |-> more = "drift", creds |-> IF more = "creds" THEN {n1} ELSE {},
     clicks |-> clks, faults |-> flts]

Scenes == {
    Cast("approvals", {a}, 2, 1, "none", 2, 0), Cast("approvals", {a}, 2, 0, "none", 2, 1),
    Cast("approvals", {a, b}, 1, 0, "none", 2, 0), Cast("approvals", {a}, 1, 0, "none", 3, 0),
    Cast("agents", {a}, 2, 1, "none", 3, 1), Cast("events", {a}, 2, 1, "none", 2, 1),
    Cast("runners", {a}, 2, 0, "none", 3, 1), Cast("runners", {a, b}, 1, 0, "none", 3, 0),
    Cast("keys", {a}, 1, 0, "drift", 2, 1), Cast("keys", {a, b}, 1, 0, "none", 2, 0),
    Cast("agent", {a, b}, 0, 0, "none", 3, 0), Cast("agent", {a}, 0, 0, "none", 3, 1),
    Cast("install", {a, b}, 0, 0, "none", 2, 1),
    Cast("vault", {a}, 0, 0, "creds", 3, 1), Cast("vault", {a, b}, 0, 0, "creds", 2, 0),
    Cast("spaces", {a, b}, 0, 0, "none", 3, 1) }
=============================================================================
