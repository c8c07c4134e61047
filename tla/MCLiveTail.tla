------------------------------ MODULE MCLiveTail ------------------------------
(* Two views of one zombie, one terminal session and one single message.      *)
EXTENDS LiveTail

CONSTANTS v1, v2, c1, c2

Cast(views, steers, sends, runs, f) ==
    [views |-> views, steers |-> steers, sends |-> sends, events |-> runs, framing |-> f]
Together == {Cast({v1, v2}, {}, 0, 1, "message"), Cast({v1}, {}, 1, 2, "message"),
             Cast({v1}, {}, 0, 2, "named"), Cast({}, {c1}, 0, 2, "named"),
             Cast({}, {c2}, 0, 2, "named"), Cast({}, {c2}, 0, 2, "message")}
OneView  == {Cast({v1}, {}, 1, 1, "named")}
===============================================================================
