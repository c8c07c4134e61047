--------------------------- MODULE MCDeviceLogin ---------------------------
(* Two runs of the command line, two approval pages, two accounts.          *)
EXTENDS DeviceLogin, TLC

CONSTANTS p1, p2, q1, q2, alice, bob

OfPage == q1 :> alice @@ q2 :> bob

Kind(run, force, noInput) == [run |-> run, force |-> force, noInput |-> noInput]
DeviceAndOther ==
    {p1 :> Kind("device", TRUE, FALSE)  @@ p2 :> Kind("logout", FALSE, FALSE),
     p1 :> Kind("device", FALSE, FALSE) @@ p2 :> Kind("direct", FALSE, FALSE),
     p1 :> Kind("device", FALSE, TRUE)  @@ p2 :> Kind("direct", TRUE, FALSE)}
=============================================================================
