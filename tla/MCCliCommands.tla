----------------------------- MODULE MCCliCommands -----------------------------
(* Two runs, two accounts, four workspace ids, three zombies of two names.     *)
EXTENDS CliCommands, TLC

CONSTANTS p1, p2, alice, bob, w1, w2, w3, w4, z1, z2, z3, n1, n2

\* z2 and z3 come of one bundle.
TwoNames == z1 :> n1 @@ z2 :> n2 @@ z3 :> n2

\* alice has w1, with the zombie z1 and its grant, and bob has w2.
Served == [owner    |-> w1 :> alice @@ w2 :> bob @@ w3 :> None @@ w4 :> None,
           home     |-> z1 :> w1 @@ z2 :> None @@ z3 :> None,
           status   |-> z1 :> "active" @@ z2 :> "unborn" @@ z3 :> "unborn",
           key      |-> [z \in Zombies |-> None],
           grant    |-> {z1},
           secret   |-> [w \in Workspaces |-> None],
           provider |-> [a \in Accounts |-> None]]
Left == [current |-> w1, items |-> {w1}]

Line(cmd) == [cmd |-> cmd, zombie |-> z1, workspace |-> w1, env |-> None,
              user |-> IF cmd = "login" THEN bob ELSE None]
Pair(c, d) == p1 :> Line(c) @@ p2 :> Line(d)
\* An install, and a command on the zombie it installs.
OfNew(start) == [p \in Procs |-> [start[p] EXCEPT !.zombie = z2]]
WithEnv(start) == [p \in Procs |-> [start[p] EXCEPT !.env = bob]]

\* Commands that only read are alike: each of them appears once.
Pairs ==
    {Pair("workspace_add", "workspace_add"), Pair("workspace_add", "workspace_delete"),
     Pair("workspace_use", "login"), Pair("workspace_list", "doctor"),
     Pair("workspace_show", "update"), Pair("stop", "resume"), Pair("stop", "kill"),
     Pair("kill", "delete"), Pair("resume", "delete"),
     OfNew(Pair("install", "install")), OfNew(Pair("install", "kill")),
     OfNew(Pair("install", "agent_add")), OfNew(Pair("install", "login")), Pair("credential_add", "credential_delete"),
     Pair("credential_add", "credential_force"), Pair("agent_add", "agent_add"),
     Pair("agent_add", "agent_delete"), Pair("grant_delete", "delete"),
     Pair("provider_add", "provider_delete"), Pair("logout", "stop"),
     Pair("login", "kill"), Pair("status", "logout"), Pair("auth_status", "logout"), Pair("list", "logs"),
     Pair("events", "memory"), Pair("credential_show", "credential_list"),
     Pair("agent_list", "grant_list"), Pair("provider_show", "billing_show")}
    \union {WithEnv(Pair("logout", "stop")), WithEnv(Pair("workspace_add", "logout"))}
================================================================================
