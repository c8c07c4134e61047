--------------------------- MODULE ZombieLifecycle ---------------------------
(***************************************************************************)
(* What the API promises about zombies, whoever calls it and however often *)
(* a call is repeated: a zombie is installed once, into one workspace that *)
(* holds no other zombie of its name, lives until it is killed, and is     *)
(* deleted only after that, unless its own install takes it back.  Nothing *)
(* that was deleted comes back; a killed zombie does only when the         *)
(* approval gate of a lease request that loaded it alive pauses it.        *)
(***************************************************************************)
CONSTANTS Zombies, Workspaces, Nowhere, Names, NameOf

VARIABLES
    home, stage,
    open,     \* the zombies whose install has not ended
    loaded    \* the zombies that an approval gate may still pause

Stages == {"unborn", "living", "killed", "gone"}
Existing(z) == stage[z] \in {"living", "killed"}

LifecycleTypeOK == /\ home \in [Zombies -> Workspaces \union {Nowhere}]
                   /\ stage \in [Zombies -> Stages]
                   /\ open \subseteq Zombies /\ loaded \subseteq Zombies

\* Two zombies of one workspace never have the same name.
NamesUnique ==
    \A y, z \in Zombies :
        Existing(y) /\ Existing(z) /\ home[y] = home[z] /\ NameOf[y] = NameOf[z] => y = z

Init == LifecycleTypeOK /\ NamesUnique

Install(z, w) ==
    /\ stage[z] = "unborn"
    /\ \A y \in Zombies : Existing(y) /\ home[y] = w => NameOf[y] # NameOf[z]
    /\ home' = [home EXCEPT ![z] = w]
    /\ stage' = [stage EXCEPT ![z] = "living"]
    /\ open' = open \union {z}
    /\ UNCHANGED loaded

\* The install ends, and may take the zombie back, alive or killed.
Settle(z) ==
    /\ z \in open
    /\ open' = open \ {z}
    /\ \/ Existing(z) /\ stage' = [stage EXCEPT ![z] = "gone"]
       \/ UNCHANGED stage
    /\ UNCHANGED <<home, loaded>>

Kill(z) ==
    /\ stage[z] = "living"
    /\ stage' = [stage EXCEPT ![z] = "killed"]
    /\ UNCHANGED <<home, open, loaded>>

Delete(z) ==
    /\ stage[z] = "killed"
    /\ stage' = [stage EXCEPT ![z] = "gone"]
    /\ UNCHANGED <<home, open, loaded>>

\* A gate loads a living zombie, and takes back a kill that came in between.
Load(z) ==
    /\ stage[z] = "living"
    /\ loaded' = loaded \union {z}
    /\ UNCHANGED <<home, stage, open>>
Pause(z) ==
    /\ z \in loaded
    /\ loaded' = loaded \ {z}
    /\ stage' = IF Existing(z) THEN [stage EXCEPT ![z] = "living"] ELSE stage
    /\ UNCHANGED <<home, open>>

Next == \E z \in Zombies :
    \/ \E w \in Workspaces : Install(z, w)
    \/ Settle(z) \/ Kill(z) \/ Delete(z) \/ Load(z) \/ Pause(z)

Spec == Init /\ [][Next]_<<home, stage, open, loaded>>
==============================================================================
