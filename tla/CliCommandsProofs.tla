--------------------------- MODULE CliCommandsProofs ---------------------------
(***************************************************************************)
(* Proofs about the commands of the command line, for any number of runs,  *)
(* workspaces, zombies and attempts: what a run still has to do, what it   *)
(* has changed at the API, and what the two files say.                     *)
(***************************************************************************)
EXTENDS CliCommands, TLAPS

(***************************************************************************)
(* What the commands have in common, whatever they do: each list of steps  *)
(* changes the API once, with a token, and nothing after that can fail.    *)
(***************************************************************************)
Has(s, b)       == \E i \in DOMAIN s : s[i] \in b
Only(s, b)      == \A i \in DOMAIN s : s[i] \in b
Before(a, b, s) == \A j \in DOMAIN s : s[j] \in b => \E i \in 1..(j - 1) : s[i] \in a

Settling == {"append", "truncate", "write"}
LastMutation(s) == \A i, j \in DOMAIN s : i < j /\ s[i] \in Mutations => s[j] \in Settling

\* What holds of the steps still to do as well as of the whole command ...
Ahead(s) == s \in Seq(Steps) /\ LastMutation(s)

\* ... and what holds of the whole command cmd.
Planned(cmd, s) ==
    /\ s # <<>> /\ Ahead(s)
    /\ Before({"token"}, Mutations, s) /\ Before({"sign_in"}, {"GET_workspaces"}, s)
    /\ Before({"POST_workspace"}, {"append"}, s)
    /\ Has(s, {"GET_workspaces", "GET_probe"}) => ~Has(s, Mutations)
    /\ Has(s, OfAccount) => ~Has(s, {"workspace"})
    /\ Has(s, {"sign_in"}) => cmd = "login"
    /\ Has(s, {"DELETE_key"}) => cmd = "agent_delete"
    /\ Has(s, {"DELETE_zombie"}) => cmd = "delete"
    /\ cmd = "agent_add" => Has(s, {"POST_key"})

\* The commands that touch workspaces.json, ...
LEMMA PlannedFiles ==
    /\ Planned("workspace_add", WorkspaceAdd) /\ Planned("workspace_use", WorkspaceUse)
    /\ Planned("workspace_delete", WorkspaceDelete) /\ Planned("workspace_list", WorkspaceList)
    /\ Planned("workspace_show", WorkspaceShow) /\ Planned("doctor", Doctor)
    /\ Planned("login", Login) /\ Planned("logout", Logout)
<1> USE DEF Planned, Ahead, Has, Before, LastMutation, Settling, OfAccount,
            Steps, Requests, Gets, Mutations, Posts, Patches, Deletes, Puts
<1>1. Planned("workspace_add", WorkspaceAdd)        BY DEF WorkspaceAdd
<1>2. Planned("workspace_use", WorkspaceUse)        BY DEF WorkspaceUse
<1>3. Planned("workspace_delete", WorkspaceDelete)  BY DEF WorkspaceDelete
<1>4. Planned("workspace_list", WorkspaceList)      BY DEF WorkspaceList
<1>5. Planned("workspace_show", WorkspaceShow)      BY DEF WorkspaceShow
<1>6. Planned("doctor", Doctor)                     BY DEF Doctor
<1>7. Planned("login", Login)                       BY DEF Login
<1>8. Planned("logout", Logout)                     BY DEF Logout
<1> HIDE DEF Planned
<1>9. QED  BY <1>1, <1>2, <1>3, <1>4, <1>5, <1>6, <1>7, <1>8

\* ... those about zombies, ...
LEMMA PlannedZombies ==
    /\ Planned("install", Install) /\ Planned("update", Update) /\ Planned("stop", Stop)
    /\ Planned("resume", Resume) /\ Planned("kill", Kill) /\ Planned("delete", Delete)
    /\ Planned("status", Status) /\ Planned("list", List) /\ Planned("logs", Logs)
    /\ Planned("events", Events) /\ Planned("memory", MemoryRead)
<1> USE DEF Planned, Ahead, Has, Before, LastMutation, Settling, OfAccount,
            Steps, Requests, Gets, Mutations, Posts, Patches, Deletes, Puts
<1>1. Planned("install", Install)    BY DEF Install
<1>2. Planned("update", Update)      BY DEF Update
<1>3. Planned("stop", Stop)          BY DEF Stop
<1>4. Planned("resume", Resume)      BY DEF Resume
<1>5. Planned("kill", Kill)          BY DEF Kill
<1>6. Planned("delete", Delete)      BY DEF Delete
<1>7. Planned("status", Status)      BY DEF Status
<1>8. Planned("list", List)          BY DEF List
<1>9. Planned("logs", Logs)          BY DEF Logs
<1>10. Planned("events", Events)     BY DEF Events
<1>11. Planned("memory", MemoryRead) BY DEF MemoryRead
<1> HIDE DEF Planned
<1>12. QED  BY <1>1, <1>2, <1>3, <1>4, <1>5, <1>6, <1>7, <1>8, <1>9, <1>10, <1>11

\* ... those about secrets, keys and grants, ...
LEMMA PlannedSecrets ==
    /\ Planned("credential_add", CredentialAdd) /\ Planned("credential_force", CredentialForce)
    /\ Planned("credential_show", CredentialShow) /\ Planned("credential_list", CredentialList)
    /\ Planned("credential_delete", CredentialDelete) /\ Planned("agent_add", AgentAdd)
    /\ Planned("agent_list", AgentList) /\ Planned("agent_delete", AgentDelete)
    /\ Planned("grant_list", GrantList) /\ Planned("grant_delete", GrantDelete)
<1> USE DEF Planned, Ahead, Has, Before, LastMutation, Settling, OfAccount,
            Steps, Requests, Gets, Mutations, Posts, Patches, Deletes, Puts
<1>1. Planned("credential_add", CredentialAdd)        BY DEF CredentialAdd
<1>2. Planned("credential_force", CredentialForce)    BY DEF CredentialForce
<1>3. Planned("credential_show", CredentialShow)      BY DEF CredentialShow
<1>4. Planned("credential_list", CredentialList)      BY DEF CredentialList
<1>5. Planned("credential_delete", CredentialDelete)  BY DEF CredentialDelete
<1>6. Planned("agent_add", AgentAdd)                  BY DEF AgentAdd
<1>7. Planned("agent_list", AgentList)                BY DEF AgentList
<1>8. Planned("agent_delete", AgentDelete)            BY DEF AgentDelete
<1>9. Planned("grant_list", GrantList)                BY DEF GrantList
<1>10. Planned("grant_delete", GrantDelete)           BY DEF GrantDelete
<1> HIDE DEF Planned
<1>11. QED  BY <1>1, <1>2, <1>3, <1>4, <1>5, <1>6, <1>7, <1>8, <1>9, <1>10

\* ... and those of the account.
LEMMA PlannedAccount ==
    /\ Planned("provider_add", ProviderAdd) /\ Planned("provider_show", ProviderShow)
    /\ Planned("provider_delete", ProviderDelete) /\ Planned("billing_show", BillingShow)
    /\ Planned("auth_status", AuthStatus)
<1> USE DEF Planned, Ahead, Has, Before, LastMutation, Settling, OfAccount,
            Steps, Requests, Gets, Mutations, Posts, Patches, Deletes, Puts
<1>1. Planned("provider_add", ProviderAdd)        BY DEF ProviderAdd
<1>2. Planned("provider_show", ProviderShow)      BY DEF ProviderShow
<1>3. Planned("provider_delete", ProviderDelete)  BY DEF ProviderDelete
<1>4. Planned("billing_show", BillingShow)        BY DEF BillingShow
<1>5. Planned("auth_status", AuthStatus)          BY DEF AuthStatus
<1> HIDE DEF Planned
<1>6. QED  BY <1>1, <1>2, <1>3, <1>4, <1>5

\* Every command is so.
LEMMA CommandsPlanned ==
    ASSUME NEW cmd \in Commands
    PROVE  Planned(cmd, StepsOf[cmd])
BY PlannedFiles, PlannedZombies, PlannedSecrets, PlannedAccount DEF Commands, StepsOf

\* One step less to do leaves the order of the others.
LEMMA TailAhead ==
    ASSUME NEW s, s # <<>>, Ahead(s)
    PROVE  /\ Ahead(Tail(s)) /\ Len(s) \in Nat \ {0}
           /\ Head(s) = s[1] /\ 1 \in DOMAIN s /\ s[1] \in Steps
           /\ Len(Tail(s)) = Len(s) - 1
           /\ \A i \in DOMAIN Tail(s) : i + 1 \in DOMAIN s /\ Tail(s)[i] = s[i + 1]
           /\ Tail(s) = <<>> <=> Len(s) = 1
           /\ s[1] \in Mutations => Only(Tail(s), Settling)
<1>1. s \in Seq(Steps) /\ Len(s) \in Nat \ {0} /\ DOMAIN s = 1..Len(s)  BY DEF Ahead
<1>2. Tail(s) \in Seq(Steps) /\ Len(Tail(s)) = Len(s) - 1 /\ DOMAIN Tail(s) = 1..(Len(s) - 1)  BY <1>1
<1>3. \A i \in DOMAIN Tail(s) : i + 1 \in DOMAIN s /\ Tail(s)[i] = s[i + 1]  BY <1>1, <1>2
<1>4. Head(s) = s[1] /\ 1 \in DOMAIN s /\ s[1] \in Steps  BY <1>1
<1>5. LastMutation(Tail(s))  BY <1>1, <1>2, <1>3 DEF Ahead, LastMutation
<1>6. s[1] \in Mutations => Only(Tail(s), Settling)
  BY <1>1, <1>2, <1>3 DEF Ahead, LastMutation, Only
<1>7. Tail(s) = <<>> <=> Len(s) = 1  BY <1>1, <1>2
<1>8. QED  BY <1>1, <1>2, <1>3, <1>4, <1>5, <1>6, <1>7 DEF Ahead

\* What comes before, comes before unless it is the step that was just done.
LEMMA TailBefore ==
    ASSUME NEW s, s # <<>>, Ahead(s), NEW a, NEW b, Before(a, b, s), Head(s) \notin a
    PROVE  Before(a, b, Tail(s)) /\ Head(s) \notin b
<1>1. s \in Seq(Steps) /\ DOMAIN s = 1..Len(s) /\ Len(s) \in Nat \ {0}  BY DEF Ahead
<1>2. DOMAIN Tail(s) = 1..(Len(s) - 1)  BY <1>1
<1>3. ASSUME NEW j \in DOMAIN Tail(s), Tail(s)[j] \in b
      PROVE  \E i \in 1..(j - 1) : Tail(s)[i] \in a
  <2>1. j + 1 \in DOMAIN s /\ s[j + 1] \in b  BY <1>1, <1>2, <1>3, TailAhead
  <2>2. PICK i \in 1..j : s[i] \in a  BY <2>1, <1>1 DEF Before
  <2>3. i # 1  BY <2>2, TailAhead
  <2>4. i - 1 \in 1..(j - 1) /\ Tail(s)[i - 1] = s[i]  BY <2>2, <2>3, <1>1, <1>2, <1>3, TailAhead
  <2>5. QED  BY <2>2, <2>4
<1>4. Head(s) \notin b  BY <1>1, TailAhead DEF Before
<1>5. QED  BY <1>3, <1>4 DEF Before

(***************************************************************************)
(* The invariant of one run.                                               *)
(***************************************************************************)
Plan(c) == StepsOf[Asked(c)]

\* What is still to do belongs to the command, and what it builds on was done
\* or is to be done before it.
PlanFits(c) ==
    /\ c.todo = <<>> <=> c.exit # "running"
    /\ Ahead(c.todo)
    /\ \A i \in DOMAIN c.todo : Has(Plan(c), {c.todo[i]})
    /\ c.account # None \/ (/\ Before({"token"}, Mutations, c.todo)
                            /\ Before({"sign_in"}, {"GET_workspaces"}, c.todo))
    /\ c.made # None \/ Before({"POST_workspace"}, {"append"}, c.todo)
    /\ Asked(c) = "login" => c.line.user # None

\* What a run did at the API, against what it heard of it and has yet to do.
CountsFit(c) ==
    /\ c.landed > 0 \/ c.air > 0 =>
         IsMutation(c) /\ c.account # None /\ Only(c.todo, Mutations \union Settling)
    /\ c.landed > 0 /\ c.unheard = 0 => Only(c.todo, Settling) /\ c.exit \notin {"failed", "skipped"}
    /\ c.air > 0 => c.unheard > 0
    /\ IsMutation(c) /\ c.landed = 0 /\ c.exit \in {"running", "ok"} => Has(c.todo, Mutations)
    /\ Has(Plan(c), Posts \union Patches) =>
         c.landed + c.air <= c.blind + (IF Has(c.todo, Mutations) THEN 0 ELSE 1)

\* What a run holds is so at the API s.
HoldsFit(s, c) ==
    /\ c.ws # None => Has(Plan(c), {"workspace"})
    /\ c.made # None => s.owner[c.made] # None
    /\ \A w \in c.listed : s.owner[w] # None
    /\ Coherent(c.draft, s)
    /\ c.landed > 0 /\ c.ws # None => s.owner[c.ws] = c.account

(***************************************************************************)
(* How a run moves.                                                        *)
(***************************************************************************)
\* The fields of a run that went on, ...
LEMMA OnwardIs ==
    ASSUME NEW d \in Runs, d.todo # <<>>
    PROVE  /\ Onward(d) \in Runs
           /\ Onward(d).todo = Tail(d.todo)
           /\ Onward(d).exit = (IF Len(d.todo) = 1 THEN "ok" ELSE d.exit)
           /\ Onward(d).line = d.line /\ Onward(d).account = d.account /\ Onward(d).ws = d.ws
           /\ Onward(d).made = d.made /\ Onward(d).listed = d.listed /\ Onward(d).draft = d.draft
           /\ Onward(d).blind = d.blind /\ Onward(d).unheard = d.unheard
           /\ Onward(d).landed = d.landed /\ Onward(d).air = d.air
<1>1. Tail(d.todo) \in Seq(Steps)  BY DEF Runs
<1>2. 1 \in 1..MaxAttempts  BY RetryAssumption DEF HardCap
<1>3. QED  BY <1>1, <1>2 DEF Onward, Runs

\* ... of one that ended ...
LEMMA EndedIs ==
    ASSUME NEW d \in Runs, NEW how \in {"ok", "skipped", "failed", "interrupted"}
    PROVE  /\ Ended(d, how) \in Runs
           /\ Ended(d, how).todo = <<>> /\ Ended(d, how).exit = how
           /\ Ended(d, how).line = d.line /\ Ended(d, how).account = d.account
           /\ Ended(d, how).ws = d.ws /\ Ended(d, how).made = d.made
           /\ Ended(d, how).listed = d.listed /\ Ended(d, how).draft = d.draft
           /\ Ended(d, how).blind = d.blind /\ Ended(d, how).unheard = d.unheard
           /\ Ended(d, how).landed = d.landed /\ Ended(d, how).air = d.air
<1>1. <<>> \in Seq(Steps)  OBVIOUS
<1>2. 1 \in 1..MaxAttempts  BY RetryAssumption DEF HardCap
<1>3. QED  BY <1>1, <1>2 DEF Ended, Runs

\* ... and of one whose attempt was counted.
LEMMA CountedIs ==
    ASSUME NEW d \in Runs, NEW r, NEW o, NEW hit \in BOOLEAN, NEW c, c = Counted(r, o, d, hit)
    PROVE  /\ c \in Runs
           /\ c.todo = d.todo /\ c.exit = d.exit
           /\ c.line = d.line /\ c.account = d.account /\ c.ws = d.ws
           /\ c.made = d.made /\ c.listed = d.listed /\ c.draft = d.draft /\ c.air = d.air
           /\ c.landed = d.landed + (IF hit /\ r \in Mutations THEN 1 ELSE 0)
           /\ c.blind = d.blind + (IF o \in Silent /\ r \in Mutations THEN 1 ELSE 0)
           /\ c.unheard = d.unheard + (IF o \in Silent \union {"gateway"} /\ r \in Mutations THEN 1 ELSE 0)
<1>1. PICK l \in Nat : l = d.landed + (IF hit /\ r \in Mutations THEN 1 ELSE 0)  BY DEF Runs
<1>2. PICK b \in Nat : b = d.blind + (IF o \in Silent /\ r \in Mutations THEN 1 ELSE 0)  BY DEF Runs
<1>3. PICK u \in Nat : u = d.unheard + (IF o \in Silent \union {"gateway"} /\ r \in Mutations THEN 1 ELSE 0)
  BY DEF Runs
<1>4. l = (IF hit /\ r \in Mutations THEN d.landed + 1 ELSE d.landed)  BY <1>1 DEF Runs
<1>5. b = (IF o \in Silent /\ r \in Mutations THEN d.blind + 1 ELSE d.blind)  BY <1>2 DEF Runs
<1>6. u = (IF o \in Silent \union {"gateway"} /\ r \in Mutations THEN d.unheard + 1 ELSE d.unheard)
  BY <1>3 DEF Runs
<1>7. c = [d EXCEPT !.landed = l, !.blind = b, !.unheard = u]  BY <1>4, <1>5, <1>6 DEF Counted, Runs
<1>8. QED  BY <1>1, <1>2, <1>3, <1>7 DEF Runs

\* d is c after the work of its next step.
Prepares(c, d) ==
    /\ d \in Runs
    /\ d.line = c.line /\ d.todo = c.todo /\ d.exit = c.exit
    /\ d.landed = c.landed /\ d.air = c.air /\ d.blind = c.blind /\ d.unheard = c.unheard
    /\ IF Head(c.todo) \in {"token", "sign_in"} THEN d.account # None ELSE d.account = c.account
    /\ IF Head(c.todo) = "POST_workspace" THEN d.made # None ELSE d.made = c.made

\* A run that goes on keeps to its plan, ...
LEMMA OnwardPlan ==
    ASSUME NEW c \in Runs, PlanFits(c), c.exit = "running", NEW d, Prepares(c, d)
    PROVE  PlanFits(Onward(d))
<1> DEFINE s == c.todo
           e == Onward(d)
<1>1. s # <<>> /\ Ahead(s) /\ d.todo = s /\ d \in Runs  BY DEF PlanFits, Prepares
<1>2. e.todo = Tail(s) /\ e.line = c.line /\ e.account = d.account /\ e.made = d.made
      /\ e.exit = (IF Len(s) = 1 THEN "ok" ELSE "running")
  BY <1>1, OnwardIs DEF Prepares
<1>3. e.todo = <<>> <=> e.exit # "running"  BY <1>1, <1>2, TailAhead
<1>4. Ahead(e.todo)  BY <1>1, <1>2, TailAhead
<1>5. \A i \in DOMAIN e.todo : Has(Plan(e), {e.todo[i]})
  <2>1. Plan(e) = Plan(c)  BY <1>2 DEF Plan, Asked
  <2>2. \A i \in DOMAIN Tail(s) : i + 1 \in DOMAIN s /\ Tail(s)[i] = s[i + 1]  BY <1>1, TailAhead
  <2>3. QED  BY <1>2, <2>1, <2>2 DEF PlanFits
<1>6. e.account # None \/ (/\ Before({"token"}, Mutations, e.todo)
                           /\ Before({"sign_in"}, {"GET_workspaces"}, e.todo))
  BY <1>1, <1>2, TailBefore DEF PlanFits, Prepares
<1>7. e.made # None \/ Before({"POST_workspace"}, {"append"}, e.todo)
  BY <1>1, <1>2, TailBefore DEF PlanFits, Prepares
<1>8. Asked(e) = "login" => e.line.user # None  BY <1>2 DEF PlanFits, Asked
<1>9. QED  BY <1>3, <1>4, <1>5, <1>6, <1>7, <1>8 DEF PlanFits

\* ... one that ends has nothing left to do, ...
LEMMA EndedPlan ==
    ASSUME NEW c \in Runs, PlanFits(c), NEW how \in {"ok", "skipped", "failed", "interrupted"}
    PROVE  PlanFits(Ended(c, how))
<1>1. <<>> \in Seq(Steps) /\ DOMAIN <<>> = {}  OBVIOUS
<1>2. Ahead(<<>>) /\ \A a, b : Before(a, b, <<>>)  BY <1>1 DEF Ahead, LastMutation, Before
<1>3. QED  BY <1>1, <1>2, EndedIs DEF PlanFits, Plan, Asked

\* ... and counting or waiting changes no plan.
LEMMA SamePlan ==
    ASSUME NEW c, PlanFits(c), NEW d,
           d.todo = c.todo, d.exit = c.exit, d.line = c.line, d.account = c.account, d.made = c.made
    PROVE  PlanFits(d)
BY DEF PlanFits, Plan, Asked

\* Whoever changes the API has read a token before, and belongs to a command
\* that changes it.
LEMMA MutationNext ==
    ASSUME NEW c \in Runs, PlanFits(c), c.exit = "running", Head(c.todo) \in Mutations
    PROVE  /\ IsMutation(c) /\ c.account # None
           /\ Has(c.todo, Mutations) /\ Only(c.todo, Mutations \union Settling)
           /\ Only(Tail(c.todo), Settling) /\ ~Has(Tail(c.todo), Mutations)
<1> DEFINE s == c.todo
<1>1. s # <<>> /\ Ahead(s)  BY DEF PlanFits
<1>2. 1 \in DOMAIN s /\ s[1] = Head(s) /\ Only(Tail(s), Settling)  BY <1>1, TailAhead
<1>3. IsMutation(c)  BY <1>2 DEF PlanFits, Has, Plan, IsMutation
<1>4. "token" # Head(s)  BY DEF Mutations, Posts, Patches, Deletes, Puts
<1>5. c.account # None  BY <1>1, <1>4, TailBefore DEF PlanFits
<1>6. Has(s, Mutations)  BY <1>2 DEF Has
<1>7. ~Has(Tail(s), Mutations)
  BY <1>2 DEF Has, Only, Settling, Mutations, Posts, Patches, Deletes, Puts
<1>8. Only(s, Mutations \union Settling)  BY <1>1, <1>2 DEF Only, Ahead, LastMutation
<1>9. QED  BY <1>2, <1>3, <1>5, <1>6, <1>7, <1>8

(***************************************************************************)
(* The counters.                                                           *)
(***************************************************************************)
\* What is to be done after a step that is not in b is what was to be done.
LEMMA TailHas ==
    ASSUME NEW s, s # <<>>, Ahead(s), NEW b
    PROVE  /\ Head(s) \notin b => (Has(Tail(s), b) <=> Has(s, b))
           /\ Only(s, b) => Only(Tail(s), b) /\ Head(s) \in b
<1>1. s \in Seq(Steps) /\ DOMAIN s = 1..Len(s) /\ Len(s) \in Nat \ {0}  BY DEF Ahead
<1>2. DOMAIN Tail(s) = 1..(Len(s) - 1) /\ 1 \in DOMAIN s /\ Head(s) = s[1]  BY <1>1
<1>3. \A i \in DOMAIN Tail(s) : i + 1 \in DOMAIN s /\ Tail(s)[i] = s[i + 1]  BY TailAhead
<1>4. ASSUME Head(s) \notin b, NEW i \in DOMAIN s, s[i] \in b
      PROVE  i - 1 \in DOMAIN Tail(s) /\ Tail(s)[i - 1] = s[i]
  <2>1. i # 1  BY <1>2, <1>4
  <2>2. i - 1 \in DOMAIN Tail(s)  BY <1>1, <1>2, <2>1
  <2>3. (i - 1) + 1 = i  BY <1>1
  <2>4. QED  BY <1>3, <2>2, <2>3
<1>5. QED  BY <1>2, <1>3, <1>4 DEF Has, Only

\* Of the steps that change the API a command has one.
LEMMA OneMutation ==
    ASSUME NEW c \in Runs, NEW r \in Mutations, Has(Plan(c), {r}),
           NEW b, b \subseteq Mutations, Has(Plan(c), b)
    PROVE  r \in b
<1> DEFINE plan == Plan(c)
<1>1. Asked(c) \in Commands  BY DEF Runs, CommandLines, Asked
<1>2. plan \in Seq(Steps) /\ LastMutation(plan)  BY <1>1, CommandsPlanned DEF Planned, Ahead, Plan
<1>3. PICK i \in DOMAIN plan : plan[i] = r  BY DEF Has
<1>4. PICK j \in DOMAIN plan : plan[j] \in b  BY DEF Has
<1>5. Settling \cap Mutations = {}  BY DEF Settling, Mutations, Posts, Patches, Deletes, Puts
<1>6. i \in Nat /\ j \in Nat  BY <1>2, <1>3, <1>4
<1>7. ~(i < j) /\ ~(j < i)  BY <1>2, <1>3, <1>4, <1>5 DEF LastMutation
<1>8. i = j  BY <1>6, <1>7
<1>9. QED  BY <1>3, <1>4, <1>8

\* What comes next is a step of the command.
LEMMA NextOfPlan ==
    ASSUME NEW c \in Runs, PlanFits(c), c.exit = "running"
    PROVE  Has(Plan(c), {Head(c.todo)}) /\ c.todo # <<>> /\ Ahead(c.todo)
BY TailAhead DEF PlanFits

\* A step that only prepares leaves the counters and what they say, ...
LEMMA OnwardCounts ==
    ASSUME NEW c \in Runs, PlanFits(c), CountsFit(c), c.exit = "running", Head(c.todo) \notin Mutations,
           NEW d, Prepares(c, d)
    PROVE  CountsFit(Onward(d))
<1> DEFINE s == c.todo
           e == Onward(d)
<1>1. s # <<>> /\ Ahead(s) /\ d.todo = s /\ d \in Runs  BY DEF PlanFits, Prepares
<1>2. e.todo = Tail(s) /\ e.line = c.line /\ e.account = d.account /\ e.landed = c.landed
      /\ e.air = c.air /\ e.blind = c.blind /\ e.unheard = c.unheard /\ e.exit \in {"ok", "running"}
  BY <1>1, OnwardIs DEF Prepares
<1>3. Has(e.todo, Mutations) <=> Has(s, Mutations)  BY <1>1, <1>2, TailHas
<1>4. (IsMutation(e) <=> IsMutation(c)) /\ Plan(e) = Plan(c)  BY <1>2 DEF IsMutation, Plan, Asked
<1>5. ASSUME e.landed > 0 \/ e.air > 0
      PROVE  IsMutation(e) /\ e.account # None /\ Only(e.todo, Mutations \union Settling)
  <2>1. IsMutation(c) /\ c.account # None /\ Only(s, Mutations \union Settling)
    BY <1>2, <1>5 DEF CountsFit
  <2>2. Only(e.todo, Mutations \union Settling) /\ Head(s) \in Mutations \union Settling
    BY <1>1, <1>2, <2>1, TailHas
  <2>3. e.account = c.account
    BY <1>2, <2>2 DEF Prepares, Settling, Mutations, Posts, Patches, Deletes, Puts
  <2>4. QED  BY <1>4, <2>1, <2>2, <2>3
<1>6. ASSUME e.landed > 0, e.unheard = 0
      PROVE  Only(e.todo, Settling) /\ e.exit \notin {"failed", "skipped"}
  BY <1>1, <1>2, <1>6, TailHas DEF CountsFit
<1>7. e.air > 0 => e.unheard > 0  BY <1>2 DEF CountsFit
<1>8. IsMutation(e) /\ e.landed = 0 => Has(e.todo, Mutations)  BY <1>2, <1>3, <1>4 DEF CountsFit
<1>9. Has(Plan(e), Posts \union Patches) =>
        e.landed + e.air <= e.blind + (IF Has(e.todo, Mutations) THEN 0 ELSE 1)
  BY <1>2, <1>3, <1>4 DEF CountsFit
<1>10. QED  BY <1>5, <1>6, <1>7, <1>8, <1>9 DEF CountsFit

\* ... and an end tells of what landed, unless an attempt stayed unheard.
LEMMA EndedCounts ==
    ASSUME NEW c \in Runs, CountsFit(c), NEW how \in {"ok", "skipped", "failed", "interrupted"},
           how \in {"failed", "skipped"} => ~(c.landed > 0 /\ c.unheard = 0),
           how = "ok" => ~IsMutation(c)
    PROVE  CountsFit(Ended(c, how))
<1> DEFINE e == Ended(c, how)
<1>1. e.todo = <<>> /\ e.exit = how /\ e.line = c.line /\ e.account = c.account /\ e.landed = c.landed
      /\ e.air = c.air /\ e.blind = c.blind /\ e.unheard = c.unheard
  BY EndedIs
<1>2. DOMAIN <<>> = {}  OBVIOUS
<1>3. ~Has(e.todo, Mutations) /\ \A b : Only(e.todo, b)  BY <1>1, <1>2 DEF Has, Only
<1>4. (IsMutation(e) <=> IsMutation(c)) /\ Plan(e) = Plan(c)  BY <1>1 DEF IsMutation, Plan, Asked
<1>5. Has(Plan(e), Posts \union Patches) => e.landed + e.air <= e.blind + 1
  BY <1>1, <1>4 DEF CountsFit, Runs
<1>6. QED  BY <1>1, <1>3, <1>4, <1>5 DEF CountsFit

\* A step after the change cannot fail.
LEMMA NothingFailsLate ==
    ASSUME NEW c \in Runs, PlanFits(c), CountsFit(c), c.exit = "running", Head(c.todo) \notin Settling
    PROVE  ~(c.landed > 0 /\ c.unheard = 0)
BY TailHas DEF PlanFits, CountsFit

\* Waiting changes no counter.
LEMMA SameCounts ==
    ASSUME NEW c, CountsFit(c), NEW d,
           d.todo = c.todo, d.exit = c.exit, d.line = c.line, d.account = c.account,
           d.landed = c.landed, d.air = c.air, d.blind = c.blind, d.unheard = c.unheard
    PROVE  CountsFit(d)
BY DEF CountsFit, Plan, Asked, IsMutation

(***************************************************************************)
(* Attempts.                                                               *)
(***************************************************************************)
\* A run whose attempt did not succeed tries again or ends; it ends well only
\* where the answer does not matter.
LEMMA RetriedIs ==
    ASSUME NEW c \in Runs, NEW r, NEW o, NEW d, d = Retried(r, c, o)
    PROVE  /\ d \in Runs
           /\ \/ d = [c EXCEPT !.try = c.try + 1] /\ Retries(MethodOf(r), o, c.try)
              \/ d = Ended(c, "failed")
              \/ d = Ended(c, "ok") /\ r \in {"GET_workspaces", "GET_probe"}
<1>1. CASE Retries(MethodOf(r), o, c.try)
  <2>1. c.try + 1 \in 1..MaxAttempts  BY <1>1, RetryAssumption DEF Retries, Runs, HardCap
  <2>2. d = [c EXCEPT !.try = c.try + 1]  BY <1>1 DEF Retried
  <2>3. QED  BY <1>1, <2>1, <2>2 DEF Runs
<1>2. CASE ~Retries(MethodOf(r), o, c.try)
  <2>1. d = Refused(r, c, o)  BY <1>2 DEF Retried
  <2>2. d = Ended(c, "failed") \/ (d = Ended(c, "ok") /\ r \in {"GET_workspaces", "GET_probe"})
    BY <2>1 DEF Refused
  <2>3. QED  BY <2>2, EndedIs
<1>3. QED  BY <1>1, <1>2

\* Nothing that creates or patches is sent again after the answer of a gateway.
LEMMA GatewayEnds ==
    ASSUME NEW c \in Runs, NEW r \in Posts \union Patches, NEW o, Retries(MethodOf(r), o, c.try)
    PROVE  o # "gateway"
<1>1. r \notin Gets \union Deletes /\ (r \in Posts <=> r \notin Patches)  BY DEF Posts, Patches, Gets, Deletes
<1>2. MethodOf(r) \in {"POST", "PATCH"}
  <2>1. CASE r \in Posts    BY <1>1, <2>1 DEF MethodOf
  <2>2. CASE r \in Patches  BY <1>1, <2>2 DEF MethodOf
  <2>3. QED  BY <2>1, <2>2
<1>3. QED  BY <1>2 DEF Retries, Idempotent, Classified

\* c after an attempt of r that ended in outcome o, hit the API or not, and is
\* left in the air g times.
Missed(c, r, o, hit, g) == [Counted(r, o, Retried(r, c, o), hit) EXCEPT !.air = @ + g]

\* Its fields.
LEMMA MissedIs ==
    ASSUME NEW c \in Runs, NEW r, NEW o, NEW hit \in BOOLEAN, NEW g \in Nat,
           NEW d, d = Retried(r, c, o), NEW e, e = Missed(c, r, o, hit, g)
    PROVE  /\ e \in Runs
           /\ e.todo = d.todo /\ e.exit = d.exit
           /\ e.line = c.line /\ e.account = c.account /\ e.ws = c.ws
           /\ e.made = c.made /\ e.listed = c.listed /\ e.draft = c.draft /\ e.air = c.air + g
           /\ e.landed = c.landed + (IF hit /\ r \in Mutations THEN 1 ELSE 0)
           /\ e.blind = c.blind + (IF o \in Silent /\ r \in Mutations THEN 1 ELSE 0)
           /\ e.unheard = c.unheard + (IF o \in Silent \union {"gateway"} /\ r \in Mutations THEN 1 ELSE 0)
<1>1. PICK k : k = Counted(r, o, d, hit)  OBVIOUS
<1>2. d \in Runs  BY RetriedIs
<1>3. /\ d.line = c.line /\ d.account = c.account /\ d.ws = c.ws /\ d.air = c.air
      /\ d.made = c.made /\ d.listed = c.listed /\ d.draft = c.draft
      /\ d.landed = c.landed /\ d.blind = c.blind /\ d.unheard = c.unheard
  <2>1. CASE d = [c EXCEPT !.try = c.try + 1]  BY <2>1 DEF Runs
  <2>2. CASE d = Ended(c, "failed")  BY <2>2, EndedIs
  <2>3. CASE d = Ended(c, "ok")  BY <2>3, EndedIs
  <2>4. QED  BY <2>1, <2>2, <2>3, RetriedIs
<1>4. e = [k EXCEPT !.air = k.air + g]  BY <1>1 DEF Missed
<1>5. /\ k \in Runs
      /\ k.todo = d.todo /\ k.exit = d.exit
      /\ k.line = d.line /\ k.account = d.account /\ k.ws = d.ws
      /\ k.made = d.made /\ k.listed = d.listed /\ k.draft = d.draft /\ k.air = d.air
      /\ k.landed = d.landed + (IF hit /\ r \in Mutations THEN 1 ELSE 0)
      /\ k.blind = d.blind + (IF o \in Silent /\ r \in Mutations THEN 1 ELSE 0)
      /\ k.unheard = d.unheard + (IF o \in Silent \union {"gateway"} /\ r \in Mutations THEN 1 ELSE 0)
  BY <1>1, <1>2, CountedIs
<1>6. k.air + g \in Nat  BY <1>5 DEF Runs
<1>7. e \in Runs /\ e.air = k.air + g  BY <1>4, <1>5, <1>6 DEF Runs
<1>8. /\ e.todo = k.todo /\ e.exit = k.exit /\ e.line = k.line /\ e.account = k.account /\ e.ws = k.ws
      /\ e.made = k.made /\ e.listed = k.listed /\ e.draft = k.draft
      /\ e.landed = k.landed /\ e.blind = k.blind /\ e.unheard = k.unheard
  BY <1>4, <1>5 DEF Runs
<1>9. QED  BY <1>3, <1>5, <1>7, <1>8

\* What is true of an attempt that did not succeed.
Missing(r, o, hit, g) ==
    /\ r \in Requests /\ o \in Outcomes \ {"ok"} /\ hit \in BOOLEAN /\ g \in {0, 1}
    /\ hit => r \in Mutations /\ o \in Silent \union {"gateway"}
    /\ g = 1 => ~hit /\ r \in Mutations /\ o = "timeout"

\* A run keeps to its plan ...
LEMMA MissedPlan ==
    ASSUME NEW c \in Runs, PlanFits(c), c.exit = "running", NEW r, r = Head(c.todo),
           NEW o, NEW hit, NEW g, Missing(r, o, hit, g)
    PROVE  PlanFits(Missed(c, r, o, hit, g))
<1> DEFINE e == Missed(c, r, o, hit, g)
<1>1. hit \in BOOLEAN /\ g \in Nat  BY DEF Missing
<1>2. PICK d : d = Retried(r, c, o)  OBVIOUS
<1>3. e.todo = d.todo /\ e.exit = d.exit /\ e.line = c.line /\ e.account = c.account /\ e.made = c.made
  BY <1>1, <1>2, MissedIs
<1>4. CASE d = [c EXCEPT !.try = c.try + 1]
  <2>1. d.todo = c.todo /\ d.exit = c.exit  BY <1>4 DEF Runs
  <2>2. QED  BY <1>3, <2>1, SamePlan
<1>5. ASSUME NEW how \in {"ok", "failed"}, d = Ended(c, how)
      PROVE  PlanFits(e)
  <2>1. PlanFits(d)  BY <1>5, EndedPlan
  <2>2. d.line = c.line /\ d.account = c.account /\ d.made = c.made  BY <1>5, EndedIs
  <2>3. QED  BY <1>3, <2>1, <2>2, SamePlan
<1>6. QED  BY <1>2, <1>4, <1>5, RetriedIs

\* ... and its counters agree with what became of the attempt.
LEMMA MissedCounts ==
    ASSUME NEW c \in Runs, PlanFits(c), CountsFit(c), c.exit = "running", NEW r, r = Head(c.todo),
           NEW o, NEW hit, NEW g, Missing(r, o, hit, g)
    PROVE  CountsFit(Missed(c, r, o, hit, g))
<1> SUFFICES ASSUME NEW e, e = Missed(c, r, o, hit, g)  PROVE  CountsFit(e)
  OBVIOUS
<1>1. hit \in BOOLEAN /\ g \in Nat  BY DEF Missing
<1>2. PICK d : d = Retried(r, c, o)  OBVIOUS
<1>3. /\ e.todo = d.todo /\ e.exit = d.exit
      /\ e.line = c.line /\ e.account = c.account /\ e.air = c.air + g
      /\ e.landed = c.landed + (IF hit /\ r \in Mutations THEN 1 ELSE 0)
      /\ e.blind = c.blind + (IF o \in Silent /\ r \in Mutations THEN 1 ELSE 0)
      /\ e.unheard = c.unheard + (IF o \in Silent \union {"gateway"} /\ r \in Mutations THEN 1 ELSE 0)
  BY <1>1, <1>2, MissedIs
<1>4. /\ d.line = c.line /\ d.account = c.account /\ d.air = c.air
      /\ d.landed = c.landed /\ d.blind = c.blind /\ d.unheard = c.unheard
      /\ \/ d.todo = c.todo /\ d.exit = c.exit /\ Retries(MethodOf(r), o, c.try)
         \/ d = Ended(c, "failed")
         \/ d = Ended(c, "ok") /\ r \in {"GET_workspaces", "GET_probe"}
  <2>1. CASE d = [c EXCEPT !.try = c.try + 1] /\ Retries(MethodOf(r), o, c.try)  BY <2>1 DEF Runs
  <2>2. CASE d = Ended(c, "failed")  BY <2>2, EndedIs
  <2>3. CASE d = Ended(c, "ok") /\ r \in {"GET_workspaces", "GET_probe"}  BY <2>3, EndedIs
  <2>4. QED  BY <1>2, <2>1, <2>2, <2>3, RetriedIs
<1>5. (IsMutation(e) <=> IsMutation(c)) /\ Plan(e) = Plan(c)  BY <1>3 DEF IsMutation, Plan, Asked
<1>6. /\ c.landed \in Nat /\ c.air \in Nat /\ c.blind \in Nat /\ c.unheard \in Nat /\ g \in {0, 1}
  BY DEF Runs, Missing
<1>7. CASE r \notin Mutations
  <2>1. e.landed = c.landed /\ e.air = c.air /\ e.blind = c.blind /\ e.unheard = c.unheard
    BY <1>3, <1>6, <1>7 DEF Missing
  <2>2. CASE d.todo = c.todo /\ d.exit = c.exit  BY <1>3, <2>1, <2>2, SameCounts
  <2>3. CASE d = Ended(c, "failed")
    <3>1. r \notin Settling  BY <1>7 DEF Missing, Requests, Gets, Settling
    <3>2. ~(c.landed > 0 /\ c.unheard = 0)  BY <3>1, NothingFailsLate
    <3>3. CountsFit(d)  BY <2>3, <3>2, EndedCounts
    <3>4. QED  BY <1>3, <1>4, <2>1, <3>3, SameCounts
  <2>4. CASE d = Ended(c, "ok") /\ r \in {"GET_workspaces", "GET_probe"}
    <3>1. Asked(c) \in Commands  BY DEF Runs, CommandLines, Asked
    <3>2. Has(Plan(c), {r})  BY TailAhead DEF PlanFits
    <3>3. Has(Plan(c), {"GET_workspaces", "GET_probe"})  BY <2>4, <3>2 DEF Has
    <3>4. ~Has(Plan(c), Mutations)  BY <3>1, <3>3, CommandsPlanned DEF Planned, Plan
    <3>5. ~IsMutation(c)  BY <3>4 DEF Has, Plan, IsMutation
    <3>6. CountsFit(d)  BY <2>4, <3>5, EndedCounts
    <3>7. QED  BY <1>3, <1>4, <2>1, <3>6, SameCounts
  <2>5. QED  BY <1>4, <2>2, <2>3, <2>4
<1>8. CASE r \in Mutations
  <2>1. /\ IsMutation(c) /\ c.account # None
        /\ Has(c.todo, Mutations) /\ Only(c.todo, Mutations \union Settling)
    BY <1>8, MutationNext
  <2>2. r \notin {"GET_workspaces", "GET_probe"}
    BY <1>8 DEF Mutations, Posts, Patches, Deletes, Puts
  <2>3. ~(c.landed > 0 /\ c.unheard = 0)
    BY <1>8, NothingFailsLate DEF Settling, Mutations, Posts, Patches, Deletes, Puts
  <2>4. ~(e.landed > 0 /\ e.unheard = 0) /\ (e.air > 0 => e.unheard > 0)
    BY <1>3, <1>6, <1>8, <2>3 DEF Missing, Silent, CountsFit
  <2>5. Has(Plan(c), Posts \union Patches) => r \in Posts \union Patches
    BY <1>8, NextOfPlan, OneMutation DEF Mutations
  <2>6. Has(Plan(c), Posts \union Patches) => c.landed + c.air <= c.blind
    BY <1>6, <2>1 DEF CountsFit
  <2>7. CASE d.todo = c.todo /\ d.exit = c.exit /\ Retries(MethodOf(r), o, c.try)
    <3>1. Has(Plan(c), Posts \union Patches) => o # "gateway"  BY <2>5, <2>7, GatewayEnds
    <3>2. Has(Plan(c), Posts \union Patches) => e.landed + e.air <= e.blind
      BY <1>3, <1>6, <1>8, <2>6, <3>1 DEF Missing, Silent
    <3>3. Has(e.todo, Mutations) /\ Only(e.todo, Mutations \union Settling)  BY <1>3, <2>1, <2>7
    <3>4. IsMutation(e) /\ e.account # None  BY <1>3, <1>5, <2>1
    <3>5. e.landed \in Nat /\ e.air \in Nat /\ e.blind \in Nat /\ e.unheard \in Nat  BY <1>3, <1>6
    <3>6. QED  BY <1>5, <2>4, <3>2, <3>3, <3>4, <3>5 DEF CountsFit
  <2>8. CASE d = Ended(c, "failed")
    <3>1. e.todo = <<>> /\ e.exit = "failed" /\ DOMAIN <<>> = {}  BY <1>3, <2>8, EndedIs
    <3>2. ~Has(e.todo, Mutations) /\ \A b : Only(e.todo, b)  BY <3>1 DEF Has, Only
    <3>3. Has(Plan(c), Posts \union Patches) => e.landed + e.air <= e.blind + 1
      BY <1>3, <1>6, <2>6 DEF Missing
    <3>4. QED  BY <1>3, <1>5, <2>1, <2>4, <3>1, <3>2, <3>3 DEF CountsFit
  <2>9. QED  BY <1>4, <2>2, <2>7, <2>8
<1>9. QED  BY <1>7, <1>8

(***************************************************************************)
(* What requests do at the API.                                            *)
(***************************************************************************)
\* The request took an entered workspace, ...
Entered(s, c) == c.ws \in Workspaces /\ s.owner[c.ws] = c.account

\* ... and each does one thing there.
Does(s, c, p, r, t) ==
    /\ r \in OfAccount \union Gets \/ Entered(s, c)
    /\ r = "POST_workspace" =>
         \E w \in Workspaces : s.owner[w] = None /\ t = [s EXCEPT !.owner[w] = c.account]
    /\ r = "POST_zombie" =>
         \E z \in Zombies : /\ s.status[z] = "unborn" /\ NameOf[z] = NameOf[c.line.zombie]
                            /\ ~NameTaken(s, c)
                            /\ t = [s EXCEPT !.home[z] = c.ws, !.status[z] = "active"]
    /\ r = "PATCH_stopped" => t \in Patched(s, c, "stopped")
    /\ r = "PATCH_active" => t \in Patched(s, c, "active")
    /\ r = "PATCH_killed" => t \in Patched(s, c, "killed")
    /\ r = "DELETE_zombie" => t \in Purged(s, c)
    /\ r = "POST_key" => t \in NewKey(s, c, p)
    /\ r = "DELETE_key" => t \in KeyDeleted(s, c)
    /\ r = "DELETE_grant" => t = [s EXCEPT !.grant = @ \ {c.line.zombie}]
    /\ r = "POST_secret" => t = [s EXCEPT !.secret[c.ws] = p]
    /\ r = "DELETE_secret" => t = [s EXCEPT !.secret[c.ws] = None]
    /\ r = "PUT_provider" => t = [s EXCEPT !.provider[c.account] = p]
    /\ r = "DELETE_provider" => t = [s EXCEPT !.provider[c.account] = None]
    /\ r \in Gets \union {"PATCH_config"} => t = s

\* Nothing else happens to the API.
LEMMA EffectIs ==
    ASSUME NEW s \in Servers, NEW c \in Runs, NEW p, NEW r \in Requests, NEW t \in Effects(r, p, s, c)
    PROVE  Does(s, c, p, r, t)
<1> USE DEF Effects, Does
<1>1. t \in Carried(r, p, s, c)  OBVIOUS
<1>2. r \in OfAccount \union Gets \/ Entered(s, c)
  BY DEF MayEnter, Entered, Runs, Gets
<1>3. CASE r = "POST_workspace"   BY <1>1, <1>2, <1>3 DEF Carried, NewWorkspace, Gets
<1>4. CASE r = "POST_zombie"      BY <1>1, <1>2, <1>4 DEF Carried, NewZombie, Gets
<1>5. CASE r = "PATCH_stopped"    BY <1>1, <1>2, <1>5 DEF Carried, Gets
<1>6. CASE r = "PATCH_active"     BY <1>1, <1>2, <1>6 DEF Carried, Gets
<1>7. CASE r = "PATCH_killed"     BY <1>1, <1>2, <1>7 DEF Carried, Gets
<1>8. CASE r = "PATCH_config"     BY <1>1, <1>2, <1>8 DEF Carried, Reconfigured
<1>9. CASE r = "DELETE_zombie"    BY <1>1, <1>2, <1>9 DEF Carried, Gets
<1>10. CASE r = "POST_key"        BY <1>1, <1>2, <1>10 DEF Carried, Gets
<1>11. CASE r = "DELETE_key"      BY <1>1, <1>2, <1>11 DEF Carried, Gets
<1>12. CASE r = "DELETE_grant"    BY <1>1, <1>2, <1>12 DEF Carried, GrantDeleted, Gets
<1>13. CASE r = "POST_secret"     BY <1>1, <1>2, <1>13 DEF Carried, Gets
<1>14. CASE r = "DELETE_secret"   BY <1>1, <1>2, <1>14 DEF Carried, Gets
<1>15. CASE r = "PUT_provider"    BY <1>1, <1>2, <1>15 DEF Carried, Gets
<1>16. CASE r = "DELETE_provider" BY <1>1, <1>2, <1>16 DEF Carried, Gets
<1>17. CASE r \in Gets            BY <1>1, <1>2, <1>17 DEF Carried, Gets
<1>18. QED
  BY <1>3, <1>4, <1>5, <1>6, <1>7, <1>8, <1>9, <1>10, <1>11, <1>12, <1>13, <1>14, <1>15, <1>16, <1>17
  DEF Requests, Mutations, Posts, Patches, Deletes, Puts

\* The life of zombies from one state of the API to another: one is installed
\* under a name that its workspace does not have; one that lives is stopped,
\* resumed or killed, or a killed one is deleted.
Living == {"active", "paused", "stopped"}
Installs(s, t) == \E z \in Zombies, w \in Workspaces :
    /\ s.status[z] = "unborn"
    /\ \A y \in Zombies : Exists(s, y) /\ s.home[y] = w => NameOf[y] # NameOf[z]
    /\ t.home = [s.home EXCEPT ![z] = w] /\ t.status = [s.status EXCEPT ![z] = "active"]
Changes(s, t) == \E z \in Zombies, to \in Living \union {"killed"} :
    s.status[z] \in Living /\ t.home = s.home /\ t.status = [s.status EXCEPT ![z] = to]
Removes(s, t) == \E z \in Zombies :
    s.status[z] = "killed" /\ t.home = s.home /\ t.status = [s.status EXCEPT ![z] = "gone"]
Lives(s, t) == \/ Changes(s, t) \/ Removes(s, t)
               \/ t.home = s.home /\ t.status = s.status

\* What was there was there before, with the same key.
Lasts(s, t) == \A z \in Zombies :
    s.status[z] # "unborn" => /\ t.status[z] # "unborn"
                              /\ Exists(t, z) => Exists(s, z) /\ t.key[z] = s.key[z]

\* So it is when no key is written.
LEMMA LivesLast ==
    ASSUME NEW s \in Servers, NEW t \in Servers, Lives(s, t) \/ Installs(s, t), t.key = s.key
    PROVE  Lasts(s, t)
<1> DEFINE Fine(z) == s.status[z] # "unborn" =>
                        t.status[z] # "unborn" /\ (Exists(t, z) => Exists(s, z))
<1>0. s.status \in [Zombies -> Statuses]  BY DEF Servers
<1>1. SUFFICES ASSUME NEW z \in Zombies  PROVE  Fine(z)
  BY DEF Lasts
<1>2. CASE Installs(s, t)  BY <1>0, <1>2 DEF Installs, Exists
<1>3. CASE Changes(s, t)   BY <1>0, <1>3 DEF Changes, Exists, Living
<1>4. CASE Removes(s, t)   BY <1>0, <1>4 DEF Removes, Exists
<1>5. CASE t.status = s.status  BY <1>5 DEF Exists
<1>6. QED  BY <1>2, <1>3, <1>4, <1>5 DEF Lives

\* A deleted row takes no other with it.
LEMMA DeletedLasts ==
    ASSUME NEW s \in Servers, NEW z \in Zombies
    PROVE  /\ RowDeleted(s, z) \in Servers /\ Lasts(s, RowDeleted(s, z))
           /\ RowDeleted(s, z).owner = s.owner /\ RowDeleted(s, z).home = s.home
           /\ RowDeleted(s, z).status = [s.status EXCEPT ![z] = "gone"]
<1>1. PICK t : t = RowDeleted(s, z)  OBVIOUS
<1>2. /\ t \in Servers /\ t.owner = s.owner /\ t.home = s.home
      /\ t.status = [s.status EXCEPT ![z] = "gone"] /\ t.key = [s.key EXCEPT ![z] = None]
  BY <1>1 DEF RowDeleted, Servers, Statuses
<1>3. s.status \in [Zombies -> Statuses] /\ s.key \in [Zombies -> Procs \union {None}]  BY DEF Servers
<1>4. Lasts(s, t)
  <2>1. SUFFICES ASSUME NEW y \in Zombies, s.status[y] # "unborn"
                 PROVE  t.status[y] # "unborn" /\ (Exists(t, y) => Exists(s, y) /\ t.key[y] = s.key[y])
    BY DEF Lasts
  <2>2. CASE y = z  BY <1>2, <1>3, <2>1, <2>2 DEF Exists
  <2>3. CASE y # z  BY <1>2, <1>3, <2>1, <2>3 DEF Exists
  <2>4. QED  BY <2>2, <2>3
<1>5. QED  BY <1>1, <1>2, <1>4

\* A patch changes one status.
LEMMA PatchIs ==
    ASSUME NEW s \in Servers, NEW c \in Runs, NEW to \in {"stopped", "active", "killed"},
           NEW t \in Patched(s, c, to)
    PROVE  t \in Servers /\ t.owner = s.owner /\ t.key = s.key /\ Changes(s, t)
<1> DEFINE z == c.line.zombie
<1>1. z \in Zombies  BY DEF Patched, Found, Runs, CommandLines
<1>2. s.status[z] \in Living /\ t = [s EXCEPT !.status[z] = to]  BY DEF Patched, Living
<1>3. t \in Servers /\ t.owner = s.owner /\ t.key = s.key /\ t.home = s.home
      /\ t.status = [s.status EXCEPT ![z] = to]
  BY <1>1, <1>2 DEF Servers, Statuses
<1>4. QED  BY <1>1, <1>2, <1>3 DEF Changes, Living

\* What a request writes: owners, keys, and the lives of zombies.
Writes(s, c, p, r, t) ==
    /\ t \in Servers
    /\ IF r = "POST_zombie" THEN Installs(s, t) ELSE Lives(s, t)
    /\ r # "POST_workspace" => t.owner = s.owner
    /\ r = "POST_workspace" =>
         \E w \in Workspaces : s.owner[w] = None /\ t.owner = [s.owner EXCEPT ![w] = c.account]
    /\ r \notin {"POST_key", "DELETE_key"} => Lasts(s, t)
    /\ r = "POST_key" => /\ c.line.zombie \in Zombies /\ Exists(s, c.line.zombie)
                         /\ s.key[c.line.zombie] = None /\ t.status = s.status
                         /\ t.key = [s.key EXCEPT ![c.line.zombie] = p]

\* Each request writes so.
LEMMA EffectRows ==
    ASSUME NEW s \in Servers, NEW c \in Runs, NEW p \in Procs, NEW r \in Requests,
           NEW t \in Effects(r, p, s, c)
    PROVE  Writes(s, c, p, r, t)
<1> USE DEF Writes
<1> DEFINE z == c.line.zombie
           Others == t.owner = s.owner /\ t.home = s.home /\ t.status = s.status
<1>1. z \in Zombies \union {None} /\ c.account \in Accounts \union {None}
      /\ c.ws \in Workspaces \union {None}
  BY DEF Runs, CommandLines
<1>0. Does(s, c, p, r, t)  BY EffectIs
<1>2. CASE r = "POST_workspace"
  <2>1. PICK w \in Workspaces : s.owner[w] = None /\ t = [s EXCEPT !.owner[w] = c.account]
    BY <1>2, <1>0 DEF Does
  <2>2. t \in Servers /\ t.owner = [s.owner EXCEPT ![w] = c.account]
        /\ t.home = s.home /\ t.status = s.status /\ t.key = s.key
    BY <1>1, <2>1 DEF Servers
  <2>4. Lives(s, t)  BY <2>2 DEF Lives
  <2>5. Lasts(s, t)  BY <2>2, <2>4, LivesLast
  <2>3. QED  BY <1>2, <2>1, <2>2, <2>4, <2>5
<1>3. CASE r = "POST_zombie"
  <2>1. PICK y \in Zombies :
          /\ s.status[y] = "unborn" /\ NameOf[y] = NameOf[z] /\ ~NameTaken(s, c)
          /\ t = [s EXCEPT !.home[y] = c.ws, !.status[y] = "active"]
    BY <1>3, <1>0 DEF Does
  <2>2. c.ws \in Workspaces  BY <1>3, <1>0 DEF Does, OfAccount, Gets, Entered
  <2>3. t \in Servers /\ t.owner = s.owner /\ t.key = s.key
        /\ t.home = [s.home EXCEPT ![y] = c.ws] /\ t.status = [s.status EXCEPT ![y] = "active"]
    BY <2>1, <2>2 DEF Servers, Statuses
  <2>4. \A x \in Zombies : Exists(s, x) /\ s.home[x] = c.ws => NameOf[x] # NameOf[y]
    BY <2>1 DEF NameTaken
  <2>5. Installs(s, t)  BY <2>1, <2>2, <2>3, <2>4 DEF Installs
  <2>6. Lasts(s, t)  BY <2>3, <2>5, LivesLast
  <2>7. QED  BY <1>3, <2>3, <2>5, <2>6
<1>4. CASE r \in {"PATCH_stopped", "PATCH_active", "PATCH_killed"}
  <2>1. PICK to \in {"stopped", "active", "killed"} : t \in Patched(s, c, to)  BY <1>4, <1>0 DEF Does
  <2>2. t \in Servers /\ t.owner = s.owner /\ t.key = s.key /\ Changes(s, t)  BY <2>1, PatchIs
  <2>3. Lives(s, t)  BY <2>2 DEF Lives
  <2>4. Lasts(s, t)  BY <2>2, <2>3, LivesLast
  <2>5. QED  BY <1>4, <2>2, <2>3, <2>4
<1>5. CASE r = "DELETE_zombie"
  <2>1. t \in Purged(s, c)  BY <1>5, <1>0 DEF Does
  <2>2. z \in Zombies /\ s.status[z] = "killed"
        /\ t = [s EXCEPT !.status[z] = "gone", !.key[z] = None, !.grant = s.grant \ {z}]
    BY <1>1, <2>1 DEF Purged, Found, RowDeleted
  <2>3. t \in Servers /\ t.owner = s.owner /\ t.home = s.home
        /\ t.status = [s.status EXCEPT ![z] = "gone"]
    BY <2>2 DEF Servers, Statuses
  <2>4. Removes(s, t)  BY <2>2, <2>3 DEF Removes
  <2>5. Lasts(s, t)  BY <2>2, DeletedLasts DEF RowDeleted
  <2>6. QED  BY <1>5, <2>3, <2>4, <2>5 DEF Lives
<1>6. CASE r = "POST_key"
  <2>1. t \in NewKey(s, c, p)  BY <1>6, <1>0 DEF Does
  <2>2. z \in Zombies /\ Exists(s, z) /\ s.key[z] = None /\ t = [s EXCEPT !.key[z] = p]
    BY <1>1, <2>1 DEF NewKey, Found
  <2>3. t \in Servers /\ Others /\ t.key = [s.key EXCEPT ![z] = p]  BY <2>2 DEF Servers
  <2>4. QED  BY <1>6, <2>2, <2>3 DEF Lives
<1>7. CASE r = "DELETE_key"
  <2>1. t \in KeyDeleted(s, c)  BY <1>7, <1>0 DEF Does
  <2>2. z \in Zombies /\ t = [s EXCEPT !.key[z] = None]  BY <1>1, <2>1 DEF KeyDeleted, Found
  <2>3. t \in Servers /\ Others  BY <2>2 DEF Servers
  <2>4. QED  BY <1>7, <2>3 DEF Lives
<1>8. CASE r = "DELETE_grant"
  <2>1. t = [s EXCEPT !.grant = s.grant \ {z}]  BY <1>8, <1>0 DEF Does
  <2>2. t \in Servers /\ Others /\ t.key = s.key  BY <2>1 DEF Servers
  <2>3. Lives(s, t) /\ Lasts(s, t)  BY <2>2, LivesLast DEF Lives
  <2>4. QED  BY <1>8, <2>2, <2>3
<1>9. CASE r \in {"POST_secret", "DELETE_secret"}
  <2>1. PICK q \in Procs \union {None} : t = [s EXCEPT !.secret[c.ws] = q]  BY <1>9, <1>0 DEF Does
  <2>2. t \in Servers /\ Others /\ t.key = s.key  BY <2>1 DEF Servers
  <2>3. Lives(s, t) /\ Lasts(s, t)  BY <2>2, LivesLast DEF Lives
  <2>4. QED  BY <1>9, <2>2, <2>3
<1>10. CASE r \in {"PUT_provider", "DELETE_provider"}
  <2>1. PICK q \in Procs \union {None} : t = [s EXCEPT !.provider[c.account] = q]  BY <1>10, <1>0 DEF Does
  <2>2. t \in Servers /\ Others /\ t.key = s.key  BY <2>1 DEF Servers
  <2>3. Lives(s, t) /\ Lasts(s, t)  BY <2>2, LivesLast DEF Lives
  <2>4. QED  BY <1>10, <2>2, <2>3
<1>11. CASE r \in Gets \union {"PATCH_config"}
  <2>1. t = s  BY <1>11, <1>0 DEF Does
  <2>2. Lives(s, t) /\ Lasts(s, t)  BY <2>1, LivesLast DEF Lives
  <2>3. QED  BY <1>11, <2>1, <2>2 DEF Gets
<1>12. QED
  BY <1>2, <1>3, <1>4, <1>5, <1>6, <1>7, <1>8, <1>9, <1>10, <1>11
  DEF Requests, Mutations, Posts, Patches, Deletes, Puts

(***************************************************************************)
(* The invariant of all runs.                                              *)
(***************************************************************************)
NoDeleters == \A q \in Procs : Asked(cli[q]) # "agent_delete"

\* A key that was made is that of its zombie, while that is there.
KeysFit ==
    \A p \in Procs : Asked(cli[p]) = "agent_add" /\ cli[p].landed > 0 /\ NoDeleters =>
        LET z == cli[p].line.zombie
        IN  z \in Zombies /\ server.status[z] # "unborn" /\ (Exists(server, z) => server.key[z] = p)

\* A run waits for an install that it asked for, in its workspace.
WaitsFit ==
    \A p \in Procs : waits[p] # None => At(p, {"POST_zombie"}) /\ Entered(server, cli[p])

RunsFit == \A p \in Procs : PlanFits(cli[p]) /\ CountsFit(cli[p]) /\ HoldsFit(server, cli[p])

CliInv == CliTypeOK /\ RunsFit /\ KeysFit /\ WaitsFit /\ FileIsConsistent

\* A workspace once owned is not passed on.
Keeps(s, t) == \A w \in Workspaces : s.owner[w] # None => t.owner[w] = s.owner[w]

\* What names owned workspaces goes on doing so.
LEMMA CoherentStays ==
    ASSUME NEW s, NEW t, Keeps(s, t), NEW f \in Files, Coherent(f, s)
    PROVE  Coherent(f, t)
BY DEF Coherent, Keeps, Files

\* A run that does nothing still holds what it held.
LEMMA HoldsStay ==
    ASSUME NEW s, NEW t, Keeps(s, t), NEW c \in Runs, CountsFit(c), HoldsFit(s, c)
    PROVE  HoldsFit(t, c)
<1>1. c.made \in Workspaces \union {None} /\ c.ws \in Workspaces \union {None}
      /\ c.listed \subseteq Workspaces /\ c.draft \in Files
  BY DEF Runs
<1>2. Coherent(c.draft, t)  BY <1>1, CoherentStays DEF HoldsFit
<1>3. c.landed > 0 => c.account # None  BY DEF CountsFit
<1>4. QED  BY <1>1, <1>2, <1>3 DEF HoldsFit, Keeps

\* No request takes a workspace from its owner.
LEMMA EffectKeeps ==
    ASSUME NEW s \in Servers, NEW c \in Runs, NEW p \in Procs, NEW r \in Requests,
           NEW t \in Effects(r, p, s, c)
    PROVE  t \in Servers /\ Keeps(s, t)
<1>0. Writes(s, c, p, r, t)  BY EffectRows
<1>1. t \in Servers /\ s.owner \in [Workspaces -> Accounts \union {None}]
  BY <1>0 DEF Servers, Writes
<1>2. CASE r # "POST_workspace"  BY <1>0, <1>1, <1>2 DEF Keeps, Writes
<1>3. CASE r = "POST_workspace"
  <2>1. PICK w \in Workspaces : s.owner[w] = None /\ t.owner = [s.owner EXCEPT ![w] = c.account]
    BY <1>0, <1>3 DEF Writes
  <2>2. Keeps(s, t)  BY <1>1, <2>1 DEF Keeps
  <2>3. QED  BY <1>1, <2>2
<1>4. QED  BY <1>2, <1>3

\* What lands, lands in a workspace of the account whose token was sent.
LEMMA LandsHolds ==
    ASSUME NEW s \in Servers, NEW c \in Runs, HoldsFit(s, c), NEW p \in Procs,
           NEW r \in Mutations, Has(Plan(c), {r}), NEW t \in Effects(r, p, s, c)
    PROVE  c.ws # None => t.owner[c.ws] = c.account
<1>1. r \in Requests /\ r \notin Gets
  BY DEF Requests, Gets, Mutations, Posts, Patches, Deletes, Puts
<1>2. CASE r \in OfAccount
  <2>1. Asked(c) \in Commands  BY DEF Runs, CommandLines, Asked
  <2>2. Has(Plan(c), OfAccount)  BY <1>2 DEF Has
  <2>3. ~Has(Plan(c), {"workspace"})  BY <2>1, <2>2, CommandsPlanned DEF Planned, Plan
  <2>4. QED  BY <2>3 DEF HoldsFit
<1>3. CASE r \notin OfAccount
  <2>1. Does(s, c, p, r, t)  BY <1>1, EffectIs
  <2>2. Entered(s, c)  BY <1>1, <1>3, <2>1 DEF Does
  <2>3. Writes(s, c, p, r, t)  BY <1>1, EffectRows
  <2>4. t.owner = s.owner  BY <1>3, <2>3 DEF OfAccount, Writes
  <2>5. QED  BY <2>2, <2>4 DEF Entered
<1>4. QED  BY <1>2, <1>3

\* What is on disk, and who is about to be paused or being set up.
StoresFit == /\ gate \subseteq Zombies /\ setup \subseteq Zombies
             /\ waits \in [Procs -> Zombies \union {None}]
             /\ file \in Files \union {Torn} /\ creds \in Accounts \union {None}
             /\ FileIsConsistent

\* The stores stay as they are, whatever the API grants.
LEMMA StoresStay ==
    ASSUME CliInv, Keeps(server, server'), UNCHANGED <<gate, file, creds>>,
           setup' \subseteq Zombies, waits' \in [Procs -> Zombies \union {None}]
    PROVE  StoresFit'
<1>1. file \in Files \union {Torn} /\ file' = file  BY DEF CliInv, CliTypeOK
<1>2. FileIsConsistent'  BY <1>1, CoherentStays DEF CliInv, FileIsConsistent
<1>3. QED  BY <1>2 DEF CliInv, CliTypeOK, StoresFit

\* No step but a request touches the API or what waits there.
LEMMA StoresIdle ==
    ASSUME CliInv, UNCHANGED <<server, gate, setup, waits, file, creds>>
    PROVE  StoresFit'
<1>1. Keeps(server, server') /\ setup' \subseteq Zombies /\ waits' \in [Procs -> Zombies \union {None}]
  BY DEF Keeps, CliInv, CliTypeOK
<1>2. QED  BY <1>1, StoresStay

\* Only the sender of an install waits for one, ...
LEMMA NotWaiting ==
    ASSUME CliInv, NEW p \in Procs, Head(cli[p].todo) # "POST_zombie"
    PROVE  waits[p] = None
BY DEF CliInv, WaitsFit, At

\* ... its workspace stays that of its account, ...
LEMMA EnteredStays ==
    ASSUME CliInv, NEW p \in Procs, At(p, {"POST_zombie"}), Entered(server, cli[p]),
           Keeps(server, server')
    PROVE  Entered(server', cli[p])
<1> DEFINE c == cli[p]
<1>1. c \in Runs /\ PlanFits(c) /\ c.exit = "running" /\ Head(c.todo) \in Mutations
  BY DEF CliInv, CliTypeOK, RunsFit, At, Mutations, Posts
<1>2. c.account # None  BY <1>1, MutationNext
<1>3. QED  BY <1>2 DEF Entered, Keeps

\* ... and a step of another run does not concern it.
LEMMA WaitsStay ==
    ASSUME CliInv, NEW p \in Procs, NEW e, cli' = [cli EXCEPT ![p] = e], Keeps(server, server'),
           \A q \in Procs \ {p} : waits'[q] = waits[q],
           waits'[p] # None => /\ e.exit = "running" /\ e.todo # <<>> /\ Head(e.todo) = "POST_zombie"
                               /\ Entered(server', e)
    PROVE  WaitsFit'
<1>1. SUFFICES ASSUME NEW q \in Procs, waits'[q] # None
               PROVE  At(q, {"POST_zombie"})' /\ Entered(server', cli'[q])
  BY DEF WaitsFit
<1>2. CASE q = p
  <2>1. cli'[q] = e  BY <1>2 DEF CliInv, CliTypeOK
  <2>2. QED  BY <1>1, <1>2, <2>1 DEF At
<1>3. CASE q # p
  <2>1. cli'[q] = cli[q] /\ waits[q] # None  BY <1>1, <1>3 DEF CliInv, CliTypeOK
  <2>2. At(q, {"POST_zombie"}) /\ Entered(server, cli[q])  BY <2>1 DEF CliInv, WaitsFit
  <2>3. Entered(server', cli[q])  BY <2>2, EnteredStays
  <2>4. QED  BY <2>1, <2>2, <2>3 DEF At
<1>4. QED  BY <1>2, <1>3

\* When one run moves, the invariant of the others stands.
LEMMA RunMoves ==
    ASSUME CliInv, NEW p \in Procs, NEW e \in Runs, cli' = [cli EXCEPT ![p] = e],
           PlanFits(e), CountsFit(e), HoldsFit(server', e),
           server' \in Servers, Keeps(server, server'), StoresFit', KeysFit', WaitsFit'
    PROVE  CliInv'
<1>1. CliTypeOK'  BY DEF CliInv, CliTypeOK, StoresFit
<1>2. ASSUME NEW q \in Procs
      PROVE  PlanFits(cli'[q]) /\ CountsFit(cli'[q]) /\ HoldsFit(server', cli'[q])
  <2>1. CASE q = p  BY <2>1 DEF CliInv, CliTypeOK
  <2>2. CASE q # p
    <3>1. cli'[q] = cli[q] /\ cli[q] \in Runs  BY <2>2 DEF CliInv, CliTypeOK
    <3>2. PlanFits(cli[q]) /\ CountsFit(cli[q]) /\ HoldsFit(server, cli[q])  BY DEF CliInv, RunsFit
    <3>3. HoldsFit(server', cli[q])  BY <3>1, <3>2, HoldsStay
    <3>4. QED  BY <3>1, <3>2, <3>3
  <2>3. QED  BY <2>1, <2>2
<1>3. RunsFit'  BY <1>2 DEF RunsFit
<1>4. QED  BY <1>1, <1>3 DEF CliInv, StoresFit

\* Keys stay where the step lands no key and takes none.
LEMMA KeysStay ==
    ASSUME CliInv, NEW p \in Procs, NEW e, cli' = [cli EXCEPT ![p] = e], e.line = cli[p].line,
           e.landed = cli[p].landed \/ Asked(cli[p]) # "agent_add",
           server' = server \/ Lasts(server, server')
    PROVE  KeysFit'
<1>1. \A q \in Procs : /\ cli'[q].line = cli[q].line
                       /\ cli'[q].landed = cli[q].landed \/ Asked(cli[q]) # "agent_add"
  BY DEF CliInv, CliTypeOK
<1>2. NoDeleters' <=> NoDeleters  BY <1>1 DEF NoDeleters, Asked
<1>3. SUFFICES ASSUME NoDeleters, NEW q \in Procs, Asked(cli[q]) = "agent_add", cli[q].landed > 0,
                      NEW z, z = cli[q].line.zombie
               PROVE  /\ z \in Zombies /\ server'.status[z] # "unborn"
                      /\ Exists(server', z) => server'.key[z] = q
  BY <1>1, <1>2 DEF KeysFit, Asked
<1>4. /\ z \in Zombies /\ server.status[z] # "unborn"
      /\ Exists(server, z) => server.key[z] = q
  BY <1>3 DEF CliInv, KeysFit
<1>5. CASE server' = server  BY <1>4, <1>5
<1>6. CASE Lasts(server, server')  BY <1>4, <1>6 DEF Lasts
<1>7. QED  BY <1>5, <1>6

\* What a command that adds a key lands is its key, which no other command
\* takes unless it deletes.
LEMMA KeysLand ==
    ASSUME CliInv, NEW p \in Procs, NEW e, cli' = [cli EXCEPT ![p] = e], e.line = cli[p].line,
           NEW r \in Mutations, Has(Plan(cli[p]), {r}), server' \in Effects(r, p, server, cli[p])
    PROVE  KeysFit'
<1> DEFINE c == cli[p]
<1>1. c \in Runs /\ server \in Servers /\ r \in Requests
  BY DEF CliInv, CliTypeOK, Requests
<1>2. \A q \in Procs : cli'[q].line = cli[q].line /\ (q # p => cli'[q].landed = cli[q].landed)
  BY DEF CliInv, CliTypeOK
<1>3. NoDeleters' <=> NoDeleters  BY <1>2 DEF NoDeleters, Asked
<1>4. SUFFICES ASSUME NoDeleters, NEW q \in Procs, Asked(cli[q]) = "agent_add", cli'[q].landed > 0,
                      NEW z, z = cli[q].line.zombie
               PROVE  /\ z \in Zombies /\ server'.status[z] # "unborn"
                      /\ Exists(server', z) => server'.key[z] = q
  BY <1>2, <1>3 DEF KeysFit, Asked
<1>5. Asked(c) \in Commands /\ Planned(Asked(c), Plan(c))
  BY <1>1, CommandsPlanned DEF Runs, CommandLines, Asked, Plan
<1>6. r # "DELETE_key"
  <2>1. Asked(c) # "agent_delete"  BY <1>4 DEF NoDeleters
  <2>2. ~Has(Plan(c), {"DELETE_key"})  BY <1>5, <2>1 DEF Planned
  <2>3. QED  BY <2>2
<1>7. Asked(c) = "agent_add" => r = "POST_key"
  <2>1. SUFFICES ASSUME Asked(c) = "agent_add"  PROVE  r = "POST_key"  OBVIOUS
  <2>2. Has(Plan(c), {"POST_key"})  BY <1>5, <2>1 DEF Planned
  <2>3. {"POST_key"} \subseteq Mutations  BY DEF Mutations, Posts
  <2>4. QED  BY <1>1, <2>2, <2>3, OneMutation
<1>0. Writes(server, c, p, r, server')  BY <1>1, EffectRows
<1>8. server.key \in [Zombies -> Procs \union {None}]  BY <1>1 DEF Servers
<1>11. q # p => /\ z \in Zombies /\ server.status[z] # "unborn"
                /\ Exists(server, z) => server.key[z] = q
  BY <1>2, <1>4 DEF CliInv, KeysFit
<1>9. CASE r = "POST_key"
  <2>1. /\ c.line.zombie \in Zombies /\ server.key[c.line.zombie] = None
        /\ Exists(server, c.line.zombie) /\ server'.status = server.status
        /\ server'.key = [server.key EXCEPT ![c.line.zombie] = p]
    BY <1>0, <1>9 DEF Writes
  <2>2. CASE q = p  BY <1>4, <1>8, <2>1, <2>2 DEF Exists
  <2>3. CASE q # p
    <3>1. Exists(server, z) => z # c.line.zombie  BY <1>11, <2>1, <2>3, CliAssumption
    <3>2. Exists(server', z) => Exists(server, z)  BY <2>1 DEF Exists
    <3>3. QED  BY <1>8, <1>11, <2>1, <2>3, <3>1, <3>2
  <2>4. QED  BY <2>2, <2>3
<1>10. CASE r # "POST_key"
  <2>1. Lasts(server, server')  BY <1>0, <1>6, <1>10 DEF Writes
  <2>2. q # p  BY <1>4, <1>7, <1>10
  <2>3. QED  BY <1>11, <2>1, <2>2 DEF Lasts
<1>12. QED  BY <1>9, <1>10

(***************************************************************************)
(* The steps that do not ask the API.                                      *)
(***************************************************************************)
\* A run that is interrupted, or gives up before its change, keeps the
\* invariant, ...
LEMMA RunEnds ==
    ASSUME CliInv, NEW p \in Procs, cli[p].exit = "running", NEW how \in {"failed", "interrupted"},
           how = "failed" => Head(cli[p].todo) \notin Settling,
           cli' = [cli EXCEPT ![p] = Ended(cli[p], how)],
           waits' = [waits EXCEPT ![p] = None], UNCHANGED <<server, gate, setup, file, creds>>
    PROVE  CliInv'
<1> DEFINE c == cli[p]
<1> SUFFICES ASSUME NEW e, e = Ended(c, how)  PROVE  CliInv'
  OBVIOUS
<1>1. c \in Runs /\ PlanFits(c) /\ CountsFit(c) /\ HoldsFit(server, c) /\ server \in Servers
  BY DEF CliInv, CliTypeOK, RunsFit
<1>2. /\ e \in Runs /\ e.line = c.line /\ e.landed = c.landed /\ e.ws = c.ws /\ e.account = c.account
      /\ e.made = c.made /\ e.listed = c.listed /\ e.draft = c.draft
  BY <1>1, EndedIs
<1>3. PlanFits(e)  BY <1>1, EndedPlan
<1>4. CountsFit(e)  BY <1>1, NothingFailsLate, EndedCounts
<1>5. HoldsFit(server', e)  BY <1>1, <1>2 DEF HoldsFit, Plan, Asked
<1>6. Keeps(server, server') /\ server' \in Servers  BY <1>1 DEF Keeps
<1>7. waits \in [Procs -> Zombies \union {None}] /\ setup \subseteq Zombies  BY DEF CliInv, CliTypeOK
<1>8. StoresFit'  BY <1>6, <1>7, StoresStay
<1>9. cli' = [cli EXCEPT ![p] = e] /\ KeysFit'  BY <1>2, KeysStay
<1>10. WaitsFit'  BY <1>6, <1>7, <1>9, WaitsStay
<1>11. QED  BY <1>2, <1>3, <1>4, <1>5, <1>6, <1>8, <1>9, <1>10, RunMoves

\* (which is all that a local step without success does,)
LEMMA RunFails ==
    ASSUME CliInv, NEW p \in Procs, cli[p].exit = "running", Head(cli[p].todo) \notin Settling,
           Head(cli[p].todo) # "POST_zombie",
           cli' = [cli EXCEPT ![p] = Ended(cli[p], "failed")],
           UNCHANGED <<server, gate, setup, waits, file, creds>>
    PROVE  CliInv'
<1>1. waits \in [Procs -> Zombies \union {None}]  BY DEF CliInv, CliTypeOK
<1>2. waits' = [waits EXCEPT ![p] = None]  BY <1>1, NotWaiting
<1>3. QED  BY <1>2, RunEnds

\* ... and so does one that goes on with what its step found.
LEMMA RunGoesOn ==
    ASSUME CliInv, NEW p \in Procs, cli[p].exit = "running", Head(cli[p].todo) \notin Mutations,
           NEW d, Prepares(cli[p], d), HoldsFit(server, d),
           cli' = [cli EXCEPT ![p] = Onward(d)], UNCHANGED <<server, waits>>, StoresFit'
    PROVE  CliInv'
<1> DEFINE c == cli[p]
<1> SUFFICES ASSUME NEW e, e = Onward(d)  PROVE  CliInv'
  OBVIOUS
<1>1. c \in Runs /\ PlanFits(c) /\ CountsFit(c) /\ server \in Servers
  BY DEF CliInv, CliTypeOK, RunsFit
<1>2. d \in Runs /\ d.todo # <<>> /\ d.line = c.line /\ d.landed = c.landed
  BY <1>1 DEF Prepares, PlanFits
<1>3. /\ e \in Runs /\ e.line = d.line /\ e.landed = d.landed /\ e.ws = d.ws /\ e.account = d.account
      /\ e.made = d.made /\ e.listed = d.listed /\ e.draft = d.draft
  BY <1>2, OnwardIs
<1>4. PlanFits(e)  BY <1>1, OnwardPlan
<1>5. CountsFit(e)  BY <1>1, OnwardCounts
<1>6. HoldsFit(server', e)  BY <1>3 DEF HoldsFit, Plan, Asked
<1>7. Keeps(server, server') /\ server' \in Servers  BY <1>1 DEF Keeps
<1>8. cli' = [cli EXCEPT ![p] = e] /\ KeysFit'  BY <1>2, <1>3, KeysStay
<1>9. Head(c.todo) # "POST_zombie"  BY DEF Mutations, Posts
<1>10. waits'[p] = None  BY <1>9, NotWaiting
<1>11. WaitsFit'  BY <1>7, <1>8, <1>10, WaitsStay
<1>12. QED  BY <1>3, <1>4, <1>5, <1>6, <1>7, <1>8, <1>11, RunMoves

\* Before the change nothing has landed.
LEMMA NothingLanded ==
    ASSUME NEW c \in Runs, PlanFits(c), CountsFit(c), c.exit = "running",
           Head(c.todo) \notin Mutations \union Settling
    PROVE  ~(c.landed > 0)
BY NextOfPlan, TailHas DEF CountsFit

\* What a run that only looks finds is what it had.
LEMMA PreparesNothing ==
    ASSUME NEW c \in Runs, Head(c.todo) \notin {"token", "sign_in", "POST_workspace"}
    PROVE  Prepares(c, c)
BY DEF Prepares

\* A file as a program reads it is coherent.
LEMMA ReadIsCoherent ==
    ASSUME CliInv
    PROVE  ReadFile \in Files /\ Coherent(ReadFile, server)
BY DEF CliInv, CliTypeOK, FileIsConsistent, ReadFile, EmptyFile, Files, Coherent

\* The check at the start, a look at the list, and what reads the files.
LEMMA GuardInv ==
    ASSUME CliInv, NEW p \in Procs, Guard(p)
    PROVE  CliInv'
<1> DEFINE c == cli[p]
<1>1. c \in Runs /\ HoldsFit(server, c) /\ c.exit = "running" /\ Head(c.todo) = "guard"
      /\ Keeps(server, server') /\ UNCHANGED <<server, gate, setup, waits, file, creds>>
  BY DEF CliInv, CliTypeOK, RunsFit, Guard, At, Keeps
<1>2. "guard" \notin Mutations \union Settling
  BY DEF Mutations, Posts, Patches, Deletes, Puts, Settling
<1>3. CASE cli' = [cli EXCEPT ![p] = Ended(c, "failed")]  BY <1>1, <1>2, <1>3, RunFails
<1>4. CASE cli' = [cli EXCEPT ![p] = Onward(c)]
  <2>1. Prepares(c, c)  BY <1>1, PreparesNothing
  <2>2. QED  BY <1>1, <1>2, <1>4, <2>1, StoresIdle, RunGoesOn
<1>5. QED  BY <1>3, <1>4 DEF Guard

\* Looking at the list.
LEMMA LookInv ==
    ASSUME CliInv, NEW p \in Procs, Look(p)
    PROVE  CliInv'
<1> DEFINE c == cli[p]
<1>1. c \in Runs /\ HoldsFit(server, c) /\ c.exit = "running" /\ Head(c.todo) = "look"
      /\ Keeps(server, server') /\ UNCHANGED <<server, gate, setup, waits, file, creds>>
  BY DEF CliInv, CliTypeOK, RunsFit, Look, At, Keeps
<1>2. "look" \notin Mutations  BY DEF Mutations, Posts, Patches, Deletes, Puts
<1>3. Prepares(c, c)  BY <1>1, PreparesNothing
<1>4. cli' = [cli EXCEPT ![p] = Onward(c)]  BY DEF Look
<1>5. QED  BY <1>1, <1>2, <1>3, <1>4, StoresIdle, RunGoesOn

\* The current workspace is read while nothing has landed.
LEMMA ResolveWorkspaceInv ==
    ASSUME CliInv, NEW p \in Procs, ResolveWorkspace(p)
    PROVE  CliInv'
<1> DEFINE c == cli[p]
<1>1. c \in Runs /\ PlanFits(c) /\ CountsFit(c) /\ HoldsFit(server, c)
      /\ c.exit = "running" /\ Head(c.todo) = "workspace"
      /\ Keeps(server, server') /\ UNCHANGED <<server, gate, setup, waits, file, creds>>
  BY DEF CliInv, CliTypeOK, RunsFit, ResolveWorkspace, At, Keeps
<1>2. "workspace" \notin Mutations \union Settling
  BY DEF Mutations, Posts, Patches, Deletes, Puts, Settling
<1>3. CASE cli' = [cli EXCEPT ![p] = Ended(c, "failed")]  BY <1>1, <1>2, <1>3, RunFails
<1>4. CASE cli' = [cli EXCEPT ![p] = Onward([c EXCEPT !.ws = ReadFile.current])] /\ ReadFile.current # None
  <2>1. PICK d : d = [c EXCEPT !.ws = ReadFile.current]  OBVIOUS
  <2>2. ReadFile.current \in Workspaces  BY <1>4, ReadIsCoherent DEF Files
  <2>3. Prepares(c, d) /\ d.ws # None /\ d.listed = c.listed /\ d.draft = c.draft
        /\ d.made = c.made /\ d.line = c.line /\ d.landed = c.landed
    BY <1>1, <1>4, <2>1, <2>2 DEF Prepares, Runs
  <2>4. ~(c.landed > 0) /\ Has(Plan(c), {"workspace"})  BY <1>1, <1>2, NothingLanded, NextOfPlan
  <2>5. HoldsFit(server, d)  BY <1>1, <2>3, <2>4 DEF HoldsFit, Plan, Asked
  <2>6. cli' = [cli EXCEPT ![p] = Onward(d)]  BY <1>4, <2>1
  <2>7. QED  BY <1>1, <1>2, <2>3, <2>5, <2>6, StoresIdle, RunGoesOn
<1>5. QED  BY <1>3, <1>4 DEF ResolveWorkspace

\* And so is the token.
LEMMA ResolveTokenInv ==
    ASSUME CliInv, NEW p \in Procs, ResolveToken(p)
    PROVE  CliInv'
<1> DEFINE c == cli[p]
           found == IF creds # None THEN creds ELSE c.line.env
<1>1. c \in Runs /\ PlanFits(c) /\ CountsFit(c) /\ HoldsFit(server, c)
      /\ c.exit = "running" /\ Head(c.todo) = "token"
      /\ Keeps(server, server') /\ UNCHANGED <<server, gate, setup, waits, file, creds>>
  BY DEF CliInv, CliTypeOK, RunsFit, ResolveToken, At, Keeps
<1>2. "token" \notin Mutations \union Settling
  BY DEF Mutations, Posts, Patches, Deletes, Puts, Settling
<1>3. CASE cli' = [cli EXCEPT ![p] = Ended(c, "failed")]  BY <1>1, <1>2, <1>3, RunFails
<1>4. CASE cli' = [cli EXCEPT ![p] = Onward([c EXCEPT !.account = found])] /\ found # None
  <2>1. PICK d : d = [c EXCEPT !.account = found]  OBVIOUS
  <2>2. found \in Accounts  BY <1>1, <1>4 DEF CliInv, CliTypeOK, Runs, CommandLines
  <2>3. Prepares(c, d) /\ d.ws = c.ws /\ d.listed = c.listed /\ d.draft = c.draft
        /\ d.made = c.made /\ d.line = c.line /\ d.landed = c.landed
    BY <1>1, <1>4, <2>1, <2>2 DEF Prepares, Runs
  <2>4. ~(c.landed > 0)  BY <1>1, <1>2, NothingLanded
  <2>5. HoldsFit(server, d)  BY <1>1, <2>3, <2>4 DEF HoldsFit, Plan, Asked
  <2>6. cli' = [cli EXCEPT ![p] = Onward(d)]  BY <1>4, <2>1
  <2>7. QED  BY <1>1, <1>2, <2>3, <2>5, <2>6, StoresIdle, RunGoesOn
<1>5. QED  BY <1>3, <1>4 DEF ResolveToken

\* What a command makes of a coherent file is coherent, and appending never
\* gives up.
LEMMA EditedIs ==
    ASSUME CliInv, NEW c \in Runs, PlanFits(c), HoldsFit(server, c), c.exit = "running",
           NEW step, step = Head(c.todo), step \in {"append", "select", "drop", "hydrate"},
           NEW f \in Files, Coherent(f, server)
    PROVE  /\ \A x \in Edited(step, c, f) : x \in Files /\ Coherent(x, server)
           /\ step = "append" => Edited(step, c, f) # {}
<1>1. /\ c.made \in Workspaces \union {None} /\ c.listed \subseteq Workspaces
      /\ f = [current |-> f.current, items |-> f.items]
      /\ f.current \in Workspaces \union {None} /\ f.items \subseteq Workspaces
  BY DEF Runs, Files
<1>2. None \notin Workspaces  BY CliAssumption
<1>3. CASE step = "append"
  <2>1. c.made # None  BY <1>3, NextOfPlan, TailBefore DEF PlanFits
  <2>2. Edited(step, c, f) = {[current |-> c.made, items |-> f.items \union {c.made}]}
    BY <1>3 DEF Edited
  <2>3. ASSUME NEW x, x = [current |-> c.made, items |-> f.items \union {c.made}]
        PROVE  x \in Files /\ Coherent(x, server)
    <3>1. server.owner[c.made] # None /\ \A w \in f.items : server.owner[w] # None
      BY <2>1 DEF HoldsFit, Coherent
    <3>2. x.current = c.made /\ x.items = f.items \union {c.made}  BY <2>3
    <3>3. Coherent(x, server)  BY <2>1, <3>1, <3>2 DEF Coherent
    <3>4. c.made \in Workspaces /\ f.items \union {c.made} \subseteq Workspaces  BY <1>1, <2>1
    <3>5. x \in Files  BY <2>3, <3>4 DEF Files
    <3>6. QED  BY <3>3, <3>5
  <2>4. QED  BY <1>3, <2>2, <2>3
<1>4. CASE step = "select"
  <2>1. \A x \in Edited(step, c, f) :
          c.line.workspace \in f.items /\ x = [current |-> c.line.workspace, items |-> f.items]
    BY <1>1, <1>4 DEF Edited
  <2>2. QED  BY <1>1, <1>2, <1>4, <2>1 DEF Files, Coherent
<1>5. CASE step = "drop"
  <2>1. Edited(step, c, f) = Dropped(c, f)  BY <1>5 DEF Edited
  <2>2. ASSUME NEW x \in Edited(step, c, f)
        PROVE  x \in Files /\ Coherent(x, server)
    <3>1. CASE f.current # c.line.workspace
      <4>1. x = [current |-> f.current, items |-> f.items \ {c.line.workspace}]
        BY <1>1, <2>1, <2>2, <3>1 DEF Dropped
      <4>2. QED  BY <1>1, <3>1, <4>1 DEF Files, Coherent
    <3>2. CASE f.current = c.line.workspace
      <4>1. x = EmptyFile \/ \E w \in f.items \ {c.line.workspace} :
              x = [current |-> w, items |-> f.items \ {c.line.workspace}]
        BY <2>1, <2>2, <3>2 DEF Dropped
      <4>2. QED  BY <1>1, <1>2, <4>1 DEF Files, Coherent, EmptyFile
    <3>3. QED  BY <3>1, <3>2
  <2>3. QED  BY <1>5, <2>2
<1>6. CASE step = "hydrate"
  <2>1. ASSUME NEW x \in Edited(step, c, f)
        PROVE  \E w \in c.listed : x = [current |-> w, items |-> c.listed]
    BY <1>6, <2>1 DEF Edited
  <2>2. \A w \in c.listed : server.owner[w] # None  BY DEF HoldsFit
  <2>3. QED  BY <1>1, <1>2, <1>6, <2>1, <2>2 DEF Files, Coherent
<1>7. QED  BY <1>3, <1>4, <1>5, <1>6

\* A command works out the new list.
LEMMA LoadFileInv ==
    ASSUME CliInv, NEW p \in Procs, LoadFile(p)
    PROVE  CliInv'
<1> DEFINE c == cli[p]
           step == Head(c.todo)
           drafts == Edited(step, c, ReadFile)
<1>1. c \in Runs /\ PlanFits(c) /\ CountsFit(c) /\ HoldsFit(server, c)
      /\ c.exit = "running" /\ step \in {"append", "select", "drop", "hydrate"}
      /\ Keeps(server, server') /\ UNCHANGED <<server, gate, setup, waits, file, creds>>
  BY DEF CliInv, CliTypeOK, RunsFit, LoadFile, At, Keeps
<1>2. {"append", "select", "drop", "hydrate"} \cap Mutations = {}
      /\ {"select", "drop", "hydrate"} \cap Settling = {}
  BY DEF Mutations, Posts, Patches, Deletes, Puts, Settling
<1>3. (\A x \in drafts : x \in Files /\ Coherent(x, server)) /\ (step = "append" => drafts # {})
  BY <1>1, ReadIsCoherent, EditedIs
<1>4. CASE drafts = {} /\ cli' = [cli EXCEPT ![p] = Ended(c, "failed")]
  <2>1. step \notin Settling  BY <1>1, <1>2, <1>3, <1>4
  <2>2. QED  BY <1>1, <1>4, <2>1, RunFails
<1>5. ASSUME NEW x \in drafts, cli' = [cli EXCEPT ![p] = Onward([c EXCEPT !.draft = x])]
      PROVE  CliInv'
  <2>1. PICK d : d = [c EXCEPT !.draft = x]  OBVIOUS
  <2>2. x \in Files /\ Coherent(x, server)  BY <1>3, <1>5
  <2>3. Prepares(c, d) /\ d.ws = c.ws /\ d.listed = c.listed /\ d.draft = x /\ d.account = c.account
        /\ d.made = c.made /\ d.line = c.line /\ d.landed = c.landed
    BY <1>1, <2>1, <2>2 DEF Prepares, Runs
  <2>4. HoldsFit(server, d)  BY <1>1, <2>2, <2>3 DEF HoldsFit, Plan, Asked
  <2>5. cli' = [cli EXCEPT ![p] = Onward(d)]  BY <1>5, <2>1
  <2>6. step \notin Mutations  BY <1>1, <1>2
  <2>7. QED  BY <1>1, <2>3, <2>4, <2>5, <2>6, StoresIdle, RunGoesOn
<1>6. QED  BY <1>4, <1>5 DEF LoadFile

\* The file is torn, ...
LEMMA TruncateFileInv ==
    ASSUME CliInv, NEW p \in Procs, TruncateFile(p)
    PROVE  CliInv'
<1> DEFINE c == cli[p]
<1>1. c \in Runs /\ HoldsFit(server, c) /\ c.exit = "running" /\ Head(c.todo) = "truncate"
      /\ file' = Torn /\ UNCHANGED <<server, gate, setup, waits, creds>>
  BY DEF CliInv, CliTypeOK, RunsFit, TruncateFile, At
<1>2. "truncate" \notin Mutations  BY DEF Mutations, Posts, Patches, Deletes, Puts
<1>3. Prepares(c, c)  BY <1>1, PreparesNothing
<1>4. cli' = [cli EXCEPT ![p] = Onward(c)]  BY DEF TruncateFile
<1>5. StoresFit'  BY <1>1 DEF StoresFit, FileIsConsistent, CliInv, CliTypeOK
<1>6. QED  BY <1>1, <1>2, <1>3, <1>4, <1>5, RunGoesOn

\* ... and written whole.
LEMMA WriteFileInv ==
    ASSUME CliInv, NEW p \in Procs, WriteFile(p)
    PROVE  CliInv'
<1> DEFINE c == cli[p]
<1>1. c \in Runs /\ HoldsFit(server, c) /\ c.exit = "running" /\ Head(c.todo) = "write"
      /\ file' = c.draft /\ UNCHANGED <<server, gate, setup, waits, creds>>
  BY DEF CliInv, CliTypeOK, RunsFit, WriteFile, At
<1>2. "write" \notin Mutations  BY DEF Mutations, Posts, Patches, Deletes, Puts
<1>3. Prepares(c, c)  BY <1>1, PreparesNothing
<1>4. cli' = [cli EXCEPT ![p] = Onward(c)]  BY DEF WriteFile
<1>5. c.draft \in Files  BY <1>1 DEF Runs
<1>6. StoresFit'  BY <1>1, <1>5 DEF StoresFit, FileIsConsistent, CliInv, CliTypeOK, HoldsFit
<1>7. QED  BY <1>1, <1>2, <1>3, <1>4, <1>6, RunGoesOn

\* A login signs in as someone.
LEMMA SignInInv ==
    ASSUME CliInv, NEW p \in Procs, SignIn(p)
    PROVE  CliInv'
<1> DEFINE c == cli[p]
<1>1. c \in Runs /\ PlanFits(c) /\ CountsFit(c) /\ HoldsFit(server, c)
      /\ c.exit = "running" /\ Head(c.todo) = "sign_in"
      /\ creds' = c.line.user /\ UNCHANGED <<server, gate, setup, waits, file>>
  BY DEF CliInv, CliTypeOK, RunsFit, SignIn, At
<1>2. "sign_in" \notin Mutations \union Settling
  BY DEF Mutations, Posts, Patches, Deletes, Puts, Settling
<1>3. c.line.user \in Accounts /\ c.line.user # None
  <2>1. Asked(c) \in Commands /\ c.line.user \in Accounts \union {None}
    BY <1>1 DEF Runs, CommandLines, Asked
  <2>2. Has(Plan(c), {"sign_in"})  BY <1>1, NextOfPlan
  <2>3. Asked(c) = "login"  BY <2>1, <2>2, CommandsPlanned DEF Planned, Plan
  <2>4. QED  BY <1>1, <2>1, <2>3 DEF PlanFits
<1>4. PICK d : d = [c EXCEPT !.account = c.line.user]  OBVIOUS
<1>5. Prepares(c, d) /\ d.ws = c.ws /\ d.listed = c.listed /\ d.draft = c.draft
      /\ d.made = c.made /\ d.line = c.line /\ d.landed = c.landed
  BY <1>1, <1>3, <1>4 DEF Prepares, Runs
<1>6. ~(c.landed > 0)  BY <1>1, <1>2, NothingLanded
<1>7. HoldsFit(server, d)  BY <1>1, <1>5, <1>6 DEF HoldsFit, Plan, Asked
<1>8. cli' = [cli EXCEPT ![p] = Onward(d)]  BY <1>4 DEF SignIn
<1>9. StoresFit'  BY <1>1, <1>3 DEF StoresFit, FileIsConsistent, CliInv, CliTypeOK
<1>10. QED  BY <1>1, <1>2, <1>5, <1>7, <1>8, <1>9, RunGoesOn

\* A logout clears the token.
LEMMA SignOutInv ==
    ASSUME CliInv, NEW p \in Procs, SignOut(p)
    PROVE  CliInv'
<1> DEFINE c == cli[p]
<1>1. c \in Runs /\ HoldsFit(server, c) /\ c.exit = "running" /\ Head(c.todo) = "sign_out"
      /\ creds' = None /\ UNCHANGED <<server, gate, setup, waits, file>>
  BY DEF CliInv, CliTypeOK, RunsFit, SignOut, At
<1>2. "sign_out" \notin Mutations  BY DEF Mutations, Posts, Patches, Deletes, Puts
<1>3. Prepares(c, c)  BY <1>1, PreparesNothing
<1>4. cli' = [cli EXCEPT ![p] = Onward(c)]  BY DEF SignOut
<1>5. StoresFit'  BY <1>1 DEF StoresFit, FileIsConsistent, CliInv, CliTypeOK
<1>6. QED  BY <1>1, <1>2, <1>3, <1>4, <1>5, RunGoesOn

\* Interrupting ends a run wherever it is.
LEMMA InterruptInv ==
    ASSUME CliInv, NEW p \in Procs, Interrupt(p)
    PROVE  CliInv'
BY RunEnds DEF Interrupt

\* What happens to zombies between requests concerns no run.
LEMMA RowsMove ==
    ASSUME CliInv, server' \in Servers, server'.owner = server.owner, Lasts(server, server'),
           gate' \subseteq Zombies, setup' \subseteq Zombies, UNCHANGED <<waits, file, creds, cli>>
    PROVE  CliInv'
<1>1. CliTypeOK'  BY DEF CliInv, CliTypeOK
<1>2. FileIsConsistent'  BY DEF CliInv, FileIsConsistent, Coherent
<1>3. RunsFit'  BY DEF CliInv, RunsFit, HoldsFit, Coherent
<1>4. WaitsFit'  BY DEF CliInv, WaitsFit, At, Entered
<1>5. KeysFit'
  <2>1. SUFFICES ASSUME NoDeleters, NEW q \in Procs, Asked(cli[q]) = "agent_add", cli[q].landed > 0,
                        NEW z, z = cli[q].line.zombie
                 PROVE  /\ z \in Zombies /\ server'.status[z] # "unborn"
                        /\ Exists(server', z) => server'.key[z] = q
    BY DEF KeysFit, NoDeleters
  <2>2. /\ z \in Zombies /\ server.status[z] # "unborn"
        /\ Exists(server, z) => server.key[z] = q
    BY <2>1 DEF CliInv, KeysFit
  <2>3. QED  BY <2>2 DEF Lasts
<1>6. QED  BY <1>1, <1>2, <1>3, <1>4, <1>5 DEF CliInv

\* The approval gate changes the status of a zombie that is there.
LEMMA GateInv ==
    ASSUME CliInv, NEW z \in Zombies, LoadZombie(z) \/ PauseZombie(z)
    PROVE  CliInv'
<1>1. server \in Servers /\ gate \subseteq Zombies /\ setup \subseteq Zombies  BY DEF CliInv, CliTypeOK
<1>2. server.status \in [Zombies -> Statuses]  BY <1>1 DEF Servers
<1>3. /\ gate' \subseteq Zombies /\ setup' \subseteq Zombies /\ UNCHANGED <<waits, file, creds, cli>>
      /\ server' = server \/ (Exists(server, z) /\ server' = [server EXCEPT !.status[z] = "paused"])
  BY <1>1 DEF LoadZombie, PauseZombie
<1>4. CASE server' = server
  <2>1. Lasts(server, server')  BY <1>4 DEF Lasts
  <2>2. QED  BY <1>1, <1>3, <1>4, <2>1, RowsMove
<1>5. CASE Exists(server, z) /\ server' = [server EXCEPT !.status[z] = "paused"]
  <2>1. /\ server' \in Servers /\ server'.owner = server.owner /\ server'.key = server.key
        /\ server'.status = [server.status EXCEPT ![z] = "paused"]
    BY <1>1, <1>5 DEF Servers, Statuses
  <2>2. Lasts(server, server')  BY <1>2, <1>5, <2>1 DEF Lasts, Exists
  <2>3. QED  BY <1>3, <2>1, <2>2, RowsMove
<1>6. QED  BY <1>3, <1>4, <1>5

(***************************************************************************)
(* The steps that ask the API.                                             *)
(***************************************************************************)
\* What an answer makes of c: it goes on with what it was told, or it has
\* nothing more to do.
Told(c, t, x) ==
    /\ Prepares(c, x) /\ x.ws = c.ws /\ x.account = c.account /\ x.draft = c.draft
    /\ x.made # c.made => t.owner[x.made] # None
    /\ x.listed # c.listed => \A w \in x.listed : t.owner[w] # None
Hears(r, c, t, d) ==
    \/ \E x : Told(c, t, x) /\ d = Onward(x)
    \/ r = "GET_workspaces" /\ d = Ended(c, "ok")
    \/ r = "GET_secret" /\ d = Ended(c, "skipped")

\* A workspace that was just created belongs to its creator; those listed
\* belong to the account that asked.
LEMMA HeardIs ==
    ASSUME CliInv, NEW p \in Procs, NEW c, c = cli[p], c.exit = "running",
           NEW r \in Requests, r = Head(c.todo), NEW t \in Effects(r, p, server, c)
    PROVE  Hears(r, c, t, Heard(r, c, server, t))
<1>1. c \in Runs /\ PlanFits(c) /\ server \in Servers  BY DEF CliInv, CliTypeOK, RunsFit
<1>2. r \notin {"token", "sign_in"}
  BY DEF Requests, Gets, Mutations, Posts, Patches, Deletes, Puts
<1>3. Does(server, c, p, r, t)  BY <1>1, EffectIs
<1>4. server.owner \in [Workspaces -> Accounts \union {None}]  BY <1>1 DEF Servers
<1>5. CASE r = "POST_workspace"
  <2>1. PICK w \in Workspaces : server.owner[w] = None /\ t = [server EXCEPT !.owner[w] = c.account]
    BY <1>3, <1>5 DEF Does
  <2>2. c.account # None  BY <1>1, <1>5, MutationNext DEF Mutations, Posts
  <2>3. t.owner = [server.owner EXCEPT ![w] = c.account]  BY <1>1, <2>1 DEF Servers
  <2>4. \A v \in Workspaces : server.owner[v] # t.owner[v] <=> v = w  BY <1>4, <2>1, <2>2, <2>3
  <2>5. PICK v : v = CHOOSE u \in Workspaces : server.owner[u] # t.owner[u]  OBVIOUS
  <2>6. v = w  BY <2>4, <2>5
  <2>7. PICK x : x = [c EXCEPT !.made = v]  OBVIOUS
  <2>8. w # None /\ t.owner[w] # None  BY <1>4, <2>2, <2>3, CliAssumption
  <2>9. Told(c, t, x)  BY <1>1, <1>5, <2>6, <2>7, <2>8 DEF Told, Prepares, Runs
  <2>10. Heard(r, c, server, t) = Onward(x)  BY <1>5, <2>5, <2>7 DEF Heard
  <2>11. QED  BY <2>9, <2>10 DEF Hears
<1>6. CASE r = "GET_workspaces"
  <2> DEFINE mine == {w \in Workspaces : server.owner[w] = c.account}
  <2>1. t = server  BY <1>3, <1>6 DEF Does, Gets
  <2>2. c.account # None  BY <1>1, <1>6, NextOfPlan, TailBefore DEF PlanFits
  <2>3. CASE mine = {}  BY <1>6, <2>3 DEF Heard, Hears
  <2>4. CASE mine # {}
    <3>1. PICK x : x = [c EXCEPT !.listed = mine]  OBVIOUS
    <3>2. \A w \in mine : t.owner[w] # None  BY <2>1, <2>2
    <3>3. Told(c, t, x)  BY <1>1, <1>6, <3>1, <3>2 DEF Told, Prepares, Runs
    <3>4. Heard(r, c, server, t) = Onward(x)  BY <1>6, <2>4, <3>1 DEF Heard
    <3>5. QED  BY <3>3, <3>4 DEF Hears
  <2>5. QED  BY <2>3, <2>4
<1>7. CASE r \notin {"POST_workspace", "GET_workspaces"}
  <2>1. Told(c, t, c)  BY <1>1, <1>2, <1>7, PreparesNothing DEF Told
  <2>2. Heard(r, c, server, t) = Onward(c)
        \/ (r = "GET_secret" /\ Heard(r, c, server, t) = Ended(c, "skipped"))
    BY <1>7 DEF Heard
  <2>3. QED  BY <2>1, <2>2 DEF Hears
<1>8. QED  BY <1>5, <1>6, <1>7

\* d after an attempt of r that was heard of.
Answered(r, d) == Counted(r, "ok", d, TRUE)

\* Its fields.
LEMMA HeardFields ==
    ASSUME NEW d \in Runs, NEW r, NEW e, e = Answered(r, d)
    PROVE  /\ e \in Runs /\ e.todo = d.todo /\ e.exit = d.exit
           /\ e.line = d.line /\ e.account = d.account /\ e.ws = d.ws
           /\ e.made = d.made /\ e.listed = d.listed /\ e.draft = d.draft /\ e.air = d.air
           /\ e.blind = d.blind /\ e.unheard = d.unheard
           /\ r \in Mutations => e.landed = d.landed + 1
           /\ r \notin Mutations => e.landed = d.landed
<1>1. d.landed \in Nat /\ d.blind \in Nat /\ d.unheard \in Nat  BY DEF Runs
<1>2. PICK l \in Nat : l = (IF r \in Mutations THEN d.landed + 1 ELSE d.landed)  BY <1>1
<1>3. "ok" \notin Silent /\ "ok" \notin Silent \union {"gateway"}  BY DEF Silent
<1>4. e = [d EXCEPT !.landed = l, !.blind = d.blind, !.unheard = d.unheard]
  BY <1>2, <1>3 DEF Answered, Counted, Runs
<1>5. QED  BY <1>1, <1>2, <1>4 DEF Runs

\* A change that was heard of is counted once.
LEMMA HeardCounts ==
    ASSUME NEW c \in Runs, PlanFits(c), CountsFit(c), c.exit = "running",
           NEW r \in Mutations, r = Head(c.todo), NEW x, Prepares(c, x), x.account = c.account,
           NEW e, e = Answered(r, Onward(x))
    PROVE  CountsFit(e)
<1>1. c.todo # <<>> /\ Ahead(c.todo) /\ x \in Runs /\ x.todo = c.todo /\ x.exit = "running"
      /\ x.line = c.line /\ x.landed = c.landed /\ x.air = c.air /\ x.blind = c.blind
      /\ x.unheard = c.unheard
  BY NextOfPlan DEF Prepares
<1>2. PICK d : d = Onward(x)  OBVIOUS
<1>3. /\ d \in Runs /\ d.todo = Tail(c.todo) /\ d.exit \in {"ok", "running"}
      /\ d.line = c.line /\ d.account = c.account /\ d.landed = c.landed /\ d.air = c.air
      /\ d.blind = c.blind /\ d.unheard = c.unheard
  BY <1>1, <1>2, OnwardIs
<1>4. /\ e.todo = Tail(c.todo) /\ e.exit \in {"ok", "running"}
      /\ e.line = c.line /\ e.account = c.account /\ e.landed = c.landed + 1 /\ e.air = c.air
      /\ e.blind = c.blind /\ e.unheard = c.unheard
  <2>1. e = Answered(r, d)  BY <1>2
  <2>2. QED  BY <1>3, <2>1, HeardFields
<1>5. /\ IsMutation(c) /\ c.account # None /\ Has(c.todo, Mutations)
      /\ Only(Tail(c.todo), Settling) /\ ~Has(Tail(c.todo), Mutations)
  BY MutationNext
<1>6. (IsMutation(e) <=> IsMutation(c)) /\ Plan(e) = Plan(c)  BY <1>4 DEF IsMutation, Plan, Asked
<1>7. c.landed \in Nat /\ c.air \in Nat /\ c.blind \in Nat /\ c.unheard \in Nat  BY DEF Runs
<1>8. Only(e.todo, Mutations \union Settling)  BY <1>4, <1>5 DEF Only
<1>9. Has(Plan(c), Posts \union Patches) => c.landed + c.air <= c.blind  BY <1>5, <1>7 DEF CountsFit
<1>10. c.air > 0 => c.unheard > 0  BY DEF CountsFit
<1>11. e.landed > 0  BY <1>4, <1>7
<1>12. Has(Plan(e), Posts \union Patches) => e.landed + e.air <= e.blind + 1
  BY <1>4, <1>6, <1>7, <1>9
<1>13. QED  BY <1>4, <1>5, <1>6, <1>7, <1>8, <1>10, <1>11, <1>12 DEF CountsFit

\* An attempt whose answer was heard.
LEMMA HeardInv ==
    ASSUME CliInv, NEW p \in Procs, At(p, Requests), NEW r, r = Head(cli[p].todo),
           server' \in Effects(r, p, server, cli[p]), waits[p] = None,
           UNCHANGED <<gate, setup, waits, file, creds>>,
           cli' = [cli EXCEPT ![p] = Answered(r, Heard(r, cli[p], server, server'))]
    PROVE  CliInv'
<1> SUFFICES ASSUME NEW c, c = cli[p], NEW d, d = Heard(r, c, server, server'),
                    NEW e, e = Answered(r, d)
             PROVE  CliInv'
  OBVIOUS
<1>1. c \in Runs /\ PlanFits(c) /\ CountsFit(c) /\ HoldsFit(server, c) /\ server \in Servers
      /\ c.exit = "running" /\ r \in Requests
  BY DEF CliInv, CliTypeOK, RunsFit, At
<1>2. server' \in Servers /\ Keeps(server, server')  BY <1>1, EffectKeeps
<1>3. StoresFit'
  <2>1. setup \subseteq Zombies /\ waits \in [Procs -> Zombies \union {None}]  BY DEF CliInv, CliTypeOK
  <2>2. QED  BY <1>2, <2>1, StoresStay
<1>4. Hears(r, c, server', d)  BY <1>1, HeardIs
<1>5. HoldsFit(server', c)  BY <1>1, <1>2, HoldsStay
<1>6. cli' = [cli EXCEPT ![p] = e]  OBVIOUS
<1>7. c.todo # <<>> /\ Has(Plan(c), {r})  BY <1>1, NextOfPlan
<1>12. WaitsFit'  BY <1>2, <1>6, WaitsStay
<1>8. ASSUME d \in Runs
      PROVE  /\ e \in Runs /\ e.todo = d.todo /\ e.exit = d.exit
             /\ e.line = d.line /\ e.account = d.account /\ e.ws = d.ws
             /\ e.made = d.made /\ e.listed = d.listed /\ e.draft = d.draft /\ e.air = d.air
             /\ e.blind = d.blind /\ e.unheard = d.unheard
             /\ r \notin Mutations => e.landed = d.landed
  BY <1>8, HeardFields
<1>9. ASSUME NEW x, Told(c, server', x), d = Onward(x)
      PROVE  CliInv'
  <2>1. Prepares(c, x) /\ x \in Runs /\ x.todo # <<>>  BY <1>7, <1>9 DEF Told, Prepares
  <2>2. /\ d \in Runs /\ d.line = x.line /\ d.account = x.account /\ d.ws = x.ws
        /\ d.made = x.made /\ d.listed = x.listed /\ d.draft = x.draft /\ d.landed = x.landed
    BY <1>9, <2>1, OnwardIs
  <2>3. /\ e \in Runs /\ e.line = c.line /\ e.account = c.account /\ e.ws = c.ws
        /\ e.made = x.made /\ e.listed = x.listed /\ e.draft = c.draft
    BY <1>8, <1>9, <2>1, <2>2 DEF Prepares, Told
  <2>8. /\ Plan(e) = Plan(c) /\ Coherent(e.draft, server')
        /\ e.made # None => server'.owner[e.made] # None
        /\ \A w \in e.listed : server'.owner[w] # None
        /\ e.ws # None => Has(Plan(e), {"workspace"})
    BY <1>5, <1>9, <2>3 DEF HoldsFit, Told, Plan, Asked
  <2>4. PlanFits(e)
    <3>1. PlanFits(d)  BY <1>1, <1>9, <2>1, OnwardPlan
    <3>2. QED  BY <1>8, <2>2, <3>1, SamePlan
  <2>5. CASE r \in Mutations
    <3>1. CountsFit(e)  BY <1>1, <1>9, <2>1, <2>5, HeardCounts DEF Told
    <3>2. c.ws # None => server'.owner[c.ws] = c.account  BY <1>1, <1>7, <2>5, LandsHolds
    <3>3. HoldsFit(server', e)  BY <2>3, <2>8, <3>2 DEF HoldsFit
    <3>4. KeysFit'  BY <1>6, <1>7, <2>3, <2>5, KeysLand
    <3>5. QED  BY <1>2, <1>3, <1>6, <2>3, <2>4, <3>1, <3>3, <3>4, <1>12, RunMoves
  <2>6. CASE r \notin Mutations
    <3>1. CountsFit(d)  BY <1>1, <1>9, <2>1, <2>6, OnwardCounts
    <3>2. CountsFit(e)  BY <1>8, <2>2, <2>6, <3>1, SameCounts
    <3>3. e.landed = c.landed  BY <1>8, <2>1, <2>2, <2>6 DEF Prepares
    <3>4. HoldsFit(server', e)  BY <1>5, <2>3, <2>8, <3>3 DEF HoldsFit
    <3>5. server' = server
      <4>1. Does(server, c, p, r, server')  BY <1>1, EffectIs
      <4>2. QED  BY <1>1, <2>6, <4>1 DEF Does, Requests
    <3>6. KeysFit'  BY <1>6, <2>3, <3>3, <3>5, KeysStay
    <3>7. QED  BY <1>2, <1>3, <1>6, <2>3, <2>4, <3>2, <3>4, <3>6, <1>12, RunMoves
  <2>7. QED  BY <2>5, <2>6
<1>10. ASSUME NEW how \in {"ok", "skipped"}, d = Ended(c, how), r \in {"GET_workspaces", "GET_secret"},
              how = "ok" => r = "GET_workspaces"
       PROVE  CliInv'
  <2>1. r \in Gets /\ r \notin Mutations /\ r \notin Settling
    BY <1>10 DEF Gets, Mutations, Posts, Patches, Deletes, Puts, Settling
  <2>2. /\ d \in Runs /\ d.line = c.line /\ d.account = c.account /\ d.ws = c.ws
        /\ d.made = c.made /\ d.listed = c.listed /\ d.draft = c.draft /\ d.landed = c.landed
    BY <1>1, <1>10, EndedIs
  <2>3. PlanFits(d)  BY <1>1, <1>10, EndedPlan
  <2>4. PlanFits(e)  BY <1>8, <2>2, <2>3, SamePlan
  <2>5. how = "ok" => ~IsMutation(c)
    <3>1. SUFFICES ASSUME r = "GET_workspaces"  PROVE  ~IsMutation(c)  BY <1>10
    <3>2. Asked(c) \in Commands  BY <1>1 DEF Runs, CommandLines, Asked
    <3>3. Has(Plan(c), {"GET_workspaces", "GET_probe"})  BY <1>7, <3>1 DEF Has
    <3>4. ~Has(Plan(c), Mutations)  BY <3>2, <3>3, CommandsPlanned DEF Planned, Plan
    <3>5. QED  BY <3>4 DEF Has, Plan, IsMutation
  <2>6. CountsFit(d)  BY <1>1, <1>10, <2>1, <2>5, NothingFailsLate, EndedCounts
  <2>7. CountsFit(e)  BY <1>8, <2>1, <2>2, <2>6, SameCounts
  <2>8. e \in Runs /\ e.line = c.line /\ e.landed = c.landed  BY <1>8, <2>1, <2>2
  <2>9. HoldsFit(server', e)
    <3>1. /\ e.account = c.account /\ e.ws = c.ws /\ e.made = c.made /\ e.listed = c.listed
          /\ e.draft = c.draft
      BY <1>8, <2>2
    <3>2. Plan(e) = Plan(c)  BY <2>8 DEF Plan, Asked
    <3>3. QED  BY <1>5, <2>8, <3>1, <3>2 DEF HoldsFit
  <2>10. server' = server
    <3>1. Does(server, c, p, r, server')  BY <1>1, EffectIs
    <3>2. QED  BY <2>1, <3>1 DEF Does
  <2>11. KeysFit'  BY <1>6, <2>8, <2>10, KeysStay
  <2>12. QED  BY <1>2, <1>3, <1>6, <2>4, <2>7, <2>8, <2>9, <2>11, <1>12, RunMoves
<1>11. QED  BY <1>4, <1>9, <1>10 DEF Hears

\* An attempt that did not succeed, whatever happens at the API meanwhile, ...
LEMMA MissedMoves ==
    ASSUME CliInv, NEW p \in Procs, At(p, Requests), NEW r, r = Head(cli[p].todo),
           NEW o, NEW hit, NEW g, Missing(r, o, hit, g),
           server' \in Servers, Keeps(server, server'), StoresFit', KeysFit',
           waits' = [waits EXCEPT ![p] = None],
           hit => (cli[p].ws # None => server'.owner[cli[p].ws] = cli[p].account),
           cli' = [cli EXCEPT ![p] = Missed(cli[p], r, o, hit, g)]
    PROVE  CliInv'
<1> SUFFICES ASSUME NEW c, c = cli[p], NEW e, e = Missed(c, r, o, hit, g)
             PROVE  CliInv'
  OBVIOUS
<1>1. c \in Runs /\ PlanFits(c) /\ CountsFit(c) /\ HoldsFit(server, c)
      /\ c.exit = "running" /\ r \in Requests /\ hit \in BOOLEAN /\ g \in Nat
  BY DEF CliInv, CliTypeOK, RunsFit, At, Missing
<1>2. PlanFits(e) /\ CountsFit(e)  BY <1>1, MissedPlan, MissedCounts
<1>3. PICK d : d = Retried(r, c, o)  OBVIOUS
<1>4. /\ e \in Runs /\ e.line = c.line /\ e.account = c.account /\ e.ws = c.ws
      /\ e.made = c.made /\ e.listed = c.listed /\ e.draft = c.draft
      /\ e.landed = c.landed + (IF hit /\ r \in Mutations THEN 1 ELSE 0)
  BY <1>1, <1>3, MissedIs
<1>5. cli' = [cli EXCEPT ![p] = e]  OBVIOUS
<1>6. waits'[p] = None /\ \A q \in Procs \ {p} : waits'[q] = waits[q]  BY DEF CliInv, CliTypeOK
<1>7. WaitsFit'  BY <1>5, <1>6, WaitsStay
<1>8. HoldsFit(server', c)  BY <1>1, HoldsStay
<1>9. HoldsFit(server', e)
  <2>1. CASE hit  BY <1>4, <1>8, <2>1 DEF HoldsFit, Plan, Asked
  <2>2. CASE ~hit
    <3>1. e.landed = c.landed  BY <1>1, <1>4, <2>2 DEF Runs
    <3>2. QED  BY <1>4, <1>8, <3>1 DEF HoldsFit, Plan, Asked
  <2>3. QED  BY <2>1, <2>2
<1>10. QED  BY <1>2, <1>4, <1>5, <1>7, <1>9, RunMoves

\* ... and with what it does there.
LEMMA MissedInv ==
    ASSUME CliInv, NEW p \in Procs, At(p, Requests), NEW r, r = Head(cli[p].todo),
           NEW o, NEW hit, NEW g, Missing(r, o, hit, g),
           IF hit THEN server' \in Effects(r, p, server, cli[p]) ELSE UNCHANGED server,
           waits[p] = None, UNCHANGED <<gate, setup, waits, file, creds>>,
           cli' = [cli EXCEPT ![p] = Missed(cli[p], r, o, hit, g)]
    PROVE  CliInv'
<1> SUFFICES ASSUME NEW c, c = cli[p], NEW e, e = Missed(c, r, o, hit, g)
             PROVE  CliInv'
  OBVIOUS
<1>1. c \in Runs /\ PlanFits(c) /\ CountsFit(c) /\ HoldsFit(server, c) /\ server \in Servers
      /\ c.exit = "running" /\ r \in Requests /\ hit \in BOOLEAN /\ g \in Nat
  BY DEF CliInv, CliTypeOK, RunsFit, At, Missing
<1>2. setup \subseteq Zombies /\ waits \in [Procs -> Zombies \union {None}]  BY DEF CliInv, CliTypeOK
<1>3. PICK d : d = Retried(r, c, o)  OBVIOUS
<1>4. e.line = c.line /\ e.landed = c.landed + (IF hit /\ r \in Mutations THEN 1 ELSE 0)
  BY <1>1, <1>3, MissedIs
<1>5. cli' = [cli EXCEPT ![p] = e] /\ waits' = [waits EXCEPT ![p] = None]  BY <1>2
<1>6. CASE hit
  <2>1. server' \in Effects(r, p, server, c) /\ r \in Mutations  BY <1>6 DEF Missing
  <2>2. server' \in Servers /\ Keeps(server, server')  BY <1>1, <2>1, EffectKeeps
  <2>3. StoresFit'  BY <1>2, <2>2, StoresStay
  <2>5. Has(Plan(c), {r})  BY <1>1, NextOfPlan
  <2>6. c.ws # None => server'.owner[c.ws] = c.account  BY <1>1, <2>1, <2>5, LandsHolds
  <2>8. KeysFit'  BY <1>4, <1>5, <2>1, <2>5, KeysLand
  <2>9. QED  BY <1>5, <2>2, <2>3, <2>6, <2>8, MissedMoves
<1>7. CASE ~hit
  <2>1. server' = server /\ Keeps(server, server')  BY <1>7 DEF Keeps
  <2>2. StoresFit'  BY <1>2, <2>1, StoresStay
  <2>3. e.landed = c.landed  BY <1>1, <1>4, <1>7 DEF Runs
  <2>5. KeysFit'  BY <1>4, <1>5, <2>1, <2>3, KeysStay
  <2>6. QED  BY <1>1, <1>5, <1>7, <2>1, <2>2, <2>5, MissedMoves
<1>8. QED  BY <1>1, <1>6, <1>7

\* What an attempt without success is to its sender.
Silenced(r, c, o) == Counted(r, o, Retried(r, c, o), FALSE)
Unanswered(r, c, o) == Counted(r, o, Retried(r, c, o), TRUE)

\* The forms in which the next step counts it.
LEMMA MissedForms ==
    ASSUME NEW c \in Runs, NEW r, NEW o
    PROVE  /\ \E h \in BOOLEAN : ~h /\ Silenced(r, c, o) = Missed(c, r, o, h, 0)
           /\ \E h \in BOOLEAN : ~h /\ [Silenced(r, c, o) EXCEPT !.air = @ + 1] = Missed(c, r, o, h, 1)
           /\ \E h \in BOOLEAN : h /\ Unanswered(r, c, o) = Missed(c, r, o, h, 0)
<1>1. PICK d : d = Retried(r, c, o)  OBVIOUS
<1>2. d \in Runs  BY <1>1, RetriedIs
<1>3. ASSUME NEW h \in BOOLEAN, NEW k, k = Counted(r, o, d, h)
      PROVE  k = Missed(c, r, o, h, 0)
  <2>1. k \in Runs  BY <1>2, <1>3, CountedIs
  <2>2. k.air + 0 = k.air  BY <2>1 DEF Runs
  <2>3. [k EXCEPT !.air = k.air] = k  BY <2>1 DEF Runs
  <2>4. QED  BY <1>1, <1>3, <2>2, <2>3 DEF Missed
<1>4. PICK no \in BOOLEAN : no = FALSE  OBVIOUS
<1>5. PICK yes \in BOOLEAN : yes = TRUE  OBVIOUS
<1>6. Silenced(r, c, o) = Counted(r, o, d, no)  BY <1>1, <1>4, Zenon DEF Silenced
<1>7. Unanswered(r, c, o) = Counted(r, o, d, yes)  BY <1>1, <1>5, Zenon DEF Unanswered
<1>8. [Silenced(r, c, o) EXCEPT !.air = @ + 1] = Missed(c, r, o, no, 1)  BY <1>1, <1>6 DEF Missed
<1>9. QED  BY <1>3, <1>4, <1>5, <1>6, <1>7, <1>8

\* Whatever becomes of an attempt.
LEMMA AttemptInv ==
    ASSUME CliInv, NEW p \in Procs, NEW o \in Outcomes, Attempt(p, o)
    PROVE  CliInv'
<1> DEFINE effects == Effects(Head(cli[p].todo), p, server, cli[p])
<1>1. PICK r : r = Head(cli[p].todo)  OBVIOUS
<1>2. At(p, Requests) /\ r \in Requests /\ waits[p] = None /\ UNCHANGED <<gate, setup, waits, file, creds>>
  BY <1>1 DEF Attempt, At
<1>3. CASE /\ o = "ok" /\ server' \in effects
           /\ cli' = [cli EXCEPT ![p] = Counted(r, o, Heard(r, cli[p], server, server'), TRUE)]
  <2>1. cli' = [cli EXCEPT ![p] = Answered(r, Heard(r, cli[p], server, server'))]
    BY <1>3 DEF Answered
  <2>2. server' \in Effects(r, p, server, cli[p])  BY <1>1, <1>3
  <2>3. QED  BY <1>1, <1>2, <2>1, <2>2, HeardInv
<1>4. PICK c : c = cli[p]  OBVIOUS
<1>5. c \in Runs  BY <1>4 DEF CliInv, CliTypeOK
<1>6. CASE o # "ok" /\ UNCHANGED server /\ cli' = [cli EXCEPT ![p] = Silenced(r, c, o)]
  <2>1. PICK h \in BOOLEAN : ~h /\ Silenced(r, c, o) = Missed(c, r, o, h, 0)  BY <1>5, MissedForms
  <2>2. Missing(r, o, h, 0)  BY <1>2, <1>6, <2>1 DEF Missing
  <2>3. QED  BY <1>1, <1>2, <1>4, <1>6, <2>1, <2>2, MissedInv
<1>7. CASE /\ o = "timeout" /\ r \in Mutations /\ UNCHANGED server
           /\ cli' = [cli EXCEPT ![p] = [Silenced(r, c, o) EXCEPT !.air = @ + 1]]
  <2>1. PICK h \in BOOLEAN : ~h /\ [Silenced(r, c, o) EXCEPT !.air = @ + 1] = Missed(c, r, o, h, 1)
    BY <1>5, MissedForms
  <2>2. Missing(r, o, h, 1)  BY <1>2, <1>7, <2>1 DEF Missing
  <2>3. QED  BY <1>1, <1>2, <1>4, <1>7, <2>1, <2>2, MissedInv
<1>8. CASE /\ o \in Silent \union {"gateway"} /\ r \in Mutations /\ server' \in effects
           /\ cli' = [cli EXCEPT ![p] = Unanswered(r, c, o)]
  <2>1. PICK h \in BOOLEAN : h /\ Unanswered(r, c, o) = Missed(c, r, o, h, 0)  BY <1>5, MissedForms
  <2>2. Missing(r, o, h, 0)  BY <1>2, <1>8, <2>1 DEF Missing, Silent
  <2>3. server' \in Effects(r, p, server, cli[p])  BY <1>1, <1>8
  <2>4. QED  BY <1>1, <1>2, <1>4, <1>8, <2>1, <2>2, <2>3, MissedInv
<1>9. QED
  <2>1. CASE /\ o = "error" /\ UNCHANGED server
             /\ cli' = [cli EXCEPT ![p] = Silenced(r, c, o)]
    BY <1>6, <2>1
  <2>2. ASSUME o \in Silent \union {"early", "throttled", "gateway"}, UNCHANGED server,
               NEW gone \in {FALSE, o = "timeout" /\ r \in Mutations},
               cli' = [cli EXCEPT ![p] = [Silenced(r, c, o) EXCEPT !.air = IF gone THEN @ + 1 ELSE @]]
        PROVE  CliInv'
    <3>1. CASE gone  BY <1>7, <2>2, <3>1
    <3>2. CASE ~gone
      <4>1. [Silenced(r, c, o) EXCEPT !.air = Silenced(r, c, o).air] = Silenced(r, c, o)
        <5>1. PICK h \in BOOLEAN : Silenced(r, c, o) = Missed(c, r, o, h, 0)  BY <1>5, MissedForms
        <5>2. PICK k : k = Missed(c, r, o, h, 0)  OBVIOUS
        <5>3. k \in Runs  BY <1>5, <5>2, MissedIs
        <5>4. [k EXCEPT !.air = k.air] = k  BY <5>3 DEF Runs
        <5>5. QED  BY <5>1, <5>2, <5>4
      <4>2. QED  BY <1>6, <2>2, <3>2, <4>1 DEF Silent
    <3>3. QED  BY <3>1, <3>2
  <2>3. QED  BY <1>1, <1>3, <1>4, <1>8, <2>1, <2>2, Zenon DEF Attempt, Silenced, Unanswered

\* An attempt in the air is one of the change that the command makes.
LEMMA StragglerIs ==
    ASSUME NEW c \in Runs, CountsFit(c), c.air > 0
    PROVE  MutationOf(c) \in Mutations /\ Has(Plan(c), {MutationOf(c)})
<1>1. IsMutation(c)  BY DEF CountsFit
<1>2. \E r \in Mutations : \E i \in DOMAIN StepsOf[Asked(c)] : StepsOf[Asked(c)][i] = r
  BY <1>1 DEF IsMutation
<1>3. MutationOf(c) \in Mutations
      /\ \E i \in DOMAIN StepsOf[Asked(c)] : StepsOf[Asked(c)][i] = MutationOf(c)
  BY <1>2 DEF MutationOf
<1>4. QED  BY <1>3 DEF Has, Plan

\* It lands late, or never.
LEMMA StraggleInv ==
    ASSUME CliInv, NEW p \in Procs, Straggle(p)
    PROVE  CliInv'
<1> SUFFICES ASSUME NEW c, c = cli[p], NEW r, r = MutationOf(c)  PROVE  CliInv'
  OBVIOUS
<1>1. c \in Runs /\ PlanFits(c) /\ CountsFit(c) /\ HoldsFit(server, c) /\ server \in Servers
      /\ c.air > 0 /\ UNCHANGED <<gate, waits, file, creds>>
  BY DEF CliInv, CliTypeOK, RunsFit, Straggle
<1>2. r \in Mutations /\ Has(Plan(c), {r})  BY <1>1, StragglerIs
<1>3. r \in Requests  BY <1>2 DEF Requests
<1>4. c.air - 1 \in Nat /\ c.landed + 1 \in Nat /\ c.landed \in Nat  BY <1>1 DEF Runs
<1>5. ASSUME NEW l \in {c.landed, c.landed + 1}, NEW e, e = [c EXCEPT !.air = c.air - 1, !.landed = l]
      PROVE  /\ e \in Runs /\ e.line = c.line /\ e.account = c.account /\ e.ws = c.ws
             /\ e.made = c.made /\ e.listed = c.listed /\ e.draft = c.draft /\ e.landed = l
             /\ PlanFits(e) /\ CountsFit(e) /\ e.todo = c.todo /\ e.exit = c.exit
  <2>1. /\ e \in Runs /\ e.line = c.line /\ e.account = c.account /\ e.ws = c.ws
        /\ e.made = c.made /\ e.listed = c.listed /\ e.draft = c.draft /\ e.landed = l
        /\ e.air = c.air - 1 /\ e.todo = c.todo /\ e.exit = c.exit
        /\ e.blind = c.blind /\ e.unheard = c.unheard
    BY <1>1, <1>4, <1>5 DEF Runs
  <2>2. PlanFits(e)  BY <1>1, <2>1, SamePlan
  <2>3. Plan(e) = Plan(c) /\ (IsMutation(e) <=> IsMutation(c))  BY <2>1 DEF Plan, IsMutation, Asked
  <2>4. /\ IsMutation(c) /\ c.account # None /\ Only(c.todo, Mutations \union Settling)
        /\ c.unheard > 0
        /\ IsMutation(c) /\ c.landed = 0 /\ c.exit \in {"running", "ok"} => Has(c.todo, Mutations)
        /\ Has(Plan(c), Posts \union Patches) =>
             c.landed + c.air <= c.blind + (IF Has(c.todo, Mutations) THEN 0 ELSE 1)
    BY <1>1 DEF CountsFit
  <2>5. c.air \in Nat /\ c.blind \in Nat /\ c.unheard \in Nat  BY <1>1 DEF Runs
  <2>6. l + (c.air - 1) <= c.landed + c.air /\ (l = 0 => c.landed = 0)  BY <1>4, <1>5, <2>5
  <2>7. Has(Plan(e), Posts \union Patches) =>
          e.landed + e.air <= e.blind + (IF Has(e.todo, Mutations) THEN 0 ELSE 1)
    <3>1. PICK n \in {0, 1} : n = IF Has(c.todo, Mutations) THEN 0 ELSE 1  OBVIOUS
    <3>2. Has(Plan(c), Posts \union Patches) => c.landed + c.air <= c.blind + n  BY <2>4, <3>1
    <3>3. Has(Plan(c), Posts \union Patches) => l + (c.air - 1) <= c.blind + n
      BY <1>4, <1>5, <2>5, <2>6, <3>2
    <3>4. QED  BY <2>1, <2>3, <3>1, <3>3
  <2>8. e.unheard > 0 /\ e.unheard # 0  BY <2>1, <2>4, <2>5
  <2>9. CountsFit(e)  BY <2>1, <2>3, <2>4, <2>6, <2>7, <2>8 DEF CountsFit
  <2>10. QED  BY <2>1, <2>2, <2>9
<1>9. setup' \subseteq Zombies /\ waits' \in [Procs -> Zombies \union {None}]
  BY <1>1 DEF Straggle, Born, CliInv, CliTypeOK
<1>10. ASSUME NEW e, cli' = [cli EXCEPT ![p] = e], Keeps(server, server'),
              e.todo = c.todo, e.exit = c.exit, e.ws = c.ws, e.account = c.account
       PROVE  WaitsFit'
  <2>1. ASSUME waits'[p] # None
        PROVE  /\ e.exit = "running" /\ e.todo # <<>> /\ Head(e.todo) = "POST_zombie"
               /\ Entered(server', e)
    <3>1. At(p, {"POST_zombie"}) /\ Entered(server, c)  BY <1>1, <2>1 DEF CliInv, WaitsFit
    <3>2. Entered(server', c)  BY <1>10, <3>1, EnteredStays
    <3>3. QED  BY <1>10, <3>1, <3>2 DEF At, Entered
  <2>2. QED  BY <1>1, <1>10, <2>1, WaitsStay
<1>6. CASE server' \in Effects(r, p, server, c)
           /\ cli' = [cli EXCEPT ![p].air = @ - 1, ![p].landed = @ + 1]
  <2>1. PICK e : e = [c EXCEPT !.air = c.air - 1, !.landed = c.landed + 1]  OBVIOUS
  <2>2. /\ e \in Runs /\ e.line = c.line /\ e.account = c.account /\ e.ws = c.ws
        /\ e.made = c.made /\ e.listed = c.listed /\ e.draft = c.draft
        /\ PlanFits(e) /\ CountsFit(e) /\ e.todo = c.todo /\ e.exit = c.exit
    BY <1>5, <2>1
  <2>3. cli' = [cli EXCEPT ![p] = e]  BY <1>1, <1>6, <2>1 DEF CliInv, CliTypeOK, Runs
  <2>4. server' \in Servers /\ Keeps(server, server')  BY <1>1, <1>3, <1>6, EffectKeeps
  <2>5. StoresFit'  BY <1>1, <1>9, <2>4, StoresStay
  <2>6. HoldsFit(server', c)  BY <1>1, <2>4, HoldsStay
  <2>7. c.ws # None => server'.owner[c.ws] = c.account  BY <1>1, <1>2, <1>6, LandsHolds
  <2>8. HoldsFit(server', e)  BY <2>2, <2>6, <2>7 DEF HoldsFit, Plan, Asked
  <2>9. KeysFit'  BY <1>2, <1>6, <2>2, <2>3, KeysLand
  <2>11. WaitsFit'  BY <1>10, <2>2, <2>3, <2>4
  <2>10. QED  BY <2>2, <2>3, <2>4, <2>5, <2>8, <2>9, <2>11, RunMoves
<1>7. CASE UNCHANGED server /\ cli' = [cli EXCEPT ![p].air = @ - 1]
  <2>1. PICK e : e = [c EXCEPT !.air = c.air - 1, !.landed = c.landed]  OBVIOUS
  <2>2. /\ e \in Runs /\ e.line = c.line /\ e.account = c.account /\ e.ws = c.ws
        /\ e.made = c.made /\ e.listed = c.listed /\ e.draft = c.draft /\ e.landed = c.landed
        /\ PlanFits(e) /\ CountsFit(e) /\ e.todo = c.todo /\ e.exit = c.exit
    BY <1>5, <2>1
  <2>3. e = [c EXCEPT !.air = c.air - 1]  BY <1>1, <2>1 DEF Runs
  <2>4. cli' = [cli EXCEPT ![p] = e]  BY <1>7, <2>3
  <2>5. server' = server /\ server' \in Servers /\ Keeps(server, server')  BY <1>1, <1>7 DEF Keeps
  <2>6. StoresFit'  BY <1>1, <1>9, <2>5, StoresStay
  <2>7. HoldsFit(server', e)  BY <1>1, <2>2, <2>5 DEF HoldsFit, Plan, Asked
  <2>8. KeysFit'  BY <2>2, <2>4, <2>5, KeysStay
  <2>10. WaitsFit'  BY <1>10, <2>2, <2>4, <2>5
  <2>9. QED  BY <2>2, <2>4, <2>5, <2>6, <2>7, <2>8, <2>10, RunMoves
<1>8. QED  BY <1>6, <1>7 DEF Straggle

(***************************************************************************)
(* Installs.                                                               *)
(***************************************************************************)
\* What a run that installs knows of itself.
LEMMA Installer ==
    ASSUME CliInv, NEW p \in Procs, At(p, {"POST_zombie"}), NEW c, c = cli[p]
    PROVE  /\ c \in Runs /\ PlanFits(c) /\ CountsFit(c) /\ HoldsFit(server, c)
           /\ c.exit = "running" /\ c.todo # <<>> /\ Head(c.todo) = "POST_zombie"
           /\ "POST_zombie" \in Mutations /\ "POST_zombie" \in Requests /\ At(p, Requests)
           /\ Asked(c) # "agent_add"
<1>1. /\ c \in Runs /\ PlanFits(c) /\ CountsFit(c) /\ HoldsFit(server, c)
      /\ c.exit = "running" /\ c.todo # <<>> /\ Head(c.todo) = "POST_zombie"
  BY DEF CliInv, CliTypeOK, RunsFit, At
<1>2. "POST_zombie" \in Mutations /\ "POST_zombie" \in Requests  BY DEF Mutations, Posts, Requests
<1>3. At(p, Requests)  BY <1>2 DEF At
<1>4. ASSUME Asked(c) = "agent_add"  PROVE  FALSE
  <2>1. Planned(Asked(c), Plan(c))
    BY <1>1, CommandsPlanned DEF Runs, CommandLines, Asked, Plan
  <2>2. Has(Plan(c), {"POST_key"})  BY <1>4, <2>1 DEF Planned
  <2>3. {"POST_key"} \subseteq Mutations  BY DEF Mutations, Posts
  <2>4. Has(Plan(c), {"POST_zombie"})  BY <1>1, NextOfPlan
  <2>5. "POST_zombie" \in {"POST_key"}  BY <1>1, <1>2, <2>2, <2>3, <2>4, OneMutation
  <2>6. QED  BY <2>5
<1>5. QED  BY <1>1, <1>2, <1>3, <1>4

\* The row is committed.
LEMMA InsertZombieInv ==
    ASSUME CliInv, NEW p \in Procs, InsertZombie(p)
    PROVE  CliInv'
<1> DEFINE r == "POST_zombie"
<1> SUFFICES ASSUME NEW c, c = cli[p]  PROVE  CliInv'
  OBVIOUS
<1>1. At(p, {r}) /\ server' \in Effects(r, p, server, c) /\ UNCHANGED <<gate, file, creds, cli>>
  BY DEF InsertZombie
<1>2. c \in Runs /\ PlanFits(c) /\ CountsFit(c) /\ HoldsFit(server, c) /\ r \in Requests
      /\ server \in Servers /\ c.exit = "running" /\ c.todo # <<>> /\ Head(c.todo) = r
  BY <1>1, Installer DEF CliInv, CliTypeOK
<1>3. server' \in Servers /\ Keeps(server, server')  BY <1>1, <1>2, EffectKeeps
<1>4. PICK z \in Zombies : setup' = setup \union {z} /\ waits' = [waits EXCEPT ![p] = z]
  BY DEF InsertZombie, Born
<1>5. setup' \subseteq Zombies /\ waits' \in [Procs -> Zombies \union {None}]
      /\ \A q \in Procs \ {p} : waits'[q] = waits[q]
  BY <1>4 DEF CliInv, CliTypeOK
<1>6. StoresFit'  BY <1>1, <1>3, <1>5, StoresStay
<1>7. cli' = [cli EXCEPT ![p] = c]  BY <1>1 DEF CliInv, CliTypeOK
<1>8. Does(server, c, p, r, server') /\ Writes(server, c, p, r, server')
  BY <1>1, <1>2, EffectIs, EffectRows
<1>9. Entered(server, c)  BY <1>8 DEF Does, OfAccount, Gets
<1>10. Entered(server', c)  BY <1>1, <1>3, <1>9, EnteredStays
<1>11. WaitsFit'  BY <1>2, <1>3, <1>5, <1>7, <1>10, WaitsStay
<1>12. KeysFit'
  <2>1. Lasts(server, server')  BY <1>8 DEF Writes
  <2>2. QED  BY <1>7, <2>1, KeysStay
<1>13. HoldsFit(server', c)  BY <1>2, <1>3, HoldsStay
<1>14. QED  BY <1>2, <1>3, <1>6, <1>7, <1>11, <1>12, <1>13, RunMoves

\* An answer that the sender of an install takes for a failure.
LEMMA InstallMissed ==
    ASSUME CliInv, NEW p \in Procs, At(p, {"POST_zombie"}), Entered(server, cli[p]),
           NEW o \in Outcomes \ {"ok"}, NEW hit \in BOOLEAN, hit => o \in Silent \union {"gateway"},
           server' \in Servers, server'.owner = server.owner, server' = server \/ Lasts(server, server'),
           setup' \subseteq Zombies, waits' = [waits EXCEPT ![p] = None], UNCHANGED <<gate, file, creds>>,
           cli' = [cli EXCEPT ![p] = Missed(cli[p], "POST_zombie", o, hit, 0)]
    PROVE  CliInv'
<1> DEFINE r == "POST_zombie"
<1> SUFFICES ASSUME NEW c, c = cli[p], NEW e, e = Missed(c, r, o, hit, 0)
             PROVE  CliInv'
  OBVIOUS
<1>1. c \in Runs /\ r \in Mutations /\ r \in Requests /\ At(p, Requests) /\ Head(c.todo) = r
      /\ Asked(c) # "agent_add"
  BY Installer
<1>2. Missing(r, o, hit, 0)  BY <1>1 DEF Missing
<1>3. waits' \in [Procs -> Zombies \union {None}] /\ Keeps(server, server')
  BY DEF CliInv, CliTypeOK, Keeps
<1>4. StoresFit'  BY <1>3, StoresStay
<1>5. PICK d : d = Retried(r, c, o)  OBVIOUS
<1>6. e.line = c.line  BY <1>1, <1>5, MissedIs
<1>7. KeysFit'  BY <1>1, <1>6, KeysStay
<1>8. c.ws # None => server'.owner[c.ws] = c.account  BY DEF Entered
<1>9. QED  BY <1>1, <1>2, <1>3, <1>4, <1>7, <1>8, MissedMoves

\* The sender waits no more.
LEMMA StopWaitingInv ==
    ASSUME CliInv, NEW p \in Procs, NEW o \in Outcomes, StopWaiting(p, o)
    PROVE  CliInv'
<1> DEFINE r == "POST_zombie"
<1>1. PICK c : c = cli[p]  OBVIOUS
<1>2. At(p, {r}) /\ Entered(server, c)  BY <1>1 DEF StopWaiting, CliInv, WaitsFit
<1>3. c \in Runs /\ server \in Servers /\ setup \subseteq Zombies  BY <1>1 DEF CliInv, CliTypeOK
<1>4. o \in Silent \union {"gateway"} /\ o # "ok"  BY DEF StopWaiting, Silent
<1>5. PICK h \in BOOLEAN : h /\ Unanswered(r, c, o) = Missed(c, r, o, h, 0)  BY <1>3, MissedForms
<1>6. cli' = [cli EXCEPT ![p] = Unanswered(r, c, o)]
      /\ waits' = [waits EXCEPT ![p] = None] /\ UNCHANGED <<server, gate, setup, file, creds>>
  BY <1>1, Zenon DEF StopWaiting, Unanswered
<1>7. cli' = [cli EXCEPT ![p] = Missed(c, r, o, h, 0)]  BY <1>5, <1>6
<1>8. QED  BY <1>1, <1>2, <1>3, <1>4, <1>6, <1>7, InstallMissed

\* The sender is told that its zombie was created.
LEMMA CreatedInv ==
    ASSUME CliInv, NEW p \in Procs, At(p, {"POST_zombie"}), Entered(server, cli[p]),
           server' = server, setup' \subseteq Zombies, waits' = [waits EXCEPT ![p] = None],
           UNCHANGED <<gate, file, creds>>,
           cli' = [cli EXCEPT ![p] = Answered("POST_zombie", Onward(cli[p]))]
    PROVE  CliInv'
<1> DEFINE r == "POST_zombie"
<1> SUFFICES ASSUME NEW c, c = cli[p], NEW d, d = Onward(c), NEW e, e = Answered(r, d)
             PROVE  CliInv'
  OBVIOUS
<1>1. /\ c \in Runs /\ PlanFits(c) /\ CountsFit(c) /\ HoldsFit(server, c)
      /\ c.exit = "running" /\ c.todo # <<>> /\ Head(c.todo) = r
      /\ r \in Mutations /\ Asked(c) # "agent_add"
  BY Installer
<1>2. Prepares(c, c)  BY <1>1, PreparesNothing
<1>3. /\ d \in Runs /\ d.line = c.line /\ d.account = c.account /\ d.ws = c.ws
      /\ d.made = c.made /\ d.listed = c.listed /\ d.draft = c.draft
  BY <1>1, OnwardIs
<1>4. /\ e \in Runs /\ e.todo = d.todo /\ e.exit = d.exit
      /\ e.line = c.line /\ e.account = c.account /\ e.ws = c.ws
      /\ e.made = c.made /\ e.listed = c.listed /\ e.draft = c.draft
  BY <1>3, HeardFields
<1>5. PlanFits(e)
  <2>1. PlanFits(d)  BY <1>1, <1>2, OnwardPlan
  <2>2. QED  BY <1>3, <1>4, <2>1, SamePlan
<1>6. CountsFit(e)  BY <1>1, <1>2, HeardCounts
<1>7. server \in Servers /\ Keeps(server, server') /\ waits' \in [Procs -> Zombies \union {None}]
      /\ waits'[p] = None /\ \A q \in Procs \ {p} : waits'[q] = waits[q]
  BY DEF CliInv, CliTypeOK, Keeps
<1>8. StoresFit'  BY <1>7, StoresStay
<1>9. cli' = [cli EXCEPT ![p] = e]  OBVIOUS
<1>10. KeysFit'  BY <1>1, <1>4, <1>9, KeysStay
<1>11. WaitsFit'  BY <1>7, <1>9, WaitsStay
<1>12. c.ws # None => server.owner[c.ws] = c.account  BY DEF Entered
<1>13. HoldsFit(server', e)  BY <1>1, <1>4, <1>12 DEF HoldsFit, Plan, Asked
<1>14. QED  BY <1>4, <1>5, <1>6, <1>7, <1>8, <1>9, <1>10, <1>11, <1>13, RunMoves

\* The 500 that leaves a row counts as the answer of a gateway does.
LEMMA KeptIs ==
    ASSUME NEW c \in Runs
    PROVE  InstallAnswered(c, "kept") = Unanswered("POST_zombie", c, "gateway")
<1> DEFINE r == "POST_zombie"
<1>1. Retried(r, c, "error") = Ended(c, "failed")
  BY DEF Retried, Retries, Classified, Refused
<1>2. r \in Posts /\ r \in Mutations  BY DEF Posts, Mutations
<1>3. Retried(r, c, "gateway") = Ended(c, "failed")
  <2>1. ~Retries(MethodOf(r), "gateway", c.try)  BY <1>2, GatewayEnds
  <2>2. QED  BY <2>1 DEF Retried, Refused
<1>4. PICK d : d = Ended(c, "failed")  OBVIOUS
<1>5. d \in Runs  BY <1>4, EndedIs
<1>6. PICK n \in Nat : n = d.unheard + 1  BY <1>5 DEF Runs
<1>7. PICK l \in Nat : l = d.landed + 1  BY <1>5 DEF Runs
<1>8. Unanswered(r, c, "gateway") = [d EXCEPT !.landed = l, !.blind = d.blind, !.unheard = n]
  BY <1>2, <1>3, <1>4, <1>6, <1>7 DEF Unanswered, Counted, Silent
<1>9. InstallAnswered(c, "kept") =
        [[d EXCEPT !.landed = l, !.blind = d.blind, !.unheard = d.unheard] EXCEPT !.unheard = @ + 1]
  BY <1>1, <1>2, <1>4, <1>7 DEF InstallAnswered, Counted, Silent
<1>10. QED  BY <1>5, <1>6, <1>7, <1>8, <1>9 DEF Runs

\* An install ends, with its sender waiting or not.
LEMMA InstallEndsInv ==
    ASSUME CliInv, NEW z \in Zombies, NEW how \in {"created", "withdrawn", "kept"}, InstallEnds(z, how)
    PROVE  CliInv'
<1> DEFINE r == "POST_zombie"
<1>1. server \in Servers /\ setup' \subseteq Zombies /\ UNCHANGED <<gate, file, creds>>
  BY DEF CliInv, CliTypeOK, InstallEnds
<1>2. /\ server' \in Servers /\ server'.owner = server.owner /\ Lasts(server, server')
      /\ how # "withdrawn" => server' = server
  <2>1. CASE server' = server  BY <1>1, <2>1 DEF Lasts
  <2>2. CASE how = "withdrawn" /\ server' = RowDeleted(server, z)  BY <1>1, <2>2, DeletedLasts
  <2>3. QED  BY <2>1, <2>2 DEF InstallEnds, Withdrawn
<1>3. CASE UNCHANGED <<waits, cli>>
  <2>1. gate' \subseteq Zombies  BY <1>1 DEF CliInv, CliTypeOK
  <2>2. QED  BY <1>1, <1>2, <1>3, <2>1, RowsMove
<1>4. ASSUME NEW p \in Procs, waits[p] = z, waits' = [waits EXCEPT ![p] = None],
             cli' = [cli EXCEPT ![p] = InstallAnswered(cli[p], how)]
      PROVE  CliInv'
  <2>1. PICK c : c = cli[p]  OBVIOUS
  <2>2. z # None  BY CliAssumption
  <2>3. At(p, {r}) /\ Entered(server, cli[p]) /\ c \in Runs
    BY <1>4, <2>1, <2>2 DEF CliInv, WaitsFit, CliTypeOK
  <2>4. CASE how = "created"
    <3>1. InstallAnswered(c, how) = Answered(r, Onward(c))  BY <2>4 DEF InstallAnswered, Answered
    <3>2. QED  BY <1>1, <1>2, <1>4, <2>1, <2>3, <2>4, <3>1, CreatedInv
  <2>5. CASE how = "withdrawn"
    <3>1. InstallAnswered(c, how) = Silenced(r, c, "error")  BY <2>5 DEF InstallAnswered, Silenced
    <3>2. PICK h \in BOOLEAN : ~h /\ Silenced(r, c, "error") = Missed(c, r, "error", h, 0)
      BY <2>3, MissedForms
    <3>3. "error" \in Outcomes \ {"ok"}  BY DEF Outcomes
    <3>4. cli' = [cli EXCEPT ![p] = Missed(cli[p], r, "error", h, 0)]  BY <1>4, <2>1, <3>1, <3>2
    <3>5. QED  BY <1>1, <1>2, <1>4, <2>3, <3>2, <3>3, <3>4, InstallMissed
  <2>6. CASE how = "kept"
    <3>1. InstallAnswered(c, how) = Unanswered(r, c, "gateway")  BY <2>3, <2>6, KeptIs
    <3>2. PICK h \in BOOLEAN : h /\ Unanswered(r, c, "gateway") = Missed(c, r, "gateway", h, 0)
      BY <2>3, MissedForms
    <3>3. "gateway" \in Outcomes \ {"ok"}  BY DEF Outcomes
    <3>4. cli' = [cli EXCEPT ![p] = Missed(cli[p], r, "gateway", h, 0)]  BY <1>4, <2>1, <3>1, <3>2
    <3>5. QED  BY <1>1, <1>2, <1>4, <2>3, <3>2, <3>3, <3>4, InstallMissed
  <2>7. QED  BY <2>4, <2>5, <2>6
<1>5. QED  BY <1>3, <1>4 DEF InstallEnds

(***************************************************************************)
(* All steps, and what follows.                                            *)
(***************************************************************************)
\* A run that was just started has all of its command to do.
LEMMA StartedFits ==
    ASSUME NEW line \in CommandLines, line.cmd = "login" => line.user # None,
           NEW c, c = Started(line), NEW s
    PROVE  c \in Runs /\ c.line = line /\ c.landed = 0
           /\ PlanFits(c) /\ CountsFit(c) /\ HoldsFit(s, c)
<1>1. Planned(line.cmd, StepsOf[line.cmd])  BY CommandsPlanned DEF CommandLines
<1>2. EmptyFile \in Files /\ Coherent(EmptyFile, s)  BY DEF EmptyFile, Files, Coherent
<1>3. 1 \in 1..MaxAttempts  BY RetryAssumption DEF HardCap
<1>4. /\ c.line = line /\ c.todo = StepsOf[line.cmd] /\ c.exit = "running" /\ c.account = None
      /\ c.ws = None /\ c.made = None /\ c.listed = {} /\ c.draft = EmptyFile
      /\ c.blind = 0 /\ c.unheard = 0 /\ c.landed = 0 /\ c.air = 0
  BY DEF Started
<1>5. c \in Runs  BY <1>1, <1>2, <1>3 DEF Started, Runs, Planned, Ahead
<1>6. Plan(c) = c.todo /\ Asked(c) = line.cmd  BY <1>4 DEF Plan, Asked
<1>7. PlanFits(c)  BY <1>1, <1>4, <1>6 DEF PlanFits, Planned, Has
<1>8. IsMutation(c) <=> Has(c.todo, Mutations)  BY <1>4, <1>6 DEF IsMutation, Has
<1>9. Has(c.todo, Posts \union Patches) => Has(c.todo, Mutations)  BY DEF Has, Mutations
<1>10. CountsFit(c)  BY <1>4, <1>6, <1>8, <1>9 DEF CountsFit
<1>11. HoldsFit(s, c)  BY <1>2, <1>4 DEF HoldsFit
<1>12. QED  BY <1>4, <1>5, <1>7, <1>10, <1>11

\* The invariant holds when the runs start ...
LEMMA CliStart == Init => CliInv
<1> SUFFICES ASSUME Init  PROVE  CliInv
  OBVIOUS
<1>1. PICK start \in Starts : cli = [p \in Procs |-> Started(start[p])]  BY DEF Init
<1>2. \A p \in Procs : start[p] \in CommandLines /\ (start[p].cmd = "login" => start[p].user # None)
  BY CliAssumption
<1>3. ASSUME NEW p \in Procs
      PROVE  cli[p] \in Runs /\ cli[p].landed = 0
             /\ PlanFits(cli[p]) /\ CountsFit(cli[p]) /\ HoldsFit(server, cli[p])
  <2>1. cli[p] = Started(start[p])  BY <1>1
  <2>2. QED  BY <1>2, <2>1, StartedFits
<1>4. cli \in [Procs -> Runs]  BY <1>1, <1>3
<1>5. CliTypeOK /\ FileIsConsistent /\ WaitsFit
  BY <1>4, CliAssumption DEF Init, CliTypeOK, FileIsConsistent, WaitsFit
<1>6. KeysFit  BY <1>3 DEF KeysFit
<1>7. QED  BY <1>3, <1>5, <1>6 DEF CliInv, RunsFit

\* ... and every step keeps it.
LEMMA CliStep == CliInv /\ [Next]_vars => CliInv'
<1> SUFFICES ASSUME CliInv, [Next]_vars  PROVE  CliInv'
  OBVIOUS
<1>1. ASSUME NEW p \in Procs, LocalStep(p)
      PROVE  CliInv'
  <2>1. CASE Guard(p)             BY <2>1, GuardInv
  <2>2. CASE ResolveWorkspace(p)  BY <2>2, ResolveWorkspaceInv
  <2>3. CASE ResolveToken(p)      BY <2>3, ResolveTokenInv
  <2>4. CASE LoadFile(p)          BY <2>4, LoadFileInv
  <2>5. CASE TruncateFile(p)      BY <2>5, TruncateFileInv
  <2>6. CASE WriteFile(p)         BY <2>6, WriteFileInv
  <2>7. CASE Look(p)              BY <2>7, LookInv
  <2>8. CASE SignIn(p)            BY <2>8, SignInInv
  <2>9. CASE SignOut(p)           BY <2>9, SignOutInv
  <2>10. QED  BY <1>1, <2>1, <2>2, <2>3, <2>4, <2>5, <2>6, <2>7, <2>8, <2>9 DEF LocalStep
<1>2. ASSUME NEW p \in Procs, NEW o \in Outcomes, Attempt(p, o) \/ StopWaiting(p, o)
      PROVE  CliInv'
  BY <1>2, AttemptInv, StopWaitingInv
<1>3. ASSUME NEW p \in Procs, InsertZombie(p) \/ Straggle(p) \/ Interrupt(p)
      PROVE  CliInv'
  BY <1>3, InsertZombieInv, StraggleInv, InterruptInv
<1>7. ASSUME NEW z \in Zombies, NEW how \in {"created", "withdrawn", "kept"}, InstallEnds(z, how)
      PROVE  CliInv'
  BY <1>7, InstallEndsInv
<1>4. ASSUME NEW z \in Zombies, LoadZombie(z) \/ PauseZombie(z)
      PROVE  CliInv'
  BY <1>4, GateInv
<1>5. CASE UNCHANGED vars
  BY <1>5 DEF vars, CliInv, CliTypeOK, RunsFit, KeysFit, NoDeleters, WaitsFit, At, FileIsConsistent
<1>6. QED  BY <1>1, <1>2, <1>3, <1>4, <1>5, <1>7 DEF Next, Step

\* The invariant holds throughout.
LEMMA CliAlways == Spec => []CliInv
BY CliStart, CliStep, PTL DEF Spec

\* A run that reports success of a command that changes the API changed it.
LEMMA SuccessLanded ==
    ASSUME CliInv, NEW p \in Procs, cli[p].exit = "ok", IsMutation(cli[p])
    PROVE  cli[p].landed > 0
<1> DEFINE c == cli[p]
<1>1. c \in Runs /\ PlanFits(c) /\ CountsFit(c)  BY DEF CliInv, CliTypeOK, RunsFit
<1>2. c.todo = <<>> /\ DOMAIN <<>> = {}  BY <1>1 DEF PlanFits
<1>3. ~Has(c.todo, Mutations)  BY <1>2 DEF Has
<1>4. c.landed \in Nat /\ c.landed # 0  BY <1>1, <1>3 DEF CountsFit, Runs
<1>5. QED  BY <1>4

\* The exit code of a command tells what became of it at the API, for any
\* mix of commands, lost answers, stragglers and installs that fail half-way.
THEOREM ExitCodesTellTheTruth == Spec => []ExitCodesAreTrue
<1>1. CliInv => ExitCodesAreTrue
  <2> SUFFICES ASSUME CliInv  PROVE  ExitCodesAreTrue
    OBVIOUS
  <2>1. SuccessIsReal  BY SuccessLanded DEF SuccessIsReal
  <2>2. FailureIsReal
    <3> SUFFICES ASSUME NEW p \in Procs, cli[p].exit \in {"failed", "skipped"}, cli[p].landed > 0
                 PROVE  cli[p].unheard > 0
      BY DEF FailureIsReal
    <3>1. cli[p] \in Runs /\ CountsFit(cli[p])  BY DEF CliInv, CliTypeOK, RunsFit
    <3>2. cli[p].unheard \in Nat /\ cli[p].unheard # 0  BY <3>1 DEF CountsFit, Runs
    <3>3. QED  BY <3>2
  <2>3. QED  BY <2>1, <2>2 DEF ExitCodesAreTrue
<1>2. QED  BY <1>1, CliAlways, PTL

\* workspaces.json stays coherent, nothing is replayed against the retry policy
\* or done in a stranger's workspace, and the printed key is in force.
THEOREM CommandsKeepTheirWord == Spec => []CliInvariant
<1>1. CliInv => CliInvariant
  <2> SUFFICES ASSUME CliInv  PROVE  CliInvariant
    OBVIOUS
  <2>1. ReplayedOnlyWhenSilent
    <3> SUFFICES ASSUME NEW p \in Procs,
                        \E i \in DOMAIN StepsOf[Asked(cli[p])] :
                           StepsOf[Asked(cli[p])][i] \in Posts \union Patches
                 PROVE  cli[p].landed <= 1 + cli[p].blind
      BY DEF ReplayedOnlyWhenSilent
    <3>1. cli[p] \in Runs /\ CountsFit(cli[p])  BY DEF CliInv, CliTypeOK, RunsFit
    <3>2. Has(Plan(cli[p]), Posts \union Patches)  BY DEF Has, Plan
    <3>3. cli[p].landed + cli[p].air <= cli[p].blind + 1
      BY <3>1, <3>2 DEF CountsFit, Runs
    <3>4. QED  BY <3>1, <3>3 DEF Runs
  <2>2. LandsAtHome  BY DEF LandsAtHome, CliInv, RunsFit, HoldsFit
  <2>3. PrintedKeyWorks
    <3> SUFFICES ASSUME NEW p \in Procs, Asked(cli[p]) = "agent_add", cli[p].exit = "ok", NoDeleters,
                        Exists(server, cli[p].line.zombie)
                 PROVE  server.key[cli[p].line.zombie] = p
      BY DEF PrintedKeyWorks, NoDeleters
    <3>1. cli[p] \in Runs  BY DEF CliInv, CliTypeOK
    <3>2. Asked(cli[p]) \in Commands  BY <3>1 DEF Runs, CommandLines, Asked
    <3>3. Has(Plan(cli[p]), {"POST_key"})  BY <3>2, CommandsPlanned DEF Planned, Plan
    <3>4. IsMutation(cli[p])  BY <3>3 DEF Has, Plan, IsMutation, Mutations, Posts
    <3>5. cli[p].landed > 0  BY <3>4, SuccessLanded
    <3>6. QED  BY <3>5 DEF CliInv, KeysFit
  <2>4. QED  BY <2>1, <2>2, <2>3 DEF CliInvariant, CliInv
<1>2. QED  BY <1>1, CliAlways, PTL

(***************************************************************************)
(* The life of zombies.                                                    *)
(***************************************************************************)
\* The stage of a zombie, before and after a step.
LEMMA StageIs ==
    ASSUME server \in Servers, server' \in Servers, NEW z \in Zombies
    PROVE  /\ StageOf[z] = "unborn" <=> server.status[z] = "unborn"
           /\ StageOf[z] = "killed" <=> server.status[z] = "killed"
           /\ StageOf[z] = "gone" <=> server.status[z] = "gone"
           /\ StageOf[z] = "living" <=> server.status[z] \in Living
           /\ Lifecycle!Existing(z) <=> Exists(server, z)
           /\ StageOf'[z] = "unborn" <=> server'.status[z] = "unborn"
           /\ StageOf'[z] = "killed" <=> server'.status[z] = "killed"
           /\ StageOf'[z] = "gone" <=> server'.status[z] = "gone"
           /\ StageOf'[z] = "living" <=> server'.status[z] \in Living
<1>1. /\ server.status \in [Zombies -> Statuses] /\ server'.status \in [Zombies -> Statuses]
  BY DEF Servers
<1>2. QED  BY <1>1 DEF StageOf, Statuses, Living, Lifecycle!Existing, Exists

\* A row whose status is written moves one stage.
LEMMA StageMoves ==
    ASSUME server \in Servers, server' \in Servers, NEW z \in Zombies, NEW to \in Statuses,
           server'.status = [server.status EXCEPT ![z] = to], NEW stage, stage = StageOf'[z]
    PROVE  /\ server'.status[z] = to
           /\ StageOf' = [StageOf EXCEPT ![z] = stage]
           /\ StageOf[z] = stage => StageOf' = StageOf
<1>1. /\ server.status \in [Zombies -> Statuses] /\ server'.status \in [Zombies -> Statuses]
  BY DEF Servers
<1>2. DOMAIN StageOf = Zombies /\ DOMAIN StageOf' = Zombies  BY DEF StageOf
<1>3. \A y \in Zombies \ {z} : StageOf'[y] = StageOf[y]  BY <1>1 DEF StageOf
<1>4. StageOf = [y \in Zombies |-> StageOf[y]] /\ StageOf' = [y \in Zombies |-> StageOf'[y]]
  BY DEF StageOf
<1>5. QED  BY <1>1, <1>2, <1>3, <1>4

\* A request that installs nothing kills a zombie, deletes a killed one, or
\* leaves them alone.
LEMMA LivesImplement ==
    ASSUME server \in Servers, server' \in Servers, Lives(server, server'), UNCHANGED <<setup, gate>>
    PROVE  [Lifecycle!Next]_<<server.home, StageOf, setup, gate>>
<1>1. CASE Changes(server, server')
  <2>1. PICK z \in Zombies, to \in Living \union {"killed"} :
          /\ server.status[z] \in Living /\ server'.home = server.home
          /\ server'.status = [server.status EXCEPT ![z] = to]
    BY <1>1 DEF Changes
  <2>2. to \in Statuses  BY DEF Living, Statuses
  <2>3. PICK stage : stage = StageOf'[z]  OBVIOUS
  <2>4. /\ server'.status[z] = to /\ StageOf' = [StageOf EXCEPT ![z] = stage]
        /\ StageOf[z] = stage => StageOf' = StageOf
    BY <2>1, <2>2, <2>3, StageMoves
  <2>5. CASE to = "killed"
    <3>1. stage = "killed" /\ StageOf[z] = "living"  BY <2>1, <2>3, <2>4, <2>5, StageIs
    <3>2. Lifecycle!Kill(z)  BY <2>1, <2>4, <3>1 DEF Lifecycle!Kill
    <3>3. QED  BY <3>2 DEF Lifecycle!Next
  <2>6. CASE to \in Living
    <3>1. stage = "living" /\ StageOf[z] = "living"  BY <2>1, <2>3, <2>4, <2>6, StageIs
    <3>2. QED  BY <2>1, <2>4, <3>1
  <2>7. QED  BY <2>5, <2>6
<1>2. CASE Removes(server, server')
  <2>1. PICK z \in Zombies :
          /\ server.status[z] = "killed" /\ server'.home = server.home
          /\ server'.status = [server.status EXCEPT ![z] = "gone"]
    BY <1>2 DEF Removes
  <2>2. PICK stage : stage = StageOf'[z]  OBVIOUS
  <2>3. server'.status[z] = "gone" /\ StageOf' = [StageOf EXCEPT ![z] = stage]
    BY <2>1, <2>2, StageMoves DEF Statuses
  <2>4. stage = "gone" /\ StageOf[z] = "killed"  BY <2>1, <2>2, <2>3, StageIs
  <2>5. Lifecycle!Delete(z)  BY <2>1, <2>3, <2>4 DEF Lifecycle!Delete
  <2>6. QED  BY <2>5 DEF Lifecycle!Next
<1>3. CASE server'.home = server.home /\ server'.status = server.status
  BY <1>3 DEF StageOf
<1>4. QED  BY <1>1, <1>2, <1>3 DEF Lives

\* An insert installs.
LEMMA InsertImplements ==
    ASSUME server \in Servers, server' \in Servers, Installs(server, server'),
           setup' = setup \union Born(server, server'), UNCHANGED gate
    PROVE  [Lifecycle!Next]_<<server.home, StageOf, setup, gate>>
<1>1. PICK z \in Zombies, w \in Workspaces :
        /\ server.status[z] = "unborn"
        /\ \A y \in Zombies : Exists(server, y) /\ server.home[y] = w => NameOf[y] # NameOf[z]
        /\ server'.home = [server.home EXCEPT ![z] = w]
        /\ server'.status = [server.status EXCEPT ![z] = "active"]
  BY DEF Installs
<1>2. PICK stage : stage = StageOf'[z]  OBVIOUS
<1>3. server'.status[z] = "active" /\ StageOf' = [StageOf EXCEPT ![z] = stage]
  BY <1>1, <1>2, StageMoves DEF Statuses
<1>4. stage = "living" /\ StageOf[z] = "unborn"  BY <1>1, <1>2, <1>3, StageIs DEF Living
<1>5. Born(server, server') = {z}
  <2>1. server.status \in [Zombies -> Statuses]  BY DEF Servers
  <2>2. QED  BY <1>1, <2>1 DEF Born
<1>6. \A y \in Zombies : Lifecycle!Existing(y) <=> Exists(server, y)  BY StageIs
<1>7. Lifecycle!Install(z, w)  BY <1>1, <1>3, <1>4, <1>5, <1>6 DEF Lifecycle!Install
<1>8. QED  BY <1>7 DEF Lifecycle!Next

\* A request that lands does either.
LEMMA EffectImplements ==
    ASSUME CliInv, CliInv', NEW p \in Procs, NEW r \in Requests, server' \in Effects(r, p, server, cli[p]),
           setup' = setup \union Born(server, server') \/ (r # "POST_zombie" /\ UNCHANGED setup),
           UNCHANGED gate
    PROVE  [Lifecycle!Next]_<<server.home, StageOf, setup, gate>>
<1>1. cli[p] \in Runs /\ server \in Servers /\ server' \in Servers  BY DEF CliInv, CliTypeOK
<1>2. Writes(server, cli[p], p, r, server')  BY <1>1, EffectRows
<1>3. CASE r = "POST_zombie"  BY <1>1, <1>2, <1>3, InsertImplements DEF Writes
<1>4. CASE r # "POST_zombie"
  <2>1. Lives(server, server')  BY <1>2, <1>4 DEF Writes
  <2>2. server.status \in [Zombies -> Statuses]  BY <1>1 DEF Servers
  <2>3. Born(server, server') = {}
    BY <2>1, <2>2 DEF Born, Lives, Changes, Removes, Living
  <2>4. UNCHANGED setup  BY <2>3
  <2>5. QED  BY <1>1, <2>1, <2>4, LivesImplement
<1>5. QED  BY <1>3, <1>4

\* The approval gate loads a living zombie, and pauses it later.
LEMMA GateImplements ==
    ASSUME CliInv, CliInv', NEW z \in Zombies, LoadZombie(z) \/ PauseZombie(z)
    PROVE  Lifecycle!Load(z) \/ Lifecycle!Pause(z)
<1>1. server \in Servers /\ server' \in Servers  BY DEF CliInv, CliTypeOK
<1>2. CASE LoadZombie(z)
  <2>1. server.status[z] \in Living /\ gate' = gate \union {z} /\ UNCHANGED <<server, setup>>
    BY <1>2 DEF LoadZombie, Living
  <2>2. StageOf' = StageOf  BY <2>1 DEF StageOf
  <2>3. StageOf[z] = "living"  BY <1>1, <2>1, StageIs
  <2>4. QED  BY <2>1, <2>2, <2>3 DEF Lifecycle!Load
<1>3. CASE PauseZombie(z)
  <2>1. z \in gate /\ gate' = gate \ {z} /\ UNCHANGED setup
    BY <1>3 DEF PauseZombie
  <2>2. Lifecycle!Existing(z) <=> Exists(server, z)  BY <1>1, StageIs
  <2>3. CASE ~Exists(server, z)
    <3>1. UNCHANGED server  BY <1>3, <2>3 DEF PauseZombie
    <3>2. StageOf' = StageOf  BY <3>1 DEF StageOf
    <3>3. QED  BY <2>1, <2>2, <2>3, <3>1, <3>2 DEF Lifecycle!Pause
  <2>4. CASE Exists(server, z)
    <3>1. server' = [server EXCEPT !.status[z] = "paused"]  BY <1>3, <2>4 DEF PauseZombie
    <3>2. server'.home = server.home /\ server'.status = [server.status EXCEPT ![z] = "paused"]
      BY <1>1, <3>1 DEF Servers
    <3>3. PICK stage : stage = StageOf'[z]  OBVIOUS
    <3>4. server'.status[z] = "paused" /\ StageOf' = [StageOf EXCEPT ![z] = stage]
      BY <1>1, <3>2, <3>3, StageMoves DEF Statuses
    <3>5. stage = "living"  BY <1>1, <3>3, <3>4, StageIs DEF Living
    <3>6. QED  BY <2>1, <2>2, <2>4, <3>2, <3>4, <3>5 DEF Lifecycle!Pause
  <2>5. QED  BY <2>3, <2>4
<1>4. QED  BY <1>2, <1>3

\* The end of an install settles it.
LEMMA EndImplements ==
    ASSUME CliInv, CliInv', NEW z \in Zombies, NEW how \in {"created", "withdrawn", "kept"},
           InstallEnds(z, how)
    PROVE  Lifecycle!Settle(z)
<1>1. server \in Servers /\ server' \in Servers  BY DEF CliInv, CliTypeOK
<1>2. z \in setup /\ setup' = setup \ {z} /\ UNCHANGED gate  BY DEF InstallEnds
<1>3. CASE UNCHANGED server
  <2>1. StageOf' = StageOf  BY <1>3 DEF StageOf
  <2>2. QED  BY <1>2, <1>3, <2>1 DEF Lifecycle!Settle
<1>4. CASE Exists(server, z) /\ server' = RowDeleted(server, z)
  <2>1. server'.home = server.home /\ server'.status = [server.status EXCEPT ![z] = "gone"]
    BY <1>1, <1>4, DeletedLasts
  <2>2. PICK stage : stage = StageOf'[z]  OBVIOUS
  <2>3. server'.status[z] = "gone" /\ StageOf' = [StageOf EXCEPT ![z] = stage]
    BY <1>1, <2>1, <2>2, StageMoves DEF Statuses
  <2>4. stage = "gone" /\ Lifecycle!Existing(z)  BY <1>1, <1>4, <2>2, <2>3, StageIs
  <2>5. QED  BY <1>2, <2>1, <2>3, <2>4 DEF Lifecycle!Settle
<1>5. QED  BY <1>3, <1>4 DEF InstallEnds, Withdrawn

\* So every step is one of the abstract life, or none.
LEMMA StepImplements ==
    ASSUME CliInv, CliInv', [Next]_vars
    PROVE  [Lifecycle!Next]_<<server.home, StageOf, setup, gate>>
<1>1. CASE UNCHANGED <<server, setup, gate>>  BY <1>1 DEF StageOf
<1>2. ASSUME NEW p \in Procs, LocalStep(p) \/ Interrupt(p)
      PROVE  UNCHANGED <<server, setup, gate>>
  BY <1>2 DEF LocalStep, Interrupt, Guard, ResolveWorkspace, ResolveToken, LoadFile, TruncateFile,
              WriteFile, Look, SignIn, SignOut
<1>3. ASSUME NEW p \in Procs, NEW o \in Outcomes, StopWaiting(p, o)
      PROVE  UNCHANGED <<server, setup, gate>>
  BY <1>3 DEF StopWaiting
<1>4. ASSUME NEW p \in Procs, NEW o \in Outcomes, Attempt(p, o)
      PROVE  [Lifecycle!Next]_<<server.home, StageOf, setup, gate>>
  <2>1. PICK r : r = Head(cli[p].todo)  OBVIOUS
  <2>2. r \in Requests /\ UNCHANGED <<gate, setup>>  BY <1>4, <2>1 DEF Attempt, At
  <2>3. UNCHANGED server \/ (r # "POST_zombie" /\ server' \in Effects(r, p, server, cli[p]))
    BY <1>4, <2>1, Zenon DEF Attempt
  <2>4. CASE UNCHANGED server  BY <1>1, <2>2, <2>4
  <2>5. CASE r # "POST_zombie" /\ server' \in Effects(r, p, server, cli[p])
    BY <2>2, <2>5, EffectImplements
  <2>6. QED  BY <2>3, <2>4, <2>5
<1>5. ASSUME NEW p \in Procs, Straggle(p)
      PROVE  [Lifecycle!Next]_<<server.home, StageOf, setup, gate>>
  <2>1. PICK r : r = MutationOf(cli[p])  OBVIOUS
  <2>2. cli[p] \in Runs /\ CountsFit(cli[p]) /\ cli[p].air > 0
    BY <1>5 DEF CliInv, CliTypeOK, RunsFit, Straggle
  <2>3. r \in Requests  BY <2>1, <2>2, StragglerIs DEF Requests
  <2>4. \/ UNCHANGED <<server, setup, gate>>
        \/ /\ server' \in Effects(r, p, server, cli[p])
           /\ setup' = setup \union Born(server, server') /\ UNCHANGED gate
    BY <1>5, <2>1, Zenon DEF Straggle
  <2>5. QED  BY <1>1, <2>3, <2>4, EffectImplements
<1>6. ASSUME NEW p \in Procs, InsertZombie(p)
      PROVE  [Lifecycle!Next]_<<server.home, StageOf, setup, gate>>
  <2>1. PICK r : r = "POST_zombie"  OBVIOUS
  <2>2. r \in Requests  BY <2>1 DEF Requests, Mutations, Posts
  <2>3. server' \in Effects(r, p, server, cli[p]) /\ UNCHANGED gate  BY <1>6, <2>1 DEF InsertZombie
  <2>4. cli[p] \in Runs /\ server \in Servers /\ server' \in Servers  BY DEF CliInv, CliTypeOK
  <2>5. Installs(server, server')  BY <2>1, <2>2, <2>3, <2>4, EffectRows DEF Writes
  <2>6. PICK z \in Zombies : z \in Born(server, server') /\ setup' = setup \union {z}
    BY <1>6 DEF InsertZombie, Born
  <2>7. Born(server, server') = {z}
    <3>1. server.status \in [Zombies -> Statuses]  BY <2>4 DEF Servers
    <3>2. QED  BY <2>5, <2>6, <3>1 DEF Born, Installs
  <2>8. QED  BY <2>3, <2>4, <2>5, <2>6, <2>7, InsertImplements
<1>7. ASSUME NEW z \in Zombies, LoadZombie(z) \/ PauseZombie(z)
      PROVE  [Lifecycle!Next]_<<server.home, StageOf, setup, gate>>
  BY <1>7, GateImplements DEF Lifecycle!Next
<1>8. ASSUME NEW z \in Zombies, NEW how \in {"created", "withdrawn", "kept"}, InstallEnds(z, how)
      PROVE  [Lifecycle!Next]_<<server.home, StageOf, setup, gate>>
  BY <1>8, EndImplements DEF Lifecycle!Next
<1>9. QED  BY <1>1, <1>2, <1>3, <1>4, <1>5, <1>6, <1>7, <1>8 DEF Next, Step, vars

\* What runs find at the start is a state of the abstract life.
LEMMA LifecycleStart == Init => Lifecycle!Init
<1> SUFFICES ASSUME Init  PROVE  Lifecycle!Init
  OBVIOUS
<1>1. server \in Servers /\ server = FirstServer /\ gate = {} /\ setup = {}  BY CliAssumption DEF Init
<1>2. Lifecycle!LifecycleTypeOK
  BY <1>1 DEF Servers, StageOf, Lifecycle!LifecycleTypeOK, Lifecycle!Stages
<1>3. \A z \in Zombies : Lifecycle!Existing(z) <=> Exists(server, z)
  BY <1>1 DEF StageOf, Statuses, Lifecycle!Existing, Exists, Servers
<1>4. Lifecycle!NamesUnique  BY <1>1, <1>3, CliAssumption DEF Exists, Lifecycle!NamesUnique
<1>5. QED  BY <1>2, <1>4 DEF Lifecycle!Init

\* The API keeps the promises of ZombieLifecycle for any mix of commands,
\* retries, stragglers, installs that are taken back and gates that pause late.
THEOREM CommandsImplementLifecycle == Spec => ImplementsLifecycle
<1>1. Init => Lifecycle!Init  BY LifecycleStart
<1>2. CliInv /\ CliInv' /\ [Next]_vars => [Lifecycle!Next]_<<server.home, StageOf, setup, gate>>
  BY StepImplements
<1>3. QED  BY <1>1, <1>2, CliAlways, PTL DEF Spec, ImplementsLifecycle, Lifecycle!Spec

\* What is deleted stays deleted, and a zombie stays in its workspace.
NothingMoves == \A z \in Zombies :
    /\ Exists(server, z) => server'.home[z] = server.home[z]
    /\ server.status[z] = "gone" => server'.status[z] = "gone"

\* Both follow from the abstract life.
LEMMA NamesStep ==
    ASSUME CliInv, CliInv', Lifecycle!NamesUnique, [Next]_vars
    PROVE  Lifecycle!NamesUnique' /\ NothingMoves
<1> DEFINE Stays(x) == server'.home[x] = server.home[x]
                       /\ (StageOf'[x] \in {"living", "killed"} => StageOf[x] \in {"living", "killed"})
                       /\ (StageOf[x] = "gone" => StageOf'[x] = "gone")
<1>1. /\ server \in Servers /\ server' \in Servers
      /\ server.home \in [Zombies -> Workspaces \union {None}]
  BY DEF CliInv, CliTypeOK, Servers
<1>2. StageOf \in [Zombies -> {"unborn", "living", "killed", "gone"}]  BY DEF StageOf
<1>3. ASSUME \A x \in Zombies : Stays(x)
      PROVE  Lifecycle!NamesUnique' /\ NothingMoves
  <2>1. Lifecycle!NamesUnique'  BY <1>3 DEF Lifecycle!NamesUnique, Lifecycle!Existing
  <2>2. NothingMoves  BY <1>1, <1>3, StageIs DEF NothingMoves
  <2>3. QED  BY <2>1, <2>2
<1>4. ASSUME NEW z \in Zombies, NEW w \in Workspaces, Lifecycle!Install(z, w)
      PROVE  Lifecycle!NamesUnique' /\ NothingMoves
  <2>1. /\ StageOf[z] = "unborn" /\ StageOf' = [StageOf EXCEPT ![z] = "living"]
        /\ \A y \in Zombies : StageOf[y] \in {"living", "killed"} /\ server.home[y] = w
                              => NameOf[y] # NameOf[z]
        /\ server'.home = [server.home EXCEPT ![z] = w]
    BY <1>4 DEF Lifecycle!Install, Lifecycle!Existing
  <2>2. \A x \in Zombies \ {z} : Stays(x)  BY <1>1, <1>2, <2>1
  <2>3. server'.home[z] = w  BY <1>1, <2>1
  <2>4. ASSUME NEW x \in Zombies, NEW y \in Zombies,
               StageOf'[x] \in {"living", "killed"}, StageOf'[y] \in {"living", "killed"},
               server'.home[x] = server'.home[y], NameOf[x] = NameOf[y]
        PROVE  x = y
    <3>1. CASE x # z /\ y # z
      BY <2>2, <2>4, <3>1 DEF Lifecycle!NamesUnique, Lifecycle!Existing
    <3>2. CASE x = z /\ y # z  BY <2>1, <2>2, <2>3, <2>4, <3>2
    <3>3. CASE x # z /\ y = z  BY <2>1, <2>2, <2>3, <2>4, <3>3
    <3>4. QED  BY <3>1, <3>2, <3>3
  <2>5. Lifecycle!NamesUnique'  BY <2>4 DEF Lifecycle!NamesUnique, Lifecycle!Existing
  <2>6. ~Exists(server, z) /\ server.status[z] # "gone"
    BY <1>1, <2>1, StageIs DEF Exists
  <2>7. \A x \in Zombies \ {z} : server.status[x] = "gone" => server'.status[x] = "gone"
    BY <1>1, <2>2, StageIs
  <2>8. NothingMoves  BY <2>2, <2>6, <2>7 DEF NothingMoves
  <2>9. QED  BY <2>5, <2>8
<1>5. ASSUME NEW z \in Zombies, Lifecycle!Settle(z) \/ Lifecycle!Kill(z) \/ Lifecycle!Delete(z)
                                \/ Lifecycle!Load(z) \/ Lifecycle!Pause(z)
      PROVE  \A x \in Zombies : Stays(x)
  <2>1. CASE Lifecycle!Settle(z)  BY <1>2, <2>1 DEF Lifecycle!Settle, Lifecycle!Existing
  <2>2. CASE Lifecycle!Kill(z)    BY <1>2, <2>2 DEF Lifecycle!Kill
  <2>3. CASE Lifecycle!Delete(z)  BY <1>2, <2>3 DEF Lifecycle!Delete
  <2>4. CASE Lifecycle!Load(z)    BY <1>2, <2>4 DEF Lifecycle!Load
  <2>5. CASE Lifecycle!Pause(z)   BY <1>2, <2>5 DEF Lifecycle!Pause, Lifecycle!Existing
  <2>6. QED  BY <1>5, <2>1, <2>2, <2>3, <2>4, <2>5
<1>6. CASE UNCHANGED <<server.home, StageOf>>
  <2>1. \A x \in Zombies : Stays(x)  BY <1>6
  <2>2. QED  BY <1>3, <2>1
<1>7. [Lifecycle!Next]_<<server.home, StageOf, setup, gate>>  BY StepImplements
<1>8. QED  BY <1>3, <1>4, <1>5, <1>6, <1>7 DEF Lifecycle!Next

\* Two zombies of one workspace never have the same name, in any history of
\* commands, retries, stragglers, installs taken back and late pauses.
THEOREM NamesStayUnique == Spec => []Lifecycle!NamesUnique
<1>1. Init => Lifecycle!NamesUnique  BY LifecycleStart DEF Lifecycle!Init
<1>2. CliInv /\ CliInv' /\ Lifecycle!NamesUnique /\ [Next]_vars => Lifecycle!NamesUnique'  BY NamesStep
<1>3. QED  BY <1>1, <1>2, CliAlways, PTL DEF Spec

\* What is deleted stays deleted, and no zombie moves to another workspace.
THEOREM NothingComesBack == Spec => [][NothingMoves]_vars
<1>1. CliInv /\ CliInv' /\ Lifecycle!NamesUnique /\ [Next]_vars => [NothingMoves]_vars  BY NamesStep
<1>2. QED  BY <1>1, CliAlways, NamesStayUnique, PTL DEF Spec
================================================================================
