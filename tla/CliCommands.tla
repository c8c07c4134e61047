------------------------------ MODULE CliCommands ------------------------------
(***************************************************************************)
(* The commands of the command line besides login's device flow.  A run of *)
(* the program is a sequence of steps: read workspaces.json or             *)
(* credentials.json, send a request and retry it, rewrite a file.  Runs    *)
(* of one machine share the two files and the API; a request that its      *)
(* sender has given up on may still reach the API.                         *)
(***************************************************************************)
EXTENDS HttpRetry, Sequences, FiniteSets

CONSTANTS
    Procs,                    \* runs of the command line
    Accounts, Workspaces,     \* users' tenants; the workspace ids the API may hand out
    Zombies, Names, NameOf,   \* zombie ids, and the name in the bundle each comes from
    None, Torn,               \* no value; a file that does not parse
    FirstServer,              \* what the API holds at the start
    FirstFile,                \* what an earlier login left in workspaces.json
    Starts                    \* the command lines the runs may have been started with

Statuses == {"unborn", "active", "paused", "stopped", "killed", "gone"}

\* What the API holds: a workspace's owner, its secret and an account's provider
\* (by the run that set them last), and a zombie's status, agent key and grants.
Servers == [owner    : [Workspaces -> Accounts \union {None}],
            home     : [Zombies -> Workspaces \union {None}],
            status   : [Zombies -> Statuses],
            key      : [Zombies -> Procs \union {None}],
            grant    : SUBSET Zombies,
            secret   : [Workspaces -> Procs \union {None}],
            provider : [Accounts -> Procs \union {None}]]

\* workspaces.json; the order of its list is left out.
Files == [current : Workspaces \union {None}, items : SUBSET Workspaces]
EmptyFile == [current |-> None, items |-> {}]

VARIABLES
    server,  \* the tables behind the API
    file,    \* workspaces.json
    gate,    \* the zombies a lease request has loaded to pass its approval gate
    setup,   \* the zombies whose install has not set up their event stream yet
    waits,   \* the zombie of setup whose install a run waits for
    creds,   \* whose token credentials.json holds
    cli      \* the runs

vars == <<server, gate, setup, waits, file, creds, cli>>

(***************************************************************************)
(* The commands.  "guard" is the check before every command but login.     *)
(***************************************************************************)
WorkspaceAdd    == <<"guard", "token", "POST_workspace", "append", "truncate", "write">>
WorkspaceUse    == <<"guard", "select", "truncate", "write">>
WorkspaceDelete == <<"guard", "drop", "truncate", "write">>
WorkspaceList   == <<"guard", "look">>
WorkspaceShow   == <<"guard", "look">>
\* doctor goes on after a failed check, only to report the others as well.
Doctor          == <<"guard", "GET_public", "workspace", "token", "GET_workspace">>

Install         == <<"guard", "workspace", "token", "POST_zombie">>
Update          == <<"guard", "workspace", "token", "PATCH_config">>
Stop            == <<"guard", "workspace", "token", "PATCH_stopped">>
Resume          == <<"guard", "workspace", "token", "PATCH_active">>
Kill            == <<"guard", "workspace", "token", "PATCH_killed">>
Delete          == <<"guard", "workspace", "token", "DELETE_zombie">>
Status          == <<"guard", "workspace", "token", "GET_workspace">>
List            == <<"guard", "workspace", "token", "GET_workspace">>
Logs            == <<"guard", "workspace", "token", "GET_workspace">>
Events          == <<"guard", "workspace", "token", "GET_workspace">>
MemoryRead      == <<"guard", "workspace", "token", "GET_workspace">>

CredentialAddFirst == <<"guard", "workspace", "token", "POST_secret", "token", "GET_secret">>
CredentialAdd    == <<"guard", "workspace", "token", "GET_secret", "token", "POST_secret">>
CredentialForce  == <<"guard", "workspace", "token", "POST_secret">>
CredentialShow   == <<"guard", "workspace", "token", "GET_workspace">>
CredentialList   == <<"guard", "workspace", "token", "GET_workspace">>
CredentialDelete == <<"guard", "workspace", "token", "DELETE_secret">>
AgentAdd         == <<"guard", "token", "workspace", "POST_key">>
AgentList        == <<"guard", "token", "workspace", "GET_workspace">>
AgentDelete      == <<"guard", "token", "workspace", "DELETE_key">>
GrantList        == <<"guard", "workspace", "token", "GET_workspace">>
GrantDelete      == <<"guard", "workspace", "token", "DELETE_grant">>

ProviderAdd    == <<"guard", "token", "PUT_provider">>
ProviderShow   == <<"guard", "token", "GET_account">>
\* The balance is asked for afterwards, and a failure to learn it is swallowed.
ProviderDelete == <<"guard", "token", "DELETE_provider">>
BillingShow    == <<"guard", "token", "GET_account">>

\* Only an answer that the token is not accepted makes it fail.
AuthStatus == <<"guard", "token", "GET_probe">>
Login  == <<"sign_in", "GET_workspaces", "hydrate", "truncate", "write">>
\* The sessions it revokes first are those of DeviceLogin.
Logout == <<"guard", "sign_out">>

StepsOf == [
    workspace_add |-> WorkspaceAdd, workspace_use |-> WorkspaceUse,
    workspace_delete |-> WorkspaceDelete, workspace_list |-> WorkspaceList,
    workspace_show |-> WorkspaceShow, doctor |-> Doctor, install |-> Install,
    update |-> Update, stop |-> Stop, resume |-> Resume, kill |-> Kill,
    delete |-> Delete, status |-> Status, list |-> List, logs |-> Logs,
    events |-> Events, memory |-> MemoryRead, credential_add |-> CredentialAdd,
    credential_force |-> CredentialForce, credential_show |-> CredentialShow,
    credential_list |-> CredentialList, credential_delete |-> CredentialDelete,
    agent_add |-> AgentAdd, agent_list |-> AgentList, agent_delete |-> AgentDelete,
    grant_list |-> GrantList, grant_delete |-> GrantDelete,
    provider_add |-> ProviderAdd, provider_show |-> ProviderShow,
    provider_delete |-> ProviderDelete, billing_show |-> BillingShow,
    auth_status |-> AuthStatus, login |-> Login, logout |-> Logout]
Commands == DOMAIN StepsOf

Gets      == {"GET_public", "GET_account", "GET_probe", "GET_workspace", "GET_workspaces",
              "GET_secret"}
Posts     == {"POST_workspace", "POST_zombie", "POST_secret", "POST_key"}
Patches   == {"PATCH_active", "PATCH_stopped", "PATCH_killed", "PATCH_config"}
Deletes   == {"DELETE_zombie", "DELETE_secret", "DELETE_key", "DELETE_grant", "DELETE_provider"}
Puts      == {"PUT_provider"}
Mutations == Posts \union Patches \union Deletes \union Puts
Requests  == Gets \union Mutations
MethodOf(r) == CASE r \in Gets    -> "GET"
                 [] r \in Posts   -> "POST"
                 [] r \in Patches -> "PATCH"
                 [] r \in Deletes -> "DELETE"
                 [] OTHER         -> "PUT"
OfAccount == {"POST_workspace", "PUT_provider", "DELETE_provider"}

Steps == Requests \union {"guard", "workspace", "token", "append", "select", "drop",
                          "hydrate", "truncate", "write", "look", "sign_in", "sign_out"}

\* A command line: on what it acts, the token of its environment, and for a
\* login the account that signs in.
CommandLines == [cmd : Commands, zombie : Zombies \union {None},
                 workspace : Workspaces \union {None}, env : Accounts \union {None},
                 user : Accounts \union {None}]

\* blind counts the attempts that timed out or failed in the network, unheard
\* those, the 5xx answers of a gateway and the 500 of an install that left its
\* row, landed what the API carried out, air the attempts that may still reach it.
Runs == [line    : CommandLines,
         todo    : Seq(Steps),
         exit    : {"running", "ok", "skipped", "failed", "interrupted"},
         account : Accounts \union {None},
         ws      : Workspaces \union {None},
         made    : Workspaces \union {None},
         listed  : SUBSET Workspaces,
         draft   : Files,
         try     : 1..MaxAttempts,
         blind   : Nat, unheard : Nat, landed : Nat, air : Nat]

CliTypeOK ==
    /\ server \in Servers /\ gate \subseteq Zombies
    /\ setup \subseteq Zombies /\ waits \in [Procs -> Zombies \union {None}]
    /\ file \in Files \union {Torn}
    /\ creds \in Accounts \union {None}
    /\ cli \in [Procs -> Runs]

\* A file names workspaces that exist, and its current one is among them unless
\* it lists none.
Coherent(f, s) == /\ \A w \in f.items : s.owner[w] # None
                  /\ f.current = None => f.items = {}
                  /\ f.current # None => f.current \in f.items

\* No two zombies of one workspace have one name; a login signs in as someone.
ASSUME CliAssumption ==
    /\ FirstServer \in Servers
    /\ \A y, z \in Zombies :
          /\ FirstServer.status[y] \notin {"unborn", "gone"} /\ FirstServer.status[z] \notin {"unborn", "gone"}
          /\ FirstServer.home[y] = FirstServer.home[z] /\ NameOf[y] = NameOf[z]
          => y = z
    /\ FirstFile \in Files \union {Torn} /\ (FirstFile # Torn => Coherent(FirstFile, FirstServer))
    /\ Starts \subseteq [Procs -> CommandLines]
    /\ \A start \in Starts, p \in Procs : start[p].cmd = "login" => start[p].user # None
    /\ None \notin Workspaces \union Accounts \union Procs \union Zombies /\ Torn \notin Files

Asked(c) == c.line.cmd
Started(line) ==
    [line |-> line, todo |-> StepsOf[line.cmd], exit |-> "running", account |-> None,
     ws |-> None, made |-> None, listed |-> {}, draft |-> EmptyFile, try |-> 1,
     blind |-> 0, unheard |-> 0, landed |-> 0, air |-> 0]

Init ==
    /\ server = FirstServer /\ gate = {}
    /\ setup = {} /\ waits = [p \in Procs |-> None]
    /\ file = FirstFile
    /\ creds \in Accounts \union {None}
    /\ \E start \in Starts : cli = [p \in Procs |-> Started(start[p])]

At(p, steps) == /\ cli[p].exit = "running"
                /\ cli[p].todo # <<>>
                /\ Head(cli[p].todo) \in steps

\* c goes on to its next step, or ends.
Onward(c) == [c EXCEPT !.todo = Tail(@), !.try = 1,
                       !.exit = IF Len(c.todo) = 1 THEN "ok" ELSE @]
Ended(c, how) == [c EXCEPT !.todo = <<>>, !.try = 1, !.exit = how]

(***************************************************************************)
(* What a request does at the API: the servers it may leave, none when it  *)
(* is refused.                                                             *)
(***************************************************************************)
MayEnterAny(s, c) == c.ws # None
MayEnter(s, c) == c.ws # None /\ s.owner[c.ws] = c.account

Exists(s, z) == s.status[z] \notin {"unborn", "gone"}
Found(s, c) == /\ c.line.zombie # None
               /\ s.home[c.line.zombie] = c.ws
               /\ Exists(s, c.line.zombie)

NewWorkspace(s, c) ==
    {[s EXCEPT !.owner[w] = c.account] : w \in {v \in Workspaces : s.owner[v] = None}}

\* The name of a zombie is unique among those its workspace holds.
NameTaken(s, c) == \E z \in Zombies : /\ Exists(s, z) /\ s.home[z] = c.ws
                                      /\ NameOf[z] = NameOf[c.line.zombie]
NewZombie(s, c) ==
    IF NameTaken(s, c) THEN {}
    ELSE {[s EXCEPT !.home[z] = c.ws, !.status[z] = "active"] :
            z \in {y \in Zombies : s.status[y] = "unborn"
                                   /\ NameOf[y] = NameOf[c.line.zombie]}}

PatchedBlindly(s, c, to) ==
    IF Found(s, c) /\ s.status[c.line.zombie] # to
    THEN {[s EXCEPT !.status[c.line.zombie] = to]} ELSE {}
Patched(s, c, to) ==
    LET z == c.line.zombie
        from == CASE to = "stopped" -> {"active", "paused"}
                  [] to = "active"  -> {"stopped", "paused"}
                  [] OTHER          -> {"active", "paused", "stopped"}
    IN  IF Found(s, c) /\ s.status[z] \in from THEN {[s EXCEPT !.status[z] = to]} ELSE {}
Reconfigured(s, c) == IF Found(s, c) /\ s.status[c.line.zombie] # "killed" THEN {s} ELSE {}

\* A deleted row takes the zombie's agent keys and grants with it.
RowDeleted(s, z) == [s EXCEPT !.status[z] = "gone", !.key[z] = None, !.grant = @ \ {z}]
Purged(s, c) ==
    LET z == c.line.zombie
    IN  IF Found(s, c) /\ s.status[z] = "killed" THEN {RowDeleted(s, z)} ELSE {}
\* Undoing an install looks at no status.
Withdrawn(s, z) == IF Exists(s, z) THEN RowDeleted(s, z) ELSE s

\* uq_agent_keys_zombie: a zombie has one key at most.
NewKeyAlways(s, c, p) == IF Found(s, c) THEN {[s EXCEPT !.key[c.line.zombie] = p]} ELSE {}
NewKey(s, c, p) ==
    IF Found(s, c) /\ s.key[c.line.zombie] = None
    THEN {[s EXCEPT !.key[c.line.zombie] = p]} ELSE {}
KeyDeleted(s, c) ==
    IF Found(s, c) /\ s.key[c.line.zombie] # None
    THEN {[s EXCEPT !.key[c.line.zombie] = None]} ELSE {}
GrantDeleted(s, c) ==
    IF c.line.zombie \in s.grant THEN {[s EXCEPT !.grant = @ \ {c.line.zombie}]} ELSE {}

Carried(r, p, s, c) ==
    CASE r = "POST_workspace"  -> NewWorkspace(s, c)
      [] r = "POST_zombie"     -> NewZombie(s, c)
      [] r = "PATCH_stopped"   -> Patched(s, c, "stopped")
      [] r = "PATCH_active"    -> Patched(s, c, "active")
      [] r = "PATCH_killed"    -> Patched(s, c, "killed")
      [] r = "PATCH_config"    -> Reconfigured(s, c)
      [] r = "DELETE_zombie"   -> Purged(s, c)
      [] r = "POST_key"        -> NewKey(s, c, p)
      [] r = "DELETE_key"      -> KeyDeleted(s, c)
      [] r = "DELETE_grant"    -> GrantDeleted(s, c)
      [] r = "POST_secret"     -> {[s EXCEPT !.secret[c.ws] = p]}
      [] r = "DELETE_secret"   -> {[s EXCEPT !.secret[c.ws] = None]}
      [] r = "PUT_provider"    -> {[s EXCEPT !.provider[c.account] = p]}
      [] r = "DELETE_provider" -> {[s EXCEPT !.provider[c.account] = None]}
      [] OTHER                 -> {s}

Effects(r, p, s, c) ==
    IF r \in OfAccount \union {"GET_public", "GET_account", "GET_probe", "GET_workspaces"}
       \/ MayEnter(s, c)
    THEN Carried(r, p, s, c) ELSE {}

(***************************************************************************)
(* Requests.                                                               *)
(***************************************************************************)
\* What a 2xx answer tells the command.
Heard(r, c, before, after) ==
    CASE r = "POST_workspace" ->
           Onward([c EXCEPT !.made = CHOOSE w \in Workspaces : before.owner[w] # after.owner[w]])
      [] r = "GET_workspaces" ->
           LET mine == {w \in Workspaces : before.owner[w] = c.account}
           IN  IF mine = {} THEN Ended(c, "ok") ELSE Onward([c EXCEPT !.listed = mine])
      [] r = "GET_secret" -> IF before.secret[c.ws] # None THEN Ended(c, "skipped") ELSE Onward(c)
      [] OTHER -> Onward(c)

\* An answer that ends the request without success: login only warns that it
\* could not list the workspaces.
RefusedQuietly(r, c, outcome) ==
    Ended(c, IF r = "GET_workspaces" \/ outcome = "error" THEN "ok" ELSE "failed")
Refused(r, c, outcome) ==
    Ended(c, IF r = "GET_workspaces" \/ (r = "GET_probe" /\ outcome # "error")
             THEN "ok" ELSE "failed")

RetriedForever(r, c, outcome) ==
    IF Classified(outcome) # "none" THEN [c EXCEPT !.try = @ + 1] ELSE Refused(r, c, outcome)
RetriedUncounted(r, c, outcome) ==
    IF Classified(outcome) # "none"
    THEN [c EXCEPT !.try = IF @ < MaxAttempts THEN @ + 1 ELSE 1]
    ELSE Refused(r, c, outcome)
RetriedUngated(r, c, outcome) ==
    IF Classified(outcome) # "none" /\ c.try < MaxAttempts
    THEN [c EXCEPT !.try = @ + 1] ELSE Refused(r, c, outcome)
Retried(r, c, outcome) ==
    IF Retries(MethodOf(r), outcome, c.try)
    THEN [c EXCEPT !.try = @ + 1] ELSE Refused(r, c, outcome)

Silent == {"timeout", "network"}

\* The counters of d after an attempt of r, which landed or not.
Counted(r, outcome, d, landed) ==
    [d EXCEPT !.landed  = IF landed /\ r \in Mutations THEN @ + 1 ELSE @,
              !.blind   = IF outcome \in Silent /\ r \in Mutations THEN @ + 1 ELSE @,
              !.unheard = IF outcome \in Silent \union {"gateway"} /\ r \in Mutations
                          THEN @ + 1 ELSE @]

\* The zombie whose row appears between two states of the API, if one does.
Born(s, t) == {z \in Zombies : s.status[z] = "unborn" /\ t.status[z] # "unborn"}

\* One attempt: the API carries it out or not, and the sender hears of it or not.
\* An install is answered after a phase of its own.
Attempt(p, outcome) ==
    LET c       == cli[p]
        r       == Head(c.todo)
        effects == Effects(r, p, server, c)
        count(d, landed) == Counted(r, outcome, d, landed)
    IN  /\ At(p, Requests) /\ waits[p] = None
        /\ \/ /\ outcome = "ok" /\ r # "POST_zombie"
              /\ server' \in effects
              /\ cli' = [cli EXCEPT ![p] = count(Heard(r, c, server, server'), TRUE)]
           \/ /\ outcome = "error"
              /\ cli' = [cli EXCEPT ![p] = count(Retried(r, c, outcome), FALSE)]
              /\ UNCHANGED server
           \/ /\ outcome \in Silent \union {"early", "throttled", "gateway"}
              /\ \E gone \in {FALSE, outcome = "timeout" /\ r \in Mutations} :
                   cli' = [cli EXCEPT ![p] = [count(Retried(r, c, outcome), FALSE)
                                              EXCEPT !.air = IF gone THEN @ + 1 ELSE @]]
              /\ UNCHANGED server
           \/ /\ outcome \in Silent \union {"gateway"} /\ r \in Mutations \ {"POST_zombie"}
              /\ server' \in effects
              /\ cli' = [cli EXCEPT ![p] = count(Retried(r, c, outcome), TRUE)]
        /\ UNCHANGED <<gate, setup, waits, file, creds>>

\* An install commits the row, and any request finds the zombie from then on ...
InsertZombie(p) ==
    /\ At(p, {"POST_zombie"}) /\ waits[p] = None
    /\ server' \in Effects("POST_zombie", p, server, cli[p])
    /\ \E z \in Born(server, server') :
          setup' = setup \union {z} /\ waits' = [waits EXCEPT ![p] = z]
    /\ UNCHANGED <<gate, file, creds, cli>>

\* ... then sets up its event stream.  If that fails the row is deleted again; a
\* 500 leaves it behind when that deletion or the webhook URLs fail.
InstallAnswered(c, how) ==
    LET r == "POST_zombie"
    IN  CASE how = "created"   -> Counted(r, "ok", Onward(c), TRUE)
          [] how = "withdrawn" -> Counted(r, "error", Retried(r, c, "error"), FALSE)
          [] how = "kept"      -> [Counted(r, "error", Retried(r, c, "error"), TRUE)
                                   EXCEPT !.unheard = @ + 1]
InstallEnds(z, how) ==
    /\ z \in setup
    /\ setup' = setup \ {z}
    /\ server' = IF how = "withdrawn" THEN Withdrawn(server, z) ELSE server
    /\ \/ \E p \in Procs :
             /\ waits[p] = z
             /\ waits' = [waits EXCEPT ![p] = None]
             /\ cli' = [cli EXCEPT ![p] = InstallAnswered(@, how)]
       \/ z \notin {waits[p] : p \in Procs} /\ UNCHANGED <<waits, cli>>
    /\ UNCHANGED <<gate, file, creds>>

\* The sender hears of an install no more, which goes on without it.
StopWaiting(p, outcome) ==
    LET c == cli[p]
    IN  /\ waits[p] # None /\ outcome \in Silent \union {"gateway"}
        /\ waits' = [waits EXCEPT ![p] = None]
        /\ cli' = [cli EXCEPT ![p] =
                     Counted("POST_zombie", outcome, Retried("POST_zombie", c, outcome), TRUE)]
        /\ UNCHANGED <<server, gate, setup, file, creds>>

\* An attempt its sender gave up on reaches the API after all, or never.
MutationOf(c) == CHOOSE r \in Mutations : \E i \in DOMAIN StepsOf[Asked(c)] : StepsOf[Asked(c)][i] = r
Straggle(p) ==
    LET c == cli[p]
        r == MutationOf(c)
        effects == Effects(r, p, server, c)
    IN  /\ c.air > 0
        /\ \/ /\ server' \in effects
              /\ cli' = [cli EXCEPT ![p].air = @ - 1, ![p].landed = @ + 1]
              /\ setup' = setup \union Born(server, server')
           \/ /\ cli' = [cli EXCEPT ![p].air = @ - 1]
              /\ UNCHANGED <<server, setup>>
        /\ UNCHANGED <<gate, waits, file, creds>>

(***************************************************************************)
(* The other steps.                                                        *)
(***************************************************************************)
\* requireAuth, on what the program read when it started.
Guard(p) ==
    /\ At(p, {"guard"})
    /\ cli' = [cli EXCEPT ![p] = IF creds = None /\ @.line.env = None
                                 THEN Ended(@, "failed") ELSE Onward(@)]
    /\ UNCHANGED <<server, gate, setup, waits, file, creds>>

\* readJson turns a torn file into an empty one.
ReadFile == IF file = Torn THEN EmptyFile ELSE file

ResolveWorkspace(p) ==
    /\ At(p, {"workspace"})
    /\ cli' = [cli EXCEPT ![p] = IF ReadFile.current = None THEN Ended(@, "failed")
                                 ELSE Onward([@ EXCEPT !.ws = ReadFile.current])]
    /\ UNCHANGED <<server, gate, setup, waits, file, creds>>

\* The stored token before that of the environment.
ResolveToken(p) ==
    LET found == IF creds # None THEN creds ELSE cli[p].line.env
    IN  /\ At(p, {"token"})
        /\ cli' = [cli EXCEPT ![p] = IF found = None THEN Ended(@, "failed")
                                     ELSE Onward([@ EXCEPT !.account = found])]
        /\ UNCHANGED <<server, gate, setup, waits, file, creds>>

\* What a command makes of workspaces.json; none when it gives up.
Dropped(c, f) ==
    LET rest == f.items \ {c.line.workspace}
    IN  IF f.current # c.line.workspace THEN {[f EXCEPT !.items = rest]}
        ELSE IF rest = {} THEN {EmptyFile}
        ELSE {[current |-> w, items |-> rest] : w \in rest}
EditedKeepsCurrent(step, c, f) ==
    CASE step = "append" -> {[current |-> c.made, items |-> f.items \union {c.made}]}
      [] step = "select" -> IF c.line.workspace \in f.items
                            THEN {[f EXCEPT !.current = c.line.workspace]} ELSE {}
      [] step = "drop"   -> {[f EXCEPT !.items = @ \ {c.line.workspace}]}
      [] OTHER           -> IF f.current \in c.listed
                            THEN {[current |-> f.current, items |-> c.listed]}
                            ELSE {[current |-> w, items |-> c.listed] : w \in c.listed}
Edited(step, c, f) ==
    CASE step = "append" -> {[current |-> c.made, items |-> f.items \union {c.made}]}
      [] step = "select" -> IF c.line.workspace \in f.items
                            THEN {[f EXCEPT !.current = c.line.workspace]} ELSE {}
      [] step = "drop"   -> Dropped(c, f)
      [] OTHER           -> IF f.current \in c.listed
                            THEN {[current |-> f.current, items |-> c.listed]}
                            ELSE {[current |-> w, items |-> c.listed] : w \in c.listed}

LoadFile(p) ==
    LET drafts == Edited(Head(cli[p].todo), cli[p], ReadFile)
    IN  /\ At(p, {"append", "select", "drop", "hydrate"})
        /\ \/ drafts = {} /\ cli' = [cli EXCEPT ![p] = Ended(@, "failed")]
           \/ \E d \in drafts : cli' = [cli EXCEPT ![p] = Onward([@ EXCEPT !.draft = d])]
        /\ UNCHANGED <<server, gate, setup, waits, file, creds>>

\* fs.writeFile: the file is truncated, then written.
TruncateFile(p) ==
    /\ At(p, {"truncate"})
    /\ file' = Torn
    /\ cli' = [cli EXCEPT ![p] = Onward(@)]
    /\ UNCHANGED <<server, gate, setup, waits, creds>>
WriteFile(p) ==
    /\ At(p, {"write"})
    /\ file' = cli[p].draft
    /\ cli' = [cli EXCEPT ![p] = Onward(@)]
    /\ UNCHANGED <<server, gate, setup, waits, creds>>

Look(p) ==
    /\ At(p, {"look"})
    /\ cli' = [cli EXCEPT ![p] = Onward(@)]
    /\ UNCHANGED <<server, gate, setup, waits, file, creds>>

\* A login that was given a valid token; its list request carries it.
SignIn(p) ==
    /\ At(p, {"sign_in"})
    /\ creds' = cli[p].line.user
    /\ cli' = [cli EXCEPT ![p] = Onward([@ EXCEPT !.account = cli[p].line.user])]
    /\ UNCHANGED <<server, gate, setup, waits, file>>
SignOut(p) ==
    /\ At(p, {"sign_out"})
    /\ creds' = None
    /\ cli' = [cli EXCEPT ![p] = Onward(@)]
    /\ UNCHANGED <<server, gate, setup, waits, file>>

\* Ctrl-C, or the machine goes down.
Interrupt(p) ==
    /\ cli[p].exit = "running"
    /\ cli' = [cli EXCEPT ![p] = Ended(@, "interrupted")]
    /\ waits' = [waits EXCEPT ![p] = None]
    /\ UNCHANGED <<server, gate, setup, file, creds>>

\* A lease request loads a zombie that may run, and its approval gate, which an
\* anomaly or a policy trips, pauses it without looking again: the row of a
\* zombie that is purged is not there to update.
LoadZombie(z) ==
    /\ server.status[z] = "active" /\ z \notin gate
    /\ gate' = gate \union {z}
    /\ UNCHANGED <<server, setup, waits, file, creds, cli>>
PauseZombie(z) ==
    /\ z \in gate
    /\ gate' = gate \ {z}
    /\ server' = IF Exists(server, z) THEN [server EXCEPT !.status[z] = "paused"] ELSE server
    /\ UNCHANGED <<setup, waits, file, creds, cli>>

LocalStep(p) ==
    \/ Guard(p) \/ ResolveWorkspace(p) \/ ResolveToken(p) \/ LoadFile(p)
    \/ TruncateFile(p) \/ WriteFile(p) \/ Look(p) \/ SignIn(p) \/ SignOut(p)
Step(p) == \/ LocalStep(p) \/ InsertZombie(p)
           \/ \E outcome \in Outcomes : Attempt(p, outcome) \/ StopWaiting(p, outcome)

Next ==
    \/ \E p \in Procs : Step(p) \/ Straggle(p) \/ Interrupt(p)
    \/ \E z \in Zombies : \/ LoadZombie(z) \/ PauseZombie(z)
                         \/ \E how \in {"created", "withdrawn", "kept"} : InstallEnds(z, how)

\* A process runs on, and its requests end: each has a timeout.
Spec == Init /\ [][Next]_vars /\ \A p \in Procs : WF_vars(Step(p))

(***************************************************************************)
(* Properties.                                                             *)
(***************************************************************************)
\* Whatever writes race or are cut off, workspaces.json names workspaces that
\* exist, and its current one is among them unless it lists none: every other
\* command reads it without looking further.
FileIsConsistent == file # Torn => Coherent(file, server)

IsMutation(c) == \E i \in DOMAIN StepsOf[Asked(c)] : StepsOf[Asked(c)][i] \in Mutations

\* A command that reports success did what it says, at the API.
SuccessIsReal == \A p \in Procs : cli[p].exit = "ok" /\ IsMutation(cli[p]) => cli[p].landed > 0

\* A command that reports a failure changed nothing, unless some attempt of it
\* stayed without the API's own answer, or was an install whose 500 left the row.
\* What an install inserted and took back counts as nothing.
FailureIsReal == \A p \in Procs : cli[p].exit \in {"failed", "skipped"} /\ cli[p].landed > 0
                                  => cli[p].unheard > 0

\* A POST or PATCH is carried out a second time only after an attempt that
\* timed out or failed in the network: a 5xx answer never replays it.
ReplayedOnlyWhenSilent ==
    \A p \in Procs : (\E i \in DOMAIN StepsOf[Asked(cli[p])] :
                        StepsOf[Asked(cli[p])][i] \in Posts \union Patches)
                     => cli[p].landed <= 1 + cli[p].blind

\* The workspace and the token of a command are read at different moments,
\* while another run may sign in as someone else: whatever the mix, nothing is
\* done in a workspace that the token's account does not own.
LandsAtHome ==
    \A p \in Procs : LET c == cli[p]
                     IN  c.landed > 0 /\ c.ws # None => server.owner[c.ws] = c.account

\* The key that "agent add" printed is the key of its zombie, as long as that is
\* there and no other run deletes the key.
PrintedKeyWorks ==
    \A p \in Procs :
        /\ Asked(cli[p]) = "agent_add" /\ cli[p].exit = "ok"
        /\ Exists(server, cli[p].line.zombie)
        /\ \A q \in Procs : Asked(cli[q]) # "agent_delete"
        => server.key[cli[p].line.zombie] = p

\* The exit code of a command tells what became of it at the API, either way.
ExitCodesAreTrue == SuccessIsReal /\ FailureIsReal

\* What a run finds on disk and at the API at every moment: a coherent file, no
\* replay that the retry policy excludes, nothing in a stranger's workspace, and
\* the printed key in force.
CliInvariant ==
    CliTypeOK /\ FileIsConsistent /\ ReplayedOnlyWhenSilent /\ LandsAtHome /\ PrintedKeyWorks

\* The API keeps the promises of ZombieLifecycle for any mix of commands,
\* retries, stragglers, installs under way and gates that pause late.
StageOf == [z \in Zombies |->
              CASE server.status[z] = "unborn" -> "unborn"
                [] server.status[z] = "killed" -> "killed"
                [] server.status[z] = "gone"   -> "gone"
                [] OTHER                       -> "living"]
Lifecycle == INSTANCE ZombieLifecycle
               WITH Nowhere <- None, home <- server.home, stage <- StageOf,
                    open <- setup, loaded <- gate
ImplementsLifecycle == Lifecycle!Spec

\* A kill is terminal, also for the approval gate of a lease request that
\* loaded the zombie before the kill (patch.zig: "killed (terminal - 404 on
\* further PATCH)").
KilledIsTerminal ==
    [][\A z \in Zombies : server.status[z] = "killed" => server'.status[z] \in {"killed", "gone"}]_vars

\* Every command comes back to the prompt.
CommandEnds == \A p \in Procs : <>(cli[p].exit # "running")
================================================================================
