------------------------------ MODULE DeviceLogin ------------------------------
(***************************************************************************)
(* Signing the command line in and out.  A login process creates a session *)
(* on the server and prompts for a code; a dashboard page loads the same   *)
(* session, seals a token to it and shows the code; the code buys the      *)
(* sealed token from the server, and the process saves it, validates it    *)
(* and keeps or removes it.  Other processes of the same machine sign in   *)
(* with a token they were given, or sign out, over the same                *)
(* credentials.json.                                                       *)
(***************************************************************************)
EXTENDS HttpRetry, FiniteSets

CONSTANTS
    Procs,             \* runs of the command line on one machine
    Pages,             \* loads of the approval page in a browser
    Users, PageUser,   \* PageUser[q]: who is signed in on that page
    DiskUser,          \* whose token the processes were given or find on disk
    MaxVerifyAttempts, \* the server's budget of wrong codes, 5
    Strikes,           \* MAX_CLI_VERIFY_ATTEMPTS, 2
    ReplayTicks,       \* CONSUME_REPLAY_WINDOW_MS in units of one request timeout
    Starts             \* the command lines the processes may have been started with

NoCode == "no code"
Typo   == "typo"
None   == "no token"
Torn   == "torn"       \* a file that does not parse
Old    == "old token"  \* what an earlier login left

Kinds == [run : {"device", "direct", "logout"}, force : BOOLEAN, noInput : BOOLEAN]

ASSUME LoginAssumption ==
    /\ PageUser \in [Pages -> Users] /\ DiskUser \in Users
    /\ MaxVerifyAttempts \in Nat \ {0} /\ Strikes \in Nat \ {0}
    /\ ReplayTicks \in Nat /\ ReplayTicks * Timeout = 60000 /\ Span[MaxAttempts] < 60000
    /\ Starts \subseteq [Procs -> Kinds]
    /\ Pages \cap Procs = {} /\ {NoCode, Typo, None, Torn, Old} \cap (Pages \union Procs) = {}

VARIABLES
    session,  \* the session each login process created, as Redis holds it
    page,     \* the approval pages
    cli,      \* the command line processes
    creds     \* the token of credentials.json

vars == <<session, page, cli, creds>>

Tokens == Pages \union Procs \union {Old, None}

\* "missing" is an id Redis does not hold, never created or evicted.  wrong
\* counts verification_attempts, window the ticks left of the replay window.
Sessions == [status : {"missing", "pending", "verification_pending", "consumed", "aborted"},
             code   : Pages \union {NoCode},
             wrong  : 0..MaxVerifyAttempts,
             window : 0..ReplayTicks]
NoSession == [status |-> "missing", code |-> NoCode, wrong |-> 0, window |-> 0]

\* A page is for the session of one process.
PageStates == [at  : {"unopened", "loading", "active", "working", "approved", "uncertain",
                      "failed", "unavailable", "closed"},
               for : Procs \union {NoCode}]

\* try numbers the attempts of the request under way, late says it is a tick
\* old; valid says that /me accepted the token.
Ended == {"done", "failed", "interrupted", "consumed", "rejected", "crashed"}
Points == {"start", "confirm", "create", "prompt", "verify", "truncate", "write", "ping",
           "revoke", "wipe", "wiped"}
Processes == [kind : Kinds, pc : Points \union Ended, try : 1..MaxAttempts, late : BOOLEAN,
              strikes : 0..Strikes, typed : Pages \union {NoCode, Typo},
              token : Tokens, valid : BOOLEAN]

LoginTypeOK ==
    /\ session \in [Procs -> Sessions]
    /\ page \in [Pages -> PageStates]
    /\ cli \in [Procs -> Processes]
    /\ creds \in Tokens \union {Torn}

Init ==
    /\ session = [p \in Procs |-> NoSession]
    /\ page = [q \in Pages |-> [at |-> "unopened", for |-> NoCode]]
    /\ \E start \in Starts :
         cli = [p \in Procs |-> [kind |-> start[p], pc |-> "start", try |-> 1, late |-> FALSE,
                                strikes |-> Strikes, typed |-> NoCode, token |-> None,
                                valid |-> FALSE]]
    /\ creds \in {None, Old}

UserOf(token) == IF token \in Pages THEN PageUser[token] ELSE DiskUser

At(p, point) == cli[p].pc = point
Go(p, point) ==
    cli' = [cli EXCEPT ![p].pc = point, ![p].try = 1, ![p].late = FALSE, ![p].typed = NoCode,
                       ![p].strikes = IF point \in Ended THEN Strikes ELSE @]

(***************************************************************************)
(* The session store: each change is one script that Redis runs alone.     *)
(* The server's client of it sends a script again when the connection      *)
(* breaks, so that what answers may be its second run.                     *)
(***************************************************************************)
Created == [NoSession EXCEPT !.status = "pending"]

\* APPROVE_LUA.
ApprovableTwice(s) == s.status \in {"pending", "verification_pending"}
Approvable(s) == s.status = "pending"
ApprovedBy(q, s) ==
    IF Approvable(s)
    THEN [s EXCEPT !.status = "verification_pending", !.code = q]
    ELSE s

\* session_verify_consume.lua: what it answers, and the blob it leaves.  Only
\* the session's own process knows its id, so the fingerprint of a retry is
\* that of the request it repeats.
VerifyAnswerNoReplay(s, code) ==
    CASE s.status = "verification_pending" /\ code = s.code       -> "payload"
      [] s.status = "verification_pending" /\ code # s.code
                               /\ s.wrong + 1 < MaxVerifyAttempts -> "invalid_code"
      [] s.status = "consumed"                                    -> "consumed"
      [] OTHER                                                    -> "gone"
VerifyAnswer(s, code) ==
    CASE s.status = "consumed" /\ s.window > 0                    -> "payload"
      [] s.status = "verification_pending" /\ code = s.code       -> "payload"
      [] s.status = "verification_pending" /\ code # s.code
                               /\ s.wrong + 1 < MaxVerifyAttempts -> "invalid_code"
      [] s.status = "consumed" /\ s.window = 0                    -> "consumed"
      [] OTHER                                                    -> "gone"
VerifiedNeverLocks(s, code) ==
    IF s.status # "verification_pending" THEN s
    ELSE IF code = s.code THEN [s EXCEPT !.status = "consumed", !.window = ReplayTicks]
    ELSE [s EXCEPT !.wrong = @ + 1]
Verified(s, code) ==
    IF s.status # "verification_pending" THEN s
    ELSE IF code = s.code THEN [s EXCEPT !.status = "consumed", !.window = ReplayTicks]
    ELSE [s EXCEPT !.wrong = @ + 1,
                   !.status = IF s.wrong + 1 >= MaxVerifyAttempts THEN "aborted" ELSE @]

\* What the run that answers may find.
Found(s, code) == {s, Verified(s, code)}

\* DELETE_OWNER_LUA: a session has an owner once it is approved.
Abortable(s, user) == s.status = "verification_pending" /\ PageUser[s.code] = user
Aborted(s, user) == IF Abortable(s, user) THEN [s EXCEPT !.status = "aborted"] ELSE s

\* The owner deletes one session through the API.
ExplicitCancel(p, user) ==
    /\ Abortable(session[p], user)
    /\ session' = [session EXCEPT ![p] = Aborted(@, user)]
    /\ UNCHANGED <<page, cli, creds>>

\* The TTL runs out; it is far longer than the replay window.
Evict(p) ==
    /\ session[p].status # "missing"
    /\ ~(At(p, "verify") /\ session[p].window > 0)
    /\ session' = [session EXCEPT ![p] = NoSession]
    /\ UNCHANGED <<page, cli, creds>>

\* One request timeout goes by for a process that is verifying: no attempt
\* outlives it.  Nobody else reads the window.
Tick(p) ==
    /\ At(p, "verify") /\ ~cli[p].late /\ session[p].window > 0
    /\ session' = [session EXCEPT ![p].window = @ - 1]
    /\ cli' = [cli EXCEPT ![p].late = TRUE]
    /\ UNCHANGED <<page, creds>>

(***************************************************************************)
(* The approval page of a session.                                         *)
(***************************************************************************)
Show(q, at) == page' = [page EXCEPT ![q].at = at]
UnchangedButPage == UNCHANGED <<session, cli, creds>>

\* The login url is announced with the session.
OpenPage(q, p) ==
    /\ page[q].at = "unopened" /\ session[p].status # "missing"
    /\ page' = [page EXCEPT ![q] = [at |-> "loading", for |-> p]]
    /\ UnchangedButPage

\* The effect that reads the session when the page mounts.
Loaded(q) ==
    /\ page[q].at = "loading"
    /\ \/ Show(q, CASE session[page[q].for].status = "pending"              -> "active"
                     [] session[page[q].for].status = "verification_pending" -> "failed"
                     [] OTHER                                                -> "unavailable")
       \/ Show(q, "unavailable")
    /\ UnchangedButPage

\* The Approve button is disabled once an approval was tried or seen.
CanApprove(q) == page[q].at = "active"

StartApprove(q) ==
    /\ CanApprove(q)
    /\ Show(q, "working") \/ Show(q, "failed")     \* getToken may return nothing
    /\ UnchangedButPage

\* The PATCH is sent once.  When a script of it ran and its reply was lost, the
\* second run finds the session approved and the page is told 409, or both replies
\* are lost and it is told 500; only a fetch that throws is taken for uncertain.
ApproveLands(q) == session' = [session EXCEPT ![page[q].for] = ApprovedBy(q, @)]

Approve(q) ==
    /\ page[q].at = "working"
    /\ \/ /\ ApproveLands(q)
          /\ Show(q, IF Approvable(session[page[q].for]) THEN "approved" ELSE "failed")
       \/ /\ ApproveLands(q) \/ UNCHANGED session
          /\ Show(q, "uncertain") \/ Show(q, "failed")
    /\ UNCHANGED <<cli, creds>>

\* The tab goes away; a PATCH on its way may still arrive.  Closing a page that
\* shows no code and waits for nothing is not told from leaving it alone.
ClosePage(q) ==
    /\ page[q].at \in {"working", "approved", "uncertain"}
    /\ Show(q, "closed")
    /\ \/ UNCHANGED session
       \/ page[q].at = "working" /\ ApproveLands(q)
    /\ UNCHANGED <<cli, creds>>

\* VerificationCodeDisplay.
DisplayedCodes(p) == {q \in Pages : page[q].for = p /\ page[q].at \in {"approved", "uncertain"}}

(***************************************************************************)
(* A request of a process: each attempt meets one fate, and the outcome    *)
(* that the sender sees is final or tried again.  An attempt that reached  *)
(* the server had its effect whether or not its answer came back.          *)
(***************************************************************************)
RetriedUncounted(p, method, outcome, fallback) ==
    IF Retries(method, outcome, cli[p].try)
    THEN cli' = [cli EXCEPT ![p].try = IF @ + 1 = MaxAttempts THEN 1 ELSE @ + 1, ![p].late = FALSE]
    ELSE Go(p, fallback)
Retried(p, method, outcome, fallback) ==
    IF Retries(method, outcome, cli[p].try)
    THEN cli' = [cli EXCEPT ![p].try = @ + 1, ![p].late = FALSE]
    ELSE Go(p, fallback)

Failures == Outcomes \ {"ok"}

(***************************************************************************)
(* `login`                                                                 *)
(***************************************************************************)
Runs(p, run) == cli[p].kind.run = run
AfterCheck(p) == IF Runs(p, "device") THEN "create" ELSE "ping"

SavedToken == IF creds = Torn THEN None ELSE creds   \* readJson falls back

\* idempotencyCheck, and resolveDirectToken after it.
CheckExisting(p) ==
    /\ At(p, "start") /\ ~Runs(p, "logout")
    /\ \/ (cli[p].kind.force \/ SavedToken = None) /\ Go(p, AfterCheck(p))
       \/ ~cli[p].kind.force /\ SavedToken # None
          /\ Go(p, IF cli[p].kind.noInput THEN "interrupted" ELSE "confirm")
    /\ UNCHANGED <<session, page, creds>>

Confirm(p) ==
    /\ At(p, "confirm")
    /\ Go(p, AfterCheck(p)) \/ Go(p, "interrupted")
    /\ UNCHANGED <<session, page, creds>>

\* A create whose answer is lost leaves a session that nobody has the id of.
\* Without a terminal, the process stops where it would prompt.
CreateSession(p) ==
    /\ At(p, "create")
    /\ \/ /\ session' = [session EXCEPT ![p] = Created]
          /\ Go(p, IF cli[p].kind.noInput THEN "interrupted" ELSE "prompt")
       \/ /\ \E o \in Failures : Retried(p, "POST", o, "failed")
          /\ UNCHANGED session
    /\ UNCHANGED <<page, creds>>

\* The human types the code of a page that shows one, or six other digits;
\* ^C and the end of input stop the process.
PromptCode(p) ==
    /\ At(p, "prompt")
    /\ \/ \E code \in DisplayedCodes(p) \union {Typo} :
             cli' = [cli EXCEPT ![p].pc = "verify", ![p].typed = code]
       \/ Go(p, "interrupted")
    /\ UNCHANGED <<session, page, creds>>

\* verifyAndDecryptWithRetry: only a wrong code spends a strike.
OnVerifyAnswer(p, answer) ==
    CASE answer = "payload" ->
           cli' = [cli EXCEPT ![p].pc = "truncate", ![p].try = 1, ![p].late = FALSE,
                              ![p].strikes = Strikes, ![p].typed = NoCode, ![p].token = session[p].code]
      [] answer = "invalid_code" ->
           cli' = [cli EXCEPT ![p].pc = IF cli[p].strikes = 1 THEN "failed" ELSE "prompt",
                              ![p].strikes = @ - 1, ![p].try = 1, ![p].late = FALSE,
                              ![p].typed = NoCode]
      [] answer = "consumed" -> Go(p, "consumed")
      [] OTHER               -> Go(p, "failed")

Verify(p) ==
    /\ At(p, "verify")
    /\ \/ \E s \in Found(session[p], cli[p].typed) :
             /\ session' = [session EXCEPT ![p] = Verified(s, cli[p].typed)]
             /\ \/ OnVerifyAnswer(p, VerifyAnswer(s, cli[p].typed))
                \/ \E o \in {"timeout", "network", "gateway", "error"} : Retried(p, "POST", o, "failed")
       \/ /\ \E o \in Failures : Retried(p, "POST", o, "failed")
          /\ UNCHANGED session
    /\ UNCHANGED <<page, creds>>

(***************************************************************************)
(* credentials.json: fs.writeFile truncates, then writes.  Two lines of    *)
(* different length written over each other parse as neither.              *)
(***************************************************************************)
Truncate(p) ==
    /\ At(p, "truncate") /\ creds' = Torn /\ Go(p, "write")
    /\ UNCHANGED <<session, page>>

Written(p, token) == creds' = token \/ (creds # Torn /\ creds' = Torn)

\* persistSuccess; a token that was given was validated already.
Write(p) ==
    /\ At(p, "write") /\ Written(p, cli[p].token)
    /\ Go(p, IF Runs(p, "device") THEN "ping" ELSE "done")
    /\ UNCHANGED <<session, page>>

OnMeFailureKeeps(p) == Go(p, "rejected")
OnMeFailure(p) == Go(p, IF Runs(p, "device") THEN "wipe" ELSE "rejected")

\* pingMe: saveDirectToken validates before it saves, the device flow after.
Ping(p) ==
    /\ At(p, "ping")
    /\ \/ Runs(p, "device") /\ cli' = [cli EXCEPT ![p].pc = "done", ![p].valid = TRUE]
       \/ Runs(p, "direct")
          /\ cli' = [cli EXCEPT ![p].pc = "truncate", ![p].valid = TRUE, ![p].token = p]
       \/ OnMeFailure(p)
    /\ UNCHANGED <<session, page, creds>>

\* clearAccessToken, by rollbackOnMeFailure or by `logout`: it clears what the
\* file holds, whoever wrote it.
Wipe(p) ==
    /\ At(p, "wipe") /\ creds' = Torn /\ Go(p, "wiped")
    /\ UNCHANGED <<session, page>>
Wiped(p) ==
    /\ At(p, "wiped") /\ Written(p, None)
    /\ Go(p, IF Runs(p, "logout") THEN "done" ELSE "rejected")
    /\ UNCHANGED <<session, page>>

(***************************************************************************)
(* `logout`: revoke with the saved token if there is one, then clear.      *)
(***************************************************************************)
Logout(p) ==
    /\ At(p, "start") /\ Runs(p, "logout")
    /\ cli' = [cli EXCEPT ![p].pc = IF SavedToken = None THEN "wipe" ELSE "revoke",
                          ![p].token = SavedToken]
    /\ UNCHANGED <<session, page, creds>>

\* DELETE /sessions/all, best effort: a scan that breaks off leaves the rest, and
\* whatever it answers, the file is cleared.
RevokeAll(p) ==
    /\ At(p, "revoke")
    /\ \E scanned \in SUBSET Procs :
         session' = [r \in Procs |-> IF r \in scanned THEN Aborted(session[r], UserOf(cli[p].token))
                                                     ELSE session[r]]
    /\ Go(p, "wipe")
    /\ UNCHANGED <<page, creds>>

Crash(p) ==
    /\ cli[p].pc \notin Ended /\ Go(p, "crashed")
    /\ UNCHANGED <<session, page, creds>>

(***************************************************************************)
(* The specification.                                                      *)
(***************************************************************************)
CliStep(p) ==
    \/ CheckExisting(p) \/ CreateSession(p) \/ Verify(p) \/ Truncate(p) \/ Write(p)
    \/ Ping(p) \/ Wipe(p) \/ Wiped(p) \/ Logout(p) \/ RevokeAll(p)
PageStep(q) == Loaded(q) \/ Approve(q)
Human == (\E p \in Procs : Confirm(p) \/ PromptCode(p))
      \/ (\E q \in Pages : StartApprove(q) \/ ClosePage(q) \/ \E p \in Procs : OpenPage(q, p))
Store == (\E p \in Procs : Tick(p) \/ Evict(p) \/ \E user \in Users : ExplicitCancel(p, user))
Next == Human \/ Store \/ (\E p \in Procs : CliStep(p) \/ Crash(p)) \/ (\E q \in Pages : PageStep(q))

\* Requests end, within their timeout or by an error; humans need not answer.
Fairness == /\ \A p \in Procs : WF_vars(CliStep(p))
            /\ \A q \in Pages : WF_vars(PageStep(q))
Spec == Init /\ [][Next]_vars /\ Fairness

(***************************************************************************)
(* Properties.                                                             *)
(***************************************************************************)
\* While the server waits for a code, the page that made the code up still has
\* it, "rather than stranding a user whose session is now waiting on exactly that
\* code" (page.tsx, ApproveState and the catch of onApprove).
CodeStaysVisible ==
    \A p \in Procs : session[p].status = "verification_pending" =>
        page[session[p].code].at \in {"approved", "uncertain", "closed"}

\* The code of a page that says "approved" is the one the server compares
\* with, for as long as it waits: of two tabs, only the winner shows a code as
\* confirmed (page.tsx, the 409 branch; APPROVE_LUA).
ShownCodeWorks ==
    \A q \in Pages : page[q].at = "approved" /\ session[page[q].for].status = "verification_pending"
                       => session[page[q].for].code = q

\* Replaying a /verify whose answer was lost never costs the login: the replay
\* window outlives every retry of the request that consumed the session
\* (session_verify_consume.lua against apiRequestWithRetry).
NeverStrandedByRetry == \A p \in Procs : cli[p].pc # "consumed"

\* A login that ended leaves its token in the file only if /me accepted it
\* (login.ts, rollbackOnMeFailure; login-helpers.ts, saveDirectToken).
OnlyValidatedTokensStay ==
    \A p \in Procs : cli[p].pc \in {"done", "rejected", "failed", "interrupted"} /\ ~Runs(p, "logout")
                       /\ creds \in Pages \union Procs /\ creds = cli[p].token => cli[p].valid

\* What a login leaves behind at every moment: well-formed sessions, pages that
\* show the code the server compares with, and a file without a rejected token.
LoginInvariant == LoginTypeOK /\ ShownCodeWorks /\ OnlyValidatedTokensStay

\* A process comes back to its human or ends; it is never left waiting on the
\* server or on another process (apiRequest's timeout, the bounded retries).
EveryCommandComesBack ==
    \A p \in Procs : cli[p].pc \notin Ended ~> cli[p].pc \in Ended \union {"confirm", "prompt"}
================================================================================
