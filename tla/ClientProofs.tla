----------------------------- MODULE ClientProofs -----------------------------
(***************************************************************************)
(* Proofs about what the clients say, whatever answers and frames are lost *)
(* and whatever other clients do: of a login (DeviceLogin), for any number *)
(* of processes, pages, accounts, attempts and wrong codes, and of an      *)
(* event (LiveTail), for any number of views, messages, runs of steer,     *)
(* events and frames.  The two share the requests of HttpRetry, nothing    *)
(* else.                                                                   *)
(*                                                                         *)
(* A token goes from a page to a session to a process to the file.  The    *)
(* first invariant says at each of these places whose it is: a session's   *)
(* code is that of one of its own pages, a process holds a code of its own *)
(* session or the token it was given, and what it may find in the file     *)
(* once it has ended is not its own unless /me accepted it.                *)
(*                                                                         *)
(* The log of events only grows, and what has ended stays so.  The second  *)
(* invariant says that everything a client keeps of an event, a row, a     *)
(* frame on its way, a rendered page or the event a turn follows, fits the *)
(* log of the moment, and hence every later one.                           *)
(***************************************************************************)
EXTENDS DeviceLogin, LiveTail, FiniteSetTheorems, SequenceTheorems, TLAPS


\* The k-th backoff is a number of milliseconds.
LEMMA BackoffIsNat == \A k \in 1..9 : LongestBackoff(k) \in Nat
<1> USE DEF LongestBackoff, BaseDelay, CapDelay
<1>1. LongestBackoff(1) \in Nat  OBVIOUS
<1>2. LongestBackoff(2) \in Nat  OBVIOUS
<1>3. LongestBackoff(3) \in Nat  OBVIOUS
<1>4. LongestBackoff(4) \in Nat  OBVIOUS
<1>5. LongestBackoff(5) \in Nat  OBVIOUS
<1>6. LongestBackoff(6) \in Nat  OBVIOUS
<1>7. LongestBackoff(7) \in Nat  OBVIOUS
<1>8. LongestBackoff(8) \in Nat  OBVIOUS
<1>9. LongestBackoff(9) \in Nat  OBVIOUS
<1> HIDE DEF LongestBackoff, BaseDelay, CapDelay
<1>10. \A k \in 1..9 : k \in {1, 2, 3, 4, 5, 6, 7, 8, 9}  OBVIOUS
<1>11. QED  BY <1>1, <1>2, <1>3, <1>4, <1>5, <1>6, <1>7, <1>8, <1>9, <1>10

\* Span is what its definition says.
LEMMA SpanUnfolds ==
    /\ Span[0] = 0
    /\ Span[1] = Timeout
    /\ \A n \in 2..HardCap : Span[n] = Span[n - 1] + Timeout + LongestBackoff(n - 1)
<1> DEFINE Through(f, n) == IF n = 0 THEN 0 ELSE f[n - 1] + Timeout + (IF n = 1 THEN 0 ELSE LongestBackoff(n - 1))
<1> DEFINE s1 == 0 + Timeout + 0
<1> DEFINE s2 == s1 + Timeout + LongestBackoff(1)
<1> DEFINE s3 == s2 + Timeout + LongestBackoff(2)
<1> DEFINE s4 == s3 + Timeout + LongestBackoff(3)
<1> DEFINE s5 == s4 + Timeout + LongestBackoff(4)
<1> DEFINE s6 == s5 + Timeout + LongestBackoff(5)
<1> DEFINE s7 == s6 + Timeout + LongestBackoff(6)
<1> DEFINE s8 == s7 + Timeout + LongestBackoff(7)
<1> DEFINE s9 == s8 + Timeout + LongestBackoff(8)
<1> DEFINE s10 == s9 + Timeout + LongestBackoff(9)
<1> DEFINE g == [n \in 0..HardCap |->
       IF n = 0 THEN 0 ELSE IF n = 1 THEN s1 ELSE IF n = 2 THEN s2 ELSE IF n = 3 THEN s3
       ELSE IF n = 4 THEN s4 ELSE IF n = 5 THEN s5 ELSE IF n = 6 THEN s6 ELSE IF n = 7 THEN s7
       ELSE IF n = 8 THEN s8 ELSE IF n = 9 THEN s9 ELSE s10]
<1> HIDE DEF s1, s2, s3, s4, s5, s6, s7, s8, s9, s10
<1>1. g = [n \in 0..HardCap |-> Through(g, n)]
  <2>1. SUFFICES ASSUME NEW n \in 0..HardCap  PROVE  g[n] = Through(g, n)  OBVIOUS
  <2>2. n \in {0, 1, 2, 3, 4, 5, 6, 7, 8, 9, 10}  BY <2>1 DEF HardCap
  <2>3. QED  BY <2>2 DEF s1, s2, s3, s4, s5, s6, s7, s8, s9, s10, HardCap
<1> HIDE DEF g
<1>2. Span = [n \in 0..HardCap |-> Through(Span, n)]  BY <1>1 DEF Span
<1> HIDE DEF Through
<1>3. \A n \in 0..HardCap : Span[n] = Through(Span, n)  BY <1>2, Zenon
<1>4. 0 \in 0..HardCap /\ 1 \in 0..HardCap /\ \A n \in 2..HardCap : n \in 0..HardCap  BY DEF HardCap
<1>5. Span[0] = Through(Span, 0) /\ Span[1] = Through(Span, 1)  BY <1>3, <1>4
<1>6. Span[0] = 0  BY <1>5 DEF Through
<1>7. Span[1] = Timeout  BY <1>5, <1>6 DEF Through, Timeout
<1>8. ASSUME NEW n \in 2..HardCap  PROVE  Span[n] = Span[n - 1] + Timeout + LongestBackoff(n - 1)
  BY <1>3, <1>4 DEF Through
<1>9. QED  BY <1>6, <1>7, <1>8

\* Each attempt adds its timeout to the span of the ones before.
LEMMA SpanGrows == \A n \in 4..HardCap : Span[n] \in Nat /\ Span[n] >= 4 * Timeout
<1> DEFINE OK(n) == Span[n] \in Nat /\ Span[n] >= 4 * Timeout
<1>1. Span[1] = Timeout  BY SpanUnfolds
<1>2. \A n \in 2..10 : Span[n] = Span[n - 1] + Timeout + LongestBackoff(n - 1)  BY SpanUnfolds DEF HardCap
<1>3. Span[2] \in Nat /\ Span[2] >= 2 * Timeout  BY <1>1, <1>2, BackoffIsNat DEF Timeout
<1>4. Span[3] \in Nat /\ Span[3] >= 3 * Timeout  BY <1>2, <1>3, BackoffIsNat DEF Timeout
<1>5. OK(4)  BY <1>2, <1>4, BackoffIsNat DEF Timeout
<1>6. \A n \in 5..10 : OK(n - 1) => OK(n)  BY <1>2, BackoffIsNat DEF Timeout
<1> HIDE DEF OK
<1>7. \A n \in 4..HardCap : n \in {4, 5, 6, 7, 8, 9, 10}  BY DEF HardCap
<1>8. OK(4) /\ OK(5) /\ OK(6) /\ OK(7) /\ OK(8) /\ OK(9) /\ OK(10)  BY <1>5, <1>6
<1>9. \A n \in 4..HardCap : OK(n)  BY <1>7, <1>8
<1>10. QED  BY <1>9 DEF OK

\* The replay window is longer, in timeouts, than the attempts that fit in it.
LEMMA FewAttempts == MaxAttempts \in 1..3 /\ ReplayTicks = 4
<1>1. MaxAttempts \in 1..HardCap  BY RetryAssumption
<1>2. Span[MaxAttempts] < 60000  BY LoginAssumption
<1>3. MaxAttempts \notin 4..HardCap  BY <1>2, SpanGrows DEF Timeout
<1>4. ReplayTicks = 4  BY LoginAssumption DEF Timeout
<1>5. QED  BY <1>1, <1>3, <1>4 DEF HardCap

-------------------------------------------------------------------------------
Early == {"start", "confirm", "create"}

\* The code of an approved session is that of a page of it, and while a session
\* waits for a code the budget of wrong ones is not spent.
SessionsOK ==
    \A p \in Procs :
        /\ session[p].status \in {"verification_pending", "consumed"} =>
             session[p].code \in Pages /\ page[session[p].code].for = p
        /\ session[p].status \in {"pending", "verification_pending"} => session[p].wrong < MaxVerifyAttempts

\* An open page is for a process, and a session that was approved on a page is
\* never pending again.
PagesOK ==
    \A q \in Pages :
        /\ IF page[q].at = "unopened" THEN page[q].for = NoCode ELSE page[q].for \in Procs
        /\ page[q].at = "approved" => session[page[q].for].status # "pending"

\* Before a process has made its session there is none and no page for it; its
\* code buys the token once; and only a login has a token to save.
RunOK(p) ==
    /\ cli[p].pc \in Early => session[p].status = "missing" /\ \A q \in Pages : page[q].for # p
    /\ cli[p].pc = "prompt" => session[p].status # "consumed"
    /\ cli[p].pc # "consumed"
    /\ cli[p].pc \in Early \union {"prompt", "verify"} => cli[p].strikes > 0
    /\ cli[p].pc \in {"create", "prompt", "verify"} => Runs(p, "device")
    /\ cli[p].pc \in {"confirm", "truncate", "write", "ping"} => ~Runs(p, "logout")

\* A process holds the token it was given, once it is valid, or one of its own
\* session; and what is left of it in the file at the end is valid.
TokenOK(p) ==
    ~Runs(p, "logout") =>
        /\ cli[p].token # None =>
             \/ cli[p].token = p /\ cli[p].valid
             \/ cli[p].token \in Pages /\ page[cli[p].token].for = p /\ Runs(p, "device")
        /\ cli[p].pc \in Early \union {"prompt", "verify", "failed", "interrupted"} => cli[p].token = None
        /\ cli[p].pc \in {"wiped", "rejected", "done"} /\ cli[p].token \in Pages /\ creds = cli[p].token =>
             cli[p].valid

\* While a process asks again for what its lost request has bought, each
\* attempt took at most one tick of the window.
ReplayOK(p) ==
    cli[p].pc = "verify" /\ session[p].status = "consumed" =>
        /\ cli[p].late  => session[p].window + cli[p].try + 1 >= ReplayTicks + 2
        /\ ~cli[p].late => session[p].window + cli[p].try >= ReplayTicks + 2

RunsOK   == \A p \in Procs : RunOK(p)
TokensOK == \A p \in Procs : TokenOK(p)
ReplaysOK == \A p \in Procs : ReplayOK(p)

StoreOK  == SessionsOK /\ PagesOK /\ ShownCodeWorks
LoginInv == LoginTypeOK /\ StoreOK /\ RunsOK /\ TokensOK /\ ReplaysOK

\* The invariant holds at the start, ...
LEMMA LoginStart == Init => LoginInv
<1> SUFFICES ASSUME Init  PROVE  LoginInv  OBVIOUS
<1>1. PICK start \in Starts :
         cli = [p \in Procs |-> [kind |-> start[p], pc |-> "start", try |-> 1, late |-> FALSE,
                                strikes |-> Strikes, typed |-> NoCode, token |-> None, valid |-> FALSE]]
  BY DEF Init
<1>2. start \in [Procs -> Kinds]  BY LoginAssumption
<1>3. cli \in [Procs -> Processes]
  BY <1>1, <1>2, LoginAssumption, FewAttempts DEF Processes, Points, Tokens
<1>4. session \in [Procs -> Sessions]
  BY LoginAssumption DEF Init, NoSession, Sessions
<1>5. page \in [Pages -> PageStates] /\ creds \in Tokens
  BY DEF Init, PageStates, Tokens
<1>6. LoginTypeOK  BY <1>3, <1>4, <1>5 DEF LoginTypeOK
<1>7. SessionsOK  BY DEF Init, SessionsOK, NoSession
<1>8. PagesOK /\ ShownCodeWorks  BY DEF Init, PagesOK, ShownCodeWorks
<1>9. RunsOK
  BY <1>1, LoginAssumption DEF Init, RunsOK, RunOK, Early, NoSession, Runs
<1>10. TokensOK  BY <1>1 DEF TokensOK, TokenOK, Runs
<1>11. ReplaysOK  BY <1>1 DEF ReplaysOK, ReplayOK
<1>12. QED  BY <1>6, <1>7, <1>8, <1>9, <1>10, <1>11 DEF LoginInv, StoreOK

-------------------------------------------------------------------------------
\* Process p, and no other, goes to a point, ...
Moved(p, point) ==
    /\ cli' \in [Procs -> Processes]
    /\ \A r \in Procs \ {p} : cli'[r] = cli[r]
    /\ cli'[p].pc = point /\ cli'[p].kind = cli[p].kind

\* ... and keeps its token and its strikes.
Went(p, point) ==
    /\ Moved(p, point)
    /\ cli'[p].token = cli[p].token /\ cli'[p].valid = cli[p].valid
    /\ point \notin Ended => cli'[p].strikes = cli[p].strikes

\* That is what Go does.
LEMMA GoWent ==
    ASSUME LoginTypeOK, NEW p \in Procs, NEW point \in Points \union Ended, Go(p, point)
    PROVE  Went(p, point)
<1>1. cli[p] \in Processes /\ cli \in [Procs -> Processes]  BY DEF LoginTypeOK
<1>2. PICK n : n = IF point \in Ended THEN Strikes ELSE cli[p].strikes  OBVIOUS
<1>3. n \in 0..Strikes  BY <1>1, <1>2, LoginAssumption DEF Processes
<1>4. cli' = [cli EXCEPT ![p] = [cli[p] EXCEPT !.pc = point, !.try = 1, !.late = FALSE, !.typed = NoCode,
                                               !.strikes = n]]
  BY <1>1, <1>2 DEF Go, Processes
<1>5. PICK c : c = [cli[p] EXCEPT !.pc = point, !.try = 1, !.late = FALSE, !.typed = NoCode, !.strikes = n]
  OBVIOUS
<1>6. c \in Processes
  <2>1. 1 \in 1..MaxAttempts  BY FewAttempts
  <2>2. QED  BY <1>1, <1>3, <1>5, <2>1 DEF Processes
<1>7. cli' = [cli EXCEPT ![p] = c]  BY <1>4, <1>5
<1>8. c.pc = point /\ c.kind = cli[p].kind /\ c.token = cli[p].token /\ c.valid = cli[p].valid /\ c.strikes = n
  BY <1>1, <1>5 DEF Processes
<1>9. QED  BY <1>1, <1>2, <1>6, <1>7, <1>8 DEF Went, Moved

\* Process p tries again, with less of the window used per attempt.
LEMMA RetriedWent ==
    ASSUME LoginTypeOK, NEW p \in Procs, NEW method, NEW outcome, Retried(p, method, outcome, "failed")
    PROVE  \/ Went(p, "failed")
           \/ /\ Went(p, cli[p].pc)
              /\ cli'[p].try = cli[p].try + 1 /\ cli'[p].late = FALSE /\ cli[p].late \in BOOLEAN
<1>1. CASE Go(p, "failed")
  BY <1>1, GoWent DEF Ended, Points
<1>2. CASE Retries(method, outcome, cli[p].try)
  <2>1. cli[p] \in Processes /\ cli \in [Procs -> Processes]  BY DEF LoginTypeOK
  <2>2. cli[p].try < MaxAttempts  BY <1>2 DEF Retries
  <2>3. cli[p].try + 1 \in 1..MaxAttempts  BY <2>1, <2>2, FewAttempts DEF Processes
  <2>4. PICK c : c = [cli[p] EXCEPT !.try = cli[p].try + 1, !.late = FALSE]  OBVIOUS
  <2>5. cli' = [cli EXCEPT ![p] = c]  BY <1>2, <2>1, <2>4 DEF Retried, Processes
  <2>6. c \in Processes
    <3>1. PICK d \in Processes : d = cli[p]  BY <2>1
    <3>2. QED  BY <2>3, <2>4, <3>1 DEF Processes
  <2>7. /\ c.pc = cli[p].pc /\ c.kind = cli[p].kind /\ c.token = cli[p].token /\ c.valid = cli[p].valid
        /\ c.strikes = cli[p].strikes /\ c.try = cli[p].try + 1 /\ c.late = FALSE
    BY <2>1, <2>4 DEF Processes
  <2>8. Went(p, cli[p].pc)  BY <2>1, <2>5, <2>6, <2>7 DEF Went, Moved
  <2>9. QED  BY <2>1, <2>5, <2>7, <2>8 DEF Processes
<1>3. QED  BY <1>1, <1>2 DEF Retried

-------------------------------------------------------------------------------
\* What a step of the store does to a session: it is gone or aborted, it is new
\* and nobody has a page of it, it stays, or it is tried with a code.
SessionMoves(r) ==
    \/ session'[r].status \notin {"pending", "verification_pending", "consumed"}
    \/ session'[r].status = "pending" /\ session'[r].wrong < MaxVerifyAttempts /\ \A q \in Pages : page[q].for # r
    \/ /\ session'[r].status = session[r].status /\ session'[r].code = session[r].code
       /\ session'[r].wrong = session[r].wrong
    \/ /\ session[r].status = "verification_pending" /\ session'[r].code = session[r].code
       /\ \/ session'[r].status = "consumed"
          \/ session'[r].status = "verification_pending" /\ session'[r].wrong < MaxVerifyAttempts

\* No such step separates a code from its page.
LEMMA StoreStays ==
    ASSUME LoginInv, UNCHANGED page, \A r \in Procs : SessionMoves(r)
    PROVE  StoreOK'
<1> USE DEF LoginInv, StoreOK
<1>1. SessionsOK'  BY DEF SessionsOK, SessionMoves
<1>2. \A q \in Pages : page[q].at = "approved" => page[q].for \in Procs
  BY DEF PagesOK
<1>3. PagesOK'  BY <1>2 DEF PagesOK, SessionMoves
<1>4. ShownCodeWorks'  BY <1>2 DEF ShownCodeWorks, SessionMoves, PagesOK
<1>5. QED  BY <1>1, <1>3, <1>4

\* Where process p may go, as far as its session and its strikes tell, ...
MayRun(p, point) ==
    /\ point \in Early => cli[p].pc \in Early /\ session'[p].status = "missing"
    /\ point = "prompt" => session'[p].status # "consumed"
    /\ point # "consumed"
    /\ point \in Early \union {"prompt", "verify"} => cli'[p].strikes > 0
    /\ point \in {"create", "prompt", "verify"} => Runs(p, "device")
    /\ point \in {"confirm", "truncate", "write", "ping"} => ~Runs(p, "logout")

\* ... and as far as its token does.
MayHold(p, point) ==
    ~Runs(p, "logout") =>
        /\ point \in Early \union {"prompt", "verify", "failed", "interrupted"} => cli[p].token = None
        /\ point \in {"wiped", "rejected", "done"} /\ cli[p].token \in Pages /\ creds' = cli[p].token => cli[p].valid

\* The file holds no other token than before, but for that of process p.
FileStays(p) ==
    \A r \in Procs \ {p} : ~Runs(r, "logout") /\ cli[r].token \in Pages /\ creds' = cli[r].token => creds = cli[r].token

\* The sessions of others are not made or used up.
OthersStay(p) ==
    \A r \in Procs \ {p} :
        /\ session[r].status = "missing" => session'[r].status = "missing"
        /\ session'[r].status = "consumed" => session'[r] = session[r]

\* A process that goes where it may, while pages stay, keeps the invariant.
LEMMA GoingKeeps ==
    ASSUME LoginInv, NEW p \in Procs, NEW point, Moved(p, point), UNCHANGED page,
           session' \in [Procs -> Sessions], creds' \in Tokens \union {Torn},
           \A r \in Procs : SessionMoves(r), OthersStay(p),
           MayRun(p, point), TokenOK(p)', FileStays(p), ReplayOK(p)'
    PROVE  LoginInv'
<1> USE DEF LoginInv
<1>1. StoreOK'  BY StoreStays
<1>2. LoginTypeOK'  BY DEF LoginTypeOK, Moved
<1>3. RunsOK'
  <2>1. ASSUME NEW r \in Procs \ {p}  PROVE  RunOK(r)'
    BY <2>1 DEF RunsOK, RunOK, Moved, OthersStay, Runs
  <2>2. RunOK(p)'
    <3>1. RunOK(p)  BY DEF RunsOK
    <3>2. QED  BY <3>1 DEF RunOK, Moved, MayRun, Runs
  <2>3. QED  BY <2>1, <2>2 DEF RunsOK
<1>4. TokensOK'
  <2>1. ASSUME NEW r \in Procs \ {p}  PROVE  TokenOK(r)'
    BY <2>1 DEF TokensOK, TokenOK, Moved, FileStays, Runs
  <2>2. QED  BY <2>1 DEF TokensOK
<1>5. ReplaysOK'
  <2>1. ASSUME NEW r \in Procs \ {p}  PROVE  ReplayOK(r)'
    BY <2>1 DEF ReplaysOK, ReplayOK, Moved, OthersStay
  <2>2. QED  BY <2>1 DEF ReplaysOK
<1>6. QED  BY <1>1, <1>2, <1>3, <1>4, <1>5

\* A process that keeps its token may hold it where it goes.
LEMMA HoldingOn ==
    ASSUME LoginInv, NEW p \in Procs, NEW point, Went(p, point), UNCHANGED page, MayHold(p, point)
    PROVE  Moved(p, point) /\ TokenOK(p)'
<1>1. TokenOK(p)  BY DEF LoginInv, TokensOK
<1>2. QED  BY <1>1 DEF TokenOK, Went, Moved, MayHold, Runs

-------------------------------------------------------------------------------
\* A step that leaves the store and the file alone, or clears the file.
LEMMA QuietStep ==
    ASSUME LoginInv, NEW p \in Procs, NEW point, Went(p, point), UNCHANGED <<session, page>>,
           creds' \in {creds, Torn, None}, point # "verify",
           MayRun(p, point), MayHold(p, point)
    PROVE  LoginInv'
<1>1. session' \in [Procs -> Sessions]  BY DEF LoginInv, LoginTypeOK
<1>2. creds' \in Tokens \union {Torn}  BY DEF LoginInv, LoginTypeOK, Tokens
<1>3. \A r \in Procs : SessionMoves(r)  BY DEF SessionMoves
<1>4. OthersStay(p)  BY DEF OthersStay
<1>5. FileStays(p)  BY LoginAssumption DEF FileStays
<1>6. ReplayOK(p)'  BY DEF ReplayOK, Went, Moved
<1>7. Moved(p, point) /\ TokenOK(p)'  BY HoldingOn
<1>8. QED  BY <1>1, <1>2, <1>3, <1>4, <1>5, <1>6, <1>7, GoingKeeps

\* A process looks for a token that is there and goes on, asks, or stops.
LEMMA CheckExistingStep == ASSUME LoginInv, NEW p \in Procs, CheckExisting(p)  PROVE  LoginInv'
<1>1. PICK point \in {"create", "ping", "interrupted", "confirm"} :
         /\ Go(p, point) /\ (point = "create" => Runs(p, "device"))
  BY DEF CheckExisting, AfterCheck
<1>2. Went(p, point)  BY <1>1, GoWent DEF LoginInv, Points, Ended
<1>3. RunOK(p) /\ TokenOK(p)  BY DEF LoginInv, RunsOK, TokensOK
<1>4. cli[p].pc = "start" /\ ~Runs(p, "logout") /\ UNCHANGED <<session, page, creds>>
  BY DEF CheckExisting, At
<1>5. MayRun(p, point)  BY <1>1, <1>2, <1>3, <1>4 DEF MayRun, RunOK, Early, Went, Moved, Ended
<1>6. MayHold(p, point)  BY <1>1, <1>3, <1>4 DEF MayHold, TokenOK, Early
<1>7. QED  BY <1>1, <1>2, <1>4, <1>5, <1>6, QuietStep

\* Its human lets it go on, or not.
LEMMA ConfirmStep == ASSUME LoginInv, NEW p \in Procs, Confirm(p)  PROVE  LoginInv'
<1>1. PICK point \in {"create", "ping", "interrupted"} :
         /\ Go(p, point) /\ (point = "create" => Runs(p, "device"))
  BY DEF Confirm, AfterCheck
<1>2. Went(p, point)  BY <1>1, GoWent DEF LoginInv, Points, Ended
<1>3. RunOK(p) /\ TokenOK(p)  BY DEF LoginInv, RunsOK, TokensOK
<1>4. cli[p].pc = "confirm" /\ UNCHANGED <<session, page, creds>>
  BY DEF Confirm, At
<1>5. MayRun(p, point)  BY <1>1, <1>2, <1>3, <1>4 DEF MayRun, RunOK, Early, Went, Moved, Ended
<1>6. MayHold(p, point)  BY <1>1, <1>3, <1>4 DEF MayHold, TokenOK, Early
<1>7. QED  BY <1>1, <1>2, <1>4, <1>5, <1>6, QuietStep

\* It dies.
LEMMA CrashStep == ASSUME LoginInv, NEW p \in Procs, Crash(p)  PROVE  LoginInv'
<1>1. Went(p, "crashed")  BY GoWent DEF LoginInv, Ended, Crash
<1>2. MayRun(p, "crashed") /\ MayHold(p, "crashed")  BY DEF MayRun, MayHold, Early
<1>3. QED  BY <1>1, <1>2, QuietStep DEF Crash

\* A step that makes or uses up nothing but the session of p.
LEMMA OwnSession ==
    ASSUME LoginInv, NEW p \in Procs, NEW s \in Sessions, session' = [session EXCEPT ![p] = s]
    PROVE  /\ session' \in [Procs -> Sessions] /\ session'[p] = s /\ OthersStay(p)
           /\ \A r \in Procs \ {p} : session'[r] = session[r]
BY DEF LoginInv, LoginTypeOK, OthersStay

\* It makes its session, which nobody has opened a page of yet, or tries again.
LEMMA CreateSessionStep == ASSUME LoginInv, NEW p \in Procs, CreateSession(p)  PROVE  LoginInv'
<1>1. RunOK(p) /\ TokenOK(p)  BY DEF LoginInv, RunsOK, TokensOK
<1>2. cli[p].pc = "create" /\ UNCHANGED <<page, creds>>  BY DEF CreateSession, At
<1>3. Runs(p, "device") /\ session[p].status = "missing" /\ \A q \in Pages : page[q].for # p
  BY <1>1, <1>2 DEF RunOK, Early
<1>4. cli[p].token = None /\ cli[p].strikes > 0  BY <1>1, <1>2, <1>3 DEF TokenOK, RunOK, Early, Runs
<1>5. CASE session' = [session EXCEPT ![p] = Created] /\ Go(p, IF cli[p].kind.noInput THEN "interrupted" ELSE "prompt")
  <2>1. PICK point \in {"interrupted", "prompt"} : Go(p, point)  BY <1>5
  <2>2. Went(p, point)  BY <2>1, GoWent DEF LoginInv, Points, Ended
  <2>3. Created \in Sessions /\ Created.status = "pending" /\ Created.wrong = 0
    BY LoginAssumption DEF Created, NoSession, Sessions
  <2>4. /\ session' \in [Procs -> Sessions] /\ session'[p] = Created /\ OthersStay(p)
        /\ \A r \in Procs \ {p} : session'[r] = session[r]
    BY <1>5, <2>3, OwnSession
  <2>5. \A r \in Procs : SessionMoves(r)
    BY <1>3, <2>3, <2>4, LoginAssumption DEF SessionMoves
  <2>6. creds' \in Tokens \union {Torn} /\ FileStays(p)  BY <1>2 DEF LoginInv, LoginTypeOK, FileStays
  <2>7. MayRun(p, point)  BY <1>3, <1>4, <2>1, <2>2, <2>3, <2>4 DEF MayRun, Went, Early, Ended
  <2>8. MayHold(p, point)  BY <1>4, <2>1 DEF MayHold
  <2>9. ReplayOK(p)'  BY <2>1, <2>2 DEF ReplayOK, Went, Moved
  <2>10. Moved(p, point) /\ TokenOK(p)'  BY <1>2, <2>2, <2>8, HoldingOn
  <2>11. QED  BY <1>2, <2>4, <2>5, <2>6, <2>7, <2>9, <2>10, GoingKeeps
<1>6. CASE (\E o \in Failures : Retried(p, "POST", o, "failed")) /\ UNCHANGED session
  <2>1. PICK o \in Failures : Retried(p, "POST", o, "failed")  BY <1>6
  <2>2. PICK point \in {"failed", "create"} : Went(p, point)
    BY <1>2, <2>1, RetriedWent DEF LoginInv
  <2>3. MayRun(p, point)  BY <1>2, <1>3, <1>4, <1>6, <2>2 DEF MayRun, Went, Early, Ended
  <2>4. MayHold(p, point)  BY <1>4, <2>2 DEF MayHold
  <2>5. QED  BY <1>2, <1>6, <2>2, <2>3, <2>4, QuietStep
<1>7. QED  BY <1>5, <1>6 DEF CreateSession

\* A code is typed before it has bought anything.
LEMMA PromptCodeStep == ASSUME LoginInv, NEW p \in Procs, PromptCode(p)  PROVE  LoginInv'
<1>1. RunOK(p) /\ TokenOK(p)  BY DEF LoginInv, RunsOK, TokensOK
<1>2. cli[p].pc = "prompt" /\ UNCHANGED <<session, page, creds>>  BY DEF PromptCode, At
<1>3. Runs(p, "device") /\ session[p].status # "consumed" /\ cli[p].strikes > 0 /\ cli[p].token = None
  BY <1>1, <1>2 DEF RunOK, TokenOK, Runs
<1>4. CASE Go(p, "interrupted")
  <2>1. Went(p, "interrupted")  BY <1>4, GoWent DEF LoginInv, Ended
  <2>2. MayRun(p, "interrupted") /\ MayHold(p, "interrupted")  BY <1>3 DEF MayRun, MayHold, Early
  <2>3. QED  BY <1>2, <2>1, <2>2, QuietStep
<1>5. ASSUME NEW code \in DisplayedCodes(p) \union {Typo},
             cli' = [cli EXCEPT ![p].pc = "verify", ![p].typed = code]
      PROVE  LoginInv'
  <2>1. cli \in [Procs -> Processes] /\ cli[p] \in Processes  BY DEF LoginInv, LoginTypeOK
  <2>2. code \in Pages \union {Typo}  BY <1>5 DEF DisplayedCodes
  <2>3. PICK d \in Processes : d = cli[p]  BY <2>1
  <2>4. PICK c : c = [d EXCEPT !.pc = "verify", !.typed = code]  OBVIOUS
  <2>5. c \in Processes  BY <2>2, <2>4 DEF Processes, Points
  <2>6. cli' = [cli EXCEPT ![p] = c]  BY <1>5, <2>1, <2>3, <2>4 DEF Processes
  <2>7. c.pc = "verify" /\ c.kind = d.kind /\ c.token = d.token /\ c.valid = d.valid /\ c.strikes = d.strikes
    BY <2>4 DEF Processes
  <2>8. Went(p, "verify")  BY <2>1, <2>3, <2>5, <2>6, <2>7 DEF Went, Moved
  <2>9. MayRun(p, "verify") /\ MayHold(p, "verify")  BY <1>3, <2>8 DEF MayRun, MayHold, Went, Early, Ended
  <2>10. ReplayOK(p)'  BY <1>2, <1>3 DEF ReplayOK
  <2>11. Moved(p, "verify") /\ TokenOK(p)'  BY <1>2, <2>8, <2>9, HoldingOn
  <2>12. /\ session' \in [Procs -> Sessions] /\ creds' \in Tokens \union {Torn}
         /\ (\A r \in Procs : SessionMoves(r)) /\ OthersStay(p) /\ FileStays(p)
    BY <1>2 DEF LoginInv, LoginTypeOK, SessionMoves, OthersStay, FileStays
  <2>13. QED  BY <1>2, <2>9, <2>10, <2>11, <2>12, GoingKeeps
<1>6. QED  BY <1>4, <1>5 DEF PromptCode

\* What each answer to a code says of the session.
LEMMA AnswerSays ==
    ASSUME NEW s \in Sessions, NEW code
    PROVE  /\ VerifyAnswer(s, code) \in {"payload", "invalid_code", "consumed", "gone"}
           /\ VerifyAnswer(s, code) = "payload" =>
                s.status = "verification_pending" \/ s.status = "consumed"
           /\ VerifyAnswer(s, code) = "invalid_code" =>
                s.status = "verification_pending" /\ code # s.code
           /\ VerifyAnswer(s, code) = "consumed" => s.status = "consumed" /\ s.window = 0
BY DEF VerifyAnswer, Sessions

\* What trying a code once or more may leave of a session.
TriedTo(s, v, code) ==
    /\ v \in Sessions
    /\ \/ v = s
       \/ /\ s.status = "verification_pending" /\ v.code = s.code
          /\ \/ v.status = "consumed" /\ v.window = ReplayTicks /\ code = s.code
             \/ v.status = "verification_pending" /\ v.wrong < MaxVerifyAttempts
             \/ v.status = "aborted"

\* One run of the script.
LEMMA VerifiedIs ==
    ASSUME NEW s \in Sessions, NEW code, s.status = "verification_pending" => s.wrong < MaxVerifyAttempts
    PROVE  TriedTo(s, Verified(s, code), code)
<1> USE DEF TriedTo
<1>2. PICK v : v = Verified(s, code)  OBVIOUS
<1>4. CASE s.status # "verification_pending"  BY <1>2, <1>4 DEF Verified
<1>5. CASE s.status = "verification_pending" /\ code = s.code
  <2>1. v = [s EXCEPT !.status = "consumed", !.window = ReplayTicks]  BY <1>2, <1>5 DEF Verified
  <2>2. v \in Sessions /\ v.code = s.code /\ v.status = "consumed" /\ v.window = ReplayTicks
    <3>1. ReplayTicks \in 0..ReplayTicks  BY FewAttempts
    <3>2. QED  BY <2>1, <3>1 DEF Sessions
  <2>3. QED  BY <1>2, <1>5, <2>2
<1>6. CASE s.status = "verification_pending" /\ code # s.code
  <2>1. PICK st : st = IF s.wrong + 1 >= MaxVerifyAttempts THEN "aborted" ELSE s.status  OBVIOUS
  <2>2. v = [s EXCEPT !.wrong = s.wrong + 1, !.status = st]  BY <1>2, <1>6, <2>1 DEF Verified, Sessions
  <2>3. s.wrong + 1 \in 0..MaxVerifyAttempts  BY <1>6, LoginAssumption DEF Sessions
  <2>4. v \in Sessions /\ v.code = s.code /\ v.status = st /\ v.wrong = s.wrong + 1
    BY <1>6, <2>1, <2>2, <2>3 DEF Sessions
  <2>5. st = "verification_pending" => s.wrong + 1 < MaxVerifyAttempts
    BY <2>1, <2>3, LoginAssumption
  <2>6. st \in {"aborted", "verification_pending"}  BY <1>6, <2>1
  <2>7. QED  BY <1>2, <1>6, <2>4, <2>5, <2>6
<1>7. QED  BY <1>4, <1>5, <1>6

\* The run that answers, whether it was the first or the second.
LEMMA FoundIs ==
    ASSUME LoginInv, NEW p \in Procs, NEW code, NEW f \in Found(session[p], code)
    PROVE  /\ f \in Sessions /\ TriedTo(session[p], f, code)
           /\ TriedTo(session[p], Verified(f, code), code)
<1>1. PICK s \in Sessions : s = session[p]  BY DEF LoginInv, LoginTypeOK
<1>2. s.status = "verification_pending" => s.wrong < MaxVerifyAttempts
  BY <1>1 DEF LoginInv, StoreOK, SessionsOK
<1>3. TriedTo(s, Verified(s, code), code)  BY <1>2, VerifiedIs
<1>4. TriedTo(s, f, code)  BY <1>1, <1>3 DEF Found, TriedTo
<1>5. f \in Sessions /\ (f.status = "verification_pending" => f.wrong < MaxVerifyAttempts)
  BY <1>2, <1>4 DEF TriedTo
<1>6. PICK v : v = Verified(f, code) /\ TriedTo(f, v, code)  BY <1>5, VerifiedIs
<1>7. TriedTo(s, v, code)  BY <1>4, <1>6 DEF TriedTo
<1>8. QED  BY <1>1, <1>4, <1>5, <1>6, <1>7

\* A code is tried: it buys the token of its page, or costs a strike, or the
\* answer is lost and the same code is sent again inside the replay window.
LEMMA VerifyStep == ASSUME LoginInv, NEW p \in Procs, Verify(p)  PROVE  LoginInv'
<1>1. RunOK(p) /\ TokenOK(p) /\ ReplayOK(p)  BY DEF LoginInv, RunsOK, TokensOK, ReplaysOK
<1>2. cli[p].pc = "verify" /\ UNCHANGED <<page, creds>>  BY DEF Verify, At
<1>3. Runs(p, "device") /\ cli[p].strikes > 0 /\ cli[p].token = None
  BY <1>1, <1>2 DEF RunOK, TokenOK, Runs
<1>4. cli \in [Procs -> Processes]  BY DEF LoginInv, LoginTypeOK
<1>5. PICK s \in Sessions : s = session[p]  BY DEF LoginInv, LoginTypeOK
<1>6. PICK d \in Processes : d = cli[p]  BY <1>4
<1>7. creds' \in Tokens \union {Torn} /\ FileStays(p)  BY <1>2 DEF LoginInv, LoginTypeOK, FileStays
\* The step, once the session it leaves and the process it leaves are known.
<1>8. ASSUME NEW v \in Sessions, session' = [session EXCEPT ![p] = v],
             \/ v = s
             \/ /\ s.status = "verification_pending" /\ v.code = s.code
                /\ \/ v.status = "consumed"
                   \/ v.status = "verification_pending" /\ v.wrong < MaxVerifyAttempts
                   \/ v.status = "aborted",
             NEW point \in {"truncate", "prompt", "verify", "failed"}, Moved(p, point), TokenOK(p)',
             point \in {"prompt", "verify"} => cli'[p].strikes > 0,
             point = "prompt" => v.status # "consumed",
             ReplayOK(p)'
      PROVE  LoginInv'
  <2>1. /\ session' \in [Procs -> Sessions] /\ session'[p] = v /\ OthersStay(p)
        /\ \A r \in Procs \ {p} : session'[r] = session[r]
    BY <1>8, OwnSession
  <2>2. \A r \in Procs : SessionMoves(r)  BY <1>5, <1>8, <2>1 DEF SessionMoves
  <2>3. MayRun(p, point)  BY <1>3, <1>8, <2>1 DEF MayRun, Early, Runs
  <2>4. QED  BY <1>2, <1>7, <1>8, <2>1, <2>2, <2>3, GoingKeeps
\* An attempt without an answer.
<1>9. ASSUME NEW v \in Sessions, session' = [session EXCEPT ![p] = v],
             \/ v = s
             \/ /\ s.status = "verification_pending" /\ v.code = s.code
                /\ \/ v.status = "consumed" /\ v.window = ReplayTicks
                   \/ v.status = "verification_pending" /\ v.wrong < MaxVerifyAttempts
                   \/ v.status = "aborted",
             NEW o, Retried(p, "POST", o, "failed")
      PROVE  LoginInv'
  <2>1. \/ Went(p, "failed")
        \/ Went(p, "verify") /\ cli'[p].try = d.try + 1 /\ cli'[p].late = FALSE /\ d.late \in BOOLEAN
    BY <1>2, <1>6, <1>9, RetriedWent DEF LoginInv
  <2>2. PICK point \in {"failed", "verify"} : Went(p, point)  BY <2>1
  <2>3. MayHold(p, point)  BY <1>3, <2>2 DEF MayHold
  <2>4. Moved(p, point) /\ TokenOK(p)'  BY <1>2, <2>2, <2>3, HoldingOn
  <2>5. point = "verify" => cli'[p].strikes > 0  BY <1>3, <2>2 DEF Went, Ended
  <2>6. session'[p] = v  BY <1>9, OwnSession
  <2>7. ReplayOK(p)'
    <3>1. CASE point = "failed"  BY <2>2, <3>1 DEF Went, Moved, ReplayOK
    <3>2. CASE point = "verify"
      <4>1. cli'[p].try = d.try + 1 /\ cli'[p].late = FALSE /\ d.late \in BOOLEAN
        BY <2>1, <2>2, <3>2 DEF Went, Moved
      <4>2. d.try \in Nat /\ d.try >= 1 /\ s.window \in Nat /\ v.window \in Nat
        BY <1>5, <1>6, <1>9, FewAttempts DEF Processes, Sessions
      <4>3. CASE v = s
        <5>1. s.status = "consumed" => s.window + d.try + 1 >= ReplayTicks + 2
          BY <1>1, <1>2, <1>5, <1>6, <4>1, <4>2, FewAttempts DEF ReplayOK
        <5>2. QED  BY <2>6, <4>1, <4>2, <4>3, <5>1, FewAttempts DEF ReplayOK
      <4>4. CASE v.status = "consumed" => v.window = ReplayTicks
        BY <2>6, <4>1, <4>2, <4>4, FewAttempts DEF ReplayOK
      <4>5. QED  BY <1>9, <4>3, <4>4
    <3>3. QED  BY <2>2, <3>1, <3>2
  <2>8. QED  BY <1>8, <1>9, <2>2, <2>4, <2>5, <2>7
<1>10. ASSUME NEW f \in Found(s, cli[p].typed), session' = [session EXCEPT ![p] = Verified(f, cli[p].typed)],
              OnVerifyAnswer(p, VerifyAnswer(f, cli[p].typed))
       PROVE  LoginInv'
  <2>1. PICK v : v = Verified(f, cli[p].typed)  OBVIOUS
  <2>2. TriedTo(s, f, cli[p].typed) /\ TriedTo(s, v, cli[p].typed) /\ f \in Sessions /\ v \in Sessions
    BY <1>5, <1>10, <2>1, FoundIs DEF TriedTo
  <2> USE DEF TriedTo
  <2>3. session' = [session EXCEPT ![p] = v]  BY <1>10, <2>1
  <2>4. PICK a : a = VerifyAnswer(f, cli[p].typed)  OBVIOUS
  <2>5. /\ a \in {"payload", "invalid_code", "consumed", "gone"}
        /\ a = "payload" => s.status = "verification_pending" \/ s.status = "consumed"
        /\ a = "invalid_code" => s.status = "verification_pending" /\ cli[p].typed # s.code
        /\ a = "consumed" => f.status = "consumed" /\ f.window = 0
    <3>1. /\ a \in {"payload", "invalid_code", "consumed", "gone"}
          /\ a = "payload" => f.status = "verification_pending" \/ f.status = "consumed"
          /\ a = "invalid_code" => f.status = "verification_pending" /\ cli[p].typed # f.code
          /\ a = "consumed" => f.status = "consumed" /\ f.window = 0
      BY <2>2, <2>4, AnswerSays
    <3>2. QED  BY <2>2, <3>1
  <2>6. OnVerifyAnswer(p, a)  BY <1>10, <2>4
  <2>7. CASE a = "payload"
    <3>1. s.code \in Pages /\ page[s.code].for = p  BY <1>5, <2>5, <2>7 DEF LoginInv, StoreOK, SessionsOK
    <3>2. PICK c : c = [d EXCEPT !.pc = "truncate", !.try = 1, !.late = FALSE, !.strikes = Strikes,
                                 !.typed = NoCode, !.token = s.code]
      OBVIOUS
    <3>3. 1 \in 1..MaxAttempts /\ Strikes \in 0..Strikes  BY FewAttempts, LoginAssumption
    <3>4. c \in Processes  BY <3>1, <3>2, <3>3 DEF Processes, Points, Tokens
    <3>5. c.pc = "truncate" /\ c.kind = d.kind /\ c.token = s.code  BY <3>2 DEF Processes
    <3>6. cli' = [cli EXCEPT ![p] = c]  BY <1>4, <1>5, <1>6, <2>6, <2>7, <3>2 DEF OnVerifyAnswer, Processes
    <3>7. Moved(p, "truncate") /\ cli'[p].token = s.code  BY <1>4, <1>6, <3>4, <3>5, <3>6 DEF Moved
    <3>8. TokenOK(p)'  BY <1>2, <1>3, <3>1, <3>7 DEF TokenOK, Moved, Early, Runs
    <3>9. ReplayOK(p)'  BY <3>7 DEF ReplayOK, Moved
    <3>10. QED  BY <1>8, <2>2, <2>3, <3>7, <3>8, <3>9
  <2>8. CASE a = "invalid_code"
    <3>1. PICK point : point = IF d.strikes = 1 THEN "failed" ELSE "prompt"  OBVIOUS
    <3>2. PICK c : c = [d EXCEPT !.pc = point, !.strikes = d.strikes - 1, !.try = 1, !.late = FALSE, !.typed = NoCode]
      OBVIOUS
    <3>3. 1 \in 1..MaxAttempts /\ d.strikes - 1 \in 0..Strikes
      BY <1>3, <1>6, FewAttempts, LoginAssumption DEF Processes
    <3>4. point \in {"failed", "prompt"}  BY <3>1
    <3>5. c \in Processes  BY <3>2, <3>3, <3>4 DEF Processes, Points, Ended
    <3>6. c.pc = point /\ c.kind = d.kind /\ c.token = d.token /\ c.strikes = d.strikes - 1
      BY <3>2 DEF Processes
    <3>7. cli' = [cli EXCEPT ![p] = c]  BY <1>4, <1>6, <2>6, <2>8, <3>1, <3>2 DEF OnVerifyAnswer, Processes
    <3>8. Moved(p, point) /\ cli'[p].token = None /\ cli'[p].strikes = d.strikes - 1
      BY <1>3, <1>4, <1>6, <3>5, <3>6, <3>7 DEF Moved
    <3>9. TokenOK(p)'  BY <1>3, <3>4, <3>8, LoginAssumption DEF TokenOK, Moved
    <3>10. ReplayOK(p)'  BY <3>4, <3>8 DEF ReplayOK, Moved
    <3>11. point = "prompt" => cli'[p].strikes > 0
      BY <1>3, <1>6, <3>1, <3>8, LoginAssumption DEF Processes
    <3>12. v.status # "consumed"  BY <2>2, <2>5, <2>8
    <3>13. QED  BY <1>8, <2>2, <2>3, <3>4, <3>8, <3>9, <3>10, <3>11, <3>12
  <2>9. a # "consumed"
    <3>1. SUFFICES ASSUME s.status = "consumed", s.window = 0  PROVE  FALSE
      BY <2>2, <2>5, FewAttempts
    <3>2. d.try \in 1..3 /\ d.late \in BOOLEAN  BY <1>6, FewAttempts DEF Processes
    <3>3. \/ d.late /\ 0 + d.try + 1 >= 6
          \/ ~d.late /\ 0 + d.try >= 6
      BY <1>1, <1>2, <1>5, <1>6, <3>1, <3>2, FewAttempts DEF ReplayOK
    <3>4. QED  BY <3>2, <3>3
  <2>10. CASE a = "gone"
    <3>1. Go(p, "failed")  BY <2>6, <2>10 DEF OnVerifyAnswer
    <3>2. Went(p, "failed")  BY <3>1, GoWent DEF LoginInv, Ended
    <3>3. MayHold(p, "failed")  BY <1>3 DEF MayHold
    <3>4. Moved(p, "failed") /\ TokenOK(p)'  BY <1>2, <3>2, <3>3, HoldingOn
    <3>5. ReplayOK(p)'  BY <3>4 DEF ReplayOK, Moved
    <3>6. QED  BY <1>8, <2>2, <2>3, <3>4, <3>5
  <2>11. QED  BY <2>5, <2>7, <2>8, <2>9, <2>10
<1>11. ASSUME NEW f \in Found(s, cli[p].typed), session' = [session EXCEPT ![p] = Verified(f, cli[p].typed)],
              NEW o, Retried(p, "POST", o, "failed")
       PROVE  LoginInv'
  <2>1. PICK v : v = Verified(f, cli[p].typed)  OBVIOUS
  <2>2. TriedTo(s, v, cli[p].typed)  BY <1>5, <1>11, <2>1, FoundIs
  <2>3. QED  BY <1>9, <1>11, <2>1, <2>2 DEF TriedTo
<1>12. CASE UNCHANGED session /\ \E o \in Failures : Retried(p, "POST", o, "failed")
  <2>1. session' = [session EXCEPT ![p] = s]  BY <1>5, <1>12 DEF LoginInv, LoginTypeOK
  <2>2. QED  BY <1>9, <1>12, <2>1
<1>13. QED  BY <1>5, <1>10, <1>11, <1>12 DEF Verify

-------------------------------------------------------------------------------
\* No page's code is the lack of one.
LEMMA NoneIsNoPage == None \notin Pages
BY LoginAssumption

\* A save empties the file, ...
LEMMA TruncateStep == ASSUME LoginInv, NEW p \in Procs, Truncate(p)  PROVE  LoginInv'
<1>1. cli[p].pc = "truncate" /\ creds' = Torn /\ UNCHANGED <<session, page>>  BY DEF Truncate, At
<1>2. Went(p, "write")  BY GoWent DEF LoginInv, Points, Truncate
<1>3. RunOK(p)  BY DEF LoginInv, RunsOK
<1>4. MayRun(p, "write") /\ MayHold(p, "write")  BY <1>1, <1>3 DEF MayRun, MayHold, RunOK, Early
<1>5. QED  BY <1>1, <1>2, <1>4, QuietStep

\* ... and writes a token that no other process holds.
LEMMA WriteStep == ASSUME LoginInv, NEW p \in Procs, Write(p)  PROVE  LoginInv'
<1>1. cli[p].pc = "write" /\ UNCHANGED <<session, page>>  BY DEF Write, At
<1>2. RunOK(p) /\ TokenOK(p)  BY DEF LoginInv, RunsOK, TokensOK
<1>3. ~Runs(p, "logout")  BY <1>1, <1>2 DEF RunOK
<1>4. PICK point \in {"ping", "done"} : Go(p, point) /\ (point = "done" => ~Runs(p, "device"))
  BY DEF Write
<1>5. Went(p, point)  BY <1>4, GoWent DEF LoginInv, Points, Ended
<1>6. creds' \in {cli[p].token, Torn}  BY DEF Write, Written
<1>7. MayRun(p, point)  BY <1>3, <1>4 DEF MayRun, Early
<1>8. MayHold(p, point)
  <2>1. ~Runs(p, "device") /\ cli[p].token \in Pages => cli[p].valid
    BY <1>2, <1>3, NoneIsNoPage, Zenon DEF TokenOK
  <2>2. QED  BY <1>4, <2>1 DEF MayHold, Early
<1>9. Moved(p, point) /\ TokenOK(p)'  BY <1>1, <1>5, <1>8, HoldingOn
<1>10. FileStays(p)
  <2>1. SUFFICES ASSUME NEW r \in Procs \ {p}, ~Runs(r, "logout"), cli[r].token \in Pages, cli[p].token = cli[r].token
                 PROVE  FALSE
    BY <1>6, LoginAssumption DEF FileStays
  <2>2. TokenOK(r)  BY DEF LoginInv, TokensOK
  <2>3. cli[r].token \notin {None, r, p}  BY <2>1, LoginAssumption
  <2>4. page[cli[r].token].for = r  BY <2>1, <2>2, <2>3 DEF TokenOK
  <2>5. page[cli[p].token].for = p  BY <1>2, <1>3, <2>1, <2>3 DEF TokenOK
  <2>6. QED  BY <2>1, <2>4, <2>5
<1>11. creds' \in Tokens \union {Torn}
  <2>1. cli[p] \in Processes  BY DEF LoginInv, LoginTypeOK
  <2>2. QED  BY <1>6, <2>1 DEF Processes
<1>12. session' \in [Procs -> Sessions] /\ (\A r \in Procs : SessionMoves(r)) /\ OthersStay(p)
  BY <1>1 DEF LoginInv, LoginTypeOK, SessionMoves, OthersStay
<1>13. ReplayOK(p)'  BY <1>9 DEF ReplayOK, Moved
<1>14. QED  BY <1>1, <1>7, <1>9, <1>10, <1>11, <1>12, <1>13, GoingKeeps

\* /me accepts a token or not; one that was given is not saved before.
LEMMA PingStep == ASSUME LoginInv, NEW p \in Procs, Ping(p)  PROVE  LoginInv'
<1>1. cli[p].pc = "ping" /\ UNCHANGED <<session, page, creds>>  BY DEF Ping, At
<1>2. RunOK(p) /\ TokenOK(p)  BY DEF LoginInv, RunsOK, TokensOK
<1>3. ~Runs(p, "logout")  BY <1>1, <1>2 DEF RunOK
<1>4. cli \in [Procs -> Processes]  BY DEF LoginInv, LoginTypeOK
<1>5. PICK d \in Processes : d = cli[p]  BY <1>4
\* /me accepts the token: it is valid from now on.
<1>6. ASSUME NEW point \in {"done", "truncate"}, NEW c \in Processes, cli' = [cli EXCEPT ![p] = c],
             c.pc = point, c.kind = d.kind, c.valid = TRUE, c.token \in {d.token, p}
      PROVE  LoginInv'
  <2>1. Moved(p, point) /\ cli'[p].token \in {d.token, p} /\ cli'[p].valid = TRUE
    BY <1>4, <1>5, <1>6 DEF Moved
  <2>2. TokenOK(p)'
    BY <1>1, <1>2, <1>3, <1>5, <1>6, <2>1 DEF TokenOK, Moved, Early, Runs
  <2>3. MayRun(p, point)  BY <1>3, <1>6 DEF MayRun, Early
  <2>4. ReplayOK(p)'  BY <2>1 DEF ReplayOK, Moved
  <2>5. /\ session' \in [Procs -> Sessions] /\ creds' \in Tokens \union {Torn}
        /\ (\A r \in Procs : SessionMoves(r)) /\ OthersStay(p) /\ FileStays(p)
    BY <1>1 DEF LoginInv, LoginTypeOK, SessionMoves, OthersStay, FileStays
  <2>6. QED  BY <1>1, <2>1, <2>2, <2>3, <2>4, <2>5, GoingKeeps
<1>7. CASE cli' = [cli EXCEPT ![p].pc = "done", ![p].valid = TRUE]
  <2>1. PICK c : c = [d EXCEPT !.pc = "done", !.valid = TRUE]  OBVIOUS
  <2>2. c \in Processes  BY <2>1 DEF Processes, Ended
  <2>3. c.pc = "done" /\ c.kind = d.kind /\ c.token = d.token  BY <2>1 DEF Processes
  <2>4. c.valid = TRUE  BY <2>1 DEF Processes
  <2>5. cli' = [cli EXCEPT ![p] = c]  BY <1>4, <1>5, <1>7, <2>1 DEF Processes
  <2>6. QED  BY <1>6, <2>2, <2>3, <2>4, <2>5
<1>8. CASE cli' = [cli EXCEPT ![p].pc = "truncate", ![p].valid = TRUE, ![p].token = p]
  <2>1. PICK c : c = [d EXCEPT !.pc = "truncate", !.valid = TRUE, !.token = p]  OBVIOUS
  <2>2. c \in Processes  BY <2>1 DEF Processes, Points, Tokens
  <2>3. c.pc = "truncate" /\ c.kind = d.kind /\ c.token = p  BY <2>1 DEF Processes
  <2>4. c.valid = TRUE  BY <2>1 DEF Processes
  <2>5. cli' = [cli EXCEPT ![p] = c]  BY <1>4, <1>5, <1>8, <2>1 DEF Processes
  <2>6. QED  BY <1>6, <2>2, <2>3, <2>4, <2>5
<1>9. CASE OnMeFailure(p)
  <2>1. PICK point \in {"wipe", "rejected"} : Go(p, point) /\ (point = "rejected" => ~Runs(p, "device"))
    BY <1>9 DEF OnMeFailure
  <2>2. Went(p, point)  BY <2>1, GoWent DEF LoginInv, Points, Ended
  <2>3. MayRun(p, point)  BY <2>1 DEF MayRun, Early
  <2>4. MayHold(p, point)
    <3>1. ~Runs(p, "device") /\ cli[p].token \in Pages => cli[p].valid
      BY <1>2, <1>3, NoneIsNoPage, Zenon DEF TokenOK
    <3>2. QED  BY <2>1, <3>1 DEF MayHold, Early
  <2>5. QED  BY <1>1, <2>1, <2>2, <2>3, <2>4, QuietStep
<1>10. QED  BY <1>7, <1>8, <1>9 DEF Ping

\* A clear empties the file, ...
LEMMA WipeStep == ASSUME LoginInv, NEW p \in Procs, Wipe(p)  PROVE  LoginInv'
<1>1. creds' = Torn /\ UNCHANGED <<session, page>>  BY DEF Wipe
<1>2. Went(p, "wiped")  BY GoWent DEF LoginInv, Points, Wipe
<1>3. MayRun(p, "wiped") /\ MayHold(p, "wiped")  BY <1>1, LoginAssumption DEF MayRun, MayHold, Early
<1>4. QED  BY <1>1, <1>2, <1>3, QuietStep

\* ... and leaves no token in it.
LEMMA WipedStep == ASSUME LoginInv, NEW p \in Procs, Wiped(p)  PROVE  LoginInv'
<1>1. creds' \in {None, Torn} /\ UNCHANGED <<session, page>>  BY DEF Wiped, Written
<1>2. PICK point \in {"done", "rejected"} : Go(p, point)  BY DEF Wiped
<1>3. Went(p, point)  BY <1>2, GoWent DEF LoginInv, Ended
<1>4. MayRun(p, point) /\ MayHold(p, point)  BY <1>1, <1>2, LoginAssumption DEF MayRun, MayHold, Early
<1>5. QED  BY <1>1, <1>2, <1>3, <1>4, QuietStep

\* A logout takes the token it finds on disk.
LEMMA LogoutStep == ASSUME LoginInv, NEW p \in Procs, Logout(p)  PROVE  LoginInv'
<1>1. Runs(p, "logout") /\ UNCHANGED <<session, page, creds>>  BY DEF Logout
<1>2. cli \in [Procs -> Processes] /\ creds \in Tokens \union {Torn}  BY DEF LoginInv, LoginTypeOK
<1>3. PICK d \in Processes : d = cli[p]  BY <1>2
<1>4. PICK point \in {"wipe", "revoke"} : cli' = [cli EXCEPT ![p].pc = point, ![p].token = SavedToken]
  BY DEF Logout
<1>5. SavedToken \in Tokens  BY <1>2 DEF SavedToken, Tokens
<1>6. PICK c : c = [d EXCEPT !.pc = point, !.token = SavedToken]  OBVIOUS
<1>7. c \in Processes  BY <1>4, <1>5, <1>6 DEF Processes, Points
<1>8. c.pc = point /\ c.kind = d.kind  BY <1>6 DEF Processes
<1>9. cli' = [cli EXCEPT ![p] = c]  BY <1>2, <1>3, <1>4, <1>6 DEF Processes
<1>10. Moved(p, point)  BY <1>2, <1>3, <1>7, <1>8, <1>9 DEF Moved
<1>11. TokenOK(p)'  BY <1>1, <1>10 DEF TokenOK, Moved, Runs
<1>12. MayRun(p, point)  BY <1>4 DEF MayRun, Early
<1>13. ReplayOK(p)'  BY <1>10 DEF ReplayOK, Moved
<1>14. /\ session' \in [Procs -> Sessions] /\ creds' \in Tokens \union {Torn}
       /\ (\A r \in Procs : SessionMoves(r)) /\ OthersStay(p) /\ FileStays(p)
  BY <1>1 DEF LoginInv, LoginTypeOK, SessionMoves, OthersStay, FileStays
<1>15. QED  BY <1>1, <1>10, <1>11, <1>12, <1>13, <1>14, GoingKeeps

\* An owner's delete leaves a session as it is or aborts it.
LEMMA AbortedIs ==
    ASSUME NEW s \in Sessions, NEW user
    PROVE  /\ Aborted(s, user) \in Sessions
           /\ Aborted(s, user) = s \/ (Aborted(s, user).status = "aborted" /\ s.status = "verification_pending")
BY DEF Aborted, Abortable, Sessions

\* Sessions of its account are aborted, as many as the scan reached.
LEMMA RevokeAllStep == ASSUME LoginInv, NEW p \in Procs, RevokeAll(p)  PROVE  LoginInv'
<1>1. UNCHANGED <<page, creds>>  BY DEF RevokeAll
<1>2. Went(p, "wipe")  BY GoWent DEF LoginInv, Points, RevokeAll
<1>3. MayRun(p, "wipe") /\ MayHold(p, "wipe")  BY DEF MayRun, MayHold, Early
<1>4. Moved(p, "wipe") /\ TokenOK(p)'  BY <1>1, <1>2, <1>3, HoldingOn
<1>5. ReplayOK(p)'  BY <1>4 DEF ReplayOK, Moved
<1>6. session \in [Procs -> Sessions]  BY DEF LoginInv, LoginTypeOK
<1>7. /\ session' \in [Procs -> Sessions]
      /\ \A r \in Procs : \/ session'[r] = session[r]
                          \/ session'[r].status = "aborted" /\ session[r].status = "verification_pending"
  <2>1. PICK scanned \in SUBSET Procs :
           session' = [r \in Procs |-> IF r \in scanned THEN Aborted(session[r], UserOf(cli[p].token))
                                                       ELSE session[r]]
    BY DEF RevokeAll
  <2>2. ASSUME NEW r \in Procs
        PROVE  /\ session'[r] \in Sessions
               /\ \/ session'[r] = session[r]
                  \/ session'[r].status = "aborted" /\ session[r].status = "verification_pending"
    BY <1>6, <2>1, AbortedIs
  <2>3. QED  BY <2>1, <2>2
<1>8. (\A r \in Procs : SessionMoves(r)) /\ OthersStay(p)  BY <1>7 DEF SessionMoves, OthersStay
<1>9. creds' \in Tokens \union {Torn} /\ FileStays(p)  BY <1>1 DEF LoginInv, LoginTypeOK, FileStays
<1>10. QED  BY <1>1, <1>3, <1>4, <1>5, <1>7, <1>8, <1>9, GoingKeeps

\* The store changes the session of a process that does nothing.
LEMMA SessionAlone ==
    ASSUME LoginInv, NEW p \in Procs, NEW s \in Sessions, session' = [session EXCEPT ![p] = s],
           UNCHANGED <<page, cli, creds>>, s.status \notin {"pending", "verification_pending", "consumed"},
           session[p].status = "missing" => s.status = "missing"
    PROVE  LoginInv'
<1>1. /\ session' \in [Procs -> Sessions] /\ session'[p] = s /\ OthersStay(p)
      /\ \A r \in Procs \ {p} : session'[r] = session[r]
  BY OwnSession
<1>2. \A r \in Procs : SessionMoves(r)  BY <1>1 DEF SessionMoves
<1>3. RunOK(p) /\ TokenOK(p)  BY DEF LoginInv, RunsOK, TokensOK
<1>4. Moved(p, cli[p].pc)  BY DEF LoginInv, LoginTypeOK, Moved
<1>5. MayRun(p, cli[p].pc)  BY <1>1, <1>3 DEF MayRun, RunOK
<1>6. TokenOK(p)'  BY <1>3 DEF TokenOK, Runs
<1>7. ReplayOK(p)'  BY <1>1 DEF ReplayOK
<1>8. creds' \in Tokens \union {Torn} /\ FileStays(p)  BY DEF LoginInv, LoginTypeOK, FileStays
<1>9. QED  BY <1>1, <1>2, <1>4, <1>5, <1>6, <1>7, <1>8, GoingKeeps

\* A session goes away, ...
LEMMA EvictStep == ASSUME LoginInv, NEW p \in Procs, Evict(p)  PROVE  LoginInv'
<1>1. NoSession \in Sessions /\ NoSession.status = "missing"
  BY LoginAssumption DEF NoSession, Sessions
<1>2. QED  BY <1>1, SessionAlone DEF Evict

\* ... or is cancelled by its owner.
LEMMA CancelStep ==
    ASSUME LoginInv, NEW p \in Procs, NEW user \in Users, ExplicitCancel(p, user)
    PROVE  LoginInv'
<1>1. PICK s : s = session[p]  OBVIOUS
<1>2. s \in Sessions  BY <1>1 DEF LoginInv, LoginTypeOK
<1>3. s.status = "verification_pending" /\ Aborted(s, user) = [s EXCEPT !.status = "aborted"]
  BY <1>1 DEF ExplicitCancel, Aborted, Abortable
<1>4. Aborted(s, user) \in Sessions /\ Aborted(s, user).status = "aborted"
  BY <1>2, <1>3 DEF Sessions
<1>5. session' = [session EXCEPT ![p] = Aborted(s, user)] /\ UNCHANGED <<page, cli, creds>>
  BY <1>1 DEF ExplicitCancel
<1>6. QED  BY <1>1, <1>3, <1>4, <1>5, SessionAlone

\* A tick takes as much from the window as it makes the attempt older.
LEMMA TickStep == ASSUME LoginInv, NEW p \in Procs, Tick(p)  PROVE  LoginInv'
<1>1. cli[p].pc = "verify" /\ session[p].window > 0 /\ UNCHANGED <<page, creds>>  BY DEF Tick, At
<1>2. RunOK(p) /\ TokenOK(p) /\ ReplayOK(p)  BY DEF LoginInv, RunsOK, TokensOK, ReplaysOK
<1>3. cli \in [Procs -> Processes] /\ session \in [Procs -> Sessions]  BY DEF LoginInv, LoginTypeOK
<1>4. PICK d \in Processes : d = cli[p]  BY <1>3
<1>5. PICK s \in Sessions : s = session[p]  BY <1>3
<1>6. ~d.late  BY <1>4 DEF Tick
<1>7. PICK v : v = [s EXCEPT !.window = s.window - 1]  OBVIOUS
<1>8. v \in Sessions /\ v.window = s.window - 1  BY <1>1, <1>5, <1>7, LoginAssumption DEF Sessions
<1>9. v.status = s.status /\ v.code = s.code /\ v.wrong = s.wrong  BY <1>7 DEF Sessions
<1>10. session' = [session EXCEPT ![p] = v]  BY <1>3, <1>5, <1>7 DEF Tick, Sessions
<1>11. /\ session' \in [Procs -> Sessions] /\ session'[p] = v /\ OthersStay(p)
       /\ \A r \in Procs \ {p} : session'[r] = session[r]
  BY <1>8, <1>10, OwnSession
<1>12. \A r \in Procs : SessionMoves(r)  BY <1>5, <1>9, <1>11 DEF SessionMoves
<1>13. PICK c : c = [d EXCEPT !.late = TRUE]  OBVIOUS
<1>14. c \in Processes  BY <1>13 DEF Processes
<1>15. /\ c.pc = d.pc /\ c.kind = d.kind /\ c.token = d.token /\ c.valid = d.valid
       /\ c.strikes = d.strikes /\ c.try = d.try
  BY <1>13 DEF Processes
<1>16. c.late = TRUE  BY <1>13 DEF Processes
<1>17. cli' = [cli EXCEPT ![p] = c]  BY <1>3, <1>4, <1>13 DEF Tick, Processes
<1>18. Went(p, "verify") /\ cli'[p].late = TRUE /\ cli'[p].try = d.try
  BY <1>1, <1>3, <1>4, <1>14, <1>15, <1>16, <1>17 DEF Went, Moved
<1>19. MayHold(p, "verify")  BY <1>1, <1>2 DEF MayHold, TokenOK
<1>20. Moved(p, "verify") /\ TokenOK(p)'  BY <1>1, <1>18, <1>19, HoldingOn
<1>21. MayRun(p, "verify")  BY <1>1, <1>2, <1>18 DEF MayRun, RunOK, Went, Early, Ended
<1>22. ReplayOK(p)'
  <2>1. s.status = "consumed" => s.window + d.try >= ReplayTicks + 2
    BY <1>1, <1>2, <1>4, <1>5, <1>6 DEF ReplayOK
  <2>2. s.window \in Nat /\ d.try \in Nat /\ ReplayTicks \in Nat
    BY <1>4, <1>5, FewAttempts DEF Processes, Sessions
  <2>3. s.status = "consumed" => v.window + d.try + 1 >= ReplayTicks + 2  BY <1>8, <2>1, <2>2
  <2>4. QED  BY <1>9, <1>11, <1>18, <2>3 DEF ReplayOK
<1>23. creds' \in Tokens \union {Torn} /\ FileStays(p)  BY <1>1 DEF LoginInv, LoginTypeOK, FileStays
<1>24. QED  BY <1>1, <1>11, <1>12, <1>20, <1>21, <1>22, <1>23, GoingKeeps

-------------------------------------------------------------------------------
\* What page q shows next, if the session of its process becomes s.
ShowsNext(q, at, s) ==
    LET r == page[q].for IN
    /\ page' = [page EXCEPT ![q].at = at]
    /\ session' = [session EXCEPT ![r] = s]
    /\ UNCHANGED <<cli, creds>>

\* An open page that shows something else keeps the invariant, if a session it
\* approves leaves the code on it, and it does not show another's as approved.
LEMMA ShowingKeeps ==
    ASSUME LoginInv, NEW q \in Pages, page[q].at # "unopened", NEW s \in Sessions,
           NEW at \in {"active", "working", "approved", "uncertain", "failed", "unavailable", "closed"},
           ShowsNext(q, at, s),
           page[q].at \in {"approved", "uncertain"} => at = "closed" /\ s = session[page[q].for],
           page[q].at # "closed",
           at = "approved" => s.status = "verification_pending" /\ s.code = q,
           \/ s = session[page[q].for]
           \/ /\ session[page[q].for].status = "pending"
              /\ s.status = "verification_pending" /\ s.code = q /\ s.wrong < MaxVerifyAttempts
    PROVE  LoginInv'
<1> DEFINE r == page[q].for
<1> USE DEF LoginInv, StoreOK
<1>1. r \in Procs  BY DEF PagesOK
<1>2. session \in [Procs -> Sessions] /\ page \in [Pages -> PageStates]  BY DEF LoginTypeOK
<1>3. /\ session' \in [Procs -> Sessions] /\ session'[r] = s
      /\ \A p \in Procs : p # r => session'[p] = session[p]
  BY <1>1, <1>2 DEF ShowsNext
<1>4. /\ page' \in [Pages -> PageStates] /\ page'[q].at = at
      /\ \A x \in Pages : page'[x].for = page[x].for /\ (x # q => page'[x] = page[x])
  BY <1>2 DEF ShowsNext, PageStates
<1>5. UNCHANGED <<cli, creds>>  BY DEF ShowsNext
<1> HIDE DEF r
<1>6. LoginTypeOK'  BY <1>3, <1>4, <1>5 DEF LoginTypeOK
<1>7. SessionsOK'
  <2>1. ASSUME NEW p \in Procs, p # r
        PROVE  /\ session'[p].status \in {"verification_pending", "consumed"} =>
                    session'[p].code \in Pages /\ page'[session'[p].code].for = p
               /\ session'[p].status \in {"pending", "verification_pending"} => session'[p].wrong < MaxVerifyAttempts
    BY <1>3, <1>4, <2>1 DEF SessionsOK
  <2>2. /\ s.status \in {"verification_pending", "consumed"} => s.code \in Pages /\ page'[s.code].for = r
        /\ s.status \in {"pending", "verification_pending"} => s.wrong < MaxVerifyAttempts
    BY <1>1, <1>4 DEF SessionsOK, r
  <2>3. QED  BY <1>3, <2>1, <2>2 DEF SessionsOK
<1>8. PagesOK'
  <2>1. SUFFICES ASSUME NEW x \in Pages
                 PROVE  /\ IF page'[x].at = "unopened" THEN page'[x].for = NoCode ELSE page'[x].for \in Procs
                        /\ page'[x].at = "approved" => session'[page'[x].for].status # "pending"
    BY DEF PagesOK
  <2>2. CASE x = q  BY <1>1, <1>3, <1>4, <2>2 DEF r
  <2>3. CASE x # q
    <3>1. page'[x] = page[x]  BY <1>4, <2>3
    <3>2. s.status = "pending" => session[r].status = "pending"  BY DEF r
    <3>3. QED  BY <1>3, <3>1, <3>2 DEF PagesOK
  <2>4. QED  BY <2>2, <2>3
<1>9. ShownCodeWorks'
  <2>1. SUFFICES ASSUME NEW x \in Pages, page'[x].at = "approved",
                        session'[page'[x].for].status = "verification_pending"
                 PROVE  session'[page'[x].for].code = x
    BY DEF ShownCodeWorks
  <2>2. CASE x = q  BY <1>1, <1>3, <1>4, <2>1, <2>2 DEF r
  <2>3. CASE x # q
    <3>1. page'[x] = page[x]  BY <1>4, <2>3
    <3>2. page[x].for = r => s = session[r]  BY <2>1, <3>1 DEF PagesOK, r
    <3>3. session'[page[x].for] = session[page[x].for]
      BY <1>3, <2>1, <3>1, <3>2 DEF PagesOK
    <3>4. QED  BY <2>1, <3>1, <3>3 DEF ShownCodeWorks
  <2>4. QED  BY <2>2, <2>3
<1>10. RunsOK'
  <2>1. SUFFICES ASSUME NEW p \in Procs  PROVE  RunOK(p)'  BY DEF RunsOK
  <2>2. /\ session[p].status = "missing" => session'[p].status = "missing"
        /\ session'[p].status = "consumed" => session[p].status = "consumed"
    BY <1>3 DEF r
  <2>3. RunOK(p)  BY DEF RunsOK
  <2>4. QED  BY <1>4, <1>5, <2>2, <2>3 DEF RunOK, Runs
<1>11. TokensOK'  BY <1>4, <1>5 DEF TokensOK, TokenOK, Runs
<1>12. ReplaysOK'
  <2>1. SUFFICES ASSUME NEW p \in Procs  PROVE  ReplayOK(p)'  BY DEF ReplaysOK
  <2>2. session'[p].status = "consumed" => session'[p] = session[p]  BY <1>3 DEF r
  <2>3. ReplayOK(p)  BY DEF ReplaysOK
  <2>4. QED  BY <1>5, <2>2, <2>3 DEF ReplayOK
<1>13. QED  BY <1>6, <1>7, <1>8, <1>9, <1>10, <1>11, <1>12

\* A page that only shows something else.
LEMMA ShowStep ==
    ASSUME LoginInv, NEW q \in Pages, UNCHANGED <<session, cli, creds>>, page[q].at # "unopened",
           NEW at \in {"active", "working", "uncertain", "failed", "unavailable", "closed"}, Show(q, at),
           page[q].at \in {"approved", "uncertain"} => at = "closed", page[q].at # "closed"
    PROVE  LoginInv'
<1>1. page[q].for \in Procs  BY DEF LoginInv, StoreOK, PagesOK
<1>2. PICK s : s = session[page[q].for]  OBVIOUS
<1>3. s \in Sessions  BY <1>1, <1>2 DEF LoginInv, LoginTypeOK
<1>4. ShowsNext(q, at, s)  BY <1>1, <1>2 DEF ShowsNext, Show, LoginInv, LoginTypeOK
<1>5. QED  BY <1>2, <1>3, <1>4, ShowingKeeps

\* A page whose approval lands.
LEMMA LandStep ==
    ASSUME LoginInv, NEW q \in Pages, UNCHANGED <<cli, creds>>, page[q].at = "working", ApproveLands(q),
           NEW at \in {"approved", "uncertain", "failed", "closed"}, Show(q, at),
           at = "approved" => Approvable(session[page[q].for])
    PROVE  LoginInv'
<1>1. page[q].for \in Procs  BY DEF LoginInv, StoreOK, PagesOK
<1>2. PICK s : s = session[page[q].for]  OBVIOUS
<1>3. s \in Sessions  BY <1>1, <1>2 DEF LoginInv, LoginTypeOK
<1>4. PICK v : v = ApprovedBy(q, s)  OBVIOUS
<1>5. ShowsNext(q, at, v)  BY <1>1, <1>2, <1>4 DEF ShowsNext, Show, ApproveLands, LoginInv, LoginTypeOK
<1>6. CASE Approvable(s)
  <2>1. v = [s EXCEPT !.status = "verification_pending", !.code = q]  BY <1>4, <1>6 DEF ApprovedBy
  <2>2. s.status = "pending" /\ s.wrong < MaxVerifyAttempts
    BY <1>1, <1>2, <1>6 DEF Approvable, LoginInv, StoreOK, SessionsOK
  <2>3. v \in Sessions /\ v.status = "verification_pending" /\ v.code = q /\ v.wrong = s.wrong
    BY <1>3, <2>1 DEF Sessions
  <2>4. QED  BY <1>2, <1>5, <1>6, <2>2, <2>3, ShowingKeeps
<1>7. CASE ~Approvable(s)
  <2>1. v = s  BY <1>4, <1>7 DEF ApprovedBy
  <2>2. QED  BY <1>2, <1>3, <1>5, <1>7, <2>1, ShowingKeeps
<1>8. QED  BY <1>6, <1>7

\* A page has read the session, ...
LEMMA LoadedStep == ASSUME LoginInv, NEW q \in Pages, Loaded(q)  PROVE  LoginInv'
<1>1. UNCHANGED <<session, cli, creds>> /\ page[q].at = "loading"  BY DEF Loaded, UnchangedButPage
<1>2. PICK at \in {"active", "failed", "unavailable"} : Show(q, at)  BY DEF Loaded
<1>3. QED  BY <1>1, <1>2, ShowStep

\* ... sends an approval, ...
LEMMA StartApproveStep == ASSUME LoginInv, NEW q \in Pages, StartApprove(q)  PROVE  LoginInv'
<1>1. UNCHANGED <<session, cli, creds>> /\ page[q].at = "active"
  BY DEF StartApprove, CanApprove, UnchangedButPage
<1>2. PICK at \in {"working", "failed"} : Show(q, at)  BY DEF StartApprove
<1>3. QED  BY <1>1, <1>2, ShowStep

\* ... shows what came of it, ...
LEMMA ApproveStep == ASSUME LoginInv, NEW q \in Pages, Approve(q)  PROVE  LoginInv'
<1>1. UNCHANGED <<cli, creds>> /\ page[q].at = "working"  BY DEF Approve
<1>2. CASE ApproveLands(q) /\ Show(q, IF Approvable(session[page[q].for]) THEN "approved" ELSE "failed")
  <2>1. PICK at \in {"approved", "failed"} :
           Show(q, at) /\ (at = "approved" <=> Approvable(session[page[q].for]))
    BY <1>2
  <2>2. QED  BY <1>1, <1>2, <2>1, LandStep
<1>3. CASE ApproveLands(q) /\ \E at \in {"uncertain", "failed"} : Show(q, at)
  <2>1. PICK at \in {"uncertain", "failed"} : Show(q, at)  BY <1>3
  <2>2. QED  BY <1>1, <1>3, <2>1, LandStep
<1>4. CASE UNCHANGED session /\ \E at \in {"uncertain", "failed"} : Show(q, at)
  <2>1. PICK at \in {"uncertain", "failed"} : Show(q, at)  BY <1>4
  <2>2. QED  BY <1>1, <1>4, <2>1, ShowStep
<1>5. QED  BY <1>2, <1>3, <1>4 DEF Approve

\* ... and is closed, its approval landing after all or not.
LEMMA ClosePageStep == ASSUME LoginInv, NEW q \in Pages, ClosePage(q)  PROVE  LoginInv'
<1>1. UNCHANGED <<cli, creds>> /\ Show(q, "closed") /\ page[q].at \in {"working", "approved", "uncertain"}
  BY DEF ClosePage
<1>2. CASE UNCHANGED session  BY <1>1, <1>2, ShowStep
<1>3. CASE page[q].at = "working" /\ ApproveLands(q)  BY <1>1, <1>3, LandStep
<1>4. QED  BY <1>2, <1>3 DEF ClosePage

\* A page opens on a session that is there, so its process is past making it.
LEMMA OpenPageStep == ASSUME LoginInv, NEW q \in Pages, NEW p \in Procs, OpenPage(q, p)  PROVE  LoginInv'
<1> USE DEF LoginInv, StoreOK
<1>1. page[q].at = "unopened" /\ session[p].status # "missing" /\ UNCHANGED <<session, cli, creds>>
  BY DEF OpenPage, UnchangedButPage
<1>2. page \in [Pages -> PageStates]  BY DEF LoginTypeOK
<1>3. page[q].for = NoCode /\ NoCode \notin Procs  BY <1>1, LoginAssumption DEF PagesOK
<1>4. PICK new : new = [at |-> "loading", for |-> p]  OBVIOUS
<1>5. new \in PageStates /\ new.at = "loading" /\ new.for = p  BY <1>4 DEF PageStates
<1>6. /\ page' \in [Pages -> PageStates] /\ page'[q] = new
      /\ \A x \in Pages : x # q => page'[x] = page[x]
  BY <1>2, <1>4, <1>5 DEF OpenPage
<1>7. \A x \in Pages, r \in Procs : page[x].for = r => x # q  BY <1>3
<1>8. LoginTypeOK'  BY <1>1, <1>6 DEF LoginTypeOK
<1>9. SessionsOK'  BY <1>1, <1>6, <1>7 DEF SessionsOK
<1>10. PagesOK'  BY <1>1, <1>5, <1>6 DEF PagesOK
<1>11. ShownCodeWorks'  BY <1>1, <1>5, <1>6 DEF ShownCodeWorks
<1>12. RunsOK'
  <2>1. SUFFICES ASSUME NEW r \in Procs  PROVE  RunOK(r)'  BY DEF RunsOK
  <2>2. RunOK(r) /\ RunOK(p)  BY DEF RunsOK
  <2>3. cli[p].pc \notin Early  BY <1>1, <2>2 DEF RunOK
  <2>4. cli[r].pc \in Early => \A x \in Pages : page'[x].for # r
    BY <1>5, <1>6, <2>2, <2>3 DEF RunOK
  <2>5. QED  BY <1>1, <2>2, <2>4 DEF RunOK, Runs
<1>13. TokensOK'
  <2>1. SUFFICES ASSUME NEW r \in Procs  PROVE  TokenOK(r)'  BY DEF TokensOK
  <2>2. TokenOK(r)  BY DEF TokensOK
  <2>3. QED  BY <1>1, <1>6, <1>7, <2>2 DEF TokenOK, Runs
<1>14. ReplaysOK'  BY <1>1 DEF ReplaysOK, ReplayOK
<1>15. QED  BY <1>8, <1>9, <1>10, <1>11, <1>12, <1>13, <1>14

-------------------------------------------------------------------------------
\* ... and every step keeps it.
LEMMA LoginStep == LoginInv /\ [Next]_vars => LoginInv'
<1> SUFFICES ASSUME LoginInv, [Next]_vars  PROVE  LoginInv'  OBVIOUS
<1>1. CASE Human
  BY <1>1, ConfirmStep, PromptCodeStep, StartApproveStep, ClosePageStep, OpenPageStep DEF Human
<1>2. CASE Store  BY <1>2, TickStep, EvictStep, CancelStep DEF Store
<1>3. ASSUME NEW p \in Procs, CliStep(p)  PROVE  LoginInv'
  BY <1>3, CheckExistingStep, CreateSessionStep, VerifyStep, TruncateStep, WriteStep, PingStep, WipeStep,
     WipedStep, LogoutStep, RevokeAllStep DEF CliStep
<1>4. ASSUME NEW q \in Pages, PageStep(q)  PROVE  LoginInv'
  BY <1>4, LoadedStep, ApproveStep DEF PageStep
<1>5. CASE UNCHANGED vars
  BY <1>5 DEF vars, LoginInv, LoginTypeOK, StoreOK, SessionsOK, PagesOK, ShownCodeWorks,
              RunsOK, RunOK, TokensOK, TokenOK, ReplaysOK, ReplayOK, Runs
<1>6. QED  BY <1>1, <1>2, <1>3, <1>4, <1>5, CrashStep DEF Next

\* What the login keeps true.
LEMMA LoginKeepsInv == Spec => []LoginInv
BY LoginStart, LoginStep, PTL DEF Spec

\* A code that a page shows as confirmed is the one the server compares with,
\* and a token that /me did not accept is not left on disk by the login that
\* brought it, whatever other logins and logouts do to the same file (page.tsx,
\* APPROVE_LUA; login.ts, rollbackOnMeFailure).
THEOREM LoginsTellTheTruth == Spec => []LoginInvariant
<1>1. ASSUME LoginInv  PROVE  OnlyValidatedTokensStay
  <2>1. SUFFICES ASSUME NEW p \in Procs, cli[p].pc \in {"done", "rejected", "failed", "interrupted"},
                        ~Runs(p, "logout"), creds \in Pages \union Procs, creds = cli[p].token
                 PROVE  cli[p].valid
    BY DEF OnlyValidatedTokensStay
  <2>2. TokenOK(p)  BY <1>1 DEF LoginInv, TokensOK
  <2>3. cli[p].token # None  BY <2>1, LoginAssumption
  <2>4. cli[p].pc \in {"done", "rejected"}  BY <2>1, <2>2, <2>3 DEF TokenOK
  <2>5. QED  BY <2>1, <2>2, <2>3, <2>4, Zenon DEF TokenOK
<1>2. LoginInv => LoginInvariant  BY <1>1 DEF LoginInv, StoreOK, LoginInvariant
<1>3. QED  BY <1>2, LoginKeepsInv, PTL

\* A verification whose answer was lost is answered when it is repeated: the
\* replay window of session_verify_consume.lua is longer than all the attempts
\* that apiRequestWithRetry makes, whatever their backoff.
THEOREM RetriesStrandNobody == Spec => []NeverStrandedByRetry
<1>1. LoginInv => NeverStrandedByRetry  BY DEF LoginInv, RunsOK, RunOK, NeverStrandedByRetry
<1>2. QED  BY <1>1, LoginKeepsInv, PTL

-------------------------------------------------------------------------------
\* A log, and what it may become: events are added and outcomes given.
EventFits(r) == r \in Logged /\ r.owed \subseteq r.outcomes /\ (r.row \in Ends => r.row \in r.outcomes)

IsLog(log) == log \in Seq(Logged) /\ Len(log) <= MaxEvents /\ \A e \in 1..Len(log) : EventFits(log[e])

Grew(log, now) ==
    /\ Len(log) <= Len(now)
    /\ \A e \in 1..Len(log) : log[e].outcomes \subseteq now[e].outcomes

\* A row that a log bears out, and a frame that it does.
RowFits(row, log) ==
    /\ row \in Rows
    /\ row.id > 0 => row.id \in 1..Len(log) /\ (row.status \in Ends => row.status \in log[row.id].outcomes)

RowsFit(rows, log) == rows \in Seq(Rows) /\ \A i \in 1..Len(rows) : RowFits(rows[i], log)

FrameFits(frame, log) ==
    /\ frame \in Frames /\ frame.id \in 1..Len(log)
    /\ frame.kind = "event_complete" => frame.status \in log[frame.id].outcomes

QueueFits(queue, log) == queue \in Seq(Frames) /\ \A i \in 1..Len(queue) : FrameFits(queue[i], log)

-------------------------------------------------------------------------------
\* What the assumptions say of the bounds and the names of the statuses.
LEMMA TailConstants ==
    /\ MaxSends \in Nat /\ Turns \in Nat /\ MaxEvents \in Nat /\ QueueCap \in Nat \ {0} /\ MaxPolls \in Nat
    /\ \A scene \in Casts : scene.events \in 1..MaxEvents
    /\ MaxAttempts \in Nat /\ MaxAttempts >= 1
    /\ "queued" \notin Ends /\ "received" \notin Ends /\ "nothing" \notin Ends /\ "failed" \notin Ends
    /\ "optimistic" \notin Ends /\ "timeout" \notin Ends /\ "interrupted" \notin Ends /\ "error" \notin Ends
BY TailAssumption, RetryAssumption DEF HardCap

\* An event that has just landed.
LEMMA QueuedLogged == Queued \in Logged
BY DEF Queued, Logged

\* Rows and frames still fit when the log has grown.
LEMMA RowsKept ==
    ASSUME NEW rows, NEW log, NEW now, RowsFit(rows, log), IsLog(log), IsLog(now), Grew(log, now)
    PROVE  RowsFit(rows, now)
<1>1. ASSUME NEW i \in 1..Len(rows)  PROVE RowFits(rows[i], now)
  <2>1. RowFits(rows[i], log)  BY DEF RowsFit
  <2>2. Len(log) \in Nat /\ Len(now) \in Nat  BY DEF IsLog
  <2>3. QED  BY <2>1, <2>2 DEF RowFits, Grew
<1>2. QED  BY <1>1 DEF RowsFit

\* The same of the frames on their way.
LEMMA QueueKept ==
    ASSUME NEW queue, NEW log, NEW now, QueueFits(queue, log), IsLog(log), IsLog(now), Grew(log, now)
    PROVE  QueueFits(queue, now)
<1>1. ASSUME NEW i \in 1..Len(queue)  PROVE FrameFits(queue[i], now)
  <2>1. FrameFits(queue[i], log)  BY DEF QueueFits
  <2>2. Len(log) \in Nat /\ Len(now) \in Nat  BY DEF IsLog
  <2>3. QED  BY <2>1, <2>2 DEF FrameFits, Grew
<1>2. QED  BY <1>1 DEF QueueFits

\* A row at the end, and a list that is rewritten row by row.
LEMMA RowsAppended ==
    ASSUME NEW rows, NEW row, NEW log, RowsFit(rows, log), RowFits(row, log)
    PROVE  RowsFit(Append(rows, row), log)
<1>1. rows \in Seq(Rows) /\ row \in Rows /\ Len(rows) \in Nat  BY DEF RowsFit, RowFits
<1>2. /\ Append(rows, row) \in Seq(Rows) /\ Len(Append(rows, row)) = Len(rows) + 1
      /\ \A i \in 1..Len(rows) : Append(rows, row)[i] = rows[i]
      /\ Append(rows, row)[Len(rows) + 1] = row
  BY <1>1, AppendProperties
<1>3. \A i \in 1..Len(rows) : RowFits(rows[i], log)  BY DEF RowsFit
<1>4. ASSUME NEW i \in 1..(Len(rows) + 1)  PROVE RowFits(Append(rows, row)[i], log)
  <2>1. i \in 1..Len(rows) \/ i = Len(rows) + 1  BY <1>1
  <2>2. QED  BY <1>2, <1>3, <2>1
<1>5. QED  BY <1>2, <1>4 DEF RowsFit

\* A list whose rows all fit, whatever function of the places it was written as.
LEMMA RowsRewritten ==
    ASSUME NEW n \in Nat, NEW rows, NEW log, rows = [i \in 1..n |-> rows[i]],
           \A i \in 1..n : RowFits(rows[i], log)
    PROVE  RowsFit(rows, log)
<1>1. \A i \in 1..n : rows[i] \in Rows  BY DEF RowFits
<1>2. rows \in [1..n -> Rows]  BY <1>1
<1>3. rows \in Seq(Rows) /\ Len(rows) = n  BY <1>2
<1>4. QED  BY <1>3 DEF RowsFit

\* The first frame of a queue, and the rest of it.
LEMMA QueueTail ==
    ASSUME NEW queue, NEW log, QueueFits(queue, log), queue # <<>>
    PROVE  /\ QueueFits(Tail(queue), log) /\ Len(Tail(queue)) = Len(queue) - 1
           /\ FrameFits(Head(queue), log)
<1>1. queue \in Seq(Frames) /\ Len(queue) \in Nat /\ Len(queue) >= 1  BY DEF QueueFits
<1>2. /\ Tail(queue) \in Seq(Frames) /\ Len(Tail(queue)) = Len(queue) - 1 /\ Head(queue) = queue[1]
      /\ \A i \in 1..(Len(queue) - 1) : Tail(queue)[i] = queue[i + 1]
  BY <1>1
<1>3. \A i \in 1..Len(queue) : FrameFits(queue[i], log)  BY DEF QueueFits
<1>4. ASSUME NEW i \in 1..(Len(queue) - 1)  PROVE FrameFits(Tail(queue)[i], log)
  <2>1. i + 1 \in 1..Len(queue)  BY <1>1
  <2>2. QED  BY <1>2, <1>3, <2>1
<1>5. FrameFits(Head(queue), log)  BY <1>1, <1>2, <1>3
<1>6. QED  BY <1>2, <1>4, <1>5 DEF QueueFits

\* A frame at the end of a queue.
LEMMA QueueAppended ==
    ASSUME NEW queue, NEW frame, NEW log, QueueFits(queue, log), FrameFits(frame, log)
    PROVE  QueueFits(Append(queue, frame), log) /\ Len(Append(queue, frame)) = Len(queue) + 1
<1>1. queue \in Seq(Frames) /\ frame \in Frames /\ Len(queue) \in Nat  BY DEF QueueFits, FrameFits
<1>2. /\ Append(queue, frame) \in Seq(Frames) /\ Len(Append(queue, frame)) = Len(queue) + 1
      /\ \A i \in 1..Len(queue) : Append(queue, frame)[i] = queue[i]
      /\ Append(queue, frame)[Len(queue) + 1] = frame
  BY <1>1, AppendProperties
<1>3. \A i \in 1..Len(queue) : FrameFits(queue[i], log)  BY DEF QueueFits
<1>4. ASSUME NEW i \in 1..(Len(queue) + 1)  PROVE FrameFits(Append(queue, frame)[i], log)
  <2>1. i \in 1..Len(queue) \/ i = Len(queue) + 1  BY <1>1
  <2>2. QED  BY <1>2, <1>3, <2>1
<1>5. QED  BY <1>2, <1>4 DEF QueueFits

\* A ring that is full drops its oldest frame: it never outgrows its capacity.
LEMMA QueueFed ==
    ASSUME NEW queue, NEW frame, NEW log, QueueFits(queue, log), FrameFits(frame, log)
    PROVE  /\ QueueFits(Fed(queue, frame), log)
           /\ Len(queue) <= QueueCap => Len(Fed(queue, frame)) <= QueueCap
<1>1. Len(queue) \in Nat /\ QueueCap \in Nat \ {0}  BY TailConstants DEF QueueFits
<1>2. CASE Len(queue) < QueueCap
  BY <1>1, <1>2, QueueAppended DEF Fed
<1>3. CASE ~(Len(queue) < QueueCap)
  <2>1. queue # <<>>  BY <1>1, <1>3
  <2>2. QueueFits(Tail(queue), log) /\ Len(Tail(queue)) = Len(queue) - 1  BY <2>1, QueueTail
  <2>3. /\ QueueFits(Append(Tail(queue), frame), log)
        /\ Len(Append(Tail(queue), frame)) = Len(Tail(queue)) + 1
    BY <2>2, QueueAppended
  <2>4. QED  BY <1>1, <1>3, <2>2, <2>3 DEF Fed
<1>4. QED  BY <1>2, <1>3

\* Nothing fits any log, whatever it is.
LEMMA NothingFits == ASSUME NEW log PROVE RowsFit(<<>>, log) /\ QueueFits(<<>>, log)
BY DEF RowsFit, QueueFits

\* What a frame does to the rows (applyLiveFrame).
LEMMA AppliedFits ==
    ASSUME IsLog(events), NEW rows, NEW frame, RowsFit(rows, events), FrameFits(frame, events)
    PROVE  RowsFit(Applied(rows, frame), events)
<1>1. frame.id \in 1..Len(events) /\ Len(events) \in Nat /\ frame.id > 0 /\ frame.id <= MaxEvents
      /\ MaxEvents \in Nat /\ MaxSends \in Nat
  BY TailConstants DEF IsLog, FrameFits
<1>2. rows \in Seq(Rows) /\ Len(rows) \in Nat /\ \A i \in 1..Len(rows) : RowFits(rows[i], events)  BY DEF RowsFit
<1>3. frame.id \in -MaxSends..MaxEvents  BY <1>1
<1>4. CASE frame.kind = "event_complete"
  <2>1. frame.status \in events[frame.id].outcomes /\ frame.status \in Ends
    BY <1>1, <1>4 DEF FrameFits, IsLog, EventFits, Logged
  <2>2. RowFits(Row(frame.id, frame.status), events)
    BY <1>1, <1>3, <2>1 DEF RowFits, Rows, Row
  <2>3. PICK p : p = [i \in 1..Len(rows) |-> IF IsFirst(rows, i, frame.id) THEN Row(frame.id, frame.status)
                                                                           ELSE rows[i]]
    OBVIOUS
  <2>4. \A i \in 1..Len(rows) : RowFits(p[i], events)  BY <1>2, <2>2, <2>3
  <2>5. p = [i \in 1..Len(rows) |-> p[i]]  BY <2>3
  <2>6. RowsFit(p, events)  BY <1>2, <2>4, <2>5, RowsRewritten
  <2>7. Applied(rows, frame) = p  BY <1>4, <2>3 DEF Applied
  <2>8. QED  BY <2>6, <2>7
<1>5. CASE frame.kind # "event_complete"
  <2>1. RowFits(Row(frame.id, "received"), events)
    BY <1>1, <1>3, TailConstants DEF RowFits, Rows, Row
  <2>2. RowsFit(Append(rows, Row(frame.id, "received")), events)  BY <2>1, RowsAppended
  <2>3. Applied(rows, frame) \in {rows, Append(rows, Row(frame.id, "received"))}
    BY <1>5 DEF Applied
  <2>4. QED  BY <2>2, <2>3
<1>6. QED  BY <1>4, <1>5

\* What the answer to a message does to the rows.
LEMMA MarkedFits ==
    ASSUME NEW log, NEW rows, NEW id, NEW row, RowsFit(rows, log), RowFits(row, log)
    PROVE  RowsFit(Marked(rows, id, row), log)
<1>1. PICK p : p = Marked(rows, id, row)  OBVIOUS
<1>2. p = [i \in 1..Len(rows) |-> p[i]]  BY <1>1 DEF Marked
<1>3. Len(rows) \in Nat /\ \A i \in 1..Len(rows) : RowFits(rows[i], log)  BY DEF RowsFit
<1>4. \A i \in 1..Len(rows) : RowFits(p[i], log)  BY <1>1, <1>3 DEF Marked
<1>5. QED  BY <1>1, <1>2, <1>3, <1>4, RowsRewritten

\* What a page that is rendered reads of the log.
LEMMA BackfillFits == ASSUME IsLog(events), NEW rows \in Backfills PROVE RowsFit(rows, events)
<1> DEFINE logged == {e \in Known : events[e].row # "queued"}
<1>1. PICK order \in [1..Cardinality(logged) -> logged] :
         rows = [i \in DOMAIN order |-> Row(order[i], events[order[i]].row)]
  BY DEF Backfills
<1>2. logged \subseteq 1..Len(events) /\ \A e \in logged : events[e].row # "queued"  BY DEF Known
<1> HIDE DEF logged
<1>3. Len(events) \in Nat /\ Len(events) <= MaxEvents /\ \A e \in 1..Len(events) : EventFits(events[e])
  BY DEF IsLog
<1>4. Cardinality(logged) \in Nat
  <2>1. IsFiniteSet(1..Len(events))  BY <1>3, FS_Interval
  <2>2. QED  BY <1>2, <2>1, FS_Subset, FS_CardinalityType
<1>5. ASSUME NEW i \in 1..Cardinality(logged)  PROVE RowFits(rows[i], events)
  <2>1. order[i] \in logged /\ rows[i] = Row(order[i], events[order[i]].row)  BY <1>1, <1>5
  <2>2. PICK e : e = order[i] /\ e \in 1..Len(events) /\ events[e].row # "queued"  BY <1>2, <2>1
  <2>3. e \in -MaxSends..MaxEvents /\ events[e].row \in {"received"} \union Ends
        /\ (events[e].row \in Ends => events[e].row \in events[e].outcomes)
    BY <1>3, <2>2, TailConstants DEF EventFits, Logged
  <2>4. QED  BY <2>1, <2>2, <2>3 DEF RowFits, Rows, Row
<1>6. rows = [i \in 1..Cardinality(logged) |-> rows[i]]  BY <1>1
<1>7. QED  BY <1>4, <1>5, <1>6, RowsRewritten

-------------------------------------------------------------------------------
ViewStates == [at : {"never", "away", "rendered", "mounted"}, initial : Seq(Rows)]
SendStates == [at : {"unsent", "posting", "settled"}, temp : Nat, try : 1..MaxAttempts]
TurnStates == [at : TurnPoints, turns : 0..Turns, try : 1..MaxAttempts, event : 0..MaxEvents, said : Said,
               polls : 0..MaxPolls, aborted : BOOLEAN, open : BOOLEAN, queue : Seq(Frames)]

\* A page was rendered from the log; an entry is closed exactly while its retry
\* timer is armed.
ViewFits(p, log) == p \in ViewStates /\ RowsFit(p.initial, log)

EntryFits(t, log) ==
    /\ t \in TailStates /\ Len(t.queue) <= QueueCap
    /\ RowsFit(t.rows, log) /\ QueueFits(t.queue, log)
    /\ t.source = "closed" => t.retry
    /\ t.retry => t.source = "closed"

\* The messages still to be sent come after the temporary ids that are taken.
SendFits(r, s, temps) ==
    /\ r \in SendStates /\ r.temp <= MaxSends
    /\ r.at = "unsent" => temps < s

\* A turn under way has said nothing yet, follows an event of the log, and what
\* it says of it in the end was given of it.
TurnFits(r, log) ==
    /\ r \in TurnStates /\ QueueFits(r.queue, log)
    /\ r.at \in {"post", "tail", "poll"} => r.said = "nothing"
    /\ r.at \in {"tail", "poll"} => r.event \in 1..Len(log)
    /\ r.said \in Ends => r.event \in 1..Len(log) /\ r.said \in log[r.event].outcomes

ViewsFit  == view = [v \in Views |-> view[v]] /\ \A v \in Views : ViewFits(view[v], events)
SendsFit  == send = [s \in Sends |-> send[s]] /\ \A s \in Sends : SendFits(send[s], s, tail.temps)
SteersFit == steer = [c \in Steers |-> steer[c]] /\ \A c \in Steers : TurnFits(steer[c], events)

TailInv ==
    /\ cast \in Casts
    /\ IsLog(events)
    /\ EntryFits(tail, events)
    /\ ViewsFit
    /\ SendsFit
    /\ SteersFit
    /\ WatchedMeansConnected

\* It says what the runs check, and more.
LEMMA TailInvSays == TailInv => TailInvariant /\ SteerTellsTheTruth
<1> SUFFICES ASSUME TailInv PROVE TailInvariant /\ SteerTellsTheTruth  OBVIOUS
<1>1. TailTypeOK
  <2>1. events \in Seq(Logged) /\ Len(events) <= MaxEvents
    BY DEF TailInv, IsLog
  <2>2. view \in [Views -> ViewStates]  BY DEF TailInv, ViewsFit, ViewFits
  <2>3. send \in [Sends -> SendStates]  BY DEF TailInv, SendsFit, SendFits
  <2>4. steer \in [Steers -> TurnStates]  BY DEF TailInv, SteersFit, TurnFits
  <2>5. tail \in TailStates /\ Len(tail.queue) <= QueueCap /\ cast \in Casts
    BY DEF TailInv, EntryFits
  <2>6. QED  BY <2>1, <2>2, <2>3, <2>4, <2>5 DEF TailTypeOK, ViewStates, SendStates, TurnStates
<1>2. RowsAreReal
  <2>1. \A i \in 1..Len(tail.rows) : RowFits(tail.rows[i], events)
    BY DEF TailInv, EntryFits, RowsFit
  <2>2. QED  BY <2>1 DEF RowsAreReal, RowFits, Known
<1>3. SteerTellsTheTruth  BY DEF TailInv, SteersFit, TurnFits, SteerTellsTheTruth
<1>4. QED  BY <1>1, <1>2, <1>3 DEF TailInv, TailInvariant

\* What fits the log fits what it becomes.
LEMMA EntryKept ==
    ASSUME NEW t, NEW log, NEW now, EntryFits(t, log), IsLog(log), IsLog(now), Grew(log, now)
    PROVE  EntryFits(t, now)
BY RowsKept, QueueKept DEF EntryFits

\* The same of a rendered page.
LEMMA ViewKept ==
    ASSUME NEW p, NEW log, NEW now, ViewFits(p, log), IsLog(log), IsLog(now), Grew(log, now)
    PROVE  ViewFits(p, now)
BY RowsKept DEF ViewFits

\* The same of a turn of steer: what it follows and what it said stay in the log.
LEMMA TurnKept ==
    ASSUME NEW r, NEW log, NEW now, TurnFits(r, log), IsLog(log), IsLog(now), Grew(log, now)
    PROVE  TurnFits(r, now)
<1>1. QueueFits(r.queue, now)  BY QueueKept DEF TurnFits
<1>2. Len(log) \in Nat /\ Len(now) \in Nat  BY DEF IsLog
<1>3. QED  BY <1>1, <1>2 DEF TurnFits, Grew

\* An entry whose rows change, and one whose queue changes.
LEMMA EntryRows ==
    ASSUME NEW t, NEW log, NEW rows, EntryFits(t, log), RowsFit(rows, log)
    PROVE  EntryFits([t EXCEPT !.rows = rows], log)
<1>1. rows \in Seq(Rows)  BY DEF RowsFit
<1>2. PICK u : u = [t EXCEPT !.rows = rows]  OBVIOUS
<1>3. /\ u \in TailStates /\ u.rows = rows /\ u.queue = t.queue /\ u.source = t.source
      /\ u.retry = t.retry
  BY <1>1, <1>2 DEF EntryFits, TailStates
<1>4. EntryFits(u, log)  BY <1>3 DEF EntryFits
<1>5. QED  BY <1>2, <1>4

\* The same when its queue changes.
LEMMA EntryQueue ==
    ASSUME NEW t, NEW log, NEW queue, EntryFits(t, log), QueueFits(queue, log), Len(queue) <= QueueCap
    PROVE  EntryFits([t EXCEPT !.queue = queue], log)
<1>1. queue \in Seq(Frames)  BY DEF QueueFits
<1>2. PICK u : u = [t EXCEPT !.queue = queue]  OBVIOUS
<1>3. /\ u \in TailStates /\ u.rows = t.rows /\ u.queue = queue /\ u.source = t.source
      /\ u.retry = t.retry
  BY <1>1, <1>2 DEF EntryFits, TailStates
<1>4. EntryFits(u, log)  BY <1>3 DEF EntryFits
<1>5. QED  BY <1>2, <1>4

\* A turn whose queue changes.
LEMMA TurnQueue ==
    ASSUME NEW r, NEW log, NEW queue, TurnFits(r, log), QueueFits(queue, log)
    PROVE  TurnFits([r EXCEPT !.queue = queue], log)
<1>1. queue \in Seq(Frames)  BY DEF QueueFits
<1>2. PICK u : u = [r EXCEPT !.queue = queue]  OBVIOUS
<1>3. /\ u \in TurnStates /\ u.queue = queue /\ u.at = r.at /\ u.said = r.said /\ u.event = r.event
  BY <1>1, <1>2 DEF TurnFits, TurnStates
<1>4. TurnFits(u, log)  BY <1>3 DEF TurnFits
<1>5. QED  BY <1>2, <1>4

\* A publish reaches entry and turns with a frame that the log bears out.
LEMMA PublishFits ==
    ASSUME NEW log, NEW kind, NEW e, NEW status, Publish(kind, e, status),
           FrameFits([kind |-> kind, id |-> e, status |-> status], log),
           EntryFits(tail, log), \A c \in Steers : TurnFits(steer[c], log)
    PROVE  /\ EntryFits(tail', log) /\ tail'.temps = tail.temps
           /\ tail' = [tail EXCEPT !.queue = tail'.queue]
           /\ steer' = [c \in Steers |-> steer'[c]] /\ \A c \in Steers : TurnFits(steer'[c], log)
<1> DEFINE frame == [kind |-> kind, id |-> e, status |-> status]
<1> HIDE DEF frame
<1>0. FrameFits(frame, log)  BY DEF frame
<1>1. tail' = tail \/ tail' = [tail EXCEPT !.queue = Fed(@, frame)]  BY DEF Publish, frame
<1>2. EntryFits(tail', log)
  <2>1. QueueFits(Fed(tail.queue, frame), log) /\ Len(Fed(tail.queue, frame)) <= QueueCap
    BY <1>0, QueueFed DEF EntryFits
  <2>2. EntryFits([tail EXCEPT !.queue = Fed(tail.queue, frame)], log)  BY <2>1, EntryQueue
  <2>3. QED  BY <1>1, <2>2
<1>3. tail'.temps = tail.temps /\ tail' = [tail EXCEPT !.queue = tail'.queue]
  BY <1>1 DEF EntryFits, TailStates
<1>4. /\ steer' = [c \in Steers |-> steer'[c]]
      /\ \A c \in Steers : steer'[c] \in {steer[c], [steer[c] EXCEPT !.queue = Fed(@, frame)]}
  BY DEF Publish, frame
<1>5. ASSUME NEW c \in Steers  PROVE TurnFits(steer'[c], log)
  <2>1. QueueFits(Fed(steer[c].queue, frame), log)  BY <1>0, QueueFed DEF TurnFits
  <2>2. TurnFits([steer[c] EXCEPT !.queue = Fed(steer[c].queue, frame)], log)  BY <2>1, TurnQueue
  <2>3. QED  BY <1>4, <2>2
<1>6. QED  BY <1>2, <1>3, <1>4, <1>5

-------------------------------------------------------------------------------
\* What a server does to an event: its row is written, outcomes are given and
\* published.
EventStep(e, r) ==
    /\ EventFits(r) /\ events[e].outcomes \subseteq r.outcomes
    /\ events' = [events EXCEPT ![e] = r]

\* Room in the log.
LEMMA RoomLeft == ASSUME cast \in Casts, MoreEvents PROVE Len(events) < MaxEvents \/ Len(events) \notin Nat
<1>1. cast.events \in Nat /\ cast.events <= MaxEvents /\ MaxEvents \in Nat  BY TailConstants
<1>2. QED  BY <1>1 DEF MoreEvents

\* The steps of the server on one event.
LEMMA EventSteps ==
    ASSUME IsLog(events), NEW e \in Known,
           \/ Receive(e) \/ Blocked(e) \/ Complete(e)
           \/ \E outcome \in Ends : Reported(e, outcome)
    PROVE  (\E r : EventStep(e, r)) /\ UNCHANGED cast
<1>1. e \in 1..Len(events) /\ EventFits(events[e])  BY DEF IsLog, Known
<1>2. PICK r : r = events[e]  OBVIOUS
<1>3. r \in Logged /\ r.owed \subseteq r.outcomes /\ (r.row \in Ends => r.row \in r.outcomes)
  BY <1>1, <1>2 DEF EventFits
<1>4. CASE Receive(e)
  <2>1. PICK s : s = [r EXCEPT !.row = "received"]  OBVIOUS
  <2>2. s \in Logged /\ s.outcomes = r.outcomes /\ s.owed = r.owed /\ s.row = "received"
    BY <1>3, <2>1 DEF Logged
  <2>3. EventFits(s) /\ r.outcomes \subseteq s.outcomes  BY <1>3, <2>2, TailConstants DEF EventFits
  <2>4. events' = [events EXCEPT ![e] = s] /\ UNCHANGED cast  BY <1>2, <1>4, <2>1 DEF Receive
  <2>5. QED  BY <1>2, <2>3, <2>4 DEF EventStep
<1>5. CASE Complete(e)
  <2>1. PICK outcome \in r.owed : events' = [events EXCEPT ![e].owed = @ \ {outcome}] /\ UNCHANGED cast
    BY <1>2, <1>5 DEF Complete
  <2>2. PICK s : s = [r EXCEPT !.owed = r.owed \ {outcome}]  OBVIOUS
  <2>3. s \in Logged /\ s.outcomes = r.outcomes /\ s.owed \subseteq r.owed /\ s.row = r.row
    BY <1>3, <2>2 DEF Logged
  <2>4. EventFits(s) /\ r.outcomes \subseteq s.outcomes  BY <1>3, <2>3 DEF EventFits
  <2>5. events' = [events EXCEPT ![e] = s]  BY <1>2, <2>1, <2>2
  <2>6. QED  BY <1>2, <2>1, <2>4, <2>5 DEF EventStep
<1>6. ASSUME NEW outcome \in Ends, NEW row \in {outcome, r.row}, Outcome(e, outcome, row)
      PROVE  (\E s : EventStep(e, s)) /\ UNCHANGED cast
  <2>1. PICK s : s = [row |-> row, outcomes |-> r.outcomes \union {outcome}, owed |-> r.owed \union {outcome}]
    OBVIOUS
  <2>2. s \in Logged  BY <1>3, <1>6, <2>1 DEF Logged
  <2>3. s.row = row /\ s.outcomes = r.outcomes \union {outcome} /\ s.owed = r.owed \union {outcome}  BY <2>1
  <2>4. EventFits(s) /\ r.outcomes \subseteq s.outcomes  BY <1>3, <1>6, <2>2, <2>3 DEF EventFits
  <2>5. events' = [events EXCEPT ![e] = s] /\ UNCHANGED cast  BY <1>2, <1>6, <2>1 DEF Outcome
  <2>6. QED  BY <1>2, <2>4, <2>5 DEF EventStep
<1>7. ASSUME NEW outcome PROVE Marks(e, outcome) \in {outcome, r.row}  BY <1>2 DEF Marks
<1>8. ASSUME NEW outcome \in Ends, Reported(e, outcome)
      PROVE  (\E s : EventStep(e, s)) /\ UNCHANGED cast
  BY <1>2, <1>6, <1>7, <1>8 DEF Reported
<1>9. CASE Blocked(e)
  <2>1. Outcome(e, "gate_blocked", Marks(e, "gate_blocked"))  BY <1>9 DEF Blocked
  <2>2. "gate_blocked" \in Ends  BY TailAssumption
  <2>3. QED  BY <1>6, <1>7, <2>1, <2>2
<1>10. QED  BY <1>4, <1>5, <1>8, <1>9

\* Entries come to the log and outcomes are given; nothing else changes it.
LEMMA LogStep == ASSUME TailInv, TailNext PROVE IsLog(events') /\ Grew(events, events') /\ UNCHANGED cast
<1>0. IsLog(events) /\ Len(events) \in Nat /\ MaxEvents \in Nat /\ events \in Seq(Logged) /\ cast \in Casts
  BY TailConstants DEF TailInv, IsLog
<1>1. ASSUME MoreEvents, events' = Landed  PROVE IsLog(events') /\ Grew(events, events')
  <2>1. Queued \in Logged /\ EventFits(Queued)  BY TailConstants DEF Queued, Logged, EventFits
  <2>2. /\ events' \in Seq(Logged) /\ Len(events') = Len(events) + 1
        /\ \A e \in 1..Len(events) : events'[e] = events[e]
        /\ events'[Len(events) + 1] = Queued
    BY <1>0, <1>1, <2>1, AppendProperties DEF Landed
  <2>3. Len(events') <= MaxEvents  BY <1>0, <1>1, <2>2, RoomLeft
  <2>4. ASSUME NEW e \in 1..Len(events')  PROVE EventFits(events'[e])
    <3>1. e \in 1..Len(events) \/ e = Len(events) + 1  BY <1>0, <2>2
    <3>2. QED  BY <1>0, <2>1, <2>2, <3>1 DEF IsLog
  <2>5. IsLog(events')  BY <2>2, <2>3, <2>4 DEF IsLog
  <2>6. QED  BY <1>0, <2>2, <2>5 DEF Grew
<1>2. ASSUME NEW e \in Known, NEW r, EventStep(e, r)  PROVE IsLog(events') /\ Grew(events, events')
  <2>1. e \in 1..Len(events) /\ events \in [1..Len(events) -> Logged] /\ r \in Logged
    BY <1>0, <1>2 DEF Known, EventStep, EventFits
  <2>2. events' = [events EXCEPT ![e] = r]  BY <1>2 DEF EventStep
  <2>3. events' \in [1..Len(events) -> Logged]  BY <2>1, <2>2
  <2>4. events' \in Seq(Logged) /\ Len(events') = Len(events)  BY <1>0, <2>3
  <2>5. \A d \in 1..Len(events) : events'[d] = IF d = e THEN r ELSE events[d]  BY <2>1, <2>2
  <2>6. \A d \in 1..Len(events) : EventFits(events'[d]) /\ events[d].outcomes \subseteq events'[d].outcomes
    BY <1>0, <1>2, <2>5 DEF EventStep, IsLog
  <2>7. QED  BY <1>0, <2>4, <2>6 DEF IsLog, Grew
<1>3. ASSUME UNCHANGED events  PROVE IsLog(events') /\ Grew(events, events')
  BY <1>0, <1>3 DEF Grew
<1>4. CASE Server
  <2>1. ASSUME NEW e \in Known, Receive(e) \/ Blocked(e) \/ Complete(e) \/ \E outcome \in Ends : Reported(e, outcome)
        PROVE  IsLog(events') /\ Grew(events, events') /\ UNCHANGED cast
    BY <1>0, <1>2, <2>1, EventSteps
  <2>2. ASSUME NEW e \in Known, Work(e)  PROVE IsLog(events') /\ Grew(events, events') /\ UNCHANGED cast
    BY <1>3, <2>2 DEF Work
  <2>3. CASE Trigger  BY <1>1, <2>3 DEF Trigger
  <2>4. QED  BY <1>4, <2>1, <2>2, <2>3 DEF Server
<1>5. CASE Dashboard
  <2>1. ASSUME NEW s \in Sends, PostMessage(s)
        PROVE  (UNCHANGED events \/ (MoreEvents /\ events' = Landed)) /\ UNCHANGED cast
    BY <2>1 DEF PostMessage
  <2>2. (\E s \in Sends : PostMessage(s)) \/ UNCHANGED <<events, cast>>
    BY <1>5 DEF Dashboard, Render, Mount, Unmount, IdleTimeout, Connected, SourceError, ReconnectTimeout,
       OnFrame, SendMessage
  <2>3. QED  BY <1>1, <1>3, <2>1, <2>2
<1>6. CASE CommandLine
  <2>1. ASSUME NEW c \in Steers, PostTurn(c)
        PROVE  (UNCHANGED events \/ (MoreEvents /\ events' = Landed)) /\ UNCHANGED cast
    BY <2>1 DEF PostTurn
  <2>2. (\E c \in Steers : PostTurn(c)) \/ UNCHANGED <<events, cast>>
    BY <1>6 DEF CommandLine, SteerStep, NextLine, Interrupt, OpenStream, StreamEnds, OnSteerFrame, Poll
  <2>3. QED  BY <1>1, <1>3, <2>1, <2>2
<1>7. QED  BY <1>4, <1>5, <1>6 DEF TailNext

\* A step whose log is known to have grown.
TailReady == TailInv /\ IsLog(events') /\ Grew(events, events') /\ UNCHANGED cast

\* What a step leaves alone fits the log that it leaves.
LEMMA ViewsStay == ASSUME TailReady, UNCHANGED view PROVE ViewsFit'
<1>1. \A v \in Views : ViewFits(view[v], events')  BY ViewKept DEF TailReady, TailInv, ViewsFit
<1>2. QED  BY <1>1 DEF TailReady, TailInv, ViewsFit

\* The same of the entry.
LEMMA EntryFitsNow == ASSUME TailReady PROVE EntryFits(tail, events')
BY EntryKept DEF TailReady, TailInv

\* The same of the turns, also when one of them is about to change.
LEMMA SteersFitNow == ASSUME TailReady PROVE \A c \in Steers : TurnFits(steer[c], events')
BY TurnKept DEF TailReady, TailInv, SteersFit

\* The turns, when none of them changes.
LEMMA SteersStay == ASSUME TailReady, UNCHANGED steer PROVE SteersFit'
BY SteersFitNow DEF TailReady, TailInv, SteersFit

\* The messages, when none of them is sent and no temporary id is taken.
LEMMA SendsStay ==
    ASSUME TailReady, UNCHANGED send, tail'.temps \in Nat, tail'.temps <= tail.temps
    PROVE  SendsFit'
<1>1. tail.temps \in Nat  BY DEF TailReady, TailInv, EntryFits, TailStates
<1>2. ASSUME NEW s \in Sends  PROVE SendFits(send[s], s, tail'.temps)
  <2>1. SendFits(send[s], s, tail.temps) /\ s \in Nat
    BY TailConstants DEF TailReady, TailInv, SendsFit, Sends
  <2>2. QED  BY <1>1, <2>1 DEF SendFits
<1>3. QED  BY <1>2 DEF TailReady, TailInv, SendsFit

\* The views on the screen, when the entry keeps its connection, timers and count.
LEMMA WatchStays ==
    ASSUME TailReady, UNCHANGED view, tail'.refs = tail.refs, tail'.idle = tail.idle,
           tail'.source = tail.source, tail'.retry = tail.retry
    PROVE  WatchedMeansConnected'
BY DEF TailReady, TailInv, WatchedMeansConnected

\* All of it together.
LEMMA TailInvNow ==
    ASSUME TailReady, EntryFits(tail', events'), ViewsFit', SendsFit', SteersFit', WatchedMeansConnected'
    PROVE  TailInv'
BY DEF TailReady, TailInv

-------------------------------------------------------------------------------
\* The server.
LEMMA TriggerFine == ASSUME TailReady, Trigger PROVE TailInv'
<1>1. UNCHANGED <<view, tail, send, steer>>  BY DEF Trigger
<1>2. tail.temps \in Nat  BY DEF TailReady, TailInv, EntryFits, TailStates
<1>3. SendsFit'  BY <1>1, <1>2, SendsStay
<1>4. EntryFits(tail', events')  BY <1>1, EntryFitsNow
<1>5. QED  BY <1>1, <1>3, <1>4, ViewsStay, SteersStay, WatchStays, TailInvNow

\* A publish by itself, once its frame is known to fit.
LEMMA PublishFine ==
    ASSUME TailReady, NEW kind, NEW e, NEW status, Publish(kind, e, status), UNCHANGED <<view, send>>,
           FrameFits([kind |-> kind, id |-> e, status |-> status], events')
    PROVE  TailInv'
<1>1. /\ EntryFits(tail', events') /\ tail'.temps = tail.temps /\ tail' = [tail EXCEPT !.queue = tail'.queue]
      /\ steer' = [c \in Steers |-> steer'[c]] /\ \A c \in Steers : TurnFits(steer'[c], events')
  BY EntryFitsNow, SteersFitNow, PublishFits
<1>2. tail \in TailStates  BY DEF TailReady, TailInv, EntryFits
<1>3. /\ tail'.refs = tail.refs /\ tail'.idle = tail.idle /\ tail'.source = tail.source
      /\ tail'.retry = tail.retry /\ tail.temps \in Nat
  BY <1>1, <1>2 DEF TailStates
<1>4. SendsFit'  BY <1>1, <1>3, SendsStay
<1>5. SteersFit'  BY <1>1 DEF SteersFit
<1>6. QED  BY <1>1, <1>3, <1>4, <1>5, ViewsStay, WatchStays, TailInvNow

\* An event is received, worked on and its outcome published (runBilling,
\* finalize, blockEvent).
LEMMA EventFine ==
    ASSUME TailReady, NEW e \in Known, Receive(e) \/ Work(e) \/ Complete(e)
    PROVE  TailInv'
<1>1. /\ e \in 1..Len(events) /\ Len(events) \in Nat /\ Len(events') \in Nat /\ Len(events) <= Len(events')
      /\ Len(events') <= MaxEvents /\ MaxEvents \in Nat /\ EventFits(events[e])
      /\ events[e].outcomes \subseteq events'[e].outcomes
  BY TailConstants DEF TailReady, TailInv, IsLog, Grew, Known
<1>2. e \in 1..Len(events') /\ e \in 1..MaxEvents  BY <1>1
<1>3. CASE Receive(e)
  <2>1. FrameFits([kind |-> "event_received", id |-> e, status |-> "none"], events')
    BY <1>2 DEF FrameFits, Frames, FrameKinds
  <2>2. QED  BY <1>3, <2>1, PublishFine DEF Receive
<1>4. CASE Work(e)
  <2>1. FrameFits([kind |-> "chunk", id |-> e, status |-> "none"], events')
    BY <1>2 DEF FrameFits, Frames, FrameKinds
  <2>2. QED  BY <1>4, <2>1, PublishFine DEF Work
<1>5. CASE Complete(e)
  <2>1. PICK outcome \in events[e].owed : Publish("event_complete", e, outcome) /\ UNCHANGED <<view, send>>
    BY <1>5 DEF Complete
  <2>2. outcome \in Ends /\ outcome \in events'[e].outcomes  BY <1>1, <2>1 DEF EventFits, Logged
  <2>3. FrameFits([kind |-> "event_complete", id |-> e, status |-> outcome], events')
    BY <1>2, <2>2 DEF FrameFits, Frames, FrameKinds
  <2>4. QED  BY <2>1, <2>3, PublishFine
<1>6. QED  BY <1>3, <1>4, <1>5

\* An outcome is given: nobody sees it yet.
LEMMA OutcomeFine ==
    ASSUME TailReady, NEW e \in Known, Blocked(e) \/ \E outcome \in Ends : Reported(e, outcome)
    PROVE  TailInv'
<1>1. UNCHANGED <<view, tail, send, steer>>  BY DEF Blocked, Reported, Outcome
<1>2. tail.temps \in Nat  BY DEF TailReady, TailInv, EntryFits, TailStates
<1>3. SendsFit'  BY <1>1, <1>2, SendsStay
<1>4. EntryFits(tail', events')  BY <1>1, EntryFitsNow
<1>5. QED  BY <1>1, <1>3, <1>4, ViewsStay, SteersStay, WatchStays, TailInvNow

-------------------------------------------------------------------------------
\* The registry: an entry that a view makes.
LEMMA EntryMade ==
    ASSUME NEW log, NEW rows, RowsFit(rows, log), NEW v \in Views,
           NEW t, t = [rows |-> rows, source |-> "connecting", queue |-> <<>>, retry |-> FALSE,
                       idle |-> FALSE, refs |-> {v}, temps |-> 0]
    PROVE  /\ EntryFits(t, log) /\ t.temps = 0
           /\ t.refs = {v} /\ ~t.idle /\ t.source = "connecting" /\ ~t.retry
<1>1. rows \in Seq(Rows) /\ <<>> \in Seq(Frames) /\ Len(<<>>) <= QueueCap
  BY TailConstants DEF RowsFit
<1>2. QueueFits(<<>>, log)  BY NothingFits
<1>3. t \in TailStates
  <2>1. {v} \in SUBSET Views /\ 0 \in Nat  OBVIOUS
  <2>2. QED  BY <1>1, <2>1 DEF TailStates
<1>4. QED  BY <1>1, <1>2, <1>3 DEF EntryFits

\* A page is rendered from the log.
LEMMA RenderFine == ASSUME TailReady, NEW v \in Views, Render(v) PROVE TailInv'
<1>1. UNCHANGED <<events, tail, send, steer>> /\ view[v].at = "away"  BY DEF Render
<1>2. PICK rows \in Backfills : view' = [view EXCEPT ![v] = [at |-> "rendered", initial |-> rows]]
  BY DEF Render
<1>3. RowsFit(rows, events')  BY <1>1, BackfillFits DEF TailReady, TailInv
<1>4. ViewFits([at |-> "rendered", initial |-> rows], events')  BY <1>3 DEF ViewFits, ViewStates, RowsFit
<1>5. /\ view = [w \in Views |-> view[w]] /\ \A w \in Views : ViewFits(view[w], events)
  BY DEF TailReady, TailInv, ViewsFit
<1>6. ViewsFit'
  <2>1. \A w \in Views : ViewFits(view[w], events')  BY <1>1, <1>5
  <2>2. view' = [w \in Views |-> view'[w]] /\ \A w \in Views : ViewFits(view'[w], events')
    BY <1>2, <1>4, <1>5, <2>1
  <2>3. QED  BY <2>2 DEF ViewsFit
<1>7. WatchedMeansConnected'
  BY <1>1, <1>2, <1>5 DEF TailReady, TailInv, WatchedMeansConnected
<1>8. tail.temps \in Nat  BY DEF TailReady, TailInv, EntryFits, TailStates
<1>9. SendsFit'  BY <1>1, <1>8, SendsStay
<1>10. EntryFits(tail', events')  BY <1>1, EntryFitsNow
<1>11. QED  BY <1>1, <1>6, <1>7, <1>9, <1>10, SteersStay, TailInvNow

\* A view that comes to an entry clears its idle timer, or makes the entry.
LEMMA MountFine == ASSUME TailReady, NEW v \in Views, Mount(v) PROVE TailInv'
<1>1. /\ UNCHANGED <<events, send, steer>> /\ tail' = Subscribed(v)
      /\ view' = [view EXCEPT ![v] = [at |-> "mounted", initial |-> <<>>]]
  BY DEF Mount
<1>2. view = [w \in Views |-> view[w]] /\ \A w \in Views : ViewFits(view[w], events')
  BY ViewKept DEF TailReady, TailInv, ViewsFit
<1>3. ViewsFit'
  <2>1. ViewFits([at |-> "mounted", initial |-> <<>>], events')
    BY NothingFits DEF ViewFits, ViewStates, RowsFit
  <2>2. view' = [w \in Views |-> view'[w]] /\ \A w \in Views : ViewFits(view'[w], events')
    BY <1>1, <1>2, <2>1
  <2>3. QED  BY <2>2 DEF ViewsFit
<1>4. EntryFits(tail, events') /\ tail \in TailStates /\ tail.temps \in Nat
      /\ (tail.retry => tail.source = "closed") /\ (tail.source = "closed" => tail.retry)
  BY EntryFitsNow DEF EntryFits, TailStates
<1>5. \A w \in Views : view'[w].at = "mounted" => w = v \/ view[w].at = "mounted"
  BY <1>1, <1>2
<1>6. CASE tail.source = "absent"
  <2>1. RowsFit(view[v].initial, events')  BY <1>2 DEF ViewFits
  <2>2. tail' = [Absent EXCEPT !.rows = view[v].initial, !.source = "connecting", !.refs = {v}]
    BY <1>1, <1>6 DEF Subscribed
  <2>3. /\ EntryFits(tail', events') /\ tail'.temps = 0
        /\ tail'.refs = {v} /\ ~tail'.idle /\ tail'.source = "connecting" /\ ~tail'.retry
    <3>1. PICK t : /\ t = tail'
                   /\ t = [rows |-> view[v].initial, source |-> "connecting", queue |-> <<>>, retry |-> FALSE,
                           idle |-> FALSE, refs |-> {v}, temps |-> 0]
      BY <2>2 DEF Absent
    <3>2. /\ EntryFits(t, events') /\ t.temps = 0
          /\ t.refs = {v} /\ ~t.idle /\ t.source = "connecting" /\ ~t.retry
      BY <2>1, <3>1, EntryMade
    <3>3. QED  BY <3>1, <3>2, Zenon
  <2>4. \A w \in Views : view[w].at # "mounted"
    BY <1>4, <1>6 DEF TailReady, TailInv, WatchedMeansConnected
  <2>5. WatchedMeansConnected'  BY <1>5, <2>3, <2>4 DEF WatchedMeansConnected
  <2>6. SendsFit'  BY <1>1, <1>4, <2>3, SendsStay
  <2>7. QED  BY <1>1, <1>3, <2>3, <2>5, <2>6, SteersStay, TailInvNow
<1>7. CASE tail.source # "absent"
  <2>1. tail' = [tail EXCEPT !.refs = @ \union {v}, !.idle = FALSE]  BY <1>1, <1>7 DEF Subscribed
  <2>2. /\ tail' \in TailStates /\ tail'.rows = tail.rows /\ tail'.queue = tail.queue
        /\ tail'.source = tail.source /\ tail'.retry = tail.retry /\ tail'.temps = tail.temps
        /\ tail'.refs = tail.refs \union {v} /\ ~tail'.idle
    BY <1>4, <2>1 DEF TailStates
  <2>3. EntryFits(tail', events')  BY <1>4, <2>2 DEF EntryFits
  <2>4. tail.source \in {"connecting", "open"} \/ tail.retry  BY <1>4, <1>7 DEF TailStates
  <2>5. WatchedMeansConnected'
    BY <1>5, <2>2, <2>4 DEF TailReady, TailInv, WatchedMeansConnected
  <2>6. SendsFit'  BY <1>1, <1>4, <2>2, SendsStay
  <2>7. QED  BY <1>1, <1>3, <2>3, <2>5, <2>6, SteersStay, TailInvNow
<1>8. QED  BY <1>6, <1>7

\* The idle timer is armed when the last view has gone, not before.
LEMMA UnmountFine == ASSUME TailReady, NEW v \in Views, Unmount(v) PROVE TailInv'
<1>1. /\ UNCHANGED <<events, send, steer>> /\ view[v].at = "mounted"
      /\ view' = [view EXCEPT ![v].at = "away"]
      /\ tail' = [tail EXCEPT !.refs = @ \ {v}, !.idle = tail.refs = {v}]
  BY DEF Unmount, Released
<1>2. view = [w \in Views |-> view[w]] /\ \A w \in Views : ViewFits(view[w], events')
  BY ViewKept DEF TailReady, TailInv, ViewsFit
<1>3. ViewsFit'
  <2>1. ViewFits([view[v] EXCEPT !.at = "away"], events')
    <3>1. view[v] \in ViewStates /\ RowsFit(view[v].initial, events')  BY <1>2 DEF ViewFits
    <3>2. PICK q : q = [view[v] EXCEPT !.at = "away"]  OBVIOUS
    <3>3. q \in ViewStates /\ q.initial = view[v].initial  BY <3>1, <3>2 DEF ViewStates
    <3>4. QED  BY <3>1, <3>2, <3>3 DEF ViewFits
  <2>2. view' = [w \in Views |-> view'[w]] /\ \A w \in Views : ViewFits(view'[w], events')
    BY <1>1, <1>2, <2>1
  <2>3. QED  BY <2>2 DEF ViewsFit
<1>4. EntryFits(tail, events') /\ tail \in TailStates /\ tail.temps \in Nat
  BY EntryFitsNow DEF EntryFits, TailStates
<1>5. /\ tail' \in TailStates /\ tail'.rows = tail.rows /\ tail'.queue = tail.queue
      /\ tail'.source = tail.source /\ tail'.retry = tail.retry /\ tail'.temps = tail.temps
      /\ tail'.refs = tail.refs \ {v} /\ (tail'.idle => tail.refs = {v})
  BY <1>1, <1>4 DEF TailStates
<1>6. EntryFits(tail', events')  BY <1>4, <1>5 DEF EntryFits
<1>7. \A w \in Views : view'[w].at = "mounted" => w # v /\ view[w].at = "mounted"
  <2>1. view[v] \in ViewStates  BY <1>2 DEF ViewFits
  <2>2. view'[v].at = "away"  BY <1>1, <1>2, <2>1 DEF ViewStates
  <2>3. QED  BY <1>1, <1>2, <2>2
<1>8. WatchedMeansConnected'
  BY <1>5, <1>7 DEF TailReady, TailInv, WatchedMeansConnected
<1>9. SendsFit'  BY <1>1, <1>4, <1>5, SendsStay
<1>10. QED  BY <1>1, <1>3, <1>6, <1>8, <1>9, SteersStay, TailInvNow

\* Timers, connections and frames of the entry.
LEMMA TimerFine ==
    ASSUME TailReady, IdleTimeout \/ Connected \/ SourceError \/ ReconnectTimeout
    PROVE  TailInv'
<1>1. UNCHANGED <<events, view, send, steer>>  BY DEF IdleTimeout, Connected, SourceError, ReconnectTimeout
<1>2. /\ EntryFits(tail, events') /\ tail \in TailStates /\ tail.temps \in Nat
  BY EntryFitsNow DEF EntryFits, TailStates
<1>3. QueueFits(<<>>, events') /\ RowsFit(<<>>, events') /\ Len(<<>>) <= QueueCap
  BY NothingFits, TailConstants
<1>4. ASSUME EntryFits(tail', events'), tail'.temps \in Nat, tail'.temps <= tail.temps,
             WatchedMeansConnected'
      PROVE  TailInv'
  BY <1>1, <1>4, ViewsStay, SendsStay, SteersStay, TailInvNow
<1>5. CASE IdleTimeout
  <2>1. tail' = Absent /\ tail.idle  BY <1>5 DEF IdleTimeout
  <2>2. tail' \in TailStates  BY <2>1 DEF Absent, TailStates
  <2>3. EntryFits(tail', events') /\ tail'.temps = 0  BY <1>3, <2>1, <2>2 DEF EntryFits, Absent
  <2>4. \A w \in Views : view[w].at # "mounted"  BY <2>1 DEF TailReady, TailInv, WatchedMeansConnected
  <2>5. WatchedMeansConnected'  BY <1>1, <2>4 DEF WatchedMeansConnected
  <2>6. QED  BY <1>2, <1>4, <2>3, <2>5
<1>6. CASE Connected
  <2>1. tail' = [tail EXCEPT !.source = "open"] /\ tail.source = "connecting"  BY <1>6 DEF Connected
  <2>2. /\ tail' \in TailStates /\ tail'.rows = tail.rows /\ tail'.queue = tail.queue
        /\ tail'.source = "open" /\ tail'.retry = tail.retry /\ tail'.temps = tail.temps
        /\ tail'.refs = tail.refs /\ tail'.idle = tail.idle
    BY <1>2, <2>1 DEF TailStates
  <2>3. EntryFits(tail', events')  BY <1>2, <2>1, <2>2 DEF EntryFits
  <2>4. WatchedMeansConnected'  BY <1>1, <2>2 DEF TailReady, TailInv, WatchedMeansConnected
  <2>5. QED  BY <1>2, <1>4, <2>2, <2>3, <2>4
<1>7. CASE SourceError
  <2> PICK yes \in BOOLEAN : yes = TRUE  OBVIOUS
  <2>1. tail' = [tail EXCEPT !.source = "closed", !.queue = <<>>, !.retry = yes]  BY <1>7 DEF SourceError
  <2>2. tail' = [rows |-> tail.rows, source |-> "closed", queue |-> <<>>, retry |-> yes,
                 idle |-> tail.idle, refs |-> tail.refs, temps |-> tail.temps]
    BY <1>2, <2>1 DEF TailStates
  <2>3. /\ tail'.rows = tail.rows /\ tail'.queue = <<>>
        /\ tail'.source = "closed" /\ tail'.retry = yes /\ tail'.temps = tail.temps
        /\ tail'.refs = tail.refs /\ tail'.idle = tail.idle
    BY <2>2
  <2>4. tail' \in TailStates  BY <1>2, <2>2 DEF TailStates
  <2>5. EntryFits(tail', events')  BY <1>2, <1>3, <2>3, <2>4 DEF EntryFits
  <2>6. WatchedMeansConnected'  BY <1>1, <2>3 DEF TailReady, TailInv, WatchedMeansConnected
  <2>7. QED  BY <1>2, <1>4, <2>3, <2>5, <2>6
<1>8. CASE ReconnectTimeout
  <2>1. tail' = [tail EXCEPT !.retry = FALSE, !.source = "connecting"]
    BY <1>8 DEF ReconnectTimeout, Reconnected
  <2>2. /\ tail' \in TailStates /\ tail'.rows = tail.rows /\ tail'.queue = tail.queue
        /\ tail'.source = "connecting" /\ ~tail'.retry /\ tail'.temps = tail.temps
        /\ tail'.refs = tail.refs /\ tail'.idle = tail.idle
    BY <1>2, <2>1 DEF TailStates
  <2>3. EntryFits(tail', events')  BY <1>2, <2>1, <2>2 DEF EntryFits
  <2>4. WatchedMeansConnected'  BY <1>1, <2>2 DEF TailReady, TailInv, WatchedMeansConnected
  <2>5. QED  BY <1>2, <1>4, <2>2, <2>3, <2>4
<1>9. QED  BY <1>5, <1>6, <1>7, <1>8

\* A frame reaches the handler of the entry, or nobody.
LEMMA FrameFine == ASSUME TailReady, OnFrame PROVE TailInv'
<1>1. UNCHANGED <<events, view, send, steer>> /\ tail.queue # <<>>  BY DEF OnFrame
<1>2. PICK q, rows :
         /\ q = Tail(tail.queue) /\ rows \in {tail.rows, Applied(tail.rows, Head(tail.queue))}
         /\ tail' = [tail EXCEPT !.queue = q, !.rows = rows]
  BY DEF OnFrame
<1>3. EntryFits(tail, events) /\ IsLog(events) /\ tail \in TailStates /\ tail.temps \in Nat
  BY DEF TailReady, TailInv, EntryFits, TailStates
<1>4. QueueFits(q, events) /\ Len(q) = Len(tail.queue) - 1 /\ FrameFits(Head(tail.queue), events)
  BY <1>1, <1>2, <1>3, QueueTail DEF EntryFits
<1>5. RowsFit(rows, events)
  <2>1. RowsFit(tail.rows, events)  BY <1>3 DEF EntryFits
  <2>2. RowsFit(Applied(tail.rows, Head(tail.queue)), events)  BY <1>3, <1>4, <2>1, AppliedFits
  <2>3. QED  BY <1>2, <2>1, <2>2
<1>6. q \in Seq(Frames) /\ rows \in Seq(Rows)  BY <1>4, <1>5 DEF QueueFits, RowsFit
<1>7. /\ tail' \in TailStates /\ tail'.rows = rows /\ tail'.queue = q
      /\ tail'.source = tail.source /\ tail'.retry = tail.retry /\ tail'.temps = tail.temps
      /\ tail'.refs = tail.refs /\ tail'.idle = tail.idle
  BY <1>2, <1>3, <1>6 DEF TailStates
<1>8. Len(q) <= QueueCap
  <2>1. Len(tail.queue) \in Nat /\ Len(tail.queue) <= QueueCap /\ QueueCap \in Nat
    BY <1>3, TailConstants DEF EntryFits, QueueFits
  <2>2. QED  BY <1>4, <2>1
<1>9. EntryFits(tail', events')  BY <1>1, <1>3, <1>4, <1>5, <1>7, <1>8 DEF EntryFits
<1>10. SendsFit'  BY <1>1, <1>3, <1>7, SendsStay
<1>11. QED  BY <1>1, <1>7, <1>9, <1>10, ViewsStay, SteersStay, WatchStays, TailInvNow

-------------------------------------------------------------------------------
\* The messages of the dashboard.  A temporary id is that of a message which
\* was still to be sent, so there are as many as messages.
LEMMA SendFine == ASSUME TailReady, NEW s \in Sends, SendMessage(s) PROVE TailInv'
<1>1. /\ UNCHANGED <<events, view, steer>> /\ send[s].at = "unsent"
      /\ \A r \in Sends : r < s => send[r].at # "unsent"
      /\ send' = [send EXCEPT ![s].at = "posting", ![s].temp = tail.temps + 1]
      /\ tail' = [tail EXCEPT !.temps = tail.temps + 1,
                              !.rows = Append(@, Row(-(tail.temps + 1), "optimistic"))]
  BY DEF SendMessage
<1>2. /\ EntryFits(tail, events') /\ tail \in TailStates /\ tail.temps \in Nat
      /\ RowsFit(tail.rows, events')
  BY EntryFitsNow DEF EntryFits, TailStates
<1>3. /\ send = [r \in Sends |-> send[r]] /\ \A r \in Sends : SendFits(send[r], r, tail.temps)
      /\ Sends = 1..MaxSends /\ MaxSends \in Nat /\ MaxEvents \in Nat
  BY TailConstants DEF TailReady, TailInv, SendsFit, Sends
<1>4. PICK n : n = tail.temps + 1 /\ n \in Nat /\ n <= s /\ n <= MaxSends /\ n > 0
  BY <1>1, <1>2, <1>3 DEF SendFits
<1>5. PICK row : row = Row(-n, "optimistic")  OBVIOUS
<1>6. RowFits(row, events')
  <2>1. -n \in -MaxSends..MaxEvents /\ ~(-n > 0)  BY <1>3, <1>4
  <2>2. QED  BY <1>5, <2>1 DEF RowFits, Rows, Row
<1>7. PICK rows : rows = Append(tail.rows, row) /\ RowsFit(rows, events')  BY <1>2, <1>6, RowsAppended
<1>8. tail' = [tail EXCEPT !.temps = n, !.rows = rows]  BY <1>1, <1>4, <1>5, <1>7
<1>9. /\ tail' \in TailStates /\ tail'.rows = rows /\ tail'.queue = tail.queue
      /\ tail'.source = tail.source /\ tail'.retry = tail.retry /\ tail'.temps = n
      /\ tail'.refs = tail.refs /\ tail'.idle = tail.idle
  BY <1>2, <1>4, <1>7, <1>8 DEF TailStates, RowsFit
<1>10. EntryFits(tail', events')  BY <1>2, <1>7, <1>9 DEF EntryFits
<1>11. SendsFit'
  <2>1. /\ send'[s] = [send[s] EXCEPT !.at = "posting", !.temp = n] /\ send' = [r \in Sends |-> send'[r]]
        /\ \A r \in Sends : r # s => send'[r] = send[r]
    BY <1>1, <1>3, <1>4
  <2>2. SendFits(send'[s], s, n)  BY <1>3, <1>4, <2>1 DEF SendFits, SendStates
  <2>3. ASSUME NEW r \in Sends, r # s  PROVE SendFits(send'[r], r, n)
    <3>1. SendFits(send[r], r, tail.temps) /\ send'[r] = send[r]  BY <1>3, <2>1, <2>3
    <3>2. send[r].at = "unsent" => n < r  BY <1>1, <1>3, <1>4, <2>3
    <3>3. QED  BY <3>1, <3>2 DEF SendFits
  <2>4. QED  BY <1>9, <2>1, <2>2, <2>3 DEF SendsFit
<1>12. QED  BY <1>1, <1>9, <1>10, <1>11, ViewsStay, SteersStay, WatchStays, TailInvNow

\* A message whose fate is known: its row is settled in whatever entry there is.
LEMMA SettleFine ==
    ASSUME TailReady, NEW s \in Sends, NEW row, Settle(s, row), RowFits(row, events'), UNCHANGED <<view, steer>>
    PROVE  TailInv'
<1>1. /\ EntryFits(tail, events') /\ tail \in TailStates /\ tail.temps \in Nat
      /\ RowsFit(tail.rows, events')
  BY EntryFitsNow DEF EntryFits, TailStates
<1>2. PICK rows : rows = Marked(tail.rows, -send[s].temp, row) /\ RowsFit(rows, events')
  BY <1>1, MarkedFits
<1>3. tail' = [tail EXCEPT !.rows = rows]  BY <1>2 DEF Settle
<1>4. EntryFits(tail', events')  BY <1>1, <1>2, <1>3, EntryRows
<1>5. /\ tail'.source = tail.source /\ tail'.retry = tail.retry /\ tail'.temps = tail.temps
      /\ tail'.refs = tail.refs /\ tail'.idle = tail.idle
  BY <1>1, <1>3 DEF TailStates
<1>6. SendsFit'
  <2>1. /\ send = [r \in Sends |-> send[r]] /\ \A r \in Sends : SendFits(send[r], r, tail.temps)
        /\ 1 \in 1..MaxAttempts
    BY TailConstants DEF TailReady, TailInv, SendsFit
  <2>2. /\ send'[s] = [send[s] EXCEPT !.at = "settled", !.try = 1] /\ send' = [r \in Sends |-> send'[r]]
        /\ \A r \in Sends : r # s => send'[r] = send[r]
    BY <2>1 DEF Settle
  <2>3. SendFits(send'[s], s, tail.temps)  BY <2>1, <2>2 DEF SendFits, SendStates
  <2>4. QED  BY <1>5, <2>1, <2>2, <2>3 DEF SendsFit
<1>7. QED  BY <1>4, <1>5, <1>6, ViewsStay, SteersStay, WatchStays, TailInvNow

\* The row of a message that failed keeps its temporary id.
LEMMA FailedFits == ASSUME TailReady, NEW s \in Sends PROVE RowFits(Row(-send[s].temp, "failed"), events')
<1>1. send[s].temp \in Nat /\ send[s].temp <= MaxSends /\ MaxSends \in Nat /\ MaxEvents \in Nat
  BY TailConstants DEF TailReady, TailInv, SendsFit, SendFits, SendStates
<1>2. PICK n : n = -send[s].temp /\ n \in -MaxSends..MaxEvents /\ ~(n > 0)  BY <1>1
<1>3. RowFits(Row(n, "failed"), events')  BY <1>2 DEF RowFits, Rows, Row
<1>4. QED  BY <1>2, <1>3

\* An attempt that is followed by another is not the last one.
LEMMA TryAgain ==
    ASSUME NEW outcome, NEW try \in 1..MaxAttempts, Retries("POST", outcome, try)
    PROVE  try + 1 \in 1..MaxAttempts
BY TailConstants DEF Retries

\* An attempt that failed is followed by another, or its row is marked.
LEMMA RetrySendFine ==
    ASSUME TailReady, NEW s \in Sends, NEW outcome, RetrySend(s, outcome), send[s].at = "posting",
           UNCHANGED <<view, steer>>
    PROVE  TailInv'
<1>1. CASE ~Retries("POST", outcome, send[s].try)
  <2>1. Settle(s, Row(-send[s].temp, "failed"))  BY <1>1 DEF RetrySend
  <2>2. QED  BY <2>1, FailedFits, SettleFine
<1>2. CASE Retries("POST", outcome, send[s].try)
  <2>1. UNCHANGED tail /\ send' = [send EXCEPT ![s].try = @ + 1]  BY <1>2 DEF RetrySend
  <2>2. /\ send = [r \in Sends |-> send[r]] /\ \A r \in Sends : SendFits(send[r], r, tail.temps)
    BY DEF TailReady, TailInv, SendsFit
  <2>3. send[s].try + 1 \in 1..MaxAttempts  BY <1>2, <2>2, TryAgain DEF SendFits, SendStates
  <2>4. /\ send'[s] = [send[s] EXCEPT !.try = send[s].try + 1] /\ send' = [r \in Sends |-> send'[r]]
        /\ \A r \in Sends : r # s => send'[r] = send[r]
    BY <2>1, <2>2
  <2>5. SendFits(send'[s], s, tail.temps)  BY <2>2, <2>3, <2>4 DEF SendFits, SendStates
  <2>6. SendsFit'  BY <2>1, <2>2, <2>4, <2>5 DEF SendsFit
  <2>7. EntryFits(tail', events')  BY <2>1, EntryFitsNow
  <2>8. QED  BY <2>1, <2>6, <2>7, ViewsStay, SteersStay, WatchStays, TailInvNow
<1>3. QED  BY <1>1, <1>2

\* A message that is posted, whatever became of its answer.
LEMMA PostFine == ASSUME TailReady, NEW s \in Sends, PostMessage(s) PROVE TailInv'
<1>1. send[s].at = "posting" /\ UNCHANGED <<view, steer>>  BY DEF PostMessage
<1>2. CASE MoreEvents /\ events' = Landed /\ Settle(s, Reconciled(-send[s].temp, NewEvent))
  <2>1. Len(events) \in Nat /\ MaxEvents \in Nat /\ MaxSends \in Nat /\ events \in Seq(Logged)
        /\ Len(events) < MaxEvents
    BY <1>2, RoomLeft, TailConstants DEF TailReady, TailInv, IsLog
  <2>2. PICK e : e = NewEvent /\ e = Len(events) + 1  BY DEF NewEvent
  <2>3. e \in 1..Len(events') /\ e \in -MaxSends..MaxEvents
    BY <1>2, <2>1, <2>2, AppendProperties, QueuedLogged DEF Landed
  <2>4. RowFits(Row(e, "received"), events')  BY <2>3, TailConstants DEF RowFits, Rows, Row
  <2>5. Settle(s, Row(e, "received"))  BY <1>2, <2>2 DEF Reconciled
  <2>6. QED  BY <1>1, <2>4, <2>5, SettleFine
<1>3. CASE Settle(s, Row(-send[s].temp, "failed"))
  BY <1>1, <1>3, FailedFits, SettleFine
<1>4. CASE \E o : RetrySend(s, o)
  BY <1>1, <1>4, RetrySendFine
<1>5. QED  BY <1>2, <1>3, <1>4 DEF PostMessage

-------------------------------------------------------------------------------
\* The command line: one turn goes on, and nothing else changes.
OneTurn(c) ==
    /\ steer' = [d \in Steers |-> steer'[d]] /\ \A d \in Steers : d # c => steer'[d] = steer[d]
    /\ UNCHANGED <<view, tail, send>>

\* Then what is left to show is that this turn fits.
LEMMA TurnFine ==
    ASSUME TailReady, NEW c \in Steers, OneTurn(c), TurnFits(steer'[c], events')
    PROVE  TailInv'
<1>1. \A d \in Steers : TurnFits(steer'[d], events')  BY SteersFitNow DEF OneTurn
<1>2. SteersFit'  BY <1>1 DEF SteersFit, OneTurn
<1>3. tail.temps \in Nat  BY DEF TailReady, TailInv, EntryFits, TailStates
<1>4. SendsFit'  BY <1>3, SendsStay DEF OneTurn
<1>5. EntryFits(tail', events')  BY EntryFitsNow DEF OneTurn
<1>6. QED  BY <1>2, <1>4, <1>5, ViewsStay, WatchStays, TailInvNow DEF OneTurn

\* What is known of a turn when a step begins.
LEMMA TurnNow ==
    ASSUME TailReady, NEW c \in Steers
    PROVE  /\ steer = [d \in Steers |-> steer[d]] /\ TurnFits(steer[c], events) /\ TurnFits(steer[c], events')
           /\ steer[c] \in TurnStates /\ QueueFits(steer[c].queue, events')
           /\ IsLog(events) /\ Len(events) \in Nat /\ Len(events) <= MaxEvents /\ events \in Seq(Logged)
           /\ cast \in Casts
BY SteersFitNow DEF TailReady, TailInv, SteersFit, TurnFits, IsLog

\* A turn that ends says what is in the log, or nothing about an event.
LEMMA TurnEndFine ==
    ASSUME TailReady, NEW c \in Steers, NEW said \in Said, EndTurn(c, said), UNCHANGED <<view, tail, send>>,
           said \in Ends => steer[c].event \in 1..Len(events') /\ said \in events'[steer[c].event].outcomes
    PROVE  TailInv'
<1>1. /\ steer = [d \in Steers |-> steer[d]] /\ steer[c] \in TurnStates  BY TurnNow
<1>2. PICK at, word :
         /\ at \in {"prompt", "ended"} /\ word \in {said, "interrupted"}
         /\ steer' = [steer EXCEPT ![c].at = at, ![c].said = word, ![c].open = FALSE, ![c].queue = <<>>,
                                   ![c].polls = MaxPolls]
  BY DEF EndTurn
<1>3. word \in Said /\ MaxPolls \in 0..MaxPolls /\ "interrupted" \notin Ends
  BY <1>2, TailConstants DEF Said
<1>4. PICK no \in BOOLEAN : no = FALSE  OBVIOUS
<1>5. steer'[c] = [steer[c] EXCEPT !.at = at, !.said = word, !.open = no, !.queue = <<>>, !.polls = MaxPolls]
  BY <1>1, <1>2, <1>4
<1>6. /\ steer'[c] \in TurnStates /\ steer'[c].at = at /\ steer'[c].said = word /\ steer'[c].queue = <<>>
      /\ steer'[c].event = steer[c].event
  BY <1>1, <1>2, <1>3, <1>5 DEF TurnStates, TurnPoints
<1>7. TurnFits(steer'[c], events')  BY <1>2, <1>3, <1>6, NothingFits DEF TurnFits
<1>8. OneTurn(c)  BY <1>1, <1>2 DEF OneTurn
<1>9. QED  BY <1>7, <1>8, TurnFine

\* A line of the terminal starts a turn that has said nothing.
LEMMA LineFine == ASSUME TailReady, NEW c \in Steers, NextLine(c) PROVE TailInv'
<1>1. /\ steer = [d \in Steers |-> steer[d]] /\ steer[c] \in TurnStates /\ TurnFits(steer[c], events')
      /\ QueueFits(steer[c].queue, events')
  BY TurnNow
<1>2. UNCHANGED <<view, tail, send>>  BY DEF NextLine
<1>3. CASE /\ steer[c].turns > 0
           /\ steer' = [steer EXCEPT ![c].at = "post", ![c].turns = @ - 1, ![c].try = 1,
                                     ![c].event = 0, ![c].said = "nothing"]
  <2>1. steer[c].turns - 1 \in 0..Turns /\ 1 \in 1..MaxAttempts /\ 0 \in 0..MaxEvents /\ "nothing" \notin Ends
    BY <1>1, <1>3, TailConstants DEF TurnStates
  <2>2. steer'[c] = [steer[c] EXCEPT !.at = "post", !.turns = @ - 1, !.try = 1, !.event = 0, !.said = "nothing"]
    BY <1>1, <1>3
  <2>3. /\ steer'[c] \in TurnStates /\ steer'[c].at = "post" /\ steer'[c].said = "nothing"
        /\ steer'[c].queue = steer[c].queue
    BY <1>1, <2>1, <2>2 DEF TurnStates, TurnPoints, Said
  <2>4. TurnFits(steer'[c], events')  BY <1>1, <2>1, <2>3 DEF TurnFits
  <2>5. OneTurn(c)  BY <1>1, <1>2, <1>3 DEF OneTurn
  <2>6. QED  BY <2>4, <2>5, TurnFine
<1>4. CASE steer' = [steer EXCEPT ![c].at = "ended"]
  <2>1. /\ steer'[c] \in TurnStates /\ steer'[c].at = "ended" /\ steer'[c].said = steer[c].said
        /\ steer'[c].queue = steer[c].queue /\ steer'[c].event = steer[c].event
    BY <1>1, <1>4 DEF TurnStates, TurnPoints
  <2>2. TurnFits(steer'[c], events')  BY <1>1, <2>1 DEF TurnFits
  <2>3. OneTurn(c)  BY <1>1, <1>2, <1>4 DEF OneTurn
  <2>4. QED  BY <2>2, <2>3, TurnFine
<1>5. QED  BY <1>3, <1>4 DEF NextLine

\* A turn that stops following frames stays well-formed.
Shut(r, at, said, polls, no) ==
    [r EXCEPT !.at = at, !.said = said, !.open = no, !.queue = <<>>, !.polls = polls]

\* It stays well-formed.
LEMMA TurnShut ==
    ASSUME NEW r \in TurnStates, NEW at \in TurnPoints, NEW said \in Said, NEW polls \in 0..MaxPolls,
           NEW no \in BOOLEAN
    PROVE  LET u == Shut(r, at, said, polls, no)
           IN  u \in TurnStates /\ u.at = at /\ u.said = said /\ u.queue = <<>> /\ u.event = r.event
<1>1. <<>> \in Seq(Frames)  OBVIOUS
<1>2. PICK u : u = [r EXCEPT !.at = at, !.said = said, !.open = no, !.queue = <<>>, !.polls = polls]  OBVIOUS
<1>3. u \in TurnStates /\ u.at = at /\ u.said = said /\ u.queue = <<>> /\ u.event = r.event
  BY <1>1, <1>2 DEF TurnStates
<1>4. QED  BY <1>2, <1>3, Zenon DEF Shut

\* ^C marks the turn, or ends the process without a word about the event.
LEMMA InterruptFine == ASSUME TailReady, NEW c \in Steers, Interrupt(c) PROVE TailInv'
<1>1. /\ steer = [d \in Steers |-> steer[d]] /\ steer[c] \in TurnStates /\ TurnFits(steer[c], events')
      /\ QueueFits(steer[c].queue, events')
  BY TurnNow
<1>2. UNCHANGED <<view, tail, send>>  BY DEF Interrupt
<1>3. PICK yes \in BOOLEAN, no \in BOOLEAN : yes = TRUE /\ no = FALSE  OBVIOUS
<1>4. CASE steer' = [steer EXCEPT ![c].aborted = TRUE]
  <2>1. steer'[c] = [steer[c] EXCEPT !.aborted = yes]  BY <1>1, <1>3, <1>4
  <2>2. /\ steer'[c] \in TurnStates /\ steer'[c].at = steer[c].at /\ steer'[c].said = steer[c].said
        /\ steer'[c].queue = steer[c].queue /\ steer'[c].event = steer[c].event
    BY <1>1, <2>1 DEF TurnStates
  <2>3. TurnFits(steer'[c], events')  BY <1>1, <2>2 DEF TurnFits
  <2>4. OneTurn(c)  BY <1>1, <1>2, <1>4 DEF OneTurn
  <2>5. QED  BY <2>3, <2>4, TurnFine
<1>5. CASE steer' = [steer EXCEPT ![c].at = "ended", ![c].said = "interrupted",
                                 ![c].open = FALSE, ![c].queue = <<>>, ![c].polls = MaxPolls]
  <2>1. MaxPolls \in 0..MaxPolls /\ "interrupted" \notin Ends  BY TailConstants
  <2>2. steer'[c] = [steer[c] EXCEPT !.at = "ended", !.said = "interrupted", !.open = no, !.queue = <<>>,
                                    !.polls = MaxPolls]
    BY <1>1, <1>3, <1>5
  <2>3. /\ steer'[c] \in TurnStates /\ steer'[c].at = "ended" /\ steer'[c].said = "interrupted"
        /\ steer'[c].queue = <<>>
    <3>1. "ended" \in TurnPoints /\ "interrupted" \in Said  BY DEF TurnPoints, Said
    <3>2. PICK r, u : r = steer[c] /\ u = steer'[c]  OBVIOUS
    <3>3. /\ r \in TurnStates /\ u = [r EXCEPT !.at = "ended", !.said = "interrupted", !.open = no, !.queue = <<>>,
                                               !.polls = MaxPolls]
      BY <1>1, <2>2, <3>2
    <3>4. u = Shut(r, "ended", "interrupted", MaxPolls, no)  BY <3>3 DEF Shut
    <3>5. u \in TurnStates /\ u.at = "ended" /\ u.said = "interrupted" /\ u.queue = <<>>
      BY <2>1, <3>1, <3>3, <3>4, TurnShut
    <3>6. QED  BY <3>2, <3>5
  <2>4. TurnFits(steer'[c], events')  BY <2>1, <2>3, NothingFits DEF TurnFits
  <2>5. OneTurn(c)  BY <1>1, <1>2, <1>5 DEF OneTurn
  <2>6. QED  BY <2>4, <2>5, TurnFine
<1>6. QED  BY <1>4, <1>5 DEF Interrupt

\* Attempts to post, and the turn that follows the event it posted.
LEMMA RetryTurnFine ==
    ASSUME TailReady, NEW c \in Steers, NEW outcome, RetryTurn(c, outcome), steer[c].at = "post",
           UNCHANGED <<view, tail, send>>
    PROVE  TailInv'
<1>1. /\ steer = [d \in Steers |-> steer[d]] /\ steer[c] \in TurnStates /\ TurnFits(steer[c], events')
      /\ QueueFits(steer[c].queue, events')
  BY TurnNow
<1>2. CASE Retries("POST", outcome, steer[c].try)
  <2>1. steer' = [steer EXCEPT ![c].try = @ + 1]  BY <1>2 DEF RetryTurn
  <2>2. steer[c].try + 1 \in 1..MaxAttempts  BY <1>1, <1>2, TryAgain DEF TurnStates
  <2>3. /\ steer'[c] \in TurnStates /\ steer'[c].at = steer[c].at /\ steer'[c].said = steer[c].said
        /\ steer'[c].queue = steer[c].queue /\ steer'[c].event = steer[c].event
    BY <1>1, <2>1, <2>2 DEF TurnStates
  <2>4. TurnFits(steer'[c], events')  BY <1>1, <2>3 DEF TurnFits
  <2>5. OneTurn(c)  BY <1>1, <2>1 DEF OneTurn
  <2>6. QED  BY <2>4, <2>5, TurnFine
<1>3. CASE ~Retries("POST", outcome, steer[c].try)
  <2>1. EndTurn(c, "error") /\ "error" \in Said /\ "error" \notin Ends
    BY <1>3, TailConstants DEF RetryTurn, Said
  <2>2. QED  BY <2>1, TurnEndFine
<1>4. QED  BY <1>2, <1>3

\* The event that a turn posted is the last of the log.
LEMMA PostTurnFine == ASSUME TailReady, NEW c \in Steers, PostTurn(c) PROVE TailInv'
<1>1. /\ steer = [d \in Steers |-> steer[d]] /\ steer[c] \in TurnStates /\ TurnFits(steer[c], events')
      /\ QueueFits(steer[c].queue, events') /\ Len(events) \in Nat /\ events \in Seq(Logged)
      /\ MaxEvents \in Nat /\ cast \in Casts
  BY TurnNow, TailConstants
<1>2. UNCHANGED <<view, tail, send>> /\ steer[c].at = "post"  BY DEF PostTurn
<1>3. CASE /\ MoreEvents /\ events' = Landed
           /\ steer' = [steer EXCEPT ![c].at = "tail", ![c].event = NewEvent]
  <2>1. PICK e : e = NewEvent /\ e = Len(events) + 1  BY DEF NewEvent
  <2>2. e \in 1..Len(events') /\ e \in 0..MaxEvents
    BY <1>1, <1>3, <2>1, RoomLeft, AppendProperties, QueuedLogged DEF Landed
  <2>3. steer'[c] = [steer[c] EXCEPT !.at = "tail", !.event = e]  BY <1>1, <1>3, <2>1
  <2>4. /\ steer'[c] \in TurnStates /\ steer'[c].at = "tail" /\ steer'[c].said = steer[c].said
        /\ steer'[c].queue = steer[c].queue /\ steer'[c].event = e
    BY <1>1, <2>2, <2>3 DEF TurnStates, TurnPoints
  <2>5. steer[c].said = "nothing" /\ "nothing" \notin Ends  BY <1>1, <1>2, TailConstants DEF TurnFits
  <2>6. TurnFits(steer'[c], events')  BY <1>1, <2>2, <2>4, <2>5 DEF TurnFits
  <2>7. OneTurn(c)  BY <1>1, <1>2, <1>3 DEF OneTurn
  <2>8. QED  BY <2>6, <2>7, TurnFine
<1>4. CASE \E o : RetryTurn(c, o)
  BY <1>2, <1>4, RetryTurnFine
<1>5. QED  BY <1>3, <1>4 DEF PostTurn

\* The stream opens, ends or is given up for the polls.
LEMMA StreamFine == ASSUME TailReady, NEW c \in Steers, OpenStream(c) \/ StreamEnds(c) PROVE TailInv'
<1>1. /\ steer = [d \in Steers |-> steer[d]] /\ steer[c] \in TurnStates /\ TurnFits(steer[c], events')
      /\ QueueFits(steer[c].queue, events')
  BY TurnNow
<1>2. UNCHANGED <<view, tail, send>> /\ steer[c].at = "tail"  BY DEF OpenStream, StreamEnds
<1>3. PICK yes \in BOOLEAN, no \in BOOLEAN : yes = TRUE /\ no = FALSE  OBVIOUS
<1>4. CASE EndTurn(c, "interrupted")
  BY <1>2, <1>4, TurnEndFine, TailConstants DEF Said
<1>5. CASE ToPoll(c)
  <2>1. steer'[c] = [steer[c] EXCEPT !.at = "poll", !.said = steer[c].said, !.open = no, !.queue = <<>>,
                                    !.polls = steer[c].polls]
    BY <1>1, <1>3, <1>5 DEF ToPoll, TurnStates
  <2>2. /\ steer'[c] \in TurnStates /\ steer'[c].at = "poll" /\ steer'[c].said = steer[c].said
        /\ steer'[c].queue = <<>> /\ steer'[c].event = steer[c].event
    <3>1. "poll" \in TurnPoints /\ steer[c].said \in Said /\ steer[c].polls \in 0..MaxPolls
      BY <1>1 DEF TurnPoints, TurnStates
    <3>2. PICK r, u, said, polls : r = steer[c] /\ u = steer'[c] /\ said = r.said /\ polls = r.polls  OBVIOUS
    <3>3. /\ r \in TurnStates /\ said \in Said /\ polls \in 0..MaxPolls
          /\ u = [r EXCEPT !.at = "poll", !.said = said, !.open = no, !.queue = <<>>, !.polls = polls]
      BY <1>1, <2>1, <3>1, <3>2
    <3>4. u = Shut(r, "poll", said, polls, no)  BY <3>3 DEF Shut
    <3>5. u \in TurnStates /\ u.at = "poll" /\ u.said = said /\ u.queue = <<>> /\ u.event = r.event
      BY <3>1, <3>3, <3>4, TurnShut
    <3>6. QED  BY <3>2, <3>5
  <2>3. TurnFits(steer'[c], events')  BY <1>1, <1>2, <2>2, NothingFits DEF TurnFits
  <2>4. OneTurn(c)  BY <1>1, <1>2, <1>5 DEF OneTurn, ToPoll
  <2>5. QED  BY <2>3, <2>4, TurnFine
<1>6. CASE steer' = [steer EXCEPT ![c].open = TRUE]
  <2>1. steer'[c] = [steer[c] EXCEPT !.open = yes]  BY <1>1, <1>3, <1>6
  <2>2. /\ steer'[c] \in TurnStates /\ steer'[c].at = steer[c].at /\ steer'[c].said = steer[c].said
        /\ steer'[c].queue = steer[c].queue /\ steer'[c].event = steer[c].event
    BY <1>1, <2>1 DEF TurnStates
  <2>3. TurnFits(steer'[c], events')  BY <1>1, <2>2 DEF TurnFits
  <2>4. OneTurn(c)  BY <1>1, <1>2, <1>6 DEF OneTurn
  <2>5. QED  BY <2>3, <2>4, TurnFine
<1>7. QED  BY <1>4, <1>5, <1>6 DEF OpenStream, StreamEnds

\* A completion ends the turn of its own event only, with the outcome it carries.
LEMMA SteerFrameFine == ASSUME TailReady, NEW c \in Steers, OnSteerFrame(c) PROVE TailInv'
<1>1. /\ steer = [d \in Steers |-> steer[d]] /\ steer[c] \in TurnStates /\ TurnFits(steer[c], events)
      /\ TurnFits(steer[c], events') /\ Len(events) \in Nat
  BY TurnNow
<1>2. UNCHANGED <<events, view, tail, send>> /\ steer[c].queue # <<>>  BY DEF OnSteerFrame
<1>3. PICK q, frame : q = Tail(steer[c].queue) /\ frame = Head(steer[c].queue)  OBVIOUS
<1>4. QueueFits(q, events) /\ FrameFits(frame, events)
  BY <1>1, <1>2, <1>3, QueueTail DEF TurnFits
<1>5. CASE EndsTurn(c, frame)
  <2>1. /\ frame.id = steer[c].event /\ frame.id \in 1..Len(events)
        /\ frame.status \in events[frame.id].outcomes /\ EndTurn(c, frame.status)
    BY <1>3, <1>4, <1>5 DEF OnSteerFrame, EndsTurn, FrameFits
  <2>2. EventFits(events[frame.id])  BY <1>1, <2>1, TurnNow DEF IsLog
  <2>3. PICK said : /\ said = frame.status /\ said \in Said /\ EndTurn(c, said)
                    /\ said \in events'[steer[c].event].outcomes
    BY <1>2, <2>1, <2>2 DEF Said, EventFits, Logged
  <2>4. steer[c].event \in 1..Len(events')  BY <1>2, <2>1
  <2>5. QED  BY <1>2, <2>3, <2>4, TurnEndFine
<1>6. CASE ~EndsTurn(c, frame)
  <2>1. steer' = [steer EXCEPT ![c].queue = q]  BY <1>3, <1>6 DEF OnSteerFrame
  <2>2. steer'[c] = [steer[c] EXCEPT !.queue = q]  BY <1>1, <2>1
  <2>3. TurnFits(steer'[c], events')  BY <1>1, <1>2, <1>4, <2>2, TurnQueue
  <2>4. OneTurn(c)  BY <1>1, <1>2, <2>1 DEF OneTurn
  <2>5. QED  BY <2>3, <2>4, TurnFine
<1>7. QED  BY <1>5, <1>6

\* A poll looks the event of the turn up in the log.
LEMMA PollFine == ASSUME TailReady, NEW c \in Steers, Poll(c) PROVE TailInv'
<1>1. /\ steer = [d \in Steers |-> steer[d]] /\ steer[c] \in TurnStates /\ TurnFits(steer[c], events)
      /\ TurnFits(steer[c], events') /\ QueueFits(steer[c].queue, events') /\ Len(events) \in Nat
  BY TurnNow
<1>2. UNCHANGED <<events, view, tail, send>> /\ steer[c].at = "poll"  BY DEF Poll
<1>3. CASE EndTurn(c, "interrupted") \/ EndTurn(c, "timeout")
  BY <1>2, <1>3, TurnEndFine, TailConstants DEF Said
<1>4. CASE events[steer[c].event].row \in Ends /\ EndTurn(c, events[steer[c].event].row)
  <2>1. steer[c].event \in 1..Len(events') /\ steer[c].event \in 1..Len(events)
    BY <1>1, <1>2 DEF TurnFits
  <2>2. EventFits(events[steer[c].event])  BY <2>1, TurnNow DEF IsLog
  <2>3. PICK said : /\ said = events[steer[c].event].row /\ said \in Said /\ EndTurn(c, said)
                    /\ said \in events'[steer[c].event].outcomes
    BY <1>2, <1>4, <2>2 DEF Said, EventFits
  <2>4. QED  BY <1>2, <2>1, <2>3, TurnEndFine
<1>5. CASE steer[c].polls # 0 /\ steer' = [steer EXCEPT ![c].polls = @ - 1]
  <2>1. steer[c].polls - 1 \in 0..MaxPolls  BY <1>1, <1>5, TailConstants DEF TurnStates
  <2>2. /\ steer'[c] \in TurnStates /\ steer'[c].at = steer[c].at /\ steer'[c].said = steer[c].said
        /\ steer'[c].queue = steer[c].queue /\ steer'[c].event = steer[c].event
    BY <1>1, <1>5, <2>1 DEF TurnStates
  <2>3. TurnFits(steer'[c], events')  BY <1>1, <2>2 DEF TurnFits
  <2>4. OneTurn(c)  BY <1>1, <1>2, <1>5 DEF OneTurn
  <2>5. QED  BY <2>3, <2>4, TurnFine
<1>6. QED  BY <1>3, <1>4, <1>5 DEF Poll, Polled

-------------------------------------------------------------------------------
\* It holds of an empty log and of clients that have not begun.
LEMMA TailStart == TailInit => TailInv
<1> SUFFICES ASSUME TailInit PROVE TailInv  OBVIOUS
<1>1. events = <<>> /\ tail = Absent /\ cast \in Casts  BY DEF TailInit
<1>2. IsLog(events)  BY <1>1, TailConstants DEF IsLog
<1>3. /\ tail \in TailStates /\ tail.queue = <<>> /\ tail.rows = <<>> /\ tail.source = "absent"
      /\ ~tail.retry /\ tail.temps = 0
  BY <1>1 DEF Absent, TailStates
<1>4. EntryFits(tail, events)  BY <1>3, NothingFits, TailConstants DEF EntryFits
<1>5. /\ view = [v \in Views |-> view[v]]
      /\ \A v \in Views : view[v] = [at |-> view[v].at, initial |-> <<>>] /\ view[v].at \in {"away", "never"}
  BY DEF TailInit
<1>6. ViewsFit
  <2>1. ASSUME NEW v \in Views  PROVE ViewFits(view[v], events)
    <3>1. PICK at, rows : at \in {"away", "never"} /\ rows = <<>> /\ view[v] = [at |-> at, initial |-> rows]  BY <1>5
    <3>2. rows \in Seq(Rows) /\ view[v].initial = rows  BY <3>1
    <3>3. RowsFit(rows, events)  BY <3>1, NothingFits
    <3>4. view[v] \in ViewStates  BY <3>1, <3>2 DEF ViewStates
    <3>5. QED  BY <3>2, <3>3, <3>4 DEF ViewFits
  <2>2. QED  BY <1>5, <2>1 DEF ViewsFit
<1>7. SendsFit
  <2>1. /\ send = [s \in Sends |-> send[s]]
        /\ \A s \in Sends : /\ send[s] = [at |-> send[s].at, temp |-> 0, try |-> 1]
                            /\ send[s].at \in {"unsent", "settled"}
    BY DEF TailInit
  <2>2. Sends = 1..MaxSends /\ MaxSends \in Nat /\ 1 \in 1..MaxAttempts  BY TailConstants DEF Sends
  <2>3. \A s \in Sends : SendFits(send[s], s, tail.temps)
    BY <1>3, <2>1, <2>2 DEF SendFits, SendStates
  <2>4. QED  BY <2>1, <2>3 DEF SendsFit
<1>8. SteersFit
  <2>1. /\ MaxPolls \in 0..MaxPolls /\ 1 \in 1..MaxAttempts /\ {0, Turns} \subseteq 0..Turns /\ 0 \in 0..MaxEvents
        /\ "nothing" \notin Ends
    BY TailConstants
  <2>2. steer = [c \in Steers |->
           [at |-> IF c \notin cast.steers THEN "ended" ELSE IF c \in Repl THEN "prompt" ELSE "post",
            turns |-> IF c \in Repl THEN Turns ELSE 0, try |-> 1, event |-> 0, said |-> "nothing",
            polls |-> MaxPolls, aborted |-> FALSE, open |-> FALSE, queue |-> <<>>]]
    BY DEF TailInit
  <2>3. ASSUME NEW c \in Steers  PROVE TurnFits(steer[c], events)
    <3>1. PICK no \in BOOLEAN : no = FALSE  OBVIOUS
    <3>2. PICK at, turns : /\ at \in {"ended", "prompt", "post"} /\ turns \in {0, Turns}
                           /\ steer[c] = [at |-> at, turns |-> turns, try |-> 1, event |-> 0, said |-> "nothing",
                                          polls |-> MaxPolls, aborted |-> no, open |-> no, queue |-> <<>>]
      BY <2>2, <3>1
    <3>3. at \in TurnPoints /\ turns \in 0..Turns /\ "nothing" \in Said /\ <<>> \in Seq(Frames)
      BY <2>1, <3>2 DEF TurnPoints, Said
    <3>4. steer[c] \in TurnStates /\ steer[c].said = "nothing" /\ steer[c].queue = <<>> /\ steer[c].at = at
      BY <2>1, <3>2, <3>3 DEF TurnStates
    <3>5. QED  BY <2>1, <3>2, <3>4, NothingFits DEF TurnFits
  <2>4. steer = [c \in Steers |-> steer[c]]  BY <2>2
  <2>5. QED  BY <2>3, <2>4 DEF SteersFit
<1>9. WatchedMeansConnected  BY <1>5 DEF WatchedMeansConnected
<1>10. QED  BY <1>1, <1>2, <1>4, <1>6, <1>7, <1>8, <1>9 DEF TailInv

\* Every step keeps it.
LEMMA TailStep == TailInv /\ [TailNext]_tailVars => TailInv'
<1>1. ASSUME TailInv, TailNext  PROVE TailInv'
  <2>1. TailReady  BY <1>1, LogStep DEF TailReady
  <2>2. CASE Server
    BY <2>1, <2>2, TriggerFine, EventFine, OutcomeFine DEF Server
  <2>3. CASE Dashboard
    BY <2>1, <2>3, RenderFine, MountFine, UnmountFine, TimerFine, FrameFine, SendFine, PostFine DEF Dashboard
  <2>4. CASE CommandLine
    BY <2>1, <2>4, LineFine, InterruptFine, PostTurnFine, StreamFine, SteerFrameFine, PollFine
       DEF CommandLine, SteerStep
  <2>5. QED  BY <1>1, <2>2, <2>3, <2>4 DEF TailNext
<1>2. ASSUME TailInv, UNCHANGED tailVars  PROVE TailInv'
  BY <1>2 DEF tailVars, TailInv, ViewsFit, SendsFit, SteersFit, WatchedMeansConnected
<1>3. QED  BY <1>1, <1>2

\* For any number of views, messages, events and frames, whatever is lost: a
\* thread shows rows that the log bears out, and a view on the screen is on an
\* entry that is connected or will be (zombie-stream-registry).
THEOREM ThreadsTellTheTruth == TailSpec => []TailInvariant
<1>1. TailInv => TailInvariant  BY TailInvSays
<1>2. QED  BY <1>1, TailStart, TailStep, PTL DEF TailSpec

\* What steer says of a message was given as its outcome, whichever other events
\* of the zombie end meanwhile (makeFrameCallback, pollEventTerminal).
THEOREM SteersTellTheTruth == TailSpec => []SteerTellsTheTruth
<1>1. TailInv => SteerTellsTheTruth  BY TailInvSays
<1>2. QED  BY <1>1, TailStart, TailStep, PTL DEF TailSpec
===============================================================================
