------------------------------ MODULE Sessions ------------------------------
(***************************************************************************)
(* Accounts and sessions: signup, login and logout of                      *)
(* internal/service/user_service.go, the tokens of helpers/auth.go and the *)
(* middleware that every route under /api passes (api/router.go).          *)
(*                                                                         *)
(* Redis runs on the machine of the service (worker/config.go) and so has  *)
(* its clock, but reads it in milliseconds, while a token's expiry is a    *)
(* number of seconds.  time.Now is finer than both: one tick.              *)
(***************************************************************************)
EXTENDS Integers

CONSTANTS
    Emails, Passwords,   \* that Validate accepts and bcrypt can hash
    Tokens,        \* the identifiers (jti) that uuid.NewString may draw
    Requests,      \* goroutines that serve requests
    TokenLife,     \* 24 hours, in ticks
    SecondTicks,   \* ticks in a second
    MsTicks,       \* ticks in a millisecond
    Outages,       \* which of "database" and "redis" may fail
    MaxClock       \* bound on the clock

ASSUME LifeAssumption == TokenLife \in Nat
ASSUME UnitsAssumption ==
    /\ MsTicks \in Nat \ {0}
    /\ SecondTicks \in Nat \ {0}
    /\ SecondTicks % MsTicks = 0
ASSUME OutageAssumption == Outages \subseteq {"database", "redis"}
ASSUME ClockAssumption == MaxClock \in Nat

None == "none"
ASSUME NoneAssumption == None \notin Passwords

VARIABLES
    clock,
    secretSet,     \* JWT_SECRET is not empty
    accounts,      \* table users: the password of each email
    tokens,        \* the tokens handed out
    blacklist,     \* the keys "blacklist:<jti>" of Redis
    requests,      \* the request each goroutine is serving
    signedUp,      \* the password of the signup that was acknowledged: history
    leaving,       \* tokens whose logout reached Redis: history
    ended,         \* tokens whose logout was acknowledged: history
    forgotten      \* tokens whose key Redis lost in a crash: history

vars == <<clock, secretSet, accounts, tokens, blacklist, requests, signedUp,
          leaving, ended, forgotten>>

history == <<signedUp, leaving, ended, forgotten>>

Floor(time, unit) == (time \div unit) * unit

NoToken == [known |-> FALSE]
NoEntry == [kind |-> "none"]
NoRequest == [pc |-> "idle"]

\* The fallback of Login is not that of GetClaimsFromRequest.
SigningKey == IF secretSet THEN "JWT_SECRET" ELSE "default_secret"
VerifyingKey == IF secretSet THEN "JWT_SECRET" ELSE ""

\* NewNumericDate cuts the expiry to a whole second.
MakeJWT(email) ==
    [known |-> TRUE, email |-> email, key |-> SigningKey,
     exp |-> Floor(clock + TokenLife, SecondTicks)]

Expired(t) == clock >= tokens[t].exp

\* GetClaimsFromRequest succeeds.
Valid(t) == tokens[t].key = VerifyingKey /\ ~Expired(t)

\* EXISTS: Redis keeps a key through the millisecond at which it ends.
Blacklisted(t) ==
    \/ blacklist[t].kind = "forever"
    \/ blacklist[t].kind = "until" /\ Floor(clock, MsTicks) <= blacklist[t].end

FaultyTTL(timeLeft) == Floor(timeLeft, SecondTicks)     \* EX instead of PX

\* go-redis sends whole milliseconds, and never less than one.
TTL(timeLeft) ==
    IF timeLeft < MsTicks THEN MsTicks ELSE Floor(timeLeft, MsTicks)

\* SET with the time left; without one the key stays for ever.
EntryFor(timeLeft) ==
    IF timeLeft = 0 THEN [kind |-> "forever"]
    ELSE [kind |-> "until", end |-> Floor(clock, MsTicks) + TTL(timeLeft)]

FaultyStored(t, entry) ==     \* the key is the user's, not the token's
    [o \in Tokens |->
        IF tokens[o].known /\ tokens[o].email = tokens[t].email
        THEN entry ELSE blacklist[o]]

Stored(t, entry) == [blacklist EXCEPT ![t] = entry]

Fails(service) == service \in Outages

Init ==
    /\ clock = 0
    /\ secretSet \in BOOLEAN
    /\ accounts = [e \in Emails |-> None]
    /\ tokens = [t \in Tokens |-> NoToken]
    /\ blacklist = [t \in Tokens |-> NoEntry]
    /\ requests = [r \in Requests |-> NoRequest]
    /\ signedUp = [e \in Emails |-> None]
    /\ leaving = {}
    /\ ended = {}
    /\ forgotten = {}

SetRequest(r, request) == requests' = [requests EXCEPT ![r] = request]

\* The answer is sent.  The refusals (401, 404) are kept for a moment.
Done(r) == SetRequest(r, NoRequest)

RefuseLogin(r, answer) ==
    SetRequest(r, [pc |-> answer, member |-> requests[r].member])

RefuseToken(r) ==
    SetRequest(r, [pc |-> "refused", token |-> requests[r].token])

\* "member" says that a signup with this password was acknowledged before.
ReceiveCredentials(r, pc, e, p) ==
    /\ requests[r].pc = "idle"
    /\ SetRequest(r, [pc |-> pc, email |-> e, password |-> p, stored |-> None,
                      member |-> signedUp[e] = p])
    /\ UNCHANGED <<clock, secretSet, accounts, tokens, blacklist, history>>

FaultySignup(r) ==      \* ON CONFLICT (email) DO UPDATE
    LET request == requests[r] IN
    /\ request.pc = "signup"
    /\ accounts' = [accounts EXCEPT ![request.email] = request.password]
    /\ signedUp' = [signedUp EXCEPT ![request.email] = IF @ = None THEN request.password ELSE @]
    /\ Done(r)
    /\ UNCHANGED <<clock, secretSet, tokens, blacklist, leaving, ended, forgotten>>

\* INSERT INTO users: emails are unique.  An error may also stand for a row
\* that was stored.
Signup(r) ==
    LET request == requests[r]
        Insert == accounts' = [accounts EXCEPT ![request.email] = request.password]
    IN
    /\ request.pc = "signup"
    /\ \/ /\ accounts[request.email] = None
          /\ Insert
          /\ signedUp' = [signedUp EXCEPT ![request.email] = request.password]
          /\ Done(r)
       \/ /\ accounts[request.email] # None \/ Fails("database")
          /\ Done(r)
          /\ UNCHANGED <<accounts, signedUp>>
       \/ /\ accounts[request.email] = None /\ Fails("database")
          /\ Insert
          /\ Done(r)
          /\ UNCHANGED signedUp
    /\ UNCHANGED <<clock, secretSet, tokens, blacklist, leaving, ended, forgotten>>

\* GetUserByEmail: every error is answered as an unknown user.
LookUpUser(r) ==
    /\ requests[r].pc = "login"
    /\ \/ /\ accounts[requests[r].email] # None
          /\ SetRequest(r, [requests[r] EXCEPT !.pc = "check",
                                !.stored = accounts[requests[r].email]])
       \/ /\ accounts[requests[r].email] = None \/ Fails("database")
          /\ RefuseLogin(r, "notFound")
    /\ UNCHANGED <<clock, secretSet, accounts, tokens, blacklist, history>>

\* CheckPasswordHash, then MakeJWT, which may fail.  Bound: it does so when
\* all of Tokens are in use.
CheckPassword(r) ==
    /\ requests[r].pc = "check"
    /\ \/ /\ requests[r].password = requests[r].stored
          /\ \E t \in Tokens :
               /\ ~tokens[t].known
               /\ tokens' = [tokens EXCEPT ![t] = MakeJWT(requests[r].email)]
          /\ Done(r)
       \/ /\ requests[r].password = requests[r].stored
          /\ \A t \in Tokens : tokens[t].known
          /\ Done(r)
          /\ UNCHANGED tokens
       \/ /\ requests[r].password # requests[r].stored
          /\ RefuseLogin(r, "wrongPassword")
          /\ UNCHANGED tokens
    /\ UNCHANGED <<clock, secretSet, accounts, blacklist, history>>

\* "late" says that a logout of the token was acknowledged before.
ReceiveProtected(r, route, t) ==
    /\ requests[r].pc = "idle"
    /\ tokens[t].known
    /\ SetRequest(r, [pc |-> "authenticate", route |-> route, token |-> t, late |-> t \in ended,
                      timeLeft |-> 0])
    /\ UNCHANGED <<clock, secretSet, accounts, tokens, blacklist, history>>

\* AuthMiddleware parses the token ...
Authenticate(r) ==
    /\ requests[r].pc = "authenticate"
    /\ IF Valid(requests[r].token)
       THEN SetRequest(r, [requests[r] EXCEPT !.pc = "blacklist"])
       ELSE RefuseToken(r)
    /\ UNCHANGED <<clock, secretSet, accounts, tokens, blacklist, history>>

\* ... and asks Redis; no answer is a refusal.
AskBlacklist(r) ==
    /\ requests[r].pc = "blacklist"
    /\ \/ /\ ~Blacklisted(requests[r].token)
          /\ SetRequest(r, [requests[r] EXCEPT !.pc = "handle"])
       \/ Blacklisted(requests[r].token) /\ RefuseToken(r)
       \/ Fails("redis") /\ Done(r)
    /\ UNCHANGED <<clock, secretSet, accounts, tokens, blacklist, history>>

NextStep(route) == IF route = "logout" THEN "logout" ELSE "serve"

FaultyIdentify(r) ==          \* relies on what the middleware has parsed
    /\ requests[r].pc = "handle"
    /\ SetRequest(r, [requests[r] EXCEPT !.pc = NextStep(requests[r].route)])
    /\ UNCHANGED <<clock, secretSet, accounts, tokens, blacklist, history>>

\* Nobody puts user_id into the context, so the handlers parse again.
Identify(r) ==
    /\ requests[r].pc = "handle"
    /\ IF Valid(requests[r].token)
       THEN SetRequest(r, [requests[r] EXCEPT !.pc = NextStep(requests[r].route)])
       ELSE RefuseToken(r)
    /\ UNCHANGED <<clock, secretSet, accounts, tokens, blacklist, history>>

Serve(r) ==
    /\ requests[r].pc = "serve"
    /\ Done(r)
    /\ UNCHANGED <<clock, secretSet, accounts, tokens, blacklist, history>>

TimeLeft(t) == tokens[t].exp - clock

FaultyLogout(r) ==            \* without the early return
    LET t == requests[r].token IN
    /\ requests[r].pc = "logout"
    /\ SetRequest(r, [requests[r] EXCEPT !.pc = "set", !.timeLeft = TimeLeft(t)])
    /\ leaving' = leaving \cup {t}
    /\ UNCHANGED <<clock, secretSet, accounts, tokens, blacklist, signedUp,
                   ended, forgotten>>

\* A token that has expired meanwhile is not blacklisted.
Logout(r) ==
    LET t == requests[r].token IN
    /\ requests[r].pc = "logout"
    /\ IF TimeLeft(t) < 0
       THEN /\ Done(r)
            /\ ended' = ended \cup {t}
            /\ UNCHANGED leaving
       ELSE /\ SetRequest(r, [requests[r] EXCEPT !.pc = "set",
                                                 !.timeLeft = TimeLeft(t)])
            /\ leaving' = leaving \cup {t}
            /\ UNCHANGED ended
    /\ UNCHANGED <<clock, secretSet, accounts, tokens, blacklist, signedUp, forgotten>>

\* The SET is executed; when its reply is lost go-redis may send it again, or
\* give up, and then the logout fails although the key is there.
SetBlacklist(r) ==
    LET t == requests[r].token IN
    /\ requests[r].pc = "set"
    /\ blacklist' = Stored(t, EntryFor(requests[r].timeLeft))
    /\ \/ /\ Done(r)
          /\ ended' = ended \cup {t}
       \/ /\ Fails("redis")
          /\ UNCHANGED requests \/ Done(r)
          /\ UNCHANGED ended
    /\ UNCHANGED <<clock, secretSet, accounts, tokens, signedUp, leaving, forgotten>>

FailLogout(r) ==
    /\ requests[r].pc = "set"
    /\ Fails("redis")
    /\ Done(r)
    /\ UNCHANGED <<clock, secretSet, accounts, tokens, blacklist, history>>

Finish(r) ==
    /\ requests[r].pc \in {"refused", "notFound", "wrongPassword"}
    /\ Done(r)
    /\ UNCHANGED <<clock, secretSet, accounts, tokens, blacklist, history>>

\* Redis starts again from a dump that some keys are not in.
RedisRestarts ==
    /\ Fails("redis")
    /\ \E lost \in SUBSET {t \in Tokens : blacklist[t] # NoEntry} :
         /\ lost # {}
         /\ blacklist' = [t \in Tokens |-> IF t \in lost THEN NoEntry ELSE blacklist[t]]
         /\ forgotten' = forgotten \cup lost
    /\ UNCHANGED <<clock, secretSet, accounts, tokens, requests, signedUp, leaving, ended>>

Tick ==
    /\ clock < MaxClock
    /\ clock' = clock + 1
    /\ UNCHANGED <<secretSet, accounts, tokens, blacklist, requests, history>>

RequestStep(r) ==
    \/ Signup(r)
    \/ LookUpUser(r)
    \/ CheckPassword(r)
    \/ Authenticate(r)
    \/ AskBlacklist(r)
    \/ Identify(r)
    \/ Serve(r)
    \/ Logout(r)
    \/ SetBlacklist(r)
    \/ FailLogout(r)
    \/ Finish(r)

Next ==
    \/ \E r \in Requests :
         \/ \E pc \in {"signup", "login"}, e \in Emails, p \in Passwords :
              ReceiveCredentials(r, pc, e, p)
         \/ \E route \in {"api", "logout"}, t \in Tokens : ReceiveProtected(r, route, t)
         \/ RequestStep(r)
    \/ RedisRestarts
    \/ Tick

Spec == Init /\ [][Next]_vars

-----------------------------------------------------------------------------

Token == [known : {TRUE}, email : Emails, exp : Nat,
          key : {"JWT_SECRET", "default_secret"}]

Entry == [kind : {"forever"}] \cup [kind : {"until"}, end : Nat]

CredentialRequest ==
    [pc : {"signup", "login", "check"}, email : Emails, password : Passwords,
     stored : Passwords \cup {None}, member : BOOLEAN]

ProtectedRequest ==
    [pc : {"authenticate", "blacklist", "handle", "serve", "logout", "set"},
     route : {"api", "logout"}, token : Tokens, late : BOOLEAN, timeLeft : Nat]

Refusal ==
    [pc : {"notFound", "wrongPassword"}, member : BOOLEAN]
      \cup [pc : {"refused"}, token : Tokens]

\* The type invariant; in particular no negative time to live reaches Redis.
TypeOK ==
    /\ clock \in Nat
    /\ secretSet \in BOOLEAN
    /\ accounts \in [Emails -> Passwords \cup {None}]
    /\ tokens \in [Tokens -> {NoToken} \cup Token]
    /\ blacklist \in [Tokens -> {NoEntry} \cup Entry]
    /\ requests \in [Requests ->
           {NoRequest} \cup CredentialRequest \cup ProtectedRequest \cup Refusal]
    /\ signedUp \in [Emails -> Passwords \cup {None}]
    /\ leaving \in SUBSET Tokens
    /\ ended \in SUBSET Tokens
    /\ forgotten \in SUBSET Tokens

(***************************************************************************)
(* A request that arrives after the logout of its token was answered is    *)
(* not served, however the middleware, the clock's roundings and the       *)
(* expiry of key and token fall: unless Redis lost the key in a crash.     *)
(* (middleware/auth.go:27-37, user_service.go:84-98.)                      *)
(***************************************************************************)
LogoutEndsSession ==
    \A r \in Requests :
        requests[r].pc \in {"serve", "logout", "set"} /\ requests[r].late
            => requests[r].token \in forgotten

Accepted(t) == tokens[t].known /\ Valid(t) /\ ~Blacklisted(t)

(***************************************************************************)
(* A token is never accepted again once it is not: its key outlives it,    *)
(* whichever of several logouts wrote the key last and however long each   *)
(* of them took to reach Redis.  (user_service.go:86-92, "Expiry: Time     *)
(* remaining until token expires".)                                        *)
(***************************************************************************)
OverIsOver ==
    [][\A t \in Tokens :
           tokens[t].known /\ ~Accepted(t)
               => ~Accepted(t)' \/ t \in forgotten']_vars

(***************************************************************************)
(* Nobody is shut out of a session: a token is refused only if it has      *)
(* expired, a logout of this very token is on the way, or the service has  *)
(* no JWT_SECRET.  The key is the token's, not the user's.                 *)
(***************************************************************************)
RefusalHasReason ==
    \A r \in Requests : requests[r].pc = "refused" =>
        LET t == requests[r].token
        IN  Expired(t) \/ t \in leaving \/ ~secretSet

(***************************************************************************)
(* An acknowledged signup stays good: with its password the answer to a    *)
(* login is never that the password is wrong, whoever else signs up with   *)
(* the same email meanwhile, and the user is unknown only when the         *)
(* database fails.  (user_service.go:33-76, users.email UNIQUE.)           *)
(***************************************************************************)
SignupIsKept ==
    \A r \in Requests :
        requests[r].pc \in {"wrongPassword", "notFound"} /\ requests[r].member
            => requests[r].pc = "notFound" /\ Fails("database")
=============================================================================
