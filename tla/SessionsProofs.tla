--------------------------- MODULE SessionsProofs ---------------------------
(***************************************************************************)
(* The safety of Sessions for any number of users, tokens and requests and *)
(* any units of time in which a second is a whole number of milliseconds.  *)
(* All that is needed of the roundings is in FloorBelow and FloorSum.      *)
(***************************************************************************)
EXTENDS Sessions, TLAPS

(***************************************************************************)
(* Rounding down to a unit.                                                *)
(***************************************************************************)
LEMMA FloorBounds ==
    ASSUME NEW x \in Nat, NEW m \in Nat \ {0}
    PROVE  Floor(x, m) \in Nat /\ Floor(x, m) <= x /\ x < Floor(x, m) + m
BY DEF Floor

LEMMA FloorIsMultiple ==
    ASSUME NEW x \in Nat, NEW s \in Nat \ {0}, NEW m \in Nat \ {0}, s % m = 0
    PROVE  \E n \in Nat : Floor(x, s) = n * m
<1>1. s = (s \div m) * m /\ s \div m \in Nat /\ x \div s \in Nat
  OBVIOUS
<1>2. PICK n \in Nat : s = n * m
  BY <1>1
<1>3. (x \div s) * n \in Nat /\ ((x \div s) * n) * m = (x \div s) * (n * m)
  BY <1>1, <1>2
<1> QED
  BY <1>2, <1>3 DEF Floor

LEMMA MultiplesApart ==
    ASSUME NEW a \in Int, NEW b \in Int, NEW m \in Nat \ {0}, a * m < b * m
    PROVE  a * m + m <= b * m
<1>1. a < b
  OBVIOUS
<1>2. (a + 1) * m <= b * m
  BY <1>1
<1> QED
  BY <1>2

\* A time before a multiple of the unit is rounded to a multiple before it.
LEMMA FloorBelow ==
    ASSUME NEW c \in Nat, NEW n \in Nat, NEW m \in Nat \ {0}, c < n * m
    PROVE  Floor(c, m) + m <= n * m
<1> DEFINE q == c \div m
<1>1. q \in Int /\ n \in Int /\ q * m < n * m /\ Floor(c, m) = q * m
  BY FloorBounds DEF Floor
<1> HIDE DEF q
<1> QED
  BY <1>1, MultiplesApart

\* Two roundings lose less than two units, so one at most from a multiple.
LEMMA FloorSum ==
    ASSUME NEW a \in Nat, NEW b \in Nat, NEW n \in Nat, NEW m \in Nat \ {0},
           a + b >= n * m
    PROVE  Floor(a, m) + Floor(b, m) + m >= n * m
<1>1. /\ a \div m \in Nat /\ b \div m \in Nat
      /\ a < (a \div m) * m + m /\ b < (b \div m) * m + m
  BY FloorBounds DEF Floor
<1>2. (a \div m + b \div m + 2) * m = (a \div m) * m + (b \div m) * m + m + m
  BY <1>1
<1>3. n * m < (a \div m + b \div m + 2) * m
  BY <1>1, <1>2
<1>4. n * m + m <= (a \div m + b \div m + 2) * m
  BY <1>1, <1>3, MultiplesApart
<1> QED
  BY <1>1, <1>2, <1>4 DEF Floor

-----------------------------------------------------------------------------

(***************************************************************************)
(* Types.                                                                  *)
(***************************************************************************)
Signing == {"signup", "login", "check"}
Protecting == {"authenticate", "blacklist", "handle", "serve", "logout", "set"}

\* Requests carry tokens that were handed out.
TokensKnown ==
    \A r \in Requests : requests[r].pc \in Protecting \cup {"refused"} =>
        tokens[requests[r].token].known

LEMMA RequestShape ==
    ASSUME TypeOK, NEW r \in Requests
    PROVE  /\ requests[r].pc \in Signing => requests[r] \in CredentialRequest
           /\ requests[r].pc \in Protecting => requests[r] \in ProtectedRequest
           /\ requests[r].pc = "refused" => requests[r].token \in Tokens
BY DEF TypeOK, NoRequest, CredentialRequest, ProtectedRequest, Refusal, Signing,
       Protecting

LEMMA JWTTyped ==
    ASSUME TypeOK, NEW e \in Emails
    PROVE  MakeJWT(e) \in Token
<1>1. Floor(clock + TokenLife, SecondTicks) \in Nat
  BY FloorBounds, LifeAssumption, UnitsAssumption DEF TypeOK
<1> QED
  BY <1>1 DEF MakeJWT, Token, SigningKey

LEMMA EntryTyped ==
    ASSUME TypeOK, NEW timeLeft \in Nat
    PROVE  EntryFor(timeLeft) \in Entry
<1>1. Floor(clock, MsTicks) \in Nat /\ Floor(timeLeft, MsTicks) \in Nat
  BY FloorBounds, UnitsAssumption DEF TypeOK
<1>2. TTL(timeLeft) \in Nat
  BY <1>1, UnitsAssumption DEF TTL
<1> QED
  BY <1>1, <1>2 DEF EntryFor, Entry

LEMMA InitTypeOK == Init => TypeOK
BY DEF Init, TypeOK, NoRequest, NoToken, NoEntry

LEMMA RequestTyped ==
    ASSUME TypeOK, NEW r \in Requests, NEW request,
           request \in {NoRequest} \cup CredentialRequest \cup ProtectedRequest \cup Refusal,
           SetRequest(r, request)
    PROVE  requests' \in [Requests ->
               {NoRequest} \cup CredentialRequest \cup ProtectedRequest \cup Refusal]
BY DEF TypeOK, SetRequest

LEMMA DoneTyped ==
    ASSUME TypeOK, NEW r \in Requests, Done(r)
    PROVE  requests' \in [Requests ->
               {NoRequest} \cup CredentialRequest \cup ProtectedRequest \cup Refusal]
BY RequestTyped DEF Done

LEMMA RefusalTyped ==
    ASSUME TypeOK, NEW r \in Requests
    PROVE  LET Typed == requests' \in [Requests ->
               {NoRequest} \cup CredentialRequest \cup ProtectedRequest \cup Refusal]
           IN  /\ requests[r].pc \in Protecting /\ RefuseToken(r) => Typed
               /\ \A answer \in {"notFound", "wrongPassword"} :
                    requests[r].pc \in Signing /\ RefuseLogin(r, answer) => Typed
<1>1. requests[r].pc \in Protecting => [pc |-> "refused", token |-> requests[r].token] \in Refusal
  BY RequestShape DEF ProtectedRequest, Refusal
<1>2. ASSUME NEW answer \in {"notFound", "wrongPassword"}, requests[r].pc \in Signing
      PROVE  [pc |-> answer, member |-> requests[r].member] \in Refusal
  BY <1>2, RequestShape DEF CredentialRequest, Refusal
<1> QED
  BY <1>1, <1>2, RequestTyped DEF RefuseToken, RefuseLogin

LEMMA CredentialStepsTyped ==
    ASSUME TypeOK, NEW r \in Requests, Signup(r) \/ LookUpUser(r) \/ CheckPassword(r)
    PROVE  TypeOK'
<1>1. requests[r] \in CredentialRequest /\ requests[r].pc \in Signing
  BY RequestShape DEF Signup, LookUpUser, CheckPassword, Signing
<1>2. /\ requests[r].email \in Emails /\ requests[r].password \in Passwords
  BY <1>1 DEF CredentialRequest
<1>3. CASE Signup(r)
  BY <1>2, <1>3, DoneTyped DEF TypeOK, Signup, history
<1>4. CASE LookUpUser(r)
  <2>1. accounts[requests[r].email] # None =>
          [requests[r] EXCEPT !.pc = "check", !.stored = accounts[requests[r].email]]
             \in CredentialRequest
    BY <1>1, <1>2 DEF TypeOK, CredentialRequest
  <2>2. requests' \in [Requests ->
               {NoRequest} \cup CredentialRequest \cup ProtectedRequest \cup Refusal]
    BY <1>1, <1>4, <2>1, RequestTyped, RefusalTyped DEF LookUpUser
  <2> QED
    BY <1>4, <2>2 DEF TypeOK, LookUpUser, history
<1>5. CASE CheckPassword(r)
  <2>1. tokens' \in [Tokens -> {NoToken} \cup Token]
    BY <1>2, <1>5, JWTTyped DEF TypeOK, CheckPassword
  <2>2. requests' \in [Requests ->
               {NoRequest} \cup CredentialRequest \cup ProtectedRequest \cup Refusal]
    BY <1>1, <1>5, DoneTyped, RefusalTyped DEF CheckPassword
  <2> QED
    BY <1>5, <2>1, <2>2 DEF TypeOK, CheckPassword, history
<1> QED
  BY <1>3, <1>4, <1>5

LEMMA ProtectedStepsTyped ==
    ASSUME TypeOK, TokensKnown, NEW r \in Requests,
           \/ Authenticate(r) \/ AskBlacklist(r) \/ Identify(r) \/ Serve(r)
           \/ Logout(r) \/ SetBlacklist(r) \/ FailLogout(r)
    PROVE  TypeOK'
<1>1. requests[r] \in ProtectedRequest /\ requests[r].pc \in Protecting
  BY RequestShape DEF Authenticate, AskBlacklist, Identify, Serve, Logout,
                      SetBlacklist, FailLogout, Protecting
<1>2. requests[r].token \in Tokens /\ requests[r].timeLeft \in Nat
  BY <1>1 DEF ProtectedRequest
<1>3. \A pc \in Protecting : [requests[r] EXCEPT !.pc = pc] \in ProtectedRequest
  BY <1>1 DEF ProtectedRequest, Protecting
<1>4. CASE Authenticate(r)
  BY <1>1, <1>3, <1>4, RequestTyped, RefusalTyped
     DEF TypeOK, Authenticate, Protecting, history
<1>5. CASE AskBlacklist(r)
  BY <1>1, <1>3, <1>5, RequestTyped, RefusalTyped, DoneTyped
     DEF TypeOK, AskBlacklist, Protecting, history
<1>6. CASE Identify(r)
  BY <1>1, <1>3, <1>6, RequestTyped, RefusalTyped
     DEF TypeOK, Identify, NextStep, Protecting, history
<1>7. CASE Serve(r)
  BY <1>7, DoneTyped DEF TypeOK, Serve, history
<1>8. CASE Logout(r)
  <2>1. CASE TimeLeft(requests[r].token) < 0
    BY <1>2, <1>8, <2>1, DoneTyped DEF TypeOK, Logout
  <2>2. CASE ~(TimeLeft(requests[r].token) < 0)
    <3>1. tokens[requests[r].token] \in Token
      BY <1>1, <1>2 DEF TypeOK, TokensKnown, NoToken
    <3>2. TimeLeft(requests[r].token) \in Nat
      <4>1. tokens[requests[r].token].exp \in Nat /\ clock \in Nat
        BY <3>1 DEF Token, TypeOK
      <4> QED
        BY <2>2, <4>1 DEF TimeLeft
    <3>3. [requests[r] EXCEPT !.pc = "set", !.timeLeft = TimeLeft(requests[r].token)]
            \in ProtectedRequest
      BY <1>1, <3>2 DEF ProtectedRequest
    <3> QED
      BY <1>2, <1>8, <2>2, <3>3, RequestTyped DEF TypeOK, Logout
  <2> QED
    BY <2>1, <2>2
<1>9. CASE SetBlacklist(r)
  <2>1. blacklist' \in [Tokens -> {NoEntry} \cup Entry]
    BY <1>2, <1>9, EntryTyped DEF TypeOK, SetBlacklist, Stored
  <2>2. requests' \in [Requests ->
               {NoRequest} \cup CredentialRequest \cup ProtectedRequest \cup Refusal]
    BY <1>9, DoneTyped DEF TypeOK, SetBlacklist
  <2> QED
    BY <1>2, <1>9, <2>1, <2>2 DEF TypeOK, SetBlacklist
<1>10. CASE FailLogout(r)
  BY <1>10, DoneTyped DEF TypeOK, FailLogout, history
<1> QED
  BY <1>4, <1>5, <1>6, <1>7, <1>8, <1>9, <1>10

LEMMA NextTypeOK == TypeOK /\ TokensKnown /\ [Next]_vars => TypeOK'
<1> SUFFICES ASSUME TypeOK, TokensKnown, [Next]_vars
             PROVE  TypeOK'
  OBVIOUS
<1>1. ASSUME NEW r \in Requests, NEW pc \in {"signup", "login"}, NEW e \in Emails,
             NEW p \in Passwords, ReceiveCredentials(r, pc, e, p)
      PROVE  TypeOK'
  <2>1. [pc |-> pc, email |-> e, password |-> p, stored |-> None,
         member |-> signedUp[e] = p] \in CredentialRequest
    BY DEF CredentialRequest
  <2> QED
    BY <1>1, <2>1, RequestTyped DEF TypeOK, ReceiveCredentials, history
<1>2. ASSUME NEW r \in Requests, NEW route \in {"api", "logout"}, NEW t \in Tokens,
             ReceiveProtected(r, route, t)
      PROVE  TypeOK'
  <2>1. [pc |-> "authenticate", route |-> route, token |-> t, late |-> t \in ended,
         timeLeft |-> 0] \in ProtectedRequest
    BY DEF ProtectedRequest
  <2> QED
    BY <1>2, <2>1, RequestTyped DEF TypeOK, ReceiveProtected, history
<1>3. ASSUME NEW r \in Requests, RequestStep(r)
      PROVE  TypeOK'
  <2>1. CASE Finish(r)
    BY <2>1, DoneTyped DEF TypeOK, Finish, history
  <2> QED
    BY <1>3, <2>1, CredentialStepsTyped, ProtectedStepsTyped DEF RequestStep
<1>4. CASE RedisRestarts
  BY <1>4 DEF TypeOK, RedisRestarts
<1>5. CASE Tick
  BY <1>5 DEF TypeOK, Tick, history
<1>6. CASE UNCHANGED vars
  BY <1>6 DEF TypeOK, vars
<1> QED
  BY <1>1, <1>2, <1>3, <1>4, <1>5, <1>6 DEF Next

(***************************************************************************)
(* What every step keeps: time goes on, and what was handed out, is on its *)
(* way or was forgotten stays so.                                          *)
(***************************************************************************)
LEMMA StepGrows ==
    ASSUME TypeOK, [Next]_vars
    PROVE  /\ clock' >= clock
           /\ secretSet' = secretSet
           /\ \A t \in Tokens : tokens[t].known => tokens'[t] = tokens[t]
           /\ leaving \subseteq leaving'
           /\ ended \subseteq ended'
           /\ forgotten \subseteq forgotten'
<1>1. ASSUME NEW r \in Requests, RequestStep(r)
      PROVE  /\ clock' = clock
             /\ secretSet' = secretSet
             /\ \A t \in Tokens : tokens[t].known => tokens'[t] = tokens[t]
             /\ leaving \subseteq leaving'
             /\ ended \subseteq ended'
             /\ forgotten \subseteq forgotten'
  <2>1. CASE CheckPassword(r)
    BY <2>1 DEF TypeOK, CheckPassword, history
  <2>2. CASE Signup(r) \/ LookUpUser(r) \/ Authenticate(r) \/ AskBlacklist(r)
    BY <2>2 DEF Signup, LookUpUser, Authenticate, AskBlacklist, history
  <2>3. CASE Identify(r) \/ Serve(r) \/ Logout(r)
    BY <2>3 DEF Identify, Serve, Logout, history
  <2>4. CASE SetBlacklist(r) \/ FailLogout(r) \/ Finish(r)
    BY <2>4 DEF SetBlacklist, FailLogout, Finish, history
  <2> QED
    BY <1>1, <2>1, <2>2, <2>3, <2>4 DEF RequestStep
<1>2. ASSUME NEW r \in Requests, NEW pc \in {"signup", "login"}, NEW e \in Emails,
             NEW p \in Passwords, ReceiveCredentials(r, pc, e, p)
      PROVE  UNCHANGED <<clock, secretSet, tokens, leaving, ended, forgotten>>
  BY <1>2 DEF ReceiveCredentials, history
<1>3. ASSUME NEW r \in Requests, NEW route \in {"api", "logout"}, NEW t \in Tokens,
             ReceiveProtected(r, route, t)
      PROVE  UNCHANGED <<clock, secretSet, tokens, leaving, ended, forgotten>>
  BY <1>3 DEF ReceiveProtected, history
<1>4. CASE RedisRestarts
  BY <1>4 DEF TypeOK, RedisRestarts
<1>5. CASE Tick
  BY <1>5 DEF TypeOK, Tick, history
<1>6. CASE UNCHANGED vars
  BY <1>6 DEF TypeOK, vars
<1>7. clock \in Nat
  BY DEF TypeOK
<1> QED
  BY <1>1, <1>2, <1>3, <1>4, <1>5, <1>6, <1>7 DEF Next

(***************************************************************************)
(* How a step may change what the invariants speak of: a request that      *)
(* carries a token, a key, the set of ended sessions and a token.          *)
(***************************************************************************)
Carrying == Protecting \cup {"refused"}

Arrives(q) ==
    /\ requests'[q].pc = "authenticate"
    /\ requests'[q].token \in Tokens
    /\ tokens[requests'[q].token].known
    /\ requests'[q].late = (requests'[q].token \in ended)

Advances(q) ==
    /\ requests[q].pc \in Protecting
    /\ requests'[q].token = requests[q].token
    /\ UNCHANGED <<clock, tokens, blacklist, forgotten>>
    /\ LET t == requests[q].token IN
       \/ requests'[q].pc = "refused" /\ (~Valid(t) \/ Blacklisted(t))
       \/ /\ requests'[q].late = requests[q].late
          /\ \/ requests'[q].pc = "blacklist"
             \/ requests'[q].pc = "handle" /\ ~Blacklisted(t)
             \/ /\ requests[q].pc = "handle"
                /\ requests'[q].pc \in {"serve", "logout"}
                /\ Valid(t)
             \/ /\ requests[q].pc = "logout"
                /\ requests'[q].pc = "set"
                /\ requests'[q].timeLeft = TimeLeft(t)
                /\ t \in leaving'

LEMMA RequestMoves ==
    ASSUME TypeOK, [Next]_vars, NEW q \in Requests, requests'[q].pc \in Carrying
    PROVE  requests'[q] = requests[q] \/ Arrives(q) \/ Advances(q)
<1> USE DEF Carrying, Protecting
<1>1. requests[q].pc \in Protecting => requests[q] \in ProtectedRequest
  BY RequestShape
<1>2. ASSUME NEW r \in Requests, NEW request, SetRequest(r, request)
      PROVE  requests'[q] = requests[q] \/ (q = r /\ requests'[q] = request)
  <2>1. DOMAIN requests = Requests
    BY DEF TypeOK
  <2> QED
    BY <1>2, <2>1 DEF SetRequest
<1>3. ASSUME NEW r \in Requests, Done(r)
      PROVE  requests'[q] = requests[q]
  BY <1>2, <1>3 DEF Done, NoRequest
<1>4. ASSUME NEW r \in Requests, NEW answer \in {"notFound", "wrongPassword"},
             RefuseLogin(r, answer)
      PROVE  requests'[q] = requests[q]
  BY <1>2, <1>4 DEF RefuseLogin
<1>5. ASSUME NEW r \in Requests, RefuseToken(r)
      PROVE  \/ requests'[q] = requests[q]
             \/ /\ q = r /\ requests'[q].pc = "refused"
                /\ requests'[q].token = requests[q].token
  BY <1>2, <1>5 DEF RefuseToken
<1>6. ASSUME NEW r \in Requests, NEW pc \in Protecting, requests[r].pc \in Protecting,
             SetRequest(r, [requests[r] EXCEPT !.pc = pc])
      PROVE  \/ requests'[q] = requests[q]
             \/ /\ q = r /\ requests'[q].pc = pc
                /\ requests'[q].token = requests[q].token
                /\ requests'[q].late = requests[q].late
  BY <1>1, <1>2, <1>6 DEF ProtectedRequest
<1>7. ASSUME NEW r \in Requests, RequestStep(r)
      PROVE  requests'[q] = requests[q] \/ Advances(q)
  <2>1. CASE Signup(r) \/ LookUpUser(r) \/ CheckPassword(r)
    <3>1. CASE Signup(r)
      BY <1>3, <3>1 DEF Signup
    <3>2. CASE LookUpUser(r)
      <4>1. requests[r] \in CredentialRequest
        BY <3>2, RequestShape DEF LookUpUser, Signing
      <4>2. CASE SetRequest(r, [requests[r] EXCEPT !.pc = "check",
                                   !.stored = accounts[requests[r].email]])
        <5>1. [requests[r] EXCEPT !.pc = "check",
                                   !.stored = accounts[requests[r].email]].pc = "check"
          BY <4>1 DEF CredentialRequest
        <5> QED
          BY <1>2, <4>2, <5>1
      <4> QED
        BY <1>4, <3>2, <4>2 DEF LookUpUser
    <3>3. CASE CheckPassword(r)
      BY <1>3, <1>4, <3>3 DEF CheckPassword
    <3> QED
      BY <2>1, <3>1, <3>2, <3>3
  <2>2. CASE Authenticate(r)
    <3>1. UNCHANGED <<clock, tokens, blacklist, forgotten>> /\ requests[r].pc = "authenticate"
      BY <2>2 DEF Authenticate, history
    <3>2. CASE Valid(requests[r].token)
      <4>1. SetRequest(r, [requests[r] EXCEPT !.pc = "blacklist"])
        BY <2>2, <3>2 DEF Authenticate
      <4> QED
        BY <1>6, <3>1, <4>1 DEF Advances
    <3>3. CASE ~Valid(requests[r].token)
      BY <1>5, <2>2, <3>1, <3>3 DEF Authenticate, Advances
    <3> QED
      BY <3>2, <3>3
  <2>3. CASE AskBlacklist(r)
    <3>1. UNCHANGED <<clock, tokens, blacklist, forgotten>> /\ requests[r].pc = "blacklist"
      BY <2>3 DEF AskBlacklist, history
    <3>2. CASE /\ ~Blacklisted(requests[r].token)
               /\ SetRequest(r, [requests[r] EXCEPT !.pc = "handle"])
      BY <1>6, <3>1, <3>2 DEF Advances
    <3>3. CASE Blacklisted(requests[r].token) /\ RefuseToken(r)
      BY <1>5, <3>1, <3>3 DEF Advances
    <3> QED
      BY <1>3, <2>3, <3>2, <3>3 DEF AskBlacklist
  <2>4. CASE Identify(r)
    <3>1. UNCHANGED <<clock, tokens, blacklist, forgotten>> /\ requests[r].pc = "handle"
      BY <2>4 DEF Identify, history
    <3>2. CASE Valid(requests[r].token)
      <4>1. PICK pc \in {"serve", "logout"} :
              SetRequest(r, [requests[r] EXCEPT !.pc = pc])
        BY <2>4, <3>2 DEF Identify, NextStep
      <4> QED
        BY <1>6, <3>1, <3>2, <4>1 DEF Advances
    <3>3. CASE ~Valid(requests[r].token)
      BY <1>5, <2>4, <3>1, <3>3 DEF Identify, Advances
    <3> QED
      BY <3>2, <3>3
  <2>5. CASE Serve(r) \/ FailLogout(r) \/ Finish(r)
    BY <1>3, <2>5 DEF Serve, FailLogout, Finish
  <2>6. CASE Logout(r)
    <3>1. CASE TimeLeft(requests[r].token) < 0
      BY <1>3, <2>6, <3>1 DEF Logout
    <3>2. CASE ~(TimeLeft(requests[r].token) < 0)
      <4> DEFINE t == requests[r].token
                 request == [requests[r] EXCEPT !.pc = "set", !.timeLeft = TimeLeft(t)]
      <4>1. /\ SetRequest(r, request) /\ t \in leaving'
            /\ UNCHANGED <<clock, tokens, blacklist, forgotten>>
            /\ requests[r].pc = "logout"
        BY <2>6, <3>2 DEF Logout
      <4>2. requests[r] \in ProtectedRequest
        BY <4>1, RequestShape
      <4>3. /\ request.pc = "set" /\ request.timeLeft = TimeLeft(t)
            /\ request.token = t /\ request.late = requests[r].late
        BY <4>2 DEF ProtectedRequest
      <4>4. requests'[q] = requests[q] \/ (q = r /\ requests'[q] = request)
        BY <1>2, <4>1
      <4> QED
        BY <4>1, <4>3, <4>4 DEF Advances
    <3> QED
      BY <3>1, <3>2
  <2>7. CASE SetBlacklist(r)
    BY <1>3, <2>7 DEF SetBlacklist
  <2> QED
    BY <1>7, <2>1, <2>2, <2>3, <2>4, <2>5, <2>6, <2>7 DEF RequestStep
<1>8. ASSUME NEW r \in Requests, NEW pc \in {"signup", "login"}, NEW e \in Emails,
             NEW p \in Passwords, ReceiveCredentials(r, pc, e, p)
      PROVE  requests'[q] = requests[q]
  BY <1>2, <1>8 DEF ReceiveCredentials
<1>9. ASSUME NEW r \in Requests, NEW route \in {"api", "logout"}, NEW t \in Tokens,
             ReceiveProtected(r, route, t)
      PROVE  requests'[q] = requests[q] \/ Arrives(q)
  BY <1>2, <1>9 DEF ReceiveProtected, Arrives
<1>10. CASE RedisRestarts \/ Tick \/ UNCHANGED vars
  BY <1>10 DEF RedisRestarts, Tick, vars
<1> QED
  BY <1>7, <1>8, <1>9, <1>10 DEF Next

LEMMA TokenMoves ==
    ASSUME TypeOK, [Next]_vars, NEW t \in Tokens, tokens'[t] # tokens[t]
    PROVE  /\ ~tokens[t].known
           /\ \E e \in Emails : tokens'[t] = MakeJWT(e)
           /\ UNCHANGED <<blacklist, ended, leaving, secretSet>>
<1>1. ASSUME NEW r \in Requests, CheckPassword(r)
      PROVE  /\ ~tokens[t].known
             /\ \E e \in Emails : tokens'[t] = MakeJWT(e)
             /\ UNCHANGED <<blacklist, ended, leaving, secretSet>>
  <2>1. requests[r].email \in Emails
    BY <1>1, RequestShape DEF CheckPassword, Signing, CredentialRequest
  <2>2. PICK o \in Tokens : ~tokens[o].known
                           /\ tokens' = [tokens EXCEPT ![o] = MakeJWT(requests[r].email)]
    BY <1>1 DEF CheckPassword
  <2>3. t = o
    BY <2>2
  <2>4. DOMAIN tokens = Tokens
    BY DEF TypeOK
  <2> QED
    BY <1>1, <2>1, <2>2, <2>3, <2>4 DEF CheckPassword, history
<1>2. ASSUME NEW r \in Requests, RequestStep(r)
      PROVE  CheckPassword(r)
  BY <1>2 DEF RequestStep, Signup, LookUpUser, Authenticate, AskBlacklist, Identify,
              Serve, Logout, SetBlacklist, FailLogout, Finish
<1>3. PICK r \in Requests : RequestStep(r)
  BY DEF Next, vars, ReceiveCredentials, ReceiveProtected, RedisRestarts, Tick
<1> QED
  BY <1>1, <1>2, <1>3

\* A key is written by a request whose SET is under way, or lost.
LEMMA KeyMoves ==
    ASSUME TypeOK, [Next]_vars, NEW t \in Tokens, blacklist'[t] # blacklist[t]
    PROVE  /\ UNCHANGED <<clock, tokens>>
           /\ \/ blacklist'[t] = NoEntry /\ t \in forgotten'
              \/ \E r \in Requests :
                   /\ requests[r].pc = "set"
                   /\ requests[r].token = t
                   /\ blacklist'[t] = EntryFor(requests[r].timeLeft)
<1>1. DOMAIN blacklist = Tokens
  BY DEF TypeOK
<1>2. CASE RedisRestarts
  BY <1>2 DEF RedisRestarts
<1>3. ASSUME NEW r \in Requests, SetBlacklist(r)
      PROVE  /\ UNCHANGED <<clock, tokens>>
             /\ requests[r].pc = "set"
             /\ requests[r].token = t
             /\ blacklist'[t] = EntryFor(requests[r].timeLeft)
  BY <1>1, <1>3 DEF SetBlacklist, Stored
<1>4. ASSUME NEW r \in Requests, RequestStep(r)
      PROVE  SetBlacklist(r)
  BY <1>4 DEF RequestStep, Signup, LookUpUser, CheckPassword, Authenticate, AskBlacklist,
              Identify, Serve, Logout, FailLogout, Finish
<1>5. RedisRestarts \/ \E r \in Requests : RequestStep(r)
  BY DEF Next, vars, ReceiveCredentials, ReceiveProtected, Tick
<1> QED
  BY <1>2, <1>3, <1>4, <1>5

LEMMA EndedMoves ==
    ASSUME TypeOK, [Next]_vars, NEW t \in ended', t \notin ended
    PROVE  /\ UNCHANGED <<clock, tokens>>
           /\ \E r \in Requests :
                /\ requests[r].token = t
                /\ \/ requests[r].pc = "logout" /\ TimeLeft(t) < 0
                   \/ /\ requests[r].pc = "set"
                      /\ blacklist'[t] = EntryFor(requests[r].timeLeft)
<1>1. DOMAIN blacklist = Tokens
  BY DEF TypeOK
<1>2. ASSUME NEW r \in Requests, Logout(r)
      PROVE  /\ UNCHANGED <<clock, tokens>>
             /\ requests[r].token = t
             /\ requests[r].pc = "logout" /\ TimeLeft(t) < 0
  BY <1>2 DEF Logout
<1>3. ASSUME NEW r \in Requests, SetBlacklist(r)
      PROVE  /\ UNCHANGED <<clock, tokens>>
             /\ requests[r].token = t
             /\ requests[r].pc = "set"
             /\ blacklist'[t] = EntryFor(requests[r].timeLeft)
  <2>1. requests[r].token \in Tokens
    BY <1>3, RequestShape DEF SetBlacklist, Protecting, ProtectedRequest
  <2> QED
    BY <1>1, <1>3, <2>1 DEF SetBlacklist, Stored
<1>4. ASSUME NEW r \in Requests, RequestStep(r)
      PROVE  Logout(r) \/ SetBlacklist(r)
  BY <1>4 DEF RequestStep, Signup, LookUpUser, CheckPassword, Authenticate, AskBlacklist,
              Identify, Serve, FailLogout, Finish, history
<1>5. \E r \in Requests : RequestStep(r)
  BY DEF Next, vars, ReceiveCredentials, ReceiveProtected, RedisRestarts, Tick, history
<1> QED
  BY <1>2, <1>3, <1>4, <1>5

-----------------------------------------------------------------------------

(***************************************************************************)
(* Type correctness.                                                       *)
(***************************************************************************)
LEMMA TokensStayKnown ==
    TypeOK /\ TypeOK' /\ TokensKnown /\ [Next]_vars => TokensKnown'
<1> SUFFICES ASSUME TypeOK, TypeOK', TokensKnown, [Next]_vars, NEW q \in Requests,
                    requests'[q].pc \in Carrying
             PROVE  tokens'[requests'[q].token].known
  BY DEF TokensKnown, Carrying
<1>1. \A t \in Tokens : tokens[t].known => tokens'[t].known
  BY StepGrows
<1>2. requests[q].pc \in Carrying =>
        requests[q].token \in Tokens /\ tokens[requests[q].token].known
  BY RequestShape DEF TokensKnown, Carrying, ProtectedRequest
<1>3. requests'[q] = requests[q] \/ Arrives(q) \/ Advances(q)
  BY RequestMoves
<1> QED
  BY <1>1, <1>2, <1>3 DEF Arrives, Advances, Carrying

Typed == TypeOK /\ TokensKnown

LEMMA InitTyped == Init => Typed
BY InitTypeOK DEF Init, Typed, TokensKnown, NoRequest, Protecting

LEMMA NextTyped == Typed /\ [Next]_vars => Typed'
BY NextTypeOK, TokensStayKnown DEF Typed

LEMMA AlwaysTyped == Spec => []Typed
BY InitTyped, NextTyped, PTL DEF Spec

(***************************************************************************)
(* Sessions keeps its types: a time to live that is sent to Redis is never *)
(* negative, and requests carry only tokens that Login handed out.         *)
(***************************************************************************)
THEOREM TypeCorrect == Spec => []TypeOK
<1>1. Typed => TypeOK
  BY DEF Typed
<1> QED
  BY <1>1, AlwaysTyped, PTL

-----------------------------------------------------------------------------

(***************************************************************************)
(* A key outlives its token: the expiry is a whole number of milliseconds, *)
(* the time left that is on its way to Redis reaches to the expiry or      *)
(* beyond, and so the key ends in the last millisecond before it or later. *)
(***************************************************************************)
Aligned ==
    \A t \in Tokens : tokens[t].known => \E n \in Nat : tokens[t].exp = n * MsTicks

SetCovers ==
    \A r \in Requests : requests[r].pc = "set" =>
        requests[r].timeLeft + clock >= tokens[requests[r].token].exp

KeysOutlive ==
    \A t \in Tokens : blacklist[t].kind = "until" =>
        /\ tokens[t].known
        /\ blacklist[t].end + MsTicks >= tokens[t].exp

Timing == Aligned /\ SetCovers /\ KeysOutlive

LEMMA KnownToken ==
    ASSUME TypeOK, NEW t \in Tokens, tokens[t].known
    PROVE  tokens[t].exp \in Nat
<1>1. tokens[t] \in Token
  BY DEF TypeOK, NoToken
<1> QED
  BY <1>1 DEF Token

LEMMA UntilEntry ==
    ASSUME TypeOK, NEW t \in Tokens, blacklist[t].kind = "until"
    PROVE  blacklist[t].end \in Nat
BY DEF TypeOK, NoEntry, Entry

LEMMA KeyHolds ==
    ASSUME TypeOK, Timing, NEW t \in Tokens, tokens[t].known, ~Expired(t),
           blacklist[t].kind # "none"
    PROVE  Blacklisted(t)
<1>1. blacklist[t].kind \in {"forever", "until"}
  BY DEF TypeOK, NoEntry, Entry
<1>2. CASE blacklist[t].kind = "until"
  <2>1. PICK n \in Nat : tokens[t].exp = n * MsTicks
    BY DEF Timing, Aligned
  <2>2. clock \in Nat /\ clock < n * MsTicks
    BY <2>1, KnownToken DEF TypeOK, Expired
  <2>3. Floor(clock, MsTicks) + MsTicks <= n * MsTicks /\ Floor(clock, MsTicks) \in Nat
    BY <2>2, FloorBelow, FloorBounds, UnitsAssumption
  <2>4. blacklist[t].end \in Nat /\ blacklist[t].end + MsTicks >= n * MsTicks
    BY <1>2, <2>1, UntilEntry DEF Timing, KeysOutlive
  <2>5. n * MsTicks \in Nat
    BY UnitsAssumption
  <2>6. Floor(clock, MsTicks) <= blacklist[t].end
    BY <2>3, <2>4, <2>5, UnitsAssumption
  <2> QED
    BY <1>2, <2>6 DEF Blacklisted
<1> QED
  BY <1>1, <1>2 DEF Blacklisted

LEMMA EntryOutlives ==
    ASSUME TypeOK, Timing, TokensKnown, NEW r \in Requests, requests[r].pc = "set",
           EntryFor(requests[r].timeLeft).kind = "until"
    PROVE  EntryFor(requests[r].timeLeft).end + MsTicks >= tokens[requests[r].token].exp
<1> DEFINE timeLeft == requests[r].timeLeft
           t == requests[r].token
<1>1. timeLeft \in Nat /\ t \in Tokens /\ tokens[t].known /\ clock \in Nat
  BY RequestShape DEF Protecting, ProtectedRequest, TokensKnown, TypeOK
<1>2. PICK n \in Nat : tokens[t].exp = n * MsTicks
  BY <1>1 DEF Timing, Aligned
<1>3. clock + timeLeft >= n * MsTicks
  BY <1>1, <1>2 DEF Timing, SetCovers
<1>4. Floor(clock, MsTicks) + Floor(timeLeft, MsTicks) + MsTicks >= n * MsTicks
  BY <1>1, <1>3, FloorSum, UnitsAssumption
<1>5. /\ Floor(clock, MsTicks) \in Nat /\ Floor(timeLeft, MsTicks) \in Nat
      /\ Floor(timeLeft, MsTicks) <= timeLeft
  BY <1>1, FloorBounds, UnitsAssumption
<1>6. TTL(timeLeft) \in Nat /\ TTL(timeLeft) >= Floor(timeLeft, MsTicks)
  BY <1>1, <1>5, UnitsAssumption DEF TTL
<1>7. EntryFor(timeLeft).end = Floor(clock, MsTicks) + TTL(timeLeft)
  BY DEF EntryFor
<1>8. n * MsTicks \in Nat
  BY UnitsAssumption
<1> QED
  BY <1>2, <1>4, <1>5, <1>6, <1>7, <1>8, UnitsAssumption

LEMMA InitTiming == Init => Timing
BY DEF Init, Timing, Aligned, SetCovers, KeysOutlive, NoToken, NoRequest, NoEntry

LEMMA NextTiming == Typed /\ Typed' /\ Timing /\ [Next]_vars => Timing'
<1> SUFFICES ASSUME Typed, Typed', Timing, [Next]_vars
             PROVE  Timing'
  OBVIOUS
<1> USE DEF Typed
<1>1. ASSUME NEW t \in Tokens, tokens'[t].known
      PROVE  \E n \in Nat : tokens'[t].exp = n * MsTicks
  <2>1. CASE tokens'[t] = tokens[t]
    BY <1>1, <2>1 DEF Timing, Aligned
  <2>2. CASE tokens'[t] # tokens[t]
    <3>1. PICK e \in Emails : tokens'[t] = MakeJWT(e)
      BY <2>2, TokenMoves
    <3>2. clock + TokenLife \in Nat
      BY LifeAssumption DEF TypeOK
    <3>3. tokens'[t].exp = Floor(clock + TokenLife, SecondTicks)
      BY <3>1 DEF MakeJWT
    <3>4. \E n \in Nat : Floor(clock + TokenLife, SecondTicks) = n * MsTicks
      BY <3>2, FloorIsMultiple, UnitsAssumption
    <3> QED
      BY <3>3, <3>4
  <2> QED
    BY <2>1, <2>2
<1>2. ASSUME NEW r \in Requests, requests'[r].pc = "set"
      PROVE  requests'[r].timeLeft + clock' >= tokens'[requests'[r].token].exp
  <2>1. requests'[r] = requests[r] \/ Advances(r)
    BY <1>2, RequestMoves DEF Arrives, Carrying, Protecting
  <2>2. CASE requests'[r] = requests[r]
    <3>1. /\ requests[r].token \in Tokens /\ requests[r].timeLeft \in Nat
          /\ tokens[requests[r].token].known
      BY <1>2, <2>2, RequestShape DEF ProtectedRequest, Protecting, TokensKnown
    <3>2. /\ tokens'[requests[r].token] = tokens[requests[r].token]
          /\ clock' >= clock /\ clock \in Nat /\ clock' \in Nat
          /\ tokens[requests[r].token].exp \in Nat
      BY <3>1, StepGrows, KnownToken DEF TypeOK
    <3>3. requests[r].timeLeft + clock >= tokens[requests[r].token].exp
      BY <1>2, <2>2 DEF Timing, SetCovers
    <3> QED
      BY <2>2, <3>1, <3>2, <3>3
  <2>3. CASE Advances(r)
    <3>1. /\ requests[r].token \in Tokens /\ tokens[requests[r].token].known
      BY <2>3, RequestShape DEF Advances, ProtectedRequest, Protecting, TokensKnown
    <3>2. tokens[requests[r].token].exp \in Nat /\ clock \in Nat
      BY <3>1, KnownToken DEF TypeOK
    <3> QED
      BY <1>2, <2>3, <3>2 DEF Advances, TimeLeft
  <2> QED
    BY <2>1, <2>2, <2>3
<1>3. ASSUME NEW t \in Tokens, blacklist'[t].kind = "until"
      PROVE  /\ tokens'[t].known
             /\ blacklist'[t].end + MsTicks >= tokens'[t].exp
  <2>1. CASE blacklist'[t] = blacklist[t]
    BY <1>3, <2>1, StepGrows DEF Timing, KeysOutlive
  <2>2. CASE blacklist'[t] # blacklist[t]
    <3>1. PICK r \in Requests :
            /\ requests[r].pc = "set"
            /\ requests[r].token = t
            /\ blacklist'[t] = EntryFor(requests[r].timeLeft)
      BY <1>3, <2>2, KeyMoves DEF NoEntry
    <3>2. tokens' = tokens /\ tokens[t].known
      BY <2>2, <3>1, KeyMoves DEF TokensKnown, Protecting
    <3> QED
      BY <1>3, <3>1, <3>2, EntryOutlives
  <2> QED
    BY <2>1, <2>2
<1> QED
  BY <1>1, <1>2, <1>3 DEF Timing, Aligned, SetCovers, KeysOutlive

-----------------------------------------------------------------------------

(***************************************************************************)
(* A session that ended: its key is there or not needed, and a request     *)
(* that came later is stopped by the key, or, if the key has gone with the *)
(* expiry, by the second look at the token.                                *)
(***************************************************************************)
EndedStays ==
    \A t \in ended :
        /\ tokens[t].known
        /\ t \in forgotten \/ Expired(t) \/ blacklist[t].kind # "none"

LateIsStopped ==
    \A r \in Requests, t \in Tokens :
        requests[r].pc \in Protecting /\ requests[r].late /\ requests[r].token = t =>
            /\ t \in ended
            /\ \/ t \in forgotten
               \/ requests[r].pc \in {"authenticate", "blacklist"}
               \/ requests[r].pc = "handle" /\ Expired(t)

Stopping == Timing /\ EndedStays /\ LateIsStopped

LEMMA ExpiryStays ==
    ASSUME TypeOK, TypeOK', [Next]_vars, NEW t \in Tokens, tokens[t].known, Expired(t)
    PROVE  Expired(t)'
<1>1. tokens'[t] = tokens[t] /\ clock' >= clock /\ clock \in Nat /\ clock' \in Nat
  BY StepGrows DEF TypeOK
<1>2. tokens[t].exp \in Nat
  BY KnownToken
<1> QED
  BY <1>1, <1>2 DEF Expired

LEMMA NextEnded ==
    Typed /\ Typed' /\ Stopping /\ [Next]_vars => EndedStays'
<1> SUFFICES ASSUME Typed, Typed', Stopping, [Next]_vars, NEW t \in ended'
             PROVE  /\ tokens'[t].known
                    /\ t \in forgotten' \/ Expired(t)' \/ blacklist'[t].kind # "none"
  BY DEF EndedStays
<1> USE DEF Typed
<1>1. t \in Tokens
  BY DEF TypeOK
<1>2. CASE t \in ended
  <2>1. tokens[t].known /\ tokens'[t].known
    BY <1>1, <1>2, StepGrows DEF Stopping, EndedStays
  <2>2. CASE t \in forgotten
    BY <2>1, <2>2, StepGrows
  <2>4. CASE Expired(t)
    <3>1. Expired(t)'
      BY <1>1, <2>1, <2>4, ExpiryStays
    <3> QED
      BY <2>1, <3>1
  <2>3. CASE blacklist[t].kind # "none"
    <3>1. CASE t \in forgotten' \/ blacklist'[t] = blacklist[t]
      BY <2>1, <2>3, <3>1
    <3>2. CASE t \notin forgotten' /\ blacklist'[t] # blacklist[t]
      <4>1. PICK r \in Requests : blacklist'[t] = EntryFor(requests[r].timeLeft)
        BY <1>1, <3>2, KeyMoves
      <4>2. blacklist'[t].kind # "none"
        BY <4>1 DEF EntryFor
      <4> QED
        BY <2>1, <4>2
    <3> QED
      BY <3>1, <3>2
  <2> QED
    BY <1>2, <2>1, <2>2, <2>3, <2>4 DEF Stopping, EndedStays
<1>3. CASE t \notin ended
  <2>1. PICK r \in Requests :
          /\ requests[r].token = t
          /\ \/ requests[r].pc = "logout" /\ TimeLeft(t) < 0
             \/ requests[r].pc = "set" /\ blacklist'[t] = EntryFor(requests[r].timeLeft)
    BY <1>3, EndedMoves
  <2>2. tokens[t].known /\ UNCHANGED <<clock, tokens>>
    BY <1>3, <2>1, EndedMoves DEF TokensKnown, Protecting
  <2>3. CASE TimeLeft(t) < 0
    <3>1. tokens[t].exp \in Nat /\ clock \in Nat
      BY <1>1, <2>2, KnownToken DEF TypeOK
    <3> QED
      BY <2>2, <2>3, <3>1 DEF TimeLeft, Expired
  <2>4. CASE blacklist'[t] = EntryFor(requests[r].timeLeft)
    BY <2>2, <2>4 DEF EntryFor
  <2> QED
    BY <2>1, <2>3, <2>4
<1> QED
  BY <1>2, <1>3

LEMMA NextLate ==
    Typed /\ Typed' /\ Stopping /\ [Next]_vars => LateIsStopped'
<1> SUFFICES ASSUME Typed, Typed', Stopping, [Next]_vars,
                    NEW r \in Requests, NEW t \in Tokens,
                    requests'[r].pc \in Protecting, requests'[r].late,
                    requests'[r].token = t
             PROVE  /\ t \in ended'
                    /\ \/ t \in forgotten'
                       \/ requests'[r].pc \in {"authenticate", "blacklist"}
                       \/ requests'[r].pc = "handle" /\ Expired(t)'
  BY DEF LateIsStopped
<1> USE DEF Typed
<1>1. ended \subseteq ended' /\ forgotten \subseteq forgotten'
  BY StepGrows
<1>2. requests'[r] = requests[r] \/ Arrives(r) \/ Advances(r)
  BY RequestMoves DEF Carrying
<1>3. CASE Arrives(r)
  BY <1>1, <1>3 DEF Arrives
<1>4. CASE requests'[r] = requests[r] \/ Advances(r)
  <2>1. requests[r].pc \in Protecting /\ requests[r].late /\ requests[r].token = t
    BY <1>4 DEF Advances, Protecting
  <2>2. tokens[t].known
    BY <2>1 DEF TokensKnown
  <2>3. /\ t \in ended
        /\ \/ t \in forgotten
           \/ requests[r].pc \in {"authenticate", "blacklist"}
           \/ requests[r].pc = "handle" /\ Expired(t)
    BY <2>1 DEF Stopping, LateIsStopped
  <2>4. Expired(t) => Expired(t)' /\ ~Valid(t)
    BY <2>2, ExpiryStays DEF Valid
  <2>5. CASE t \in forgotten
    BY <1>1, <2>3, <2>5
  <2>6. CASE t \notin forgotten /\ requests'[r] = requests[r]
    BY <1>1, <2>3, <2>4, <2>6
  <2>7. CASE t \notin forgotten /\ Advances(r)
    <3>1. ~Blacklisted(t) => Expired(t)
      BY <2>2, <2>3, <2>7, KeyHolds DEF Stopping, EndedStays
    <3>2. \/ requests'[r].pc = "blacklist"
          \/ requests'[r].pc = "handle" /\ ~Blacklisted(t)
      BY <2>1, <2>3, <2>4, <2>7 DEF Advances, Protecting
    <3> QED
      BY <1>1, <2>3, <2>4, <3>1, <3>2
  <2> QED
    BY <1>4, <2>5, <2>6, <2>7
<1> QED
  BY <1>2, <1>3, <1>4

KeysHold ==
    \A t \in Tokens : tokens[t].known /\ ~Expired(t) /\ blacklist[t].kind # "none" =>
        Blacklisted(t)

LEMMA AlwaysStopping == Spec => [](Typed /\ Stopping /\ KeysHold)
<1>1. Init => Typed /\ Stopping
  BY InitTyped, InitTiming
     DEF Init, Stopping, EndedStays, LateIsStopped, NoRequest, Protecting
<1>2. Typed /\ Stopping /\ [Next]_vars => Typed' /\ Stopping'
  BY NextTyped, NextTiming, NextEnded, NextLate DEF Stopping
<1>3. Typed /\ Stopping => KeysHold
  BY KeyHolds DEF Typed, Stopping, KeysHold
<1> QED
  BY <1>1, <1>2, <1>3, PTL DEF Spec

(***************************************************************************)
(* A logged-out token opens nothing: for any roundings of the clocks, any  *)
(* overlap of logouts and requests, and any delay of any of them.          *)
(***************************************************************************)
THEOREM LogoutIsFinal == Spec => []LogoutEndsSession
<1>1. Typed /\ Stopping => LogoutEndsSession
  <2> SUFFICES ASSUME Typed, Stopping, NEW r \in Requests,
                      requests[r].pc \in {"serve", "logout", "set"}, requests[r].late
               PROVE  requests[r].token \in forgotten
    BY DEF LogoutEndsSession
  <2>1. requests[r].token \in Tokens
    BY RequestShape DEF Typed, ProtectedRequest, Protecting
  <2> QED
    BY <2>1 DEF Stopping, LateIsStopped, Protecting
<1> QED
  BY <1>1, AlwaysStopping, PTL

(***************************************************************************)
(* A token that is not accepted will not be accepted again.                *)
(***************************************************************************)
THEOREM OverForGood == Spec => OverIsOver
<1>1. ASSUME Typed, Typed', KeysHold', [Next]_vars, NEW t \in Tokens,
             tokens[t].known, ~Accepted(t), t \notin forgotten'
      PROVE  ~Accepted(t)'
  <2> USE DEF Typed
  <2>1. tokens'[t] = tokens[t] /\ tokens'[t].known /\ secretSet' = secretSet
    BY <1>1, StepGrows
  <2>2. CASE Expired(t)
    BY <1>1, <2>2, ExpiryStays DEF Accepted, Valid
  <2>3. CASE ~Expired(t) /\ tokens[t].key # VerifyingKey
    BY <2>1, <2>3 DEF Accepted, Valid, VerifyingKey
  <2>4. CASE Blacklisted(t)
    <3>1. blacklist[t].kind # "none"
      BY <2>4 DEF Blacklisted
    <3>2. CASE blacklist'[t] # blacklist[t]
      <4>1. PICK r \in Requests : blacklist'[t] = EntryFor(requests[r].timeLeft)
        BY <1>1, <3>2, KeyMoves
      <4> QED
        BY <1>1, <2>1, <4>1 DEF EntryFor, KeysHold, Accepted, Valid
    <3>3. CASE blacklist'[t] = blacklist[t]
      BY <1>1, <2>1, <3>1, <3>3 DEF KeysHold, Accepted, Valid
    <3> QED
      BY <3>2, <3>3
  <2> QED
    BY <1>1, <2>2, <2>3, <2>4 DEF Accepted, Valid
<1>2. Typed /\ Typed' /\ KeysHold' /\ [Next]_vars =>
        [\A t \in Tokens :
             tokens[t].known /\ ~Accepted(t) => ~Accepted(t)' \/ t \in forgotten']_vars
  BY <1>1
<1> QED
  BY <1>2, AlwaysStopping, PTL DEF Spec, OverIsOver

-----------------------------------------------------------------------------

(***************************************************************************)
(* Refusals.  A key was written for its own token, by a logout of it.      *)
(***************************************************************************)
KeysHaveLogout ==
    /\ \A t \in Tokens : blacklist[t].kind # "none" => t \in leaving
    /\ \A r \in Requests : requests[r].pc = "set" => requests[r].token \in leaving

SecretMatches ==
    \A t \in Tokens : tokens[t].known /\ secretSet => tokens[t].key = "JWT_SECRET"

RefusedHadReason ==
    \A r \in Requests, t \in Tokens :
        requests[r].pc = "refused" /\ requests[r].token = t =>
            Expired(t) \/ t \in leaving \/ ~secretSet

Reasons == KeysHaveLogout /\ SecretMatches /\ RefusedHadReason

LEMMA NextReasons ==
    Typed /\ Typed' /\ Reasons /\ [Next]_vars => Reasons'
<1> SUFFICES ASSUME Typed, Typed', Reasons, [Next]_vars
             PROVE  Reasons'
  OBVIOUS
<1> USE DEF Typed
<1>1. leaving \subseteq leaving' /\ secretSet' = secretSet
  BY StepGrows
<1>2. ASSUME NEW t \in Tokens, blacklist'[t].kind # "none"
      PROVE  t \in leaving'
  <2>1. CASE blacklist'[t] = blacklist[t]
    BY <1>1, <1>2, <2>1 DEF Reasons, KeysHaveLogout
  <2>2. CASE blacklist'[t] # blacklist[t]
    <3>1. \E r \in Requests : requests[r].pc = "set" /\ requests[r].token = t
      BY <1>2, <2>2, KeyMoves DEF NoEntry
    <3> QED
      BY <1>1, <3>1 DEF Reasons, KeysHaveLogout
  <2> QED
    BY <2>1, <2>2
<1>3. ASSUME NEW r \in Requests, requests'[r].pc = "set"
      PROVE  requests'[r].token \in leaving'
  BY <1>1, <1>3, RequestMoves
     DEF Reasons, KeysHaveLogout, Arrives, Advances, Carrying, Protecting
<1>4. ASSUME NEW t \in Tokens, tokens'[t].known, secretSet'
      PROVE  tokens'[t].key = "JWT_SECRET"
  <2>1. CASE tokens'[t] = tokens[t]
    BY <1>1, <1>4, <2>1 DEF Reasons, SecretMatches
  <2>2. CASE tokens'[t] # tokens[t]
    <3>1. PICK e \in Emails : tokens'[t] = MakeJWT(e)
      BY <2>2, TokenMoves
    <3>2. tokens'[t].key = SigningKey
      BY <3>1 DEF MakeJWT
    <3> QED
      BY <1>1, <1>4, <3>2 DEF SigningKey
  <2> QED
    BY <2>1, <2>2
<1>5. ASSUME NEW r \in Requests, NEW t \in Tokens,
             requests'[r].pc = "refused", requests'[r].token = t
      PROVE  Expired(t)' \/ t \in leaving' \/ ~secretSet'
  <2>1. requests'[r] = requests[r] \/ Advances(r)
    BY <1>5, RequestMoves DEF Arrives, Carrying
  <2>2. requests[r].token = t /\ tokens[t].known
    BY <1>5, <2>1 DEF Advances, TokensKnown
  <2>3. Expired(t) => Expired(t)'
    BY <2>2, ExpiryStays
  <2>4. CASE requests'[r] = requests[r]
    BY <1>1, <1>5, <2>3, <2>4 DEF Reasons, RefusedHadReason
  <2>5. CASE Advances(r)
    <3>1. ~Valid(t) \/ Blacklisted(t)
      BY <1>5, <2>2, <2>5 DEF Advances
    <3>2. ~Valid(t) => Expired(t) \/ ~secretSet
      BY <2>2 DEF Valid, VerifyingKey, Reasons, SecretMatches
    <3>3. Blacklisted(t) => t \in leaving
      BY DEF Blacklisted, Reasons, KeysHaveLogout
    <3> QED
      BY <1>1, <2>3, <3>1, <3>2, <3>3
  <2> QED
    BY <2>1, <2>4, <2>5
<1> QED
  BY <1>2, <1>3, <1>4, <1>5 DEF Reasons, KeysHaveLogout, SecretMatches, RefusedHadReason

(***************************************************************************)
(* Nobody is shut out of a session that has neither expired nor ended.     *)
(***************************************************************************)
THEOREM RefusalsAreJustified == Spec => []RefusalHasReason
<1>1. Init => Reasons
  BY DEF Init, Reasons, KeysHaveLogout, SecretMatches, RefusedHadReason, NoEntry,
         NoRequest, NoToken
<1>2. Typed /\ Reasons => RefusalHasReason
  <2> SUFFICES ASSUME Typed, Reasons, NEW r \in Requests, requests[r].pc = "refused"
               PROVE  LET t == requests[r].token
                      IN  Expired(t) \/ t \in leaving \/ ~secretSet
    BY DEF RefusalHasReason
  <2>1. PICK t \in Tokens : requests[r].token = t
    BY RequestShape DEF Typed
  <2> QED
    BY <2>1 DEF Reasons, RefusedHadReason
<1> QED
  BY <1>1, <1>2, AlwaysTyped, NextReasons, PTL DEF Spec

-----------------------------------------------------------------------------

(***************************************************************************)
(* Accounts.                                                               *)
(***************************************************************************)
Refused == {"notFound", "wrongPassword"}

SignsIn(q) ==
    /\ requests'[q].pc \in {"signup", "login"}
    /\ requests'[q].email \in Emails
    /\ requests'[q].password \in Passwords
    /\ requests'[q].member = (signedUp[requests'[q].email] = requests'[q].password)
    /\ UNCHANGED <<accounts, signedUp>>

LooksUp(q) ==
    /\ requests[q].pc = "login"
    /\ requests'[q].member = requests[q].member
    /\ \/ /\ requests'[q].pc = "check"
          /\ requests'[q].email = requests[q].email
          /\ requests'[q].password = requests[q].password
          /\ requests'[q].stored = accounts[requests[q].email]
          /\ accounts[requests[q].email] # None
       \/ /\ requests'[q].pc = "notFound"
          /\ accounts[requests[q].email] = None \/ Fails("database")
    /\ UNCHANGED <<accounts, signedUp>>

Compares(q) ==
    /\ requests[q].pc = "check"
    /\ requests'[q].pc = "wrongPassword"
    /\ requests'[q].member = requests[q].member
    /\ requests[q].password # requests[q].stored
    /\ UNCHANGED <<accounts, signedUp>>

LEMMA CredentialMoves ==
    ASSUME TypeOK, [Next]_vars, NEW q \in Requests, requests'[q].pc \in Signing \cup Refused
    PROVE  requests'[q] = requests[q] \/ SignsIn(q) \/ LooksUp(q) \/ Compares(q)
<1> USE DEF Signing, Refused
<1>1. ASSUME NEW r \in Requests, NEW request, SetRequest(r, request)
      PROVE  requests'[q] = requests[q] \/ (q = r /\ requests'[q] = request)
  <2>1. DOMAIN requests = Requests
    BY DEF TypeOK
  <2> QED
    BY <1>1, <2>1 DEF SetRequest
<1>2. ASSUME NEW r \in Requests, Done(r) \/ RefuseToken(r)
      PROVE  requests'[q] = requests[q]
  BY <1>1, <1>2 DEF Done, RefuseToken, NoRequest
<1>3. ASSUME NEW r \in Requests, NEW answer \in Refused, RefuseLogin(r, answer)
      PROVE  \/ requests'[q] = requests[q]
             \/ /\ q = r /\ requests'[q].pc = answer
                /\ requests'[q].member = requests[q].member
  BY <1>1, <1>3 DEF RefuseLogin
<1>4. ASSUME NEW r \in Requests, RequestStep(r)
      PROVE  requests'[q] = requests[q] \/ LooksUp(q) \/ Compares(q)
  <2>1. CASE Signup(r)
    BY <1>2, <2>1 DEF Signup
  <2>2. CASE LookUpUser(r)
    <3>1. requests[r] \in CredentialRequest
      BY <2>2, RequestShape DEF LookUpUser
    <3>2. UNCHANGED <<accounts, signedUp>> /\ requests[r].pc = "login"
      BY <2>2 DEF LookUpUser, history
    <3>3. CASE /\ accounts[requests[r].email] # None
               /\ SetRequest(r, [requests[r] EXCEPT !.pc = "check",
                                     !.stored = accounts[requests[r].email]])
      <4> DEFINE request == [requests[r] EXCEPT !.pc = "check",
                                 !.stored = accounts[requests[r].email]]
      <4>1. /\ request.pc = "check" /\ request.email = requests[r].email
            /\ request.password = requests[r].password
            /\ request.member = requests[r].member
            /\ request.stored = accounts[requests[r].email]
        BY <3>1 DEF CredentialRequest
      <4>2. requests'[q] = requests[q] \/ (q = r /\ requests'[q] = request)
        BY <1>1, <3>3
      <4> HIDE DEF request
      <4> QED
        BY <3>2, <3>3, <4>1, <4>2 DEF LooksUp
    <3>4. CASE /\ accounts[requests[r].email] = None \/ Fails("database")
               /\ RefuseLogin(r, "notFound")
      BY <1>3, <3>2, <3>4 DEF LooksUp
    <3> QED
      BY <2>2, <3>3, <3>4 DEF LookUpUser
  <2>3. CASE CheckPassword(r)
    BY <1>2, <1>3, <2>3 DEF CheckPassword, Compares, history
  <2>4. ASSUME Authenticate(r) \/ AskBlacklist(r) \/ Identify(r) \/ Logout(r)
        PROVE  requests'[q] = requests[q]
    <3>1. requests[r] \in ProtectedRequest
      BY <2>4, RequestShape DEF Authenticate, AskBlacklist, Identify, Logout, Protecting
    <3>2. ASSUME NEW pc \in Protecting, SetRequest(r, [requests[r] EXCEPT !.pc = pc])
          PROVE  requests'[q] = requests[q]
      <4>1. [requests[r] EXCEPT !.pc = pc].pc = pc
        BY <3>1 DEF ProtectedRequest
      <4> QED
        BY <1>1, <3>2, <4>1 DEF Protecting
    <3>3. ASSUME SetRequest(r, [requests[r] EXCEPT !.pc = "set",
                                    !.timeLeft = TimeLeft(requests[r].token)])
          PROVE  requests'[q] = requests[q]
      <4>1. [requests[r] EXCEPT !.pc = "set",
                                !.timeLeft = TimeLeft(requests[r].token)].pc = "set"
        BY <3>1 DEF ProtectedRequest
      <4> QED
        BY <1>1, <3>3, <4>1
    <3> QED
      BY <1>2, <2>4, <3>2, <3>3
         DEF Authenticate, AskBlacklist, Identify, Logout, NextStep, Protecting
  <2>5. CASE Serve(r) \/ SetBlacklist(r) \/ FailLogout(r) \/ Finish(r)
    BY <1>2, <2>5 DEF Serve, SetBlacklist, FailLogout, Finish
  <2> QED
    BY <1>4, <2>1, <2>2, <2>3, <2>4, <2>5 DEF RequestStep
<1>5. ASSUME NEW r \in Requests, NEW pc \in {"signup", "login"}, NEW e \in Emails,
             NEW p \in Passwords, ReceiveCredentials(r, pc, e, p)
      PROVE  requests'[q] = requests[q] \/ SignsIn(q)
  BY <1>1, <1>5 DEF ReceiveCredentials, SignsIn, history
<1>6. ASSUME NEW r \in Requests, NEW route \in {"api", "logout"}, NEW t \in Tokens,
             ReceiveProtected(r, route, t)
      PROVE  requests'[q] = requests[q]
  BY <1>1, <1>6 DEF ReceiveProtected
<1>7. CASE RedisRestarts \/ Tick \/ UNCHANGED vars
  BY <1>7 DEF RedisRestarts, Tick, vars
<1> QED
  BY <1>4, <1>5, <1>6, <1>7 DEF Next

LEMMA AccountMoves ==
    ASSUME TypeOK, [Next]_vars, NEW e \in Emails
    PROVE  \/ accounts'[e] = accounts[e] /\ signedUp'[e] = signedUp[e]
           \/ /\ accounts[e] = None
              /\ accounts'[e] # None
              /\ signedUp'[e] \in {signedUp[e], accounts'[e]}
<1>1. ASSUME NEW r \in Requests, Signup(r)
      PROVE  \/ accounts'[e] = accounts[e] /\ signedUp'[e] = signedUp[e]
             \/ /\ accounts[e] = None
                /\ accounts'[e] # None
                /\ signedUp'[e] \in {signedUp[e], accounts'[e]}
  <2>1. requests[r].email \in Emails /\ requests[r].password \in Passwords
    BY <1>1, RequestShape DEF Signup, Signing, CredentialRequest
  <2>2. requests[r].password # None
    BY <2>1, NoneAssumption
  <2>3. DOMAIN accounts = Emails /\ DOMAIN signedUp = Emails
    BY DEF TypeOK
  <2> QED
    BY <1>1, <2>1, <2>2, <2>3 DEF Signup
<1>2. ASSUME NEW r \in Requests, RequestStep(r)
      PROVE  UNCHANGED <<accounts, signedUp>> \/ Signup(r)
  BY <1>2 DEF RequestStep, LookUpUser, CheckPassword, Authenticate, AskBlacklist,
              Identify, Serve, Logout, SetBlacklist, FailLogout, Finish, history
<1>3. UNCHANGED <<accounts, signedUp>> \/ \E r \in Requests : RequestStep(r)
  BY DEF Next, vars, ReceiveCredentials, ReceiveProtected, RedisRestarts, Tick, history
<1> QED
  BY <1>1, <1>2, <1>3

AccountsKept ==
    \A e \in Emails : signedUp[e] # None => accounts[e] = signedUp[e]

MembersKept ==
    \A r \in Requests : requests[r].pc \in Signing =>
        /\ requests[r].member => signedUp[requests[r].email] = requests[r].password
        /\ requests[r].pc = "check" =>
             requests[r].stored = accounts[requests[r].email] /\ requests[r].stored # None

Keeping == AccountsKept /\ MembersKept /\ SignupIsKept

LEMMA NextKeeping == TypeOK /\ Keeping /\ [Next]_vars => Keeping'
<1> SUFFICES ASSUME TypeOK, Keeping, [Next]_vars
             PROVE  Keeping'
  OBVIOUS
<1>1. ASSUME NEW e \in Emails, signedUp'[e] # None
      PROVE  accounts'[e] = signedUp'[e]
  BY <1>1, AccountMoves DEF Keeping, AccountsKept
<1>2. \A e \in Emails : signedUp[e] # None => signedUp'[e] = signedUp[e]
  BY AccountMoves DEF Keeping, AccountsKept
<1>3. \A e \in Emails : accounts[e] # None => accounts'[e] = accounts[e]
  BY AccountMoves
<1>4. ASSUME NEW r \in Requests, requests[r].pc \in Signing
      PROVE  requests[r].email \in Emails /\ requests[r].password # None
  BY <1>4, RequestShape, NoneAssumption DEF CredentialRequest
<1>5. ASSUME NEW r \in Requests, requests'[r].pc \in Signing
      PROVE  /\ requests'[r].member => signedUp'[requests'[r].email] = requests'[r].password
             /\ requests'[r].pc = "check" =>
                  /\ requests'[r].stored = accounts'[requests'[r].email]
                  /\ requests'[r].stored # None
  <2>1. CASE requests'[r] = requests[r]
    BY <1>2, <1>3, <1>4, <1>5, <2>1 DEF Keeping, MembersKept
  <2>2. CASE SignsIn(r)
    BY <2>2 DEF SignsIn
  <2>3. CASE LooksUp(r)
    BY <1>4, <1>5, <2>3 DEF LooksUp, Signing, Keeping, MembersKept
  <2> QED
    BY <1>5, <2>1, <2>2, <2>3, CredentialMoves DEF Compares, Signing
<1>6. ASSUME NEW r \in Requests, requests'[r].pc \in Refused, requests'[r].member
      PROVE  requests'[r].pc = "notFound" /\ Fails("database")
  <2>1. CASE requests'[r] = requests[r]
    BY <1>6, <2>1 DEF Keeping, SignupIsKept, Refused
  <2>2. CASE LooksUp(r)
    BY <1>4, <1>6, <2>2 DEF LooksUp, Signing, Refused, Keeping, MembersKept, AccountsKept
  <2>3. CASE Compares(r)
    BY <1>4, <1>6, <2>3 DEF Compares, Signing, Keeping, MembersKept, AccountsKept
  <2> QED
    BY <1>6, <2>1, <2>2, <2>3, CredentialMoves DEF SignsIn, Refused
<1> QED
  BY <1>1, <1>5, <1>6 DEF Keeping, AccountsKept, MembersKept, SignupIsKept, Refused, Signing

(***************************************************************************)
(* An acknowledged signup stays good for logins, for any number of signups *)
(* with its email that race with it or follow it.                          *)
(***************************************************************************)
THEOREM SignupsAreKept == Spec => []SignupIsKept
<1>1. Init => Keeping
  BY DEF Init, Keeping, AccountsKept, MembersKept, SignupIsKept, NoRequest, Signing
<1>2. Keeping => SignupIsKept
  BY DEF Keeping
<1> QED
  BY <1>1, <1>2, TypeCorrect, NextKeeping, PTL DEF Spec
=============================================================================
