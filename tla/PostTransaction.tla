-------------------------- MODULE PostTransaction --------------------------
(***************************************************************************)
(* POST /transactions: TransactionService.CreateTransaction in             *)
(* internal/service/txn_service.go, entered from the PostTransaction       *)
(* handler once the request is authenticated and valid.  Each request has  *)
(* a goroutine of its own, and each of its three queries is a transaction  *)
(* of its own, so that any other step may come between two of them.        *)
(***************************************************************************)
EXTENDS FraudStore

CONSTANT Posts      \* goroutines that serve this endpoint

VARIABLE posts      \* the request each of them is serving

NoPost == [pc |-> "idle"]

\* The fields fill up as the handler advances.
PostAt(pc, u) ==
    [pc |-> pc, user |-> u, profile |-> NoProfile, count |-> 0, at |-> 0,
     began |-> Len(txns), since |-> AppNow]

PostInit == posts = [p \in Posts |-> NoPost]

SetPost(p, post) == posts' = [posts EXCEPT ![p] = post]

ReceivePost(p, u) ==
    /\ posts[p].pc = "idle"
    /\ Len(txns) < MaxRows
    /\ SetPost(p, PostAt("profile", u))
    /\ UNCHANGED storeVars

LoadPostProfile(p) ==
    /\ posts[p].pc = "profile"
    /\ \E profile \in ProfileReads(posts[p].user) :
         SetPost(p, [posts[p] EXCEPT !.pc = "count", !.profile = profile])
    /\ UNCHANGED storeVars

CountRecentTransactions(p) ==
    /\ posts[p].pc = "count"
    /\ \E count \in CountReads(posts[p].user) :
         SetPost(p, [posts[p] EXCEPT !.pc = "analyze", !.count = count])
    /\ UNCHANGED storeVars

\* AnalyzeTransaction is local; time.Now() dates the row before it is sent.
AnalyzePost(p) ==
    /\ posts[p].pc = "analyze"
    /\ SetPost(p, [posts[p] EXCEPT !.pc = "insert", !.at = AppNow])
    /\ UNCHANGED storeVars

PostedRow(post, fits) ==
    [user |-> post.user, at |-> post.at, fits |-> fits, via |-> "post",
     seen |-> post.count, began |-> post.began, since |-> post.since]

\* The row is committed, or nothing is stored and an error answers the request.
\* An error also answers it when the row was committed and the reply was lost;
\* only the client sees the difference.
InsertPost(p) ==
    /\ posts[p].pc = "insert"
    /\ \/ \E fits \in Castable : CreateTransaction(PostedRow(posts[p], fits))
       \/ Fails("createTransaction") /\ UNCHANGED storeVars
    /\ SetPost(p, NoPost)

PostStep(p) ==
    \/ LoadPostProfile(p)
    \/ CountRecentTransactions(p)
    \/ AnalyzePost(p)
    \/ InsertPost(p)

PostTypeOK ==
    posts \in [Posts ->
        {NoPost} \cup
        [pc : {"profile", "count", "analyze", "insert"}, user : Users,
         profile : Profile, count : Nat, at : Int, began : Nat, since : Int]]
=============================================================================
