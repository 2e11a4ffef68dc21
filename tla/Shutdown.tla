------------------------------ MODULE Shutdown ------------------------------
(***************************************************************************)
(* The end of main in cmd/main.go: a signal stops cron, then the process   *)
(* waits for running jobs without a limit while the server still accepts   *)
(* connections, then for the requests in flight for 30 seconds, and then   *)
(* it closes its pools and exits.  The service under it is FraudService.   *)
(*                                                                         *)
(* pgxpool.Close waits until every connection has been handed back, so a   *)
(* statement that is being executed ends; later ones are errors.  A        *)
(* goroutine that only meets such errors changes no table, and what it     *)
(* does in the moment before the exit is left out.                         *)
(***************************************************************************)
EXTENDS FraudService

VARIABLES
    phase,      \* how far main has come, while the process is up
    cut         \* the 30 seconds of this shutdown have run out: history

lifeVars == <<vars, phase, cut>>

LifeInit == Init /\ phase = "serving" /\ cut = FALSE

\* Shutdown closes the listeners, but a connection that was accepted before may
\* still bring a request.  Once main has closed the pools a request only meets
\* errors, and is left out.
Accepting == phase \in {"serving", "stopping", "draining"}

RequestArrives ==
    /\ Accepting
    /\ \/ \E p \in Posts : PostArrives(p)
       \/ \E j \in Uploads : UploadArrives(j)
    /\ UNCHANGED <<phase, cut>>

LifePostAdvances(p) ==
    /\ phase # "closing"
    /\ PostAdvances(p)
    /\ UNCHANGED <<phase, cut>>

LifeUploadAdvances(j) ==
    /\ phase # "closing" \/ uploads[j].pc = "store"
    /\ UploadAdvances(j)
    /\ UNCHANGED <<phase, cut>>

LifeRebuildAdvances(d) ==
    /\ phase # "closing" \/ rebuilds[d].pc = "store"
    /\ RebuildAdvances(d)
    /\ UNCHANGED <<phase, cut>>

\* A stopped cron starts no job.
LifeTick ==
    /\ \/ phase = "serving" /\ Tick
       \/ /\ phase # "serving"
          /\ now < MaxNow
          /\ now' = now + 1
          /\ UNCHANGED <<txns, profiles, posts, uploadVars, rebuilds, up, crashes>>
    /\ UNCHANGED <<phase, cut>>

\* SIGINT or SIGTERM; a second one goes into the channel and nobody reads it.
Signal ==
    /\ up
    /\ phase = "serving"
    /\ phase' = "stopping"
    /\ UNCHANGED <<vars, cut>>

FaultyStopServer ==     \* waits for requests too while it accepts them
    /\ up
    /\ phase = "stopping"
    /\ \A d \in Days : ~Running(d)
    /\ \A p \in Posts : posts[p].pc = "idle"
    /\ \A j \in Uploads : ~Busy(j)
    /\ phase' = "draining"
    /\ UNCHANGED <<vars, cut>>

FaultyStopServerAtOnce ==     \* without <-ctx.Done()
    /\ up
    /\ phase = "stopping"
    /\ phase' = "draining"
    /\ UNCHANGED <<vars, cut>>

\* <-ctx.Done(), then server.Shutdown closes the listeners.
StopServer ==
    /\ up
    /\ phase = "stopping"
    /\ \A d \in Days : ~Running(d)
    /\ phase' = "draining"
    /\ UNCHANGED <<vars, cut>>

\* server.Shutdown returns: the connections are idle, or its context is done.
FinishDraining ==
    /\ up
    /\ phase = "draining"
    /\ \/ /\ \A p \in Posts : posts[p].pc = "idle"
          /\ \A j \in Uploads : ~Busy(j)
          /\ UNCHANGED cut
       \/ cut' = TRUE
    /\ phase' = "closing"
    /\ UNCHANGED vars

\* The deferred calls have returned, and main with them.
Exit ==
    /\ up
    /\ phase = "closing"
    /\ \A j \in Uploads : uploads[j].pc # "store"
    /\ \A d \in Days : rebuilds[d].pc # "store"
    /\ up' = FALSE
    /\ posts' = [p \in Posts |-> NoPost]
    /\ uploads' = [j \in Uploads |-> NoUpload]
    /\ rebuilds' = [d \in Days |-> AbandonedRebuild(d)]
    /\ phase' = "serving"
    /\ cut' = FALSE
    /\ UNCHANGED <<storeVars, settled, crashes>>

\* A crash, or SIGKILL in the middle of a shutdown.
LifeCrash ==
    /\ Crash
    /\ phase' = "serving"
    /\ cut' = FALSE

LifeRestart == Restart /\ UNCHANGED <<phase, cut>>

LifeAwaitRequests == phase = "serving" /\ AwaitRequests /\ UNCHANGED <<phase, cut>>

LifeNext ==
    \/ RequestArrives
    \/ \E p \in Posts : LifePostAdvances(p)
    \/ \E j \in Uploads : LifeUploadAdvances(j)
    \/ \E d \in Days : LifeRebuildAdvances(d)
    \/ LifeTick
    \/ Signal
    \/ StopServer
    \/ FinishDraining
    \/ Exit
    \/ LifeCrash
    \/ LifeRestart
    \/ LifeAwaitRequests

LifeSpec == LifeInit /\ [][LifeNext]_lifeVars

\* A goroutine that can take a step takes it, main included, and a process that
\* died is started again; the drain's timer is sure to run out.  Nothing makes
\* anybody send a request or a signal, or a process crash.
LifeFairness ==
    /\ \A p \in Posts : WF_lifeVars(LifePostAdvances(p))
    /\ \A j \in Uploads : WF_lifeVars(LifeUploadAdvances(j))
    /\ \A d \in Days : WF_lifeVars(LifeRebuildAdvances(d))
    /\ WF_lifeVars(StopServer)
    /\ WF_lifeVars(FinishDraining)
    /\ WF_lifeVars(Exit)
    /\ WF_lifeVars(LifeRestart)

FairLifeSpec == LifeSpec /\ LifeFairness

-----------------------------------------------------------------------------

(***************************************************************************)
(* When the pools are closed no job is running, although jobs and requests *)
(* went on after the signal, and unless the 30 seconds have run out no     *)
(* request is in progress: nobody who was let in is left without an        *)
(* answer.  (cmd/main.go:86-92.)                                           *)
(***************************************************************************)
NothingMeetsAClosedPool ==
    up /\ phase = "closing" =>
        /\ \A d \in Days : ~Running(d)
        /\ ~cut => /\ \A p \in Posts : posts[p].pc = "idle"
                   /\ \A j \in Uploads : ~Busy(j)

(***************************************************************************)
(* A signal ends the process: the wait for jobs has no limit, but jobs end *)
(* and a stopped cron starts no more of them, and the wait for requests    *)
(* has one, whatever clients go on sending.  (cmd/main.go:83-92.)          *)
(***************************************************************************)
ShutdownEnds == (up /\ phase = "stopping") ~> ~up
=============================================================================
