----------------------------- MODULE DaemonRun -----------------------------
(***************************************************************************)
(* How the daemon starts and stops its services: Run (daemon/daemon.go),   *)
(* the CRI service (cri/criservice.go) and the HTTP server                 *)
(* (apis/server/server.go), each a goroutine, talk over channels without   *)
(* buffers; main waits for a signal or for the end of Run, and a signal    *)
(* runs Shutdown before the process exits.                                 *)
(***************************************************************************)
EXTENDS Integers, Scenario

(* The cases: "cri" the CRI service is enabled; "reusePort" its stream     *)
(* server shares the port of the HTTP server; "serviceFails" managers,     *)
(* listeners and servers may fail.                                         *)

VARIABLES
    service,       \* daemon.Run
    criSrv,        \* RunCriService, and the ready value it sends
    criErrs,       \* the results of the CRI servers not read yet
    httpSrv,       \* Server.Start, and the ready value it sends
    process,       \* main
    notified       \* systemd was told that the daemon is ready

daemonVars == <<service, criSrv, criErrs, httpSrv, process, notified>>

Srv(at, ready) == [at |-> at, ready |-> ready]

Alive == process # "exited"

MayFail == On("serviceFails")

CriServers == IF On("reusePort") THEN 1 ELSE 2

-----------------------------------------------------------------------------
(* Run; a receive is one step with the send of the other side *)

\* The managers, Load, Restore and the base network
SetupManagers ==
    /\ Alive /\ service = [at |-> "setup", httpOk |-> FALSE]
    /\ \/ service' = [service EXCEPT !.at = "router"] /\ criSrv' = [criSrv EXCEPT !.at = "start"]
       \/ MayFail /\ service' = [service EXCEPT !.at = "returned"] /\ UNCHANGED criSrv
    /\ UNCHANGED <<criErrs, httpSrv, process, notified>>

RecvRouter ==
    /\ Alive /\ service.at = "router" /\ criSrv.at = "sendRouter"
    /\ service' = [service EXCEPT !.at = "httpReady"]
    /\ criSrv' = [criSrv EXCEPT !.at = IF criSrv.ready /\ On("cri") THEN "serve" ELSE "sendReady"]
    /\ httpSrv' = [httpSrv EXCEPT !.at = "listen"]
    /\ UNCHANGED <<criErrs, process, notified>>

RecvHttpReady ==
    /\ Alive /\ service.at = "httpReady" /\ httpSrv.at = "sendReady"
    /\ service' = [at |-> "criReady", httpOk |-> httpSrv.ready]
    /\ httpSrv' = [httpSrv EXCEPT !.at = IF httpSrv.ready THEN "serving" ELSE "closed"]
    /\ UNCHANGED <<criSrv, criErrs, process, notified>>

RecvCriReady ==
    /\ Alive /\ service.at = "criReady" /\ criSrv.at = "sendReady"
    /\ service' = [service EXCEPT !.at = "criStop"]
    /\ criSrv' = [criSrv EXCEPT !.at = IF criSrv.ready /\ On("cri") THEN "wait" ELSE "sendStop"]
    /\ notified' = (service.httpOk /\ criSrv.ready)
    /\ UNCHANGED <<criErrs, httpSrv, process>>

\* Run returns the error of the CRI service, or waits for the HTTP server.
\* The CRI service has no error when it is disabled.
RecvCriStop ==
    /\ Alive /\ service.at = "criStop" /\ criSrv.at = "sendStop"
    /\ service' = [service EXCEPT !.at = IF On("cri") THEN "returned" ELSE "httpClose"]
    /\ criSrv' = [criSrv EXCEPT !.at = "done"]
    /\ UNCHANGED <<criErrs, httpSrv, process, notified>>

RecvHttpClose ==
    /\ Alive /\ service.at = "httpClose" /\ httpSrv.at = "closed"
    /\ service' = [service EXCEPT !.at = "returned"]
    /\ UNCHANGED <<criSrv, criErrs, httpSrv, process, notified>>

-----------------------------------------------------------------------------
(* RunCriService *)

MutantCriFailsSilently ==
    /\ Alive /\ criSrv.at = "start"
    /\ \/ criSrv' = Srv("sendRouter", TRUE)
       \/ On("cri") /\ MayFail /\ criSrv' = Srv("sendStop", FALSE)
    /\ UNCHANGED <<service, criErrs, httpSrv, process, notified>>

\* The version, the manager and the service are checked and made.
StartCri ==
    /\ Alive /\ criSrv.at = "start"
    /\ \/ criSrv' = Srv("sendRouter", TRUE)
       \/ On("cri") /\ MayFail /\ criSrv' = Srv("sendRouter", FALSE)
    /\ UNCHANGED <<service, criErrs, httpSrv, process, notified>>

ServeCri ==
    /\ Alive /\ criSrv.at = "serve" /\ criSrv' = [criSrv EXCEPT !.at = "sendReady"]
    /\ UNCHANGED <<service, criErrs, httpSrv, process, notified>>

\* A CRI server returns, with an error; errChan has room for all of them.
CriServerStops ==
    /\ Alive /\ MayFail /\ criErrs < CriServers /\ On("cri")
    /\ criSrv.at \in {"sendReady", "wait"} /\ criSrv.ready
    /\ criErrs' = criErrs + 1
    /\ UNCHANGED <<service, criSrv, httpSrv, process, notified>>

CriReturns ==
    /\ Alive /\ criSrv.at = "wait" /\ criErrs > 0
    /\ criSrv' = [criSrv EXCEPT !.at = "sendStop"]
    /\ UNCHANGED <<service, criErrs, httpSrv, process, notified>>

-----------------------------------------------------------------------------
(* The HTTP server *)

Listen ==
    /\ Alive /\ httpSrv.at = "listen"
    /\ \/ httpSrv' = Srv("sendReady", TRUE)
       \/ MayFail /\ httpSrv' = Srv("sendReady", FALSE)
    /\ UNCHANGED <<service, criSrv, criErrs, process, notified>>

\* Serve returns when it fails, or when Stop has closed the listeners.
HttpStops ==
    /\ Alive /\ httpSrv.at = "serving" /\ (MayFail \/ process = "shutdown")
    /\ httpSrv' = [httpSrv EXCEPT !.at = "closed"]
    /\ UNCHANGED <<service, criSrv, criErrs, process, notified>>

-----------------------------------------------------------------------------
(* main and Shutdown *)

Signal ==
    /\ process = "select" /\ process' = "shutdown"
    /\ UNCHANGED <<service, criSrv, criErrs, httpSrv, notified>>

\* Shutdown closes the listeners, waits a minute at most for the requests,
\* closes the clients of containerd and stops containerd.
Shutdown ==
    /\ process = "shutdown" /\ process' = "exited"
    /\ UNCHANGED <<service, criSrv, criErrs, httpSrv, notified>>

RunEnds ==
    /\ process = "select" /\ service.at = "returned" /\ process' = "exited"
    /\ UNCHANGED <<service, criSrv, criErrs, httpSrv, notified>>

DaemonInit ==
    /\ service = [at |-> "setup", httpOk |-> FALSE]
    /\ criSrv = Srv("none", FALSE) /\ criErrs = 0 /\ httpSrv = Srv("none", FALSE)
    /\ process = "select" /\ notified = FALSE

ServiceStep == SetupManagers \/ RecvRouter \/ RecvHttpReady \/ RecvCriReady \/ RecvCriStop \/ RecvHttpClose
CriStep == StartCri \/ ServeCri \/ CriReturns
MainStep == RunEnds \/ Shutdown

DaemonNext ==
    \/ ServiceStep \/ CriStep \/ MainStep \/ Listen \/ HttpStops \/ CriServerStops
    \/ Signal

\* The goroutines go on; servers need not stop and signals need not come.
DaemonFairness ==
    /\ WF_daemonVars(On("daemon") /\ ServiceStep) /\ WF_daemonVars(On("daemon") /\ CriStep)
    /\ WF_daemonVars(On("daemon") /\ Listen) /\ WF_daemonVars(On("daemon") /\ MainStep)

-----------------------------------------------------------------------------
(* Properties *)

\* Every variable has its type.
DaemonTypeOK ==
    /\ service.at \in {"setup", "router", "httpReady", "criReady", "criStop", "httpClose", "returned"}
    /\ criSrv.at \in {"none", "start", "sendRouter", "serve", "sendReady", "wait", "sendStop", "done"}
    /\ httpSrv.at \in {"none", "listen", "sendReady", "serving", "closed"}
    /\ {criSrv.ready, httpSrv.ready, notified} \subseteq BOOLEAN
    /\ criErrs \in 0..2 /\ process \in {"select", "shutdown", "exited"}

\* systemd is told that the daemon is ready only when both services are.
NotifiedIsReady ==
    notified => httpSrv.ready /\ criSrv.ready

\* Whatever fails, the three goroutines do not wait on each other for good:
\* Run gets to the point where it waits for a service to stop, or returns.
StartupEnds ==
    (On("daemon") /\ service.at = "setup") ~>
        (service.at \in {"criStop", "httpClose", "returned"} \/ process = "exited")

\* A service that has stopped ends the daemon: the CRI service always, the
\* HTTP server when the CRI service is disabled.  (With the CRI service, Run
\* waits for it first, and nothing notices that the HTTP server is gone.)
StoppedServiceEnds ==
    (On("daemon") /\ (criErrs > 0 \/ (httpSrv.at = "closed" /\ NoneOf({"cri"})))) ~> process = "exited"

\* The daemon's start and its end come to their ends, and systemd hears of the
\* start only when there is one.
ServicesEnd == [](DaemonTypeOK /\ NotifiedIsReady) /\ StartupEnds /\ StoppedServiceEnds
=============================================================================
