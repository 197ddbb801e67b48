--------------------------- MODULE ServerLifecycle ---------------------------
(***************************************************************************)
(* Starting and stopping the phone's SMB server: the screen's view model   *)
(* (AniShelfViewModel.kt), the bound service and its coroutines            *)
(* (SmbServerService.kt), nativeStart, nativeStop and the server thread    *)
(* (smb2_server_jni.c) and the loop it runs (smb2_serve_port, libsmb2.c).  *)
(*                                                                         *)
(* Four kinds of actors interleave: the main thread, which runs the view   *)
(* model and blocks in nativeStop; one coroutine of Dispatchers.IO for     *)
(* each startServer; one pthread for each nativeStart; the user.  They     *)
(* share server_running and the struct server without a lock, so every     *)
(* read or write of those is a step of its own.                            *)
(***************************************************************************)
EXTENDS Integers, FiniteSets

CONSTANTS
    MaxStarts,      \* bound: startServer coroutines launched
    MaxServices     \* bound: service instances created

ASSUME BoundsAssumption == MaxStarts \in Nat \ {0} /\ MaxServices \in Nat \ {0}

VARIABLES
    running,        \* server_running
    fd,             \* server.fd: NoFd, ZeroFd, or the socket of a thread
    serverThread,   \* server_thread: the thread created last
    thread,         \* start attempt -> where its server thread is
    socket,         \* start attempt -> the socket its thread listens on
    job,            \* start attempt -> where its coroutine is
    owner,          \* start attempt -> the service that launched it
    launched,       \* start attempts so far
    service,        \* the service instance the screen has
    bound,          \* boundService # null
    isRunning,      \* service instance -> _isRunning
    shown,          \* _serverStatus
    waiter,         \* where the view model's start coroutine is
    stop,           \* where the main thread is in nativeStop
    leaving         \* that stop was called by onDestroy

native  == <<running, fd, serverThread, thread, socket>>
jobs    == <<job, owner, launched>>
screen  == <<service, bound, shown, waiter>>
stopper == <<stop, leaving>>
vars    == <<native, jobs, screen, stopper, isRunning>>

Attempts == 1 .. MaxStarts
Services == 1 .. MaxServices

(* memset leaves server.fd at 0, a descriptor that is not the server's.    *)
NoFd   == -1
ZeroFd == 0

JobPC    == {"none", "check", "create", "refused", "started", "poll", "done"}
ThreadPC == {"none", "created", "opening", "binding", "serving", "closing",
             "exit", "ended"}
StopPC   == {"idle", "check", "shutdown", "join", "clear"}

Init ==
    /\ running = FALSE
    /\ fd = ZeroFd
    /\ serverThread = 0
    /\ thread = [k \in Attempts |-> "none"]
    /\ socket = [k \in Attempts |-> "none"]
    /\ job = [k \in Attempts |-> "none"]
    /\ owner = [k \in Attempts |-> 1]
    /\ launched = 0
    /\ service = 1
    /\ bound = FALSE
    /\ isRunning = [s \in Services |-> FALSE]
    /\ shown = "STOPPED"
    /\ waiter = "idle"
    /\ stop = "idle"
    /\ leaving = FALSE

-----------------------------------------------------------------------------
(* The main thread, which handles events only while it is not stopping.    *)
MainFree == stop = "idle"

ServiceConnected ==
    /\ MainFree /\ ~bound
    /\ bound' = TRUE
    /\ UNCHANGED <<native, jobs, service, shown, waiter, stopper, isRunning>>

(* toggleServer while STOPPED, online and with a folder selected.          *)
ToggleStart ==
    /\ MainFree /\ shown = "STOPPED"
    /\ launched < MaxStarts
    /\ shown' = "STARTING"
    /\ waiter' = "delay"
    /\ UNCHANGED <<native, jobs, service, bound, stopper, isRunning>>

(* After delay(500): boundService?.startServer, which launches a coroutine *)
(* unless the service runs already.                                        *)
StartServer ==
    /\ MainFree /\ waiter = "delay"
    /\ waiter' = "wait"
    /\ IF bound /\ ~isRunning[service]
       THEN /\ launched' = launched + 1
            /\ job' = [job EXCEPT ![launched + 1] = "check"]
            /\ owner' = [owner EXCEPT ![launched + 1] = service]
       ELSE UNCHANGED jobs
    /\ UNCHANGED <<native, service, bound, shown, stopper, isRunning>>

(* boundService?.isRunning?.value == true.  The mutant also asks the native *)
(* side.                                                                   *)
SeenNative == bound /\ isRunning[service] /\ running
Seen       == bound /\ isRunning[service]

(* waitForRunning finds _isRunning set.                                    *)
SeesRunning ==
    /\ MainFree /\ waiter = "wait"
    /\ Seen
    /\ shown' = "RUNNING"
    /\ waiter' = "idle"
    /\ UNCHANGED <<native, jobs, service, bound, stopper, isRunning>>

(* waitForRunning finds it unset for the 20th time.  There is no clock:    *)
(* the other actors may need any number of its 250 ms delays.              *)
AttemptsUsedUp == TRUE

GivesUp ==
    /\ MainFree /\ waiter = "wait"
    /\ ~Seen /\ AttemptsUsedUp
    /\ shown' = "STOPPED"
    /\ waiter' = "idle"
    /\ UNCHANGED <<native, jobs, service, bound, stopper, isRunning>>

(* toggleServer while RUNNING: stopServer, up to the call of nativeStop.   *)
ToggleStop ==
    /\ MainFree /\ shown = "RUNNING"
    /\ stop' = "check"
    /\ leaving' = FALSE
    /\ UNCHANGED <<native, jobs, screen, isRunning>>

(* The activity is finished: onCleared cancels the view model's coroutines *)
(* and unbinds, and the service, which was only bound, is destroyed.  Its  *)
(* serviceScope is not cancelled.                                          *)
Leave ==
    /\ MainFree
    /\ service < MaxServices
    /\ waiter' = "idle"
    /\ bound' = FALSE
    /\ stop' = "check"
    /\ leaving' = TRUE
    /\ UNCHANGED <<native, jobs, service, shown, isRunning>>

-----------------------------------------------------------------------------
(* nativeStop, on the main thread.                                         *)
Close(s) == IF s \in Attempts THEN [socket EXCEPT ![s] = "closed"] ELSE socket

StopCheck ==
    /\ stop = "check"
    /\ IF running THEN running' = FALSE /\ stop' = "shutdown"
       ELSE stop' = "clear" /\ UNCHANGED running
    /\ UNCHANGED <<fd, serverThread, thread, socket, jobs, screen, leaving,
                   isRunning>>

(* The mutant does not wake the loop. *)
ShutNothing(s) == socket
Shut(s) == IF s \in Attempts /\ socket[s] = "listening"
           THEN [socket EXCEPT ![s] = "shut"] ELSE socket

StopShutdown ==
    /\ stop = "shutdown"
    /\ socket' = Shut(fd)
    /\ stop' = "join"
    /\ UNCHANGED <<running, fd, serverThread, thread, jobs, screen, leaving,
                   isRunning>>

(* pthread_join, which waits; the mutant does not.                         *)
JoinAlways  == TRUE
ThreadEnded == serverThread \in Attempts /\ thread[serverThread] = "ended"

StopJoin ==
    /\ stop = "join"
    /\ ThreadEnded
    /\ IF fd # NoFd THEN socket' = Close(fd) /\ fd' = NoFd
       ELSE UNCHANGED <<socket, fd>>
    /\ stop' = "clear"
    /\ UNCHANGED <<running, serverThread, thread, jobs, screen, leaving,
                   isRunning>>

(* Only onDestroy ends the service's life; the mutant ends it always.      *)
ServiceAlwaysGone == service + 1
ServiceAfterStop  == IF leaving THEN service + 1 ELSE service

(* The end of nativeStop (the handles: SmbHandles!Stop), of stopServer and *)
(* of its caller.  After onDestroy a new activity has a new view model and *)
(* binds a new service.                                                    *)
StopReturn ==
    /\ stop = "clear"
    /\ stop' = "idle"
    /\ isRunning' = [isRunning EXCEPT ![service] = FALSE]
    /\ shown' = "STOPPED"
    /\ service' = ServiceAfterStop
    /\ UNCHANGED <<native, jobs, bound, waiter, leaving>>

-----------------------------------------------------------------------------
(* The coroutine of attempt k: nativeStart's test of server_running.       *)
NativeStartCheck(k) ==
    /\ job[k] = "check"
    /\ job' = [job EXCEPT ![k] = IF running THEN "refused" ELSE "create"]
    /\ UNCHANGED <<native, owner, launched, screen, stopper, isRunning>>

(* memset(&server) and pthread_create, which may fail.                     *)
NativeStartCreate(k) ==
    /\ job[k] = "create"
    /\ fd' = ZeroFd
    /\ \/ /\ serverThread' = k
          /\ thread' = [thread EXCEPT ![k] = "created"]
          /\ job' = [job EXCEPT ![k] = "started"]
       \/ /\ job' = [job EXCEPT ![k] = "refused"]
          /\ UNCHANGED <<serverThread, thread>>
    /\ UNCHANGED <<running, socket, owner, launched, screen, stopper, isRunning>>

StartRefused(k) ==
    /\ job[k] = "refused"
    /\ job' = [job EXCEPT ![k] = "done"]
    /\ isRunning' = [isRunning EXCEPT ![owner[k]] = FALSE]
    /\ UNCHANGED <<native, owner, launched, screen, stopper>>

StartSucceeded(k) ==
    /\ job[k] = "started"
    /\ job' = [job EXCEPT ![k] = "poll"]
    /\ isRunning' = [isRunning EXCEPT ![owner[k]] = TRUE]
    /\ UNCHANGED <<native, owner, launched, screen, stopper>>

(* startForeground throws, here or in pollStats: the service takes the     *)
(* server for one that failed to start.                                    *)
ForegroundRefused(k) ==
    /\ job[k] \in {"started", "poll"}
    /\ job' = [job EXCEPT ![k] = "done"]
    /\ isRunning' = [isRunning EXCEPT ![owner[k]] = FALSE]
    /\ UNCHANGED <<native, owner, launched, screen, stopper>>

(* pollStats leaves its loop when it finds _isRunning unset.               *)
PollEnds(k) ==
    /\ job[k] = "poll" /\ ~isRunning[owner[k]]
    /\ job' = [job EXCEPT ![k] = "done"]
    /\ UNCHANGED <<native, owner, launched, screen, stopper, isRunning>>

-----------------------------------------------------------------------------
(* The server thread of attempt k: server_thread_func.                     *)
ThreadGoes(k, from, to) ==
    /\ thread[k] = from
    /\ thread' = [thread EXCEPT ![k] = to]
    /\ UNCHANGED <<serverThread, jobs, screen, stopper, isRunning>>

ThreadStarts(k) ==
    /\ ThreadGoes(k, "created", "opening")
    /\ running' = TRUE
    /\ UNCHANGED <<fd, socket>>

(* smb2_bind_and_listen sets server.fd to -1 first.                        *)
Opening(k) ==
    /\ ThreadGoes(k, "opening", "binding")
    /\ fd' = NoFd
    /\ UNCHANGED <<running, socket>>

Binds(k) ==
    /\ ThreadGoes(k, "binding", "serving")
    /\ \A j \in Attempts : socket[j] # "listening"
    /\ socket' = [socket EXCEPT ![k] = "listening"]
    /\ fd' = k
    /\ UNCHANGED running

(* bind fails: the port is still in use, by this program or by another.    *)
BindFails(k) ==
    /\ ThreadGoes(k, "binding", "exit")
    /\ UNCHANGED <<running, fd, socket>>

(* select reports the socket that was shut down and accept fails.          *)
LoopWoken(k) ==
    /\ ThreadGoes(k, "serving", "closing")
    /\ fd \in Attempts
    /\ socket[fd] = "shut"
    /\ UNCHANGED <<running, fd, socket>>

(* accept fails for a reason of its own; also what becomes of a loop whose *)
(* server.fd another thread has overwritten (FD_SET of -1 is undefined).   *)
LoopFails(k) ==
    /\ ThreadGoes(k, "serving", "closing")
    /\ UNCHANGED <<running, fd, socket>>

(* The end of smb2_serve_port.                                             *)
LoopCloses(k) ==
    /\ ThreadGoes(k, "closing", "exit")
    /\ socket' = Close(fd)
    /\ fd' = NoFd
    /\ UNCHANGED running

(* server_running as the thread leaves it.  The mutant leaves it alone.    *)
RunningKept == running
RunningAtEnd == FALSE

(* The end of server_thread_func.  Between its close and its write of      *)
(* server_running others see what they saw before it: running, and no fd.  *)
ThreadExits(k) ==
    /\ ThreadGoes(k, "exit", "ended")
    /\ socket' = Close(fd)
    /\ fd' = NoFd
    /\ running' = RunningAtEnd

-----------------------------------------------------------------------------
Stopping == StopCheck \/ StopShutdown \/ StopJoin \/ StopReturn

Job(k) ==
    \/ NativeStartCheck(k) \/ NativeStartCreate(k)
    \/ StartRefused(k) \/ StartSucceeded(k) \/ PollEnds(k)

ThreadStep(k) ==
    \/ ThreadStarts(k) \/ Opening(k) \/ Binds(k) \/ BindFails(k)
    \/ LoopWoken(k) \/ LoopCloses(k) \/ ThreadExits(k)

Start == StartServer \/ SeesRunning \/ GivesUp

Background ==
    \/ ServiceConnected \/ ToggleStart \/ StartServer \/ SeesRunning \/ Stopping
    \/ \E k \in Attempts : Job(k) \/ ThreadStep(k) \/ LoopFails(k)

Next ==
    \/ Background \/ GivesUp \/ ToggleStop \/ Leave
    \/ \E k \in Attempts : ForegroundRefused(k)

(* No start is under way: the coroutine has done its part, and the thread  *)
(* it created has bound its port or failed to.                             *)
Settled ==
    \A k \in Attempts :
        /\ job[k] \notin {"check", "create", "refused", "started"}
        /\ thread[k] \notin {"created", "opening", "binding"}

(* The delays are long enough for what they wait for: the 5 s of           *)
(* waitForRunning, and the 250 ms before the screen lets the user stop;    *)
(* and the system lets the service go to the foreground.                   *)
Delayed == Settled /\ (GivesUp \/ ToggleStop)

DelayedNext == Background \/ Delayed \/ Leave

(* And the user does not leave the application while a start is under way. *)
SettledLeave == Settled /\ Leave

TimelyNext == Background \/ Delayed \/ SettledLeave

(* Threads and coroutines are scheduled, and the loop's select wakes for   *)
(* what happens to its socket.  Nothing is assumed of the user, nor that   *)
(* accept ever fails.                                                      *)
Fairness ==
    /\ WF_vars(Start)
    /\ WF_vars(Stopping)
    /\ \A k \in Attempts : WF_vars(Job(k)) /\ WF_vars(ThreadStep(k))

Spec        == Init /\ [][Next]_vars /\ Fairness
DelayedSpec == Init /\ [][DelayedNext]_vars /\ Fairness
TimelySpec  == Init /\ [][TimelyNext]_vars /\ Fairness

-----------------------------------------------------------------------------
Alive(k) == thread[k] \notin {"none", "ended"}

TypeOK ==
    /\ running \in BOOLEAN
    /\ fd \in {NoFd, ZeroFd} \cup Attempts
    /\ serverThread \in 0 .. MaxStarts
    /\ thread \in [Attempts -> ThreadPC]
    /\ socket \in [Attempts -> {"none", "listening", "shut", "closed"}]
    /\ job \in [Attempts -> JobPC]
    /\ owner \in [Attempts -> Services]
    /\ launched \in 0 .. MaxStarts
    /\ service \in Services
    /\ bound \in BOOLEAN
    /\ isRunning \in [Services -> BOOLEAN]
    /\ shown \in {"STOPPED", "STARTING", "RUNNING"}
    /\ waiter \in {"idle", "delay", "wait"}
    /\ stop \in StopPC
    /\ leaving \in BOOLEAN

(* "Server Stopped" (AniShelfScreens.kt): once the main thread is done and *)
(* shows it, no server thread is left, none will come, no socket is open   *)
(* and the service does not believe it runs.                               *)
StoppedIsDown ==
    shown = "STOPPED" /\ MainFree =>
        /\ \A k \in Attempts :
            /\ ~Alive(k)
            /\ socket[k] \notin {"listening", "shut"}
            /\ job[k] \in {"none", "poll", "done"}
        /\ \A s \in Services : ~isRunning[s]

(* The least "Server Stopped" can mean: nobody can connect to the phone.   *)
StoppedNotServing ==
    shown = "STOPPED" /\ MainFree =>
        \A k \in Attempts : ~(thread[k] = "serving" /\ socket[k] = "listening")

(* At most one server thread lives, it is the one nativeStop would join,   *)
(* and a socket that is open is the one server.fd names, so that a stop    *)
(* reaches it.                                                             *)
OneServer ==
    \A k \in Attempts :
        /\ Alive(k) => k = serverThread
        /\ socket[k] \in {"listening", "shut"} => k = fd /\ Alive(k)

(* What start and stop keep between them: one server or none, and "Server  *)
(* Stopped" only when nothing is left of it.                               *)
OneServerOrNone == TypeOK /\ StoppedIsDown /\ OneServer

(* "Server Running" (AniShelfScreens.kt): a server thread is there, or is  *)
(* still to come.                                                          *)
RunningIsUp ==
    shown = "RUNNING" /\ MainFree => \E k \in Attempts : Alive(k)

(* nativeIsRunning tells the truth in one direction, whatever the order:   *)
(* while server_running is set a thread is there that will clear it, so a  *)
(* refusal "Server already running" is never for ever without a server.    *)
FlagIsThread ==
    /\ running => \E k \in Attempts : Alive(k) /\ thread[k] # "created"
    /\ stop \in {"shutdown", "join"} => serverThread \in Attempts

(* Every stop ends: the main thread does not stay in pthread_join.         *)
StopEnds == stop = "check" ~> stop = "idle"

(* A service that was started and has not been stopped is shown as         *)
(* running in the end: a start whose nativeStart succeeded is not lost.    *)
StartIsSeen ==
    \A s \in Services :
        isRunning[s] ~> (~isRunning[s] \/ (shown = "RUNNING" /\ service = s))

(* What the switch on the screen promises, see ServerSwitch.               *)
Switch == INSTANCE ServerSwitch WITH up <- \E k \in Attempts : Alive(k)
SwitchSpec == Switch!Spec
=============================================================================
