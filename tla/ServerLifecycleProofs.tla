----------------------- MODULE ServerLifecycleProofs -----------------------
(***************************************************************************)
(* Theorems of ServerLifecycle for any number of starts and services, and  *)
(* for every order of coroutines, threads and user: Spec, not only the     *)
(* timely behaviours.                                                      *)
(***************************************************************************)
EXTENDS ServerLifecycle, TLAPS

(* A thread belongs to a coroutine that has come as far as pthread_create, *)
(* and a coroutine to a start that was counted.                            *)
Fresh ==
    \A k \in Attempts :
        /\ job[k] \in {"none", "check", "create"} => thread[k] = "none"
        /\ k > launched => job[k] = "none"

(* What a delay or a stop is going to count is within the bounds.          *)
Counted ==
    /\ waiter = "delay" => launched < MaxStarts
    /\ stop # "idle" /\ leaving => service < MaxServices

(* pthread_join has a thread to join.                                      *)
Joinable == (\E k \in Attempts : thread[k] # "none") => serverThread \in Attempts

IInv == TypeOK /\ Fresh /\ Counted /\ Joinable /\ FlagIsThread

LEMMA InitIInv == Init => IInv
<1> SUFFICES ASSUME Init PROVE IInv
  OBVIOUS
<1>1. \A k \in Attempts : thread[k] = "none" /\ job[k] = "none"
  BY DEF Init
<1>2. 1 \in Services /\ 0 \in 0 .. MaxStarts
  BY BoundsAssumption DEF Services
<1>3. TypeOK
  BY <1>2 DEF Init, TypeOK, NoFd, ZeroFd, ThreadPC, JobPC, StopPC
<1>4. Fresh /\ Counted /\ Joinable /\ FlagIsThread
  BY <1>1 DEF Init, Fresh, Counted, Joinable, FlagIsThread
<1> QED BY <1>3, <1>4 DEF IInv

(* The steps of the main thread and of the screen.                         *)
LEMMA MainKeeps ==
  ASSUME IInv, ServiceConnected \/ ToggleStart \/ StartServer \/ SeesRunning \/ GivesUp \/ ToggleStop \/ Leave
  PROVE  IInv'
<1> USE DEF IInv, native, jobs, screen, stopper
<1>1. CASE StartServer
  <2>1. launched < MaxStarts /\ launched + 1 \in Attempts /\ service \in Services
    BY <1>1, BoundsAssumption DEF StartServer, Counted, TypeOK, Attempts
  <2>2. TypeOK'
    BY <1>1, <2>1 DEF StartServer, TypeOK, JobPC, Attempts
  <2>3. Fresh'
    <3>1. CASE UNCHANGED jobs
      BY <1>1, <3>1 DEF StartServer, Fresh
    <3>2. CASE launched' = launched + 1 /\ job' = [job EXCEPT ![launched + 1] = "check"]
      <4>1. job[launched + 1] = "none" /\ thread[launched + 1] = "none"
        BY <2>1 DEF Fresh, TypeOK, Attempts
      <4>2. thread' = thread
        BY <1>1 DEF StartServer
      <4>3. ASSUME NEW k \in Attempts, k # launched + 1
            PROVE  job'[k] = job[k] /\ (k > launched + 1 => k > launched)
        BY <3>2, <4>3 DEF TypeOK, Attempts
      <4>4. job'[launched + 1] = "check" /\ ~(launched + 1 > launched + 1)
        BY <2>1, <3>2 DEF TypeOK, Attempts
      <4> QED BY <3>2, <4>1, <4>2, <4>3, <4>4 DEF Fresh
    <3> QED BY <1>1, <3>1, <3>2 DEF StartServer
  <2>4. Counted' /\ Joinable' /\ FlagIsThread'
    BY <1>1 DEF StartServer, Counted, Joinable, FlagIsThread, Alive
  <2> QED BY <2>2, <2>3, <2>4
<1>2. CASE ServiceConnected \/ ToggleStart \/ SeesRunning \/ GivesUp \/ ToggleStop \/ Leave
  <2>1. UNCHANGED <<native, jobs, isRunning, service>>
    BY <1>2 DEF ServiceConnected, ToggleStart, SeesRunning, GivesUp, ToggleStop, Leave
  <2>2. TypeOK'
    BY <1>2, <2>1 DEF ServiceConnected, ToggleStart, SeesRunning, GivesUp, ToggleStop, Leave, TypeOK, StopPC
  <2>3. Fresh' /\ Joinable'
    BY <2>1 DEF Fresh, Joinable
  <2>4. Counted'
    BY <1>2, <2>1 DEF ServiceConnected, ToggleStart, SeesRunning, GivesUp, ToggleStop, Leave, Counted, MainFree
  <2>5. FlagIsThread'
    BY <1>2, <2>1 DEF ServiceConnected, ToggleStart, SeesRunning, GivesUp, ToggleStop, Leave, FlagIsThread, Alive
  <2> QED BY <2>2, <2>3, <2>4, <2>5
<1> QED BY <1>1, <1>2

LEMMA StoppingKeeps ==
  ASSUME IInv, Stopping
  PROVE  IInv'
<1> USE DEF IInv, native, jobs, screen, stopper
<1>1. CASE StopCheck
  <2>1. running => serverThread \in Attempts
    BY DEF FlagIsThread, Joinable, Alive
  <2> QED
    BY <1>1, <2>1 DEF StopCheck, TypeOK, StopPC, Fresh, Counted, Joinable, FlagIsThread, Alive
<1>2. CASE StopShutdown
  <2>1. socket' \in [Attempts -> {"none", "listening", "shut", "closed"}]
    BY <1>2 DEF StopShutdown, Shut, TypeOK
  <2> QED
    BY <1>2, <2>1 DEF StopShutdown, TypeOK, StopPC, Fresh, Counted, Joinable, FlagIsThread, Alive
<1>3. CASE StopJoin
  <2>1. socket' \in [Attempts -> {"none", "listening", "shut", "closed"}] /\ fd' \in {NoFd, ZeroFd} \cup Attempts
    BY <1>3 DEF StopJoin, Close, TypeOK
  <2> QED
    BY <1>3, <2>1 DEF StopJoin, TypeOK, StopPC, Fresh, Counted, Joinable, FlagIsThread, Alive
<1>4. CASE StopReturn
  <2>1. service' \in Services
    BY <1>4, BoundsAssumption DEF StopReturn, ServiceAfterStop, Counted, TypeOK, Services
  <2>2. isRunning' \in [Services -> BOOLEAN]
    BY <1>4 DEF StopReturn, TypeOK
  <2> QED
    BY <1>4, <2>1, <2>2 DEF StopReturn, TypeOK, StopPC, Fresh, Counted, Joinable, FlagIsThread, Alive
<1> QED BY <1>1, <1>2, <1>3, <1>4 DEF Stopping

LEMMA JobKeeps ==
  ASSUME IInv, NEW k \in Attempts, Job(k) \/ ForegroundRefused(k)
  PROVE  IInv'
<1> USE DEF IInv, native, jobs, screen, stopper
<1>1. CASE NativeStartCreate(k)
  <2>1. job[k] = "create" /\ thread[k] = "none" /\ k <= launched
    BY <1>1 DEF NativeStartCreate, Fresh, TypeOK, Attempts
  <2>2. CASE serverThread' = k /\ thread' = [thread EXCEPT ![k] = "created"] /\ job' = [job EXCEPT ![k] = "started"]
    <3>1. TypeOK'
      BY <1>1, <2>2, BoundsAssumption DEF NativeStartCreate, TypeOK, ThreadPC, JobPC, Attempts
    <3>2. Fresh' /\ Counted' /\ Joinable'
      BY <1>1, <2>1, <2>2 DEF NativeStartCreate, TypeOK, Fresh, Counted, Joinable, Attempts
    <3>3. FlagIsThread'
      <4>1. ASSUME NEW j \in Attempts, Alive(j), thread[j] # "created" PROVE Alive(j)' /\ thread'[j] # "created"
        BY <2>1, <2>2, <4>1 DEF Alive, TypeOK
      <4> QED BY <1>1, <2>2, <4>1 DEF NativeStartCreate, FlagIsThread
    <3> QED BY <3>1, <3>2, <3>3
  <2>3. CASE job' = [job EXCEPT ![k] = "refused"] /\ UNCHANGED <<serverThread, thread>>
    BY <1>1, <2>1, <2>3 DEF NativeStartCreate, TypeOK, JobPC, Fresh, Counted, Joinable, FlagIsThread, Alive
  <2> QED BY <1>1, <2>2, <2>3 DEF NativeStartCreate
<1>2. CASE NativeStartCheck(k)
  BY <1>2 DEF NativeStartCheck, TypeOK, JobPC, Fresh, Counted, Joinable, FlagIsThread, Alive
<1>3. CASE StartRefused(k) \/ StartSucceeded(k) \/ PollEnds(k) \/ ForegroundRefused(k)
  <2>1. /\ UNCHANGED <<native, owner, launched, screen, stopper>>
        /\ job[k] \in {"refused", "started", "poll"}
        /\ \E to \in {"poll", "done"} : job' = [job EXCEPT ![k] = to]
        /\ \/ isRunning' = isRunning
           \/ \E b \in BOOLEAN : isRunning' = [isRunning EXCEPT ![owner[k]] = b]
    BY <1>3 DEF StartRefused, StartSucceeded, PollEnds, ForegroundRefused
  <2>2. isRunning' \in [Services -> BOOLEAN] /\ job' \in [Attempts -> JobPC]
    BY <2>1 DEF TypeOK, JobPC
  <2>3. TypeOK' /\ Counted' /\ Joinable' /\ FlagIsThread'
    BY <2>1, <2>2 DEF TypeOK, Counted, Joinable, FlagIsThread, Alive
  <2>4. Fresh'
    BY <2>1 DEF Fresh, TypeOK
  <2> QED BY <2>3, <2>4
<1> QED BY <1>1, <1>2, <1>3 DEF Job

(* A step of a thread changes its own place and the server's socket; only  *)
(* its last one lets the flag go.                                          *)
LEMMA ThreadKeeps ==
  ASSUME IInv, NEW k \in Attempts, ThreadStep(k) \/ LoopFails(k)
  PROVE  IInv'
<1> USE DEF IInv, native, jobs, screen, stopper
<1> DEFINE Went(to) ==
             /\ UNCHANGED <<serverThread, jobs, screen, stopper, isRunning>>
             /\ thread[k] # "none"
             /\ thread' = [thread EXCEPT ![k] = to]
<1>1. \E to \in ThreadPC \ {"none", "created"} : Went(to) /\ (to = "ended" => running' = FALSE)
  <2>1. ThreadStarts(k) \/ Opening(k) => Went("opening") \/ Went("binding")
    BY DEF ThreadStarts, Opening, ThreadGoes
  <2>2. Binds(k) \/ BindFails(k) => Went("serving") \/ Went("exit")
    BY DEF Binds, BindFails, ThreadGoes
  <2>3. LoopWoken(k) \/ LoopFails(k) \/ LoopCloses(k) => Went("closing") \/ Went("exit")
    BY DEF LoopWoken, LoopFails, LoopCloses, ThreadGoes
  <2>4. ThreadExits(k) => Went("ended") /\ running' = FALSE
    BY DEF ThreadExits, ThreadGoes, RunningAtEnd
  <2> HIDE DEF Went
  <2> QED BY <2>1, <2>2, <2>3, <2>4 DEF ThreadStep, ThreadPC
<1>2. running' \in BOOLEAN
  BY DEF ThreadStep, ThreadGoes, ThreadStarts, Opening, Binds, BindFails, LoopWoken, LoopFails, LoopCloses,
     ThreadExits, RunningAtEnd, TypeOK
<1>3. fd' \in {NoFd, ZeroFd} \cup Attempts /\ socket' \in [Attempts -> {"none", "listening", "shut", "closed"}]
  BY DEF ThreadStep, ThreadGoes, ThreadStarts, Opening, Binds, BindFails, LoopWoken, LoopFails, LoopCloses,
     ThreadExits, Close, TypeOK
<1>4. TypeOK'
  BY <1>1, <1>3, <1>2 DEF TypeOK
<1>5. Fresh' /\ Counted' /\ Joinable'
  BY <1>1 DEF Fresh, Counted, Joinable, TypeOK
<1>6. FlagIsThread'
  <2>1. ASSUME running' PROVE \E j \in Attempts : Alive(j)' /\ thread'[j] # "created"
    <3>1. Alive(k)' /\ thread'[k] # "created"
      BY <1>1, <2>1 DEF Alive, TypeOK
    <3> QED BY <3>1
  <2> QED BY <1>1, <2>1 DEF FlagIsThread
<1> QED BY <1>4, <1>5, <1>6

LEMMA StepIInv == IInv /\ [Next]_vars => IInv'
<1> SUFFICES ASSUME IInv, [Next]_vars PROVE IInv'
  OBVIOUS
<1>1. CASE UNCHANGED vars
  BY <1>1 DEF vars, native, jobs, screen, stopper, IInv, TypeOK, Fresh, Counted, Joinable, FlagIsThread, Alive
<1>2. CASE Next
  BY <1>2, MainKeeps, StoppingKeeps, JobKeeps, ThreadKeeps DEF Next, Background
<1> QED BY <1>1, <1>2

LEMMA TimelyIsNext == [TimelyNext]_vars => [Next]_vars
  BY DEF TimelyNext, Delayed, SettledLeave, Next

-----------------------------------------------------------------------------
(* Every variable keeps to its values, the counters within their bounds:   *)
(* nativeStart, nativeStop, the thread and the screen.                     *)
THEOREM LifecycleTypes == Spec => []TypeOK
<1>1. IInv => TypeOK
  BY DEF IInv
<1> QED BY <1>1, InitIInv, StepIInv, PTL DEF Spec

(* While server_running is set a thread is there that will clear it, and   *)
(* nativeStop joins only a thread that was created, in whatever order      *)
(* coroutines, threads and user run, and when startForeground throws.      *)
THEOREM FlagHasThread == Spec => []FlagIsThread
<1>1. IInv => FlagIsThread
  BY DEF IInv
<1> QED BY <1>1, InitIInv, StepIInv, PTL DEF Spec

(* So it is in the timely behaviours.                                      *)
THEOREM TimelyFlagHasThread == TimelySpec => [](TypeOK /\ FlagIsThread)
<1>1. IInv => TypeOK /\ FlagIsThread
  BY DEF IInv
<1> QED BY <1>1, InitIInv, StepIInv, TimelyIsNext, PTL DEF TimelySpec

-----------------------------------------------------------------------------
(* The timely behaviours: one server or none.                              *)

InFlight(k) == job[k] \in {"check", "create", "refused", "started"}
Open(k)     == socket[k] \in {"listening", "shut"}

(* Nothing is left of any server, and nobody believes in one.              *)
AllDown ==
    /\ \A k \in Attempts : ~Alive(k) /\ ~Open(k) /\ ~InFlight(k)
    /\ \A s \in Services : ~isRunning[s]

(* The view model's coroutine and the main thread wait for one thing at a  *)
(* time, and the screen shows which.                                       *)
OneWait ==
    /\ waiter # "idle" => MainFree /\ shown = "STARTING"
    /\ waiter = "idle" /\ MainFree => shown # "STARTING"
    /\ waiter = "wait" /\ isRunning[service] => bound

(* A start is in flight for the screen that waits for it, and only the     *)
(* last one; until it has created its thread there is none.                *)
FlightIsAwaited ==
    \A k \in Attempts : InFlight(k) =>
        /\ waiter = "wait" /\ bound /\ k = launched /\ owner[k] = service
        /\ \A s \in Services : ~isRunning[s]
        /\ job[k] # "started" => \A m \in Attempts : ~Alive(m)

(* Where the screen shows no server there is none: before the start, when  *)
(* it failed, and after the stop.                                          *)
DownWhenTold ==
    /\ shown = "STOPPED" /\ MainFree => AllDown
    /\ waiter = "delay" => AllDown
    /\ waiter = "wait" /\ ~isRunning[service] /\ (\A k \in Attempts : ~InFlight(k)) => AllDown

(* A stop meets a server that is up, or none; and past pthread_join none.  *)
StopMeetsWhole ==
    /\ stop # "idle" => \A k \in Attempts : thread[k] \notin {"created", "opening", "binding"}
    /\ stop = "clear" => \A k \in Attempts : ~Alive(k)

(* A thread has set server_running, and only it or the stop that is going  *)
(* to join it clears it again.                                             *)
ThreadHasFlag ==
    \A k \in Attempts : Alive(k) /\ thread[k] # "created" =>
        running \/ stop \in {"shutdown", "join"}

(* An open socket is that of a serving thread, and server.fd is its name.  *)
FdIsServing ==
    \A k \in Attempts :
        /\ Open(k) => thread[k] \in {"serving", "closing"}
        /\ thread[k] \in {"serving", "closing"} => fd = k

OnlyThisService == \A s \in Services : isRunning[s] => s = service

OnlyJoined == \A k \in Attempts : Alive(k) => k = serverThread

TInv ==
    /\ IInv
    /\ OneWait
    /\ FlightIsAwaited
    /\ DownWhenTold
    /\ StopMeetsWhole
    /\ ThreadHasFlag
    /\ FdIsServing
    /\ OnlyThisService
    /\ OnlyJoined

-----------------------------------------------------------------------------
LEMMA InitTInv == Init => TInv
<1> SUFFICES ASSUME Init PROVE TInv
  OBVIOUS
<1>1. \A k \in Attempts : thread[k] = "none" /\ socket[k] = "none" /\ job[k] = "none"
  BY DEF Init
<1>2. \A s \in Services : ~isRunning[s]
  BY DEF Init
<1>3. AllDown
  BY <1>1, <1>2 DEF AllDown, Alive, Open, InFlight
<1>4. OneWait /\ FlightIsAwaited /\ DownWhenTold
  BY <1>1, <1>3 DEF Init, OneWait, FlightIsAwaited, DownWhenTold, InFlight, MainFree
<1>5. StopMeetsWhole /\ ThreadHasFlag /\ FdIsServing /\ OnlyThisService /\ OnlyJoined
  BY <1>1, <1>2 DEF Init, StopMeetsWhole, ThreadHasFlag, FdIsServing, OnlyThisService, OnlyJoined, Alive, Open
<1> QED BY <1>4, <1>5, InitIInv DEF TInv

(* The steps of the main thread and of the screen while it is not          *)
(* stopping.  They leave the server's own state alone.                     *)
LEMMA MainKeepsDown ==
  ASSUME TInv, IInv', ServiceConnected \/ ToggleStart \/ StartServer \/ SeesRunning \/ Delayed \/ SettledLeave
  PROVE  TInv'
<1> USE DEF native, jobs, screen, stopper, MainFree
<1>1. UNCHANGED <<native, isRunning, service>>
  BY DEF ServiceConnected, ToggleStart, StartServer, SeesRunning, Delayed, GivesUp, ToggleStop, SettledLeave, Leave
<1>2. ThreadHasFlag' /\ FdIsServing' /\ OnlyThisService' /\ OnlyJoined'
  <2>1. FdIsServing' /\ OnlyThisService' /\ OnlyJoined'
    BY <1>1 DEF TInv, FdIsServing, OnlyThisService, OnlyJoined, Alive, Open
  <2>2. stop \notin {"shutdown", "join"}
    BY DEF ServiceConnected, ToggleStart, StartServer, SeesRunning, Delayed, GivesUp, ToggleStop, SettledLeave, Leave
  <2> QED BY <1>1, <2>1, <2>2 DEF TInv, ThreadHasFlag, Alive
<1>3. CASE ServiceConnected
  <2>1. UNCHANGED <<jobs, shown, waiter, stop>> /\ bound'
    BY <1>3 DEF ServiceConnected
  <2>2. OneWait' /\ FlightIsAwaited'
    BY <1>1, <2>1 DEF TInv, OneWait, FlightIsAwaited, InFlight, Alive
  <2>3. DownWhenTold' /\ StopMeetsWhole'
    BY <1>1, <2>1 DEF TInv, DownWhenTold, StopMeetsWhole, AllDown, InFlight, Alive, Open
  <2> QED BY <1>2, <2>2, <2>3 DEF TInv
<1>4. CASE ToggleStart
  <2>1. UNCHANGED <<jobs, bound, stop>> /\ waiter' = "delay" /\ shown' = "STARTING" /\ AllDown
        /\ stop = "idle"
    BY <1>4 DEF ToggleStart, TInv, DownWhenTold
  <2>2. AllDown'
    BY <1>1, <2>1 DEF AllDown, Alive, Open, InFlight
  <2>3. OneWait' /\ FlightIsAwaited' /\ DownWhenTold' /\ StopMeetsWhole'
    BY <2>1, <2>2 DEF OneWait, FlightIsAwaited, DownWhenTold, StopMeetsWhole, AllDown
  <2> QED BY <1>2, <2>3 DEF TInv
<1>5. CASE StartServer
  <2>1. waiter' = "wait" /\ UNCHANGED <<bound, shown, stop>> /\ stop = "idle" /\ shown = "STARTING"
        /\ AllDown
    BY <1>5 DEF StartServer, TInv, OneWait, DownWhenTold
  <2>2. ~isRunning[service]
    BY <2>1 DEF AllDown, TInv, IInv, TypeOK
  <2>3. OneWait' /\ StopMeetsWhole'
    BY <1>1, <2>1, <2>2 DEF OneWait, StopMeetsWhole
  <2>4. CASE UNCHANGED jobs
    <3>1. AllDown'
      BY <1>1, <2>1, <2>4 DEF AllDown, Alive, Open, InFlight
    <3>2. FlightIsAwaited' /\ DownWhenTold'
      BY <3>1 DEF FlightIsAwaited, DownWhenTold, AllDown
    <3> QED BY <1>2, <2>3, <3>2 DEF TInv
  <2>5. CASE bound /\ launched' = launched + 1
             /\ job' = [job EXCEPT ![launched + 1] = "check"]
             /\ owner' = [owner EXCEPT ![launched + 1] = service]
    <3>1. launched + 1 \in Attempts /\ job \in [Attempts -> JobPC] /\ owner \in [Attempts -> Services]
      BY <1>5, BoundsAssumption DEF StartServer, TInv, IInv, Counted, TypeOK, Attempts
    <3>2. /\ job'[launched + 1] = "check" /\ owner'[launched + 1] = service
          /\ \A k \in Attempts : k # launched + 1 => job'[k] = job[k]
      BY <2>5, <3>1
    <3>3. FlightIsAwaited'
      BY <1>1, <2>1, <2>5, <3>2 DEF AllDown, FlightIsAwaited, InFlight, Alive
    <3>4. DownWhenTold'
      BY <2>1, <3>1, <3>2 DEF DownWhenTold, InFlight
    <3> QED BY <1>2, <2>3, <3>3, <3>4 DEF TInv
  <2> QED BY <1>5, <2>4, <2>5 DEF StartServer
<1>6. CASE SeesRunning
  <2>1. UNCHANGED <<jobs, bound, stop>> /\ stop = "idle" /\ waiter' = "idle" /\ shown' = "RUNNING"
        /\ isRunning[service] /\ service \in Services
    BY <1>6 DEF SeesRunning, Seen, TInv, IInv, TypeOK
  <2>2. \A k \in Attempts : ~InFlight(k)
    BY <2>1 DEF TInv, FlightIsAwaited
  <2>3. OneWait' /\ FlightIsAwaited' /\ DownWhenTold' /\ StopMeetsWhole'
    BY <2>1, <2>2 DEF OneWait, FlightIsAwaited, DownWhenTold, StopMeetsWhole, InFlight
  <2> QED BY <1>2, <2>3 DEF TInv
<1>7. ASSUME Settled PROVE \A k \in Attempts : ~InFlight(k) /\ thread[k] \notin {"created", "opening", "binding"}
  BY <1>7 DEF Settled, InFlight
<1>8. CASE Settled /\ GivesUp
  <2>1. UNCHANGED <<jobs, bound, stop>> /\ stop = "idle" /\ waiter' = "idle" /\ shown' = "STOPPED"
    BY <1>8 DEF GivesUp
  <2>2. AllDown
    BY <1>7, <1>8 DEF GivesUp, Seen, TInv, OneWait, DownWhenTold
  <2>3. AllDown'
    BY <1>1, <2>1, <2>2 DEF AllDown, Alive, Open, InFlight
  <2>4. OneWait' /\ FlightIsAwaited' /\ DownWhenTold' /\ StopMeetsWhole'
    BY <2>1, <2>3 DEF OneWait, FlightIsAwaited, DownWhenTold, StopMeetsWhole, AllDown
  <2> QED BY <1>2, <2>4 DEF TInv
<1>9. CASE Settled /\ (ToggleStop \/ Leave)
  <2>1. UNCHANGED <<jobs, shown>> /\ stop' = "check" /\ waiter' = "idle"
    BY <1>9 DEF ToggleStop, Leave, TInv, OneWait, IInv, TypeOK
  <2>2. OneWait' /\ FlightIsAwaited' /\ DownWhenTold' /\ StopMeetsWhole'
    BY <1>1, <1>7, <1>9, <2>1 DEF OneWait, FlightIsAwaited, DownWhenTold, StopMeetsWhole, InFlight
  <2> QED BY <1>2, <2>2 DEF TInv
<1> QED BY <1>3, <1>4, <1>5, <1>6, <1>8, <1>9 DEF Delayed, SettledLeave

(* The steps of nativeStop.  Nothing is in flight meanwhile, and past the  *)
(* test of server_running or past pthread_join there is no thread.         *)
LEMMA StoppingKeepsDown ==
  ASSUME TInv, IInv', Stopping
  PROVE  TInv'
<1> USE DEF native, jobs, screen, stopper, MainFree
<1>1. stop # "idle" /\ waiter = "idle"
  BY DEF Stopping, StopCheck, StopShutdown, StopJoin, StopReturn, TInv, OneWait
<1>2. \A k \in Attempts : ~InFlight(k) /\ thread[k] \notin {"created", "opening", "binding"}
  BY <1>1 DEF TInv, FlightIsAwaited, StopMeetsWhole
<1>3. UNCHANGED <<serverThread, thread, jobs, bound, waiter>>
  BY DEF Stopping, StopCheck, StopShutdown, StopJoin, StopReturn
<1>4. OnlyJoined' /\ FlightIsAwaited'
  BY <1>2, <1>3 DEF TInv, OnlyJoined, FlightIsAwaited, Alive, InFlight
<1>5. socket \in [Attempts -> {"none", "listening", "shut", "closed"}]
  BY DEF TInv, IInv, TypeOK
<1>6. CASE StopCheck
  <2>1. UNCHANGED <<fd, socket, service, isRunning, shown>> /\ stop = "check"
        /\ running' = FALSE /\ stop' = IF running THEN "shutdown" ELSE "clear"
    BY <1>6 DEF StopCheck, TInv, IInv, TypeOK
  <2>2. ~running => \A k \in Attempts : ~Alive(k)
    BY <1>2, <2>1 DEF TInv, ThreadHasFlag
  <2>3. StopMeetsWhole' /\ ThreadHasFlag'
    BY <1>2, <1>3, <2>1, <2>2 DEF StopMeetsWhole, ThreadHasFlag, Alive
  <2>4. OneWait' /\ DownWhenTold' /\ FdIsServing' /\ OnlyThisService'
    BY <1>1, <1>3, <2>1 DEF TInv, OneWait, DownWhenTold, FdIsServing, OnlyThisService, Open
  <2> QED BY <1>4, <2>3, <2>4 DEF TInv
<1>7. CASE StopShutdown
  <2>1. UNCHANGED <<fd, service, isRunning, shown, running>> /\ stop' = "join" /\ stop = "shutdown"
    BY <1>7 DEF StopShutdown
  <2>2. \A k \in Attempts : Open(k)' <=> Open(k)
    BY <1>5, <1>7 DEF StopShutdown, Shut, Open
  <2>3. FdIsServing'
    BY <1>3, <2>1, <2>2 DEF TInv, FdIsServing
  <2>4. OneWait' /\ DownWhenTold' /\ OnlyThisService' /\ StopMeetsWhole' /\ ThreadHasFlag'
    BY <1>1, <1>2, <1>3, <2>1 DEF TInv, OneWait, DownWhenTold, OnlyThisService, StopMeetsWhole, ThreadHasFlag, Alive
  <2> QED BY <1>4, <2>3, <2>4 DEF TInv
<1>8. CASE StopJoin
  <2>1. UNCHANGED <<service, isRunning, shown, running>> /\ stop' = "clear"
    BY <1>8 DEF StopJoin
  <2>2. \A k \in Attempts : ~Alive(k)
    BY <1>8 DEF StopJoin, ThreadEnded, TInv, OnlyJoined, Alive
  <2>3. \A k \in Attempts : Open(k)' => Open(k)
    BY <1>5, <1>8 DEF StopJoin, Close, Open
  <2>4. FdIsServing'
    BY <1>3, <2>2, <2>3 DEF TInv, FdIsServing, Alive
  <2>5. OneWait' /\ DownWhenTold' /\ OnlyThisService' /\ StopMeetsWhole' /\ ThreadHasFlag'
    BY <1>1, <1>2, <1>3, <2>1, <2>2 DEF TInv, OneWait, DownWhenTold, OnlyThisService, StopMeetsWhole, ThreadHasFlag, Alive
  <2> QED BY <1>4, <2>4, <2>5 DEF TInv
<1>9. CASE StopReturn
  <2>1. UNCHANGED native /\ stop' = "idle" /\ shown' = "STOPPED"
        /\ isRunning' = [isRunning EXCEPT ![service] = FALSE]
    BY <1>9 DEF StopReturn
  <2>2. \A s \in Services : ~isRunning'[s]
    BY <2>1 DEF TInv, IInv, TypeOK, OnlyThisService
  <2>3. \A k \in Attempts : ~Alive(k)
    BY <1>9 DEF StopReturn, TInv, StopMeetsWhole
  <2>4. \A k \in Attempts : ~Open(k)
    BY <2>3 DEF TInv, FdIsServing, Alive
  <2>5. AllDown'
    BY <1>2, <1>3, <2>1, <2>2, <2>3, <2>4 DEF AllDown, Alive, Open, InFlight
  <2>6. OneWait' /\ DownWhenTold' /\ OnlyThisService' /\ StopMeetsWhole' /\ ThreadHasFlag'
    BY <1>1, <1>3, <2>1, <2>2, <2>5 DEF OneWait, DownWhenTold, OnlyThisService, StopMeetsWhole, ThreadHasFlag, AllDown
  <2>7. FdIsServing'
    BY <2>1 DEF TInv, FdIsServing, Open
  <2> QED BY <1>4, <2>6, <2>7 DEF TInv
<1> QED BY <1>6, <1>7, <1>8, <1>9 DEF Stopping

(* The coroutine of a start.  It finds no server running, so that it is    *)
(* refused only when pthread_create fails; and its thread is the only one. *)
LEMMA JobKeepsDown ==
  ASSUME TInv, IInv', NEW k \in Attempts, Job(k)
  PROVE  TInv'
<1> USE DEF native, jobs, screen, stopper, MainFree
<1>1. UNCHANGED <<screen, stopper, launched, owner, running, socket>>
      /\ job[k] \in JobPC \ {"none", "done"}
      /\ job' \in [Attempts -> JobPC] /\ \A m \in Attempts \ {k} : job'[m] = job[m]
  BY DEF Job, NativeStartCheck, NativeStartCreate, StartRefused, StartSucceeded, PollEnds, TInv, IInv, TypeOK, JobPC
<1>2. StopMeetsWhole /\ ThreadHasFlag /\ FdIsServing /\ OnlyJoined /\ OneWait /\ OnlyThisService
  BY DEF TInv
<1>3. CASE InFlight(k)
  <2>1. /\ waiter = "wait" /\ bound /\ k = launched /\ owner[k] = service
        /\ \A s \in Services : ~isRunning[s]
        /\ job[k] # "started" => \A m \in Attempts : ~Alive(m)
    BY <1>3 DEF TInv, FlightIsAwaited
  <2>2. stop = "idle" /\ shown = "STARTING" /\ waiter = "wait"
    BY <2>1, <1>2 DEF OneWait
  <2>3. \A m \in Attempts \ {k} : ~InFlight(m)'
    BY <1>1, <2>1 DEF TInv, FlightIsAwaited, InFlight
  <2>4. service \in Services
    BY DEF TInv, IInv, TypeOK
  <2>5. CASE NativeStartCheck(k)
    <3>1. ~running
      BY <2>1, <2>5 DEF NativeStartCheck, TInv, IInv, FlagIsThread
    <3>2. UNCHANGED <<native, isRunning>> /\ job'[k] = "create"
      BY <2>5, <3>1 DEF NativeStartCheck, TInv, IInv, TypeOK
    <3>3. job[k] = "check"
      BY <2>5 DEF NativeStartCheck
    <3>4. FlightIsAwaited' /\ DownWhenTold'
      BY <1>1, <2>1, <2>2, <2>3, <3>2, <3>3 DEF FlightIsAwaited, DownWhenTold, InFlight, Alive
    <3>5. (StopMeetsWhole /\ ThreadHasFlag /\ FdIsServing /\ OnlyJoined /\ OneWait /\ OnlyThisService)'
      BY <1>1, <1>2, <3>2 DEF StopMeetsWhole, ThreadHasFlag, FdIsServing, OnlyJoined, OneWait, OnlyThisService, Alive, Open
    <3> QED BY <3>4, <3>5 DEF TInv
  <2>6. CASE NativeStartCreate(k)
    <3>1. job[k] = "create" /\ isRunning' = isRunning /\ \A m \in Attempts : ~Alive(m)
      BY <2>1, <2>6 DEF NativeStartCreate
    <3>2. CASE serverThread' = k /\ thread' = [thread EXCEPT ![k] = "created"] /\ job' = [job EXCEPT ![k] = "started"]
      <4>1. /\ thread'[k] = "created" /\ job'[k] = "started"
            /\ \A m \in Attempts \ {k} : thread'[m] = thread[m]
        BY <3>2 DEF TInv, IInv, TypeOK
      <4>2. \A m \in Attempts \ {k} : ~Alive(m)'
        BY <3>1, <4>1 DEF Alive
      <4>3. FlightIsAwaited' /\ DownWhenTold'
        BY <1>1, <2>1, <2>2, <2>3, <3>1, <4>1 DEF FlightIsAwaited, DownWhenTold, InFlight
      <4>4. StopMeetsWhole' /\ OnlyJoined' /\ OneWait' /\ OnlyThisService'
        BY <1>1, <1>2, <2>2, <3>1, <3>2, <4>2 DEF StopMeetsWhole, OnlyJoined, OneWait, OnlyThisService
      <4>5. ThreadHasFlag'
        BY <4>1, <4>2 DEF ThreadHasFlag
      <4>6. FdIsServing'
        BY <1>1, <1>2, <3>1, <4>1, <4>2 DEF FdIsServing, Alive, Open
      <4> QED BY <4>3, <4>4, <4>5, <4>6 DEF TInv
    <3>3. CASE job' = [job EXCEPT ![k] = "refused"] /\ UNCHANGED <<serverThread, thread>>
      <4>1. job'[k] = "refused"
        BY <3>3 DEF TInv, IInv, TypeOK
      <4>2. FlightIsAwaited' /\ DownWhenTold'
        BY <1>1, <2>1, <2>2, <2>3, <3>1, <3>3, <4>1 DEF FlightIsAwaited, DownWhenTold, InFlight, Alive
      <4>3. StopMeetsWhole' /\ OnlyJoined' /\ OneWait' /\ OnlyThisService' /\ ThreadHasFlag'
        BY <1>1, <1>2, <3>1, <3>3 DEF StopMeetsWhole, OnlyJoined, OneWait, OnlyThisService, ThreadHasFlag, Alive
      <4>4. FdIsServing'
        BY <1>1, <1>2, <3>1, <3>3 DEF FdIsServing, Alive, Open
      <4> QED BY <4>2, <4>3, <4>4 DEF TInv
    <3> QED BY <2>6, <3>2, <3>3 DEF NativeStartCreate
  <2>7. CASE StartRefused(k)
    <3>1. /\ UNCHANGED native /\ job[k] = "refused" /\ job'[k] = "done"
          /\ isRunning' = [isRunning EXCEPT ![service] = FALSE]
      BY <2>1, <2>7 DEF StartRefused, TInv, IInv, TypeOK
    <3>2. \A s \in Services : ~isRunning'[s]
      BY <2>1, <3>1 DEF TInv, IInv, TypeOK
    <3>3. \A m \in Attempts : ~Alive(m) /\ ~Open(m)
      BY <1>2, <2>1, <3>1 DEF FdIsServing, Alive
    <3>4. AllDown'
      BY <2>3, <3>1, <3>2, <3>3 DEF AllDown, InFlight, Alive, Open
    <3>5. FlightIsAwaited' /\ DownWhenTold' /\ OneWait' /\ OnlyThisService'
      BY <1>1, <1>2, <2>1, <3>2, <3>4 DEF FlightIsAwaited, DownWhenTold, OneWait, OnlyThisService, AllDown
    <3>6. (StopMeetsWhole /\ ThreadHasFlag /\ FdIsServing /\ OnlyJoined)'
      BY <1>1, <1>2, <3>1 DEF StopMeetsWhole, ThreadHasFlag, FdIsServing, OnlyJoined, Alive, Open
    <3> QED BY <3>5, <3>6 DEF TInv
  <2>8. CASE StartSucceeded(k)
    <3>1. /\ UNCHANGED native /\ job'[k] = "poll"
          /\ isRunning' = [isRunning EXCEPT ![service] = TRUE]
      BY <2>1, <2>8 DEF StartSucceeded, TInv, IInv, TypeOK
    <3>2. \A s \in Services : isRunning'[s] <=> s = service
      BY <2>1, <3>1 DEF TInv, IInv, TypeOK
    <3>3. FlightIsAwaited' /\ DownWhenTold' /\ OneWait' /\ OnlyThisService'
      BY <1>1, <1>2, <2>1, <2>2, <2>3, <2>4, <3>1, <3>2 DEF FlightIsAwaited, DownWhenTold, OneWait, OnlyThisService, InFlight
    <3>4. (StopMeetsWhole /\ ThreadHasFlag /\ FdIsServing /\ OnlyJoined)'
      BY <1>1, <1>2, <3>1 DEF StopMeetsWhole, ThreadHasFlag, FdIsServing, OnlyJoined, Alive, Open
    <3> QED BY <3>3, <3>4 DEF TInv
  <2> QED BY <1>3, <2>5, <2>6, <2>7, <2>8 DEF Job, PollEnds, InFlight
<1>4. CASE ~InFlight(k)
  <2>1. UNCHANGED <<native, isRunning>> /\ job'[k] = "done"
    BY <1>4 DEF Job, NativeStartCheck, NativeStartCreate, StartRefused, StartSucceeded, PollEnds, InFlight, TInv, IInv, TypeOK
  <2>2. \A m \in Attempts : InFlight(m)' <=> InFlight(m)
    BY <1>1, <1>4, <2>1 DEF InFlight
  <2>3. AllDown' <=> AllDown
    BY <2>1, <2>2 DEF AllDown, Alive, Open
  <2>4. DownWhenTold'
    BY <1>1, <2>1, <2>2, <2>3 DEF TInv, DownWhenTold
  <2>5. FlightIsAwaited'
    BY <1>1, <1>4, <2>1 DEF TInv, FlightIsAwaited, InFlight, Alive
  <2>6. (StopMeetsWhole /\ ThreadHasFlag /\ FdIsServing /\ OnlyJoined /\ OneWait /\ OnlyThisService)'
    BY <1>1, <1>2, <2>1 DEF StopMeetsWhole, ThreadHasFlag, FdIsServing, OnlyJoined, OneWait, OnlyThisService, Alive, Open
  <2> QED BY <2>4, <2>5, <2>6 DEF TInv
<1> QED BY <1>3, <1>4

(* A step of a thread.  While one lives nothing else is in flight but the  *)
(* start that created it, and nobody has been told that all is down.       *)
LEMMA ThreadKeepsDown ==
  ASSUME TInv, IInv', NEW k \in Attempts, ThreadStep(k) \/ LoopFails(k)
  PROVE  TInv'
<1> USE DEF native, jobs, screen, stopper, MainFree
<1> DEFINE Goes(from, to) == ThreadGoes(k, from, to)
<1>1. \E from \in ThreadPC \ {"none", "ended"}, to \in ThreadPC \ {"none", "created"} :
        Goes(from, to) /\ (stop # "idle" => from \notin {"created", "opening", "binding"})
                       /\ (to \in {"opening", "binding"} => from \in {"created", "opening"})
  <2>1. \A from, to \in ThreadPC :
          Goes(from, to) => (stop # "idle" => from \notin {"created", "opening", "binding"})
    BY DEF ThreadGoes, TInv, StopMeetsWhole
  <2>2. \/ Goes("created", "opening") \/ Goes("opening", "binding") \/ Goes("binding", "serving")
        \/ Goes("binding", "exit") \/ Goes("serving", "closing") \/ Goes("closing", "exit")
        \/ Goes("exit", "ended")
    BY DEF ThreadStep, ThreadStarts, Opening, Binds, BindFails, LoopWoken, LoopFails, LoopCloses, ThreadExits
  <2> HIDE DEF Goes
  <2> QED BY <2>1, <2>2 DEF ThreadPC
<1>2. /\ UNCHANGED <<serverThread, jobs, screen, stopper, isRunning>>
      /\ Alive(k) /\ \A m \in Attempts \ {k} : thread'[m] = thread[m]
      /\ stop # "idle" => thread[k] \notin {"created", "opening", "binding"}
      /\ thread'[k] \notin {"none", "created"}
      /\ thread'[k] \in {"opening", "binding"} => thread[k] \in {"created", "opening"}
  BY <1>1 DEF ThreadGoes, Alive, TInv, IInv, TypeOK, ThreadPC
<1>3. \A m \in Attempts \ {k} : ~Alive(m)
  BY <1>2 DEF TInv, OnlyJoined
<1>4. OneWait' /\ OnlyThisService' /\ OnlyJoined'
  BY <1>2, <1>3 DEF TInv, OneWait, OnlyThisService, OnlyJoined, Alive
<1>5. ~AllDown
  BY <1>2 DEF AllDown
<1>6. DownWhenTold'
  BY <1>2, <1>5 DEF TInv, DownWhenTold, InFlight
<1>7. FlightIsAwaited'
  BY <1>2 DEF TInv, FlightIsAwaited, InFlight
<1>8. StopMeetsWhole'
  BY <1>2 DEF TInv, StopMeetsWhole, Alive
<1>9. ThreadHasFlag'
  <2>1. ThreadStarts(k) => running'
    BY DEF ThreadStarts
  <2>2. Opening(k) \/ Binds(k) \/ BindFails(k) \/ LoopWoken(k) \/ LoopFails(k) \/ LoopCloses(k) =>
          running' = running /\ thread[k] # "created"
    BY DEF Opening, Binds, BindFails, LoopWoken, LoopFails, LoopCloses, ThreadGoes
  <2>3. ThreadExits(k) => ~Alive(k)'
    BY DEF ThreadExits, ThreadGoes, Alive, TInv, IInv, TypeOK
  <2> QED BY <1>2, <1>3, <2>1, <2>2, <2>3 DEF ThreadStep, TInv, ThreadHasFlag, Alive
<1>10. FdIsServing'
  <2>1. \A m \in Attempts \ {k} : ~Open(m) /\ thread'[m] \notin {"serving", "closing"}
    BY <1>2, <1>3 DEF TInv, FdIsServing, Alive
  <2>2. socket \in [Attempts -> {"none", "listening", "shut", "closed"}]
        /\ thread \in [Attempts -> ThreadPC]
    BY DEF TInv, IInv, TypeOK
  <2>3. (Open(k) => thread[k] \in {"serving", "closing"}) /\ (thread[k] \in {"serving", "closing"} => fd = k)
    BY DEF TInv, FdIsServing
  <2>4. CASE UNCHANGED socket
    <3>1. ThreadStarts(k) \/ Opening(k) \/ BindFails(k) =>
            thread'[k] \notin {"serving", "closing"} /\ thread[k] \notin {"serving", "closing"}
      BY <2>2 DEF ThreadStarts, Opening, BindFails, ThreadGoes
    <3>2. LoopWoken(k) \/ LoopFails(k) => thread'[k] = "closing" /\ thread[k] = "serving" /\ fd' = fd
      BY <2>2 DEF LoopWoken, LoopFails, ThreadGoes
    <3>3. CASE Binds(k)
      <4>1. socket'[k] = "listening" /\ thread[k] = "binding" /\ thread'[k] = "serving" /\ fd' = k
        BY <2>2, <3>3 DEF Binds, ThreadGoes
      <4> QED BY <2>1, <2>4, <4>1 DEF FdIsServing, Open
    <3>4. LoopCloses(k) \/ ThreadExits(k) =>
            thread'[k] \notin {"serving", "closing"} /\ (Open(k)' => FALSE)
      BY <2>2, <2>3, <2>4 DEF LoopCloses, ThreadExits, ThreadGoes, Close, Open
    <3> QED BY <2>1, <2>3, <2>4, <3>1, <3>2, <3>3, <3>4 DEF FdIsServing, Open, ThreadStep
  <2>5. CASE Binds(k)
    <3>1. socket'[k] = "listening" /\ thread'[k] = "serving" /\ fd' = k
          /\ \A m \in Attempts \ {k} : socket'[m] = socket[m]
      BY <2>2, <2>5 DEF Binds, ThreadGoes
    <3> QED BY <2>1, <3>1 DEF FdIsServing, Open
  <2>6. CASE LoopCloses(k) \/ ThreadExits(k)
    <3>1. /\ thread[k] \in {"closing", "exit"} /\ thread'[k] \in {"exit", "ended"}
          /\ socket' = Close(fd)
      BY <2>2, <2>6 DEF LoopCloses, ThreadExits, ThreadGoes
    <3>2. ~Open(k)' /\ \A m \in Attempts \ {k} : Open(m)' => Open(m)
      BY <2>2, <2>3, <3>1 DEF Close, Open
    <3> QED BY <2>1, <3>1, <3>2 DEF FdIsServing
  <2> QED BY <2>4, <2>5, <2>6 DEF ThreadStep, ThreadStarts, Opening, BindFails, LoopWoken, LoopFails
<1> QED BY <1>4, <1>6, <1>7, <1>8, <1>9, <1>10 DEF TInv

LEMMA TimelyStep == TInv /\ [TimelyNext]_vars => TInv'
<1> SUFFICES ASSUME TInv, [TimelyNext]_vars PROVE TInv'
  OBVIOUS
<1>1. IInv'
  BY StepIInv, TimelyIsNext DEF TInv
<1>2. CASE UNCHANGED vars
  <2> USE <1>2 DEF vars, native, jobs, screen, stopper
  <2>1. (OneWait /\ FlightIsAwaited /\ StopMeetsWhole /\ ThreadHasFlag)'
    BY DEF TInv, OneWait, FlightIsAwaited, StopMeetsWhole, ThreadHasFlag, MainFree, InFlight, Alive
  <2>2. (DownWhenTold /\ FdIsServing /\ OnlyThisService /\ OnlyJoined)'
    BY DEF TInv, DownWhenTold, AllDown, FdIsServing, OnlyThisService, OnlyJoined, MainFree, InFlight, Alive, Open
  <2> QED BY <1>1, <2>1, <2>2 DEF TInv
<1>3. CASE TimelyNext
  BY <1>1, <1>3, MainKeepsDown, StoppingKeepsDown, JobKeepsDown, ThreadKeepsDown DEF TimelyNext, Background
<1> QED BY <1>2, <1>3

(* While no user stops or leaves in the middle of a start, there is one    *)
(* server thread or none, the one that nativeStop joins; the open socket   *)
(* is the one it shuts; and "Server Stopped" means that nothing is left,   *)
(* for any number of starts and services.                                  *)
THEOREM OneServerAlways == TimelySpec => []OneServerOrNone
<1>1. TInv => OneServerOrNone
  <2> SUFFICES ASSUME TInv PROVE OneServerOrNone
    OBVIOUS
  <2>1. TypeOK
    BY DEF TInv, IInv
  <2>2. OneServer
    BY DEF TInv, OneServer, OnlyJoined, FdIsServing, Open, Alive
  <2>3. StoppedIsDown
    BY <2>1 DEF TInv, DownWhenTold, AllDown, StoppedIsDown, Open, InFlight, TypeOK, JobPC
  <2> QED BY <2>1, <2>2, <2>3 DEF OneServerOrNone
<1> QED BY <1>1, InitTInv, TimelyStep, PTL DEF TimelySpec

-----------------------------------------------------------------------------
(* The switch.  A thread exists or not; the screen's states are its own.   *)
Up == \E k \in Attempts : Alive(k)

LEMMA SwitchStep ==
  ASSUME TInv, TInv', [TimelyNext]_vars
  PROVE  [Switch!Next]_(Switch!vars)
<1> USE DEF native, jobs, screen, stopper, MainFree
<1> SUFFICES \/ UNCHANGED <<shown, Up>>
             \/ shown = "STOPPED" /\ shown' = "STARTING" /\ Up' = Up
             \/ shown = "STARTING" /\ ~Up /\ Up' /\ shown' = shown
             \/ shown = "STARTING" /\ shown' = "RUNNING" /\ Up' = Up
             \/ Up /\ ~Up' /\ shown' = shown
             \/ shown # "STOPPED" /\ ~Up /\ shown' = "STOPPED" /\ Up' = Up
  BY DEF Up, Switch!Next, Switch!Press, Switch!ComeUp, Switch!Show, Switch!GoDown, Switch!Stopped, Switch!vars
<1>1. thread' = thread => Up' = Up
  BY DEF Up, Alive
<1>2. Up \in BOOLEAN /\ Up' \in BOOLEAN
  BY DEF Up
<1>3. CASE ToggleStart
  BY <1>1, <1>3 DEF ToggleStart
<1>4. CASE SeesRunning
  BY <1>1, <1>4 DEF SeesRunning, TInv, OneWait
<1>5. CASE Settled /\ GivesUp
  <2>1. AllDown /\ shown = "STARTING"
    BY <1>5 DEF Settled, GivesUp, Seen, InFlight, TInv, OneWait, DownWhenTold
  <2>2. ~Up
    BY <2>1 DEF AllDown, Up
  <2> QED BY <1>1, <1>5, <2>1, <2>2 DEF GivesUp
<1>6. CASE StopReturn
  <2>1. ~Up
    BY <1>6 DEF StopReturn, TInv, StopMeetsWhole, Up
  <2>2. shown' = "STOPPED" /\ thread' = thread
    BY <1>6 DEF StopReturn
  <2> QED BY <1>1, <2>1, <2>2
<1>7. CASE \/ ServiceConnected \/ StartServer \/ StopCheck \/ StopShutdown \/ StopJoin
           \/ ToggleStop \/ Leave \/ UNCHANGED vars
  BY <1>1, <1>7 DEF ServiceConnected, StartServer, StopCheck, StopShutdown, StopJoin, ToggleStop, Leave, vars
<1>8. ASSUME NEW k \in Attempts, Job(k)
      PROVE  shown' = shown /\ (Up' = Up \/ (shown = "STARTING" /\ ~Up /\ Up'))
  <2>1. shown' = shown
    BY <1>8 DEF Job, NativeStartCheck, NativeStartCreate, StartRefused, StartSucceeded, PollEnds
  <2>2. CASE thread' = thread
    BY <1>1, <2>1, <2>2
  <2>3. CASE thread' # thread
    <3>1. job[k] = "create" /\ thread' = [thread EXCEPT ![k] = "created"]
      BY <1>8, <2>3 DEF Job, NativeStartCheck, NativeStartCreate, StartRefused, StartSucceeded, PollEnds
    <3>2. ~Up /\ shown = "STARTING"
      BY <3>1 DEF TInv, FlightIsAwaited, OneWait, InFlight, Up
    <3>3. Alive(k)'
      BY <3>1 DEF Alive, TInv, IInv, TypeOK
    <3> QED BY <2>1, <3>2, <3>3 DEF Up
  <2> QED BY <2>2, <2>3
<1>9. ASSUME NEW k \in Attempts, ThreadStep(k) \/ LoopFails(k)
      PROVE  shown' = shown /\ Up
  <2>1. \E from \in ThreadPC \ {"none", "ended"}, to \in ThreadPC : ThreadGoes(k, from, to)
    BY <1>9 DEF ThreadStep, ThreadStarts, Opening, Binds, BindFails, LoopWoken, LoopFails, LoopCloses, ThreadExits, ThreadPC
  <2> QED BY <2>1 DEF ThreadGoes, Up, Alive
<1> QED BY <1>2, <1>3, <1>4, <1>5, <1>6, <1>7, <1>8, <1>9
        DEF TimelyNext, Background, Stopping, Delayed, SettledLeave

(* What the switch promises, but for the answer a press gets in the end: a *)
(* server comes up only after a press, and STOPPED is shown only when none *)
(* is up (toggleServer, waitForRunning, stopServer).                       *)
THEOREM SwitchIsTrue == TimelySpec => Switch!Init /\ [][Switch!Next]_(Switch!vars)
<1>1. Init => Switch!Init
  BY DEF Init, Switch!Init, Alive
<1> QED BY <1>1, InitTInv, TimelyStep, SwitchStep, PTL DEF TimelySpec
=============================================================================
