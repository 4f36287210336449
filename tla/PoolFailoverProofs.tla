------------------------- MODULE PoolFailoverProofs -------------------------
(***************************************************************************)
(* The safety invariants of PoolFailover, for any number of pools, sockets *)
(* and donation windows and any bound on the pending timers.               *)
(*                                                                         *)
(* The handlers of PoolFailover thread a world through each other, so the  *)
(* proof has one lemma per handler: from a well-formed world it leaves     *)
(* well-formed connections.  The actions then only build a world and say   *)
(* which pool they leave.                                                  *)
(***************************************************************************)
EXTENDS PoolFailover, TLAPS, WellFoundedInduction

\* Connections: a stored job has a socket, a silent socket has its timeout.
ConnOK(so, lj, fj) ==
    /\ so \in [Pools -> Socks \cup {NoSock}]
    /\ lj \in [Pools -> AllJobs \cup {"none"}]
    /\ fj \in [Pools -> SUBSET Socks]
    /\ \A p \in Pools : lj[p] # "none" => so[p] # NoSock
    /\ \A p \in Pools : so[p] # NoSock /\ lj[p] = "none" => so[p] \in fj[p]

Worlds ==
    [active : Pools,
     socket : [Pools -> Socks \cup {NoSock}],
     lastJob : [Pools -> AllJobs \cup {"none"}],
     firstJobTimer : [Pools -> SUBSET Socks],
     closeTimer : [Pools -> Seq(Socks)],
     inWindow : BOOLEAN]

WorldOK(w) == w \in Worlds /\ ConnOK(w.socket, w.lastJob, w.firstJobTimer)

TimersOK == throttled \in [Pools -> BOOLEAN] /\ connectTimer \in [Pools -> BOOLEAN]

\* The end timer of the current window is pending, so that the timer of a window
\* that was replaced before its end never is the last one.  Only a donation pool
\* opens windows.
WindowEndPending ==
    /\ until # NoWindow => until \in Pending(windowTimer)
    /\ windowTimer # <<>> => Donate \in Pools

IInv ==
    /\ TypeOK
    /\ JobNeedsSocket
    /\ SilentSocketWatched
    /\ NeverStranded
    /\ DonationConfined
    /\ WindowEndPending

-----------------------------------------------------------------------------
(* Operators *)

\* A non-empty set of naturals has a least element, and Least returns it.
LEMMA LeastIn ==
    ASSUME NEW S \in SUBSET Nat, S # {}
    PROVE  Least(S) \in S
<1> DEFINE R == {ss \in Nat \X Nat : ss[1] < ss[2]}
<1>1. IsWellFoundedOn(R, Nat)
  BY NatLessThanWellFounded, Zenon DEF OpToRel
<1>2. PICK x \in S : \A y \in S : ~(<<y, x>> \in R)
  BY <1>1, WFMin
<1>3. ASSUME NEW y \in S PROVE x <= y
  <2>1. x \in Nat /\ y \in Nat
    OBVIOUS
  <2>2. y < x => <<y, x>> \in R
    BY <2>1
  <2> QED
    BY <1>2, <2>1, <2>2
<1> QED
  BY <1>3 DEF Least

\* The pool to resume: a configured pool with a stored job, never the donation pool.
LEMMA AlivePoolProps ==
    ASSUME NEW w \in Worlds, SomeAlive(w)
    PROVE  /\ AlivePool(w) \in Pools \ {Donate}
           /\ w.lastJob[AlivePool(w)] # "none"
<1>1. CASE w.lastJob[Primary] # "none"
  BY <1>1, PoolAssumption DEF AlivePool
<1>2. CASE w.lastJob[Primary] = "none"
  <2>1. AliveBackups(w) # {}
    BY <1>2 DEF SomeAlive
  <2>2. AliveBackups(w) \in SUBSET Nat
    BY PoolAssumption DEF AliveBackups, Pools
  <2>3. Least(AliveBackups(w)) \in AliveBackups(w)
    BY <2>1, <2>2, LeastIn
  <2> QED
    BY <1>2, <2>3 DEF AlivePool, AliveBackups
<1> QED
  BY <1>1, <1>2

\* Next pool: a configured pool, never the donation pool.
LEMMA NextPoolProps ==
    ASSUME NEW p \in Pools
    PROVE  nextNonDonatePool(p) \in Pools \ {Donate}
<1>1. Count \in Nat /\ Count > 0 /\ p \in Nat /\ p < Count
  BY PoolAssumption DEF Pools
<1>2. (p + 1) % Count = IF p + 1 = Count THEN 0 ELSE p + 1
  BY <1>1
<1>3. (p + 1) % Count \in Pools
  BY <1>1, <1>2 DEF Pools
<1>4. CASE (p + 1) % Count # Donate
  BY <1>3, <1>4 DEF nextNonDonatePool
<1>5. CASE (p + 1) % Count = Donate
  <2>1. Count >= 2
    BY <1>3, <1>5, PoolAssumption DEF Pools
  <2>2. (p + 2) % Count = IF p + 2 >= Count THEN p + 2 - Count ELSE p + 2
    BY <1>1, <2>1
  <2> QED
    BY <1>1, <1>2, <1>5, <2>1, <2>2 DEF nextNonDonatePool, Pools
<1> QED
  BY <1>4, <1>5

-----------------------------------------------------------------------------
(* Handlers *)

\* KeepConnections writes the world's connections.
LEMMA KeepOK ==
    ASSUME NEW w, WorldOK(w), KeepConnections(w)
    PROVE  ConnOK(socket', lastJob', firstJobTimer')
BY DEF WorldOK, KeepConnections

\* connect_pool opens at most the one connection, and touches no open one.
LEMMA ConnectPoolOK ==
    ASSUME NEW w, NEW p \in Pools, WorldOK(w), TimersOK, connect_pool(p, w)
    PROVE  /\ ConnOK(socket', lastJob', firstJobTimer')
           /\ TimersOK'
           /\ \A q \in Pools : w.socket[q] # NoSock =>
                socket'[q] = w.socket[q] /\ lastJob'[q] = w.lastJob[q]
           /\ \A q \in Pools \ {p} : connectTimer'[q] = connectTimer[q]
           /\ donationConnectionAllowed(p, w) => socket'[p] # NoSock
<1>1. connectTimer' = [connectTimer EXCEPT ![p] = FALSE]
  BY DEF connect_pool
<1>2. CASE (~donationConnectionAllowed(p, w) \/ w.socket[p] # NoSock)
           /\ KeepConnections(w) /\ UNCHANGED throttled
  <2>1. ConnOK(socket', lastJob', firstJobTimer')
    BY <1>2, KeepOK
  <2> QED
    BY <1>1, <1>2, <2>1 DEF KeepConnections, TimersOK
<1>3. ASSUME w.socket[p] = NoSock,
             NEW s \in Socks,
             socket' = [w.socket EXCEPT ![p] = s],
             firstJobTimer' = [w.firstJobTimer EXCEPT ![p] = @ \cup {s}],
             lastJob' = [w.lastJob EXCEPT ![p] = "none"],
             throttled' = [throttled EXCEPT ![p] = TRUE]
      PROVE  /\ ConnOK(socket', lastJob', firstJobTimer')
             /\ TimersOK'
             /\ \A q \in Pools : w.socket[q] # NoSock =>
                  socket'[q] = w.socket[q] /\ lastJob'[q] = w.lastJob[q]
             /\ \A q \in Pools \ {p} : connectTimer'[q] = connectTimer[q]
             /\ donationConnectionAllowed(p, w) => socket'[p] # NoSock
  <2>1. ConnOK(socket', lastJob', firstJobTimer')
    BY <1>3, SocketAssumption DEF WorldOK, ConnOK
  <2>2. TimersOK'
    BY <1>1, <1>3 DEF TimersOK
  <2>3. socket'[p] # NoSock
    BY <1>3, SocketAssumption DEF WorldOK, ConnOK
  <2>4. \A q \in Pools : w.socket[q] # NoSock =>
            socket'[q] = w.socket[q] /\ lastJob'[q] = w.lastJob[q]
    BY <1>3 DEF WorldOK, ConnOK
  <2> QED
    BY <1>1, <2>1, <2>2, <2>3, <2>4 DEF TimersOK
<1> QED
  BY <1>2, <1>3 DEF connect_pool

\* connectPoolThrottle connects, or arms the timer that will.
LEMMA ThrottleOK ==
    ASSUME NEW w, NEW p \in Pools, WorldOK(w), TimersOK, connectPoolThrottle(p, w)
    PROVE  /\ ConnOK(socket', lastJob', firstJobTimer')
           /\ TimersOK'
           /\ \A q \in Pools : w.socket[q] # NoSock =>
                socket'[q] = w.socket[q] /\ lastJob'[q] = w.lastJob[q]
           /\ \A q \in Pools \ {p} : connectTimer'[q] = connectTimer[q]
           /\ donationConnectionAllowed(p, w) => socket'[p] # NoSock \/ connectTimer'[p]
<1>1. CASE connect_pool(p, w)
  BY <1>1, ConnectPoolOK
<1>2. CASE ~donationConnectionAllowed(p, w) /\ KeepConnections(w)
           /\ UNCHANGED <<throttled, connectTimer>>
  <2>1. ConnOK(socket', lastJob', firstJobTimer')
    BY <1>2, KeepOK
  <2> QED
    BY <1>2, <2>1 DEF KeepConnections, TimersOK
<1>3. CASE KeepConnections(w) /\ connectTimer' = [connectTimer EXCEPT ![p] = TRUE]
           /\ UNCHANGED throttled
  <2>1. ConnOK(socket', lastJob', firstJobTimer')
    BY <1>3, KeepOK
  <2> QED
    BY <1>3, <2>1 DEF KeepConnections, TimersOK
<1> QED
  BY <1>1, <1>2, <1>3 DEF connectPoolThrottle

\* clear_pool_connection and pool_close_wait keep the world well-formed.
LEMMA ClearOK ==
    ASSUME NEW w, NEW p \in Pools, WorldOK(w)
    PROVE  WorldOK(clear_pool_connection(p, w))
BY DEF WorldOK, Worlds, ConnOK, clear_pool_connection

LEMMA CloseWaitOK ==
    ASSUME NEW w, NEW p \in Pools, WorldOK(w)
    PROVE  /\ WorldOK(pool_close_wait(p, w))
           /\ pool_close_wait(p, w).active = w.active
           /\ pool_close_wait(p, w).socket = w.socket
           /\ pool_close_wait(p, w).lastJob = w.lastJob
           /\ pool_close_wait(p, w).firstJobTimer = w.firstJobTimer
           /\ pool_close_wait(p, w).inWindow = w.inWindow
<1>1. w.closeTimer \in [Pools -> Seq(Socks)] /\ w.socket[p] \in Socks \cup {NoSock}
  BY DEF WorldOK, Worlds
<1>2. CASE w.socket[p] = NoSock
  BY <1>2 DEF pool_close_wait
<1>3. CASE w.socket[p] # NoSock
  <2>1. Append(w.closeTimer[p], w.socket[p]) \in Seq(Socks)
    BY <1>1, <1>3
  <2> DEFINE v == [w EXCEPT !.closeTimer[p] = Append(@, w.socket[p])]
  <2>2. pool_close_wait(p, w) = v
    BY <1>3 DEF pool_close_wait
  <2>3. /\ v \in Worlds
        /\ v.active = w.active /\ v.socket = w.socket /\ v.lastJob = w.lastJob
        /\ v.firstJobTimer = w.firstJobTimer /\ v.inWindow = w.inWindow
    BY <1>1, <2>1 DEF WorldOK, Worlds
  <2> HIDE DEF v
  <2> QED
    BY <2>2, <2>3 DEF WorldOK
<1> QED
  BY <1>2, <1>3

\* What leaving pool p from world w establishes, whichever branch switchPool takes.
Switched(p, w) ==
    /\ active' \in Pools
    /\ ConnOK(socket', lastJob', firstJobTimer')
    /\ TimersOK'
    /\ closeTimer' \in [Pools -> Seq(Socks)]
    /\ workers' \in Pools \cup {NoPool}
    /\ halted' \in BOOLEAN
    /\ ~halted' => socket'[active'] # NoSock \/ connectTimer'[active']
    /\ active' = Donate => /\ w.active = Donate /\ p # Donate
                           /\ lastJob'[Donate] = w.lastJob[Donate]

\* The active pool of world w, unless it is p, has a way forward.
Sound(p, w) ==
    p # w.active => w.socket[w.active] # NoSock \/ connectTimer[w.active]

LEMMA LeaveInactiveOK ==
    ASSUME NEW w, NEW p \in Pools, WorldOK(w), TypeOK, Sound(p, w), LeaveInactive(p, w)
    PROVE  Switched(p, w)
<1>1. ConnOK(socket', lastJob', firstJobTimer')
  BY KeepOK DEF LeaveInactive
<1>2. closeTimer' \in [Pools -> Seq(Socks)]
  BY CloseWaitOK DEF LeaveInactive, WorldOK, Worlds
<1> QED
  BY <1>1, <1>2 DEF Switched, Sound, LeaveInactive, KeepConnections, TypeOK, TimersOK,
                    WorldOK, Worlds

LEMMA ResumeAliveOK ==
    ASSUME NEW w, NEW p \in Pools, WorldOK(w), TypeOK, ResumeAlive(p, w)
    PROVE  Switched(p, w)
<1>1. ConnOK(socket', lastJob', firstJobTimer')
  BY KeepOK DEF ResumeAlive
<1>2. closeTimer' \in [Pools -> Seq(Socks)]
  BY CloseWaitOK DEF ResumeAlive, WorldOK, Worlds
<1>3. /\ active' \in Pools \ {Donate}
      /\ lastJob'[active'] # "none"
      /\ workers' = active'
  BY AlivePoolProps DEF ResumeAlive, KeepConnections, WorldOK
<1>4. socket'[active'] # NoSock
  BY <1>1, <1>3 DEF ConnOK
<1> QED
  BY <1>1, <1>2, <1>3, <1>4 DEF Switched, ResumeAlive, TypeOK, TimersOK

LEMMA ConnectNextOK ==
    ASSUME NEW w, NEW p \in Pools, WorldOK(w), TypeOK, ConnectNext(p, w)
    PROVE  Switched(p, w)
<1> DEFINE n == nextNonDonatePool(p)
<1>1. n \in Pools \ {Donate}
  BY NextPoolProps
<1>2. TimersOK
  BY DEF TypeOK, TimersOK
<1>3. connectPoolThrottle(n, w) /\ active' = n
  BY DEF ConnectNext
<1> HIDE DEF n
<1>4. /\ ConnOK(socket', lastJob', firstJobTimer')
      /\ TimersOK'
      /\ donationConnectionAllowed(n, w) => socket'[n] # NoSock \/ connectTimer'[n]
  BY <1>1, <1>2, <1>3, ThrottleOK
<1>5. donationConnectionAllowed(n, w)
  BY <1>1 DEF donationConnectionAllowed
<1>6. closeTimer' \in [Pools -> Seq(Socks)]
  BY CloseWaitOK DEF ConnectNext, WorldOK, Worlds
<1>7. workers' \in Pools \cup {NoPool} /\ halted' \in BOOLEAN
  BY DEF ConnectNext, TypeOK
<1> QED
  BY <1>1, <1>3, <1>4, <1>5, <1>6, <1>7 DEF Switched

LEMMA UncaughtOK ==
    ASSUME NEW w, NEW p \in Pools, WorldOK(w), TypeOK, Uncaught(p, w)
    PROVE  Switched(p, w)
<1>1. ConnOK(socket', lastJob', firstJobTimer')
  BY KeepOK DEF Uncaught
<1>2. closeTimer' \in [Pools -> Seq(Socks)]
  BY CloseWaitOK DEF Uncaught, WorldOK, Worlds
<1>3. active' \in Pools \ {Donate}
  BY AlivePoolProps DEF Uncaught, ThrowsOnResume, WorldOK
<1> QED
  BY <1>1, <1>2, <1>3 DEF Switched, Uncaught, ThrowsOnResume, TypeOK, TimersOK

LEMMA SwitchPoolOK ==
    ASSUME NEW w, NEW p \in Pools, WorldOK(w), TypeOK, Sound(p, w), switchPool(p, w)
    PROVE  Switched(p, w)
BY LeaveInactiveOK, ResumeAliveOK, ConnectNextOK, UncaughtOK DEF switchPool

\* pool_err drops the connection of p first; the others keep theirs.
LEMMA PoolErrOK ==
    ASSUME NEW w, NEW p \in Pools, WorldOK(w), TypeOK, Sound(p, w), pool_err(p, w)
    PROVE  Switched(p, w)
<1> DEFINE c == clear_pool_connection(p, w)
<1>1. WorldOK(c) /\ switchPool(p, c)
  BY ClearOK DEF pool_err
<1>2. /\ c.active = w.active
      /\ \A q \in Pools \ {p} : c.socket[q] = w.socket[q] /\ c.lastJob[q] = w.lastJob[q]
  BY DEF clear_pool_connection, WorldOK, Worlds
<1>3. w.active \in Pools
  BY DEF WorldOK, Worlds
<1> HIDE DEF c
<1>4. Sound(p, c)
  BY <1>2, <1>3 DEF Sound
<1>5. Switched(p, c)
  BY <1>1, <1>4, SwitchPoolOK
<1> QED
  BY <1>2, <1>3, <1>5 DEF Switched

-----------------------------------------------------------------------------
(* Actions *)

\* The world a callback finds is well-formed.
LEMMA WorldIsOK ==
    ASSUME IInv
    PROVE  /\ WorldOK(World)
           /\ World.active = active /\ World.socket = socket /\ World.lastJob = lastJob
           /\ World.firstJobTimer = firstJobTimer /\ World.closeTimer = closeTimer
BY DEF IInv, TypeOK, JobNeedsSocket, SilentSocketWatched, World, WorldOK, Worlds, ConnOK,
       InWindow

\* The connections of the next state, read back as the invariants they stand for.
LEMMA ConnInv ==
    ASSUME ConnOK(socket', lastJob', firstJobTimer')
    PROVE  /\ socket' \in [Pools -> Socks \cup {NoSock}]
           /\ lastJob' \in [Pools -> AllJobs \cup {"none"}]
           /\ firstJobTimer' \in [Pools -> SUBSET Socks]
           /\ JobNeedsSocket'
           /\ SilentSocketWatched'
BY DEF ConnOK, JobNeedsSocket, SilentSocketWatched

WindowsOK ==
    /\ until \in Windows \cup {NoWindow}
    /\ expired \in BOOLEAN
    /\ windowTimer \in Seq(Windows)
    /\ WindowEndPending

\* A switch preserves the invariant if the window, as it leaves it, still covers
\* a donation pool that stays active.
LEMMA SwitchedInv ==
    ASSUME NEW w, NEW p \in Pools, Switched(p, w), WindowsOK',
           w.active = Donate => w.lastJob[Donate] # "none",
           w.active = Donate /\ p # Donate => until' # NoWindow
    PROVE  IInv'
<1>1. TypeOK' /\ JobNeedsSocket' /\ SilentSocketWatched'
  BY ConnInv DEF Switched, WindowsOK, TypeOK, TimersOK
<1>2. NeverStranded'
  BY DEF Switched, NeverStranded
<1>3. DonationConfined'
  BY DEF Switched, DonationConfined, WindowsOK, WindowEndPending
<1> QED
  BY <1>1, <1>2, <1>3 DEF IInv, WindowsOK

LEMMA InitOK == Init => IInv
<1> SUFFICES ASSUME Init PROVE IInv
  OBVIOUS
<1>1. PICK s \in Socks :
        /\ socket = [p \in Pools |-> IF p = Primary THEN s ELSE NoSock]
        /\ firstJobTimer = [p \in Pools |-> IF p = Primary THEN {s} ELSE {}]
  BY DEF Init
<1>2. TypeOK
  <2>1. <<>> \in Seq(Socks) /\ <<>> \in Seq(Windows)
    OBVIOUS
  <2>2. lastJob \in [Pools -> AllJobs \cup {"none"}] /\ closeTimer \in [Pools -> Seq(Socks)]
    BY <2>1 DEF Init
  <2>3. socket \in [Pools -> Socks \cup {NoSock}] /\ firstJobTimer \in [Pools -> SUBSET Socks]
    BY <1>1
  <2>4. throttled \in [Pools -> BOOLEAN] /\ connectTimer \in [Pools -> BOOLEAN]
    BY DEF Init
  <2> QED
    BY <2>1, <2>2, <2>3, <2>4, PoolAssumption DEF Init, TypeOK
<1>3. JobNeedsSocket /\ SilentSocketWatched
  BY <1>1 DEF Init, JobNeedsSocket, SilentSocketWatched
<1>4. NeverStranded
  BY <1>1, PoolAssumption, SocketAssumption DEF Init, NeverStranded
<1>5. DonationConfined /\ WindowEndPending
  BY PoolAssumption DEF Init, DonationConfined, WindowEndPending
<1> QED
  BY <1>2, <1>3, <1>4, <1>5 DEF IInv

LEMMA SocketFailsOK ==
    ASSUME IInv, NEW p \in Pools, SocketFails(p)
    PROVE  IInv'
<1>1. pool_err(p, World) /\ UNCHANGED windowVars /\ ~halted
  BY DEF SocketFails
<1>2. WorldOK(World) /\ Sound(p, World)
  BY <1>1, WorldIsOK DEF IInv, NeverStranded, Sound
<1>3. Switched(p, World)
  BY <1>1, <1>2, PoolErrOK DEF IInv
<1>4. WindowsOK'
  BY <1>1 DEF IInv, TypeOK, WindowsOK, WindowEndPending, windowVars
<1> QED
  BY <1>1, <1>3, <1>4, SwitchedInv, WorldIsOK DEF IInv, DonationConfined, windowVars

\* The world after activatePoolForJob and the store of the job.
LEMMA JobWorldOK ==
    ASSUME IInv, NEW p \in Pools, NEW class \in AllJobs, socket[p] # NoSock,
           NEW w, w = [activatePoolForJob(p, World) EXCEPT !.lastJob[p] = class]
    PROVE  /\ WorldOK(w)
           /\ w.socket = socket
           /\ w.lastJob = [lastJob EXCEPT ![p] = class]
           /\ w.active \in {active, p}
<1> DEFINE a == activatePoolForJob(p, World)
<1>1. /\ WorldOK(a)
      /\ a.socket = socket /\ a.lastJob = lastJob
      /\ a.active \in {active, p}
  <2>1. WorldOK(World) /\ World.active \in Pools
    BY WorldIsOK DEF WorldOK, Worlds
  <2>2. WorldOK([World EXCEPT !.active = p])
    BY <2>1 DEF WorldOK, Worlds
  <2> DEFINE c == pool_close_wait(World.active, World)
  <2>3. /\ WorldOK(c) /\ c.socket = World.socket /\ c.lastJob = World.lastJob
        /\ c \in Worlds
    BY <2>1, CloseWaitOK DEF WorldOK
  <2> HIDE DEF c
  <2>4. WorldOK([c EXCEPT !.active = p])
    BY <2>3 DEF WorldOK, Worlds
  <2>5. a \in {World, [World EXCEPT !.active = p], [c EXCEPT !.active = p]}
    BY DEF activatePoolForJob, c
  <2>6. [World EXCEPT !.active = p].socket = socket /\ [World EXCEPT !.active = p].lastJob = lastJob
        /\ [World EXCEPT !.active = p].active = p
    BY DEF World
  <2>7. [c EXCEPT !.active = p].socket = c.socket /\ [c EXCEPT !.active = p].lastJob = c.lastJob
        /\ [c EXCEPT !.active = p].active = p
    BY <2>3 DEF Worlds
  <2> QED
    BY <2>1, <2>2, <2>3, <2>4, <2>5, <2>6, <2>7, WorldIsOK
<1> HIDE DEF a
<1>2. w = [a EXCEPT !.lastJob[p] = class]
  BY DEF a
<1>3. /\ w \in Worlds
      /\ w.socket = a.socket /\ w.firstJobTimer = a.firstJobTimer /\ w.active = a.active
      /\ w.lastJob = [a.lastJob EXCEPT ![p] = class]
  <2>1. a \in Worlds
    BY <1>1 DEF WorldOK
  <2>2. [a.lastJob EXCEPT ![p] = class] \in [Pools -> AllJobs \cup {"none"}]
    BY <2>1 DEF Worlds
  <2> QED
    BY <1>2, <2>1, <2>2 DEF Worlds
<1>4. ConnOK(w.socket, w.lastJob, w.firstJobTimer)
  <2>1. ConnOK(a.socket, a.lastJob, a.firstJobTimer) /\ a.socket[p] # NoSock /\ class # "none"
    BY <1>1 DEF WorldOK, AllJobs
  <2>2. w.lastJob \in [Pools -> AllJobs \cup {"none"}]
    BY <1>3 DEF Worlds
  <2>3. \A q \in Pools : w.lastJob[q] = IF q = p THEN class ELSE a.lastJob[q]
    BY <1>3, <2>1 DEF ConnOK
  <2> QED
    BY <1>3, <2>1, <2>2, <2>3 DEF ConnOK
<1> QED
  BY <1>1, <1>3, <1>4 DEF WorldOK

LEMMA JobOK ==
    ASSUME IInv, NEW p \in Pools, NEW class \in AllJobs, Job(p, class)
    PROVE  IInv'
<1> DEFINE w == [activatePoolForJob(p, World) EXCEPT !.lastJob[p] = class]
<1>1. /\ ~halted /\ socket[p] # NoSock /\ donationJobSupported(p)
      /\ UNCHANGED windowVars
      /\ \/ /\ active' = w.active
            /\ workers' = IF p = w.active THEN p ELSE workers
            /\ closeTimer' = w.closeTimer
            /\ KeepConnections(w)
            /\ UNCHANGED <<throttled, connectTimer, halted>>
         \/ p = w.active /\ pool_err(p, w)
  BY DEF Job
<1>2. /\ WorldOK(w)
      /\ w.socket = socket
      /\ w.lastJob = [lastJob EXCEPT ![p] = class]
      /\ w.active \in {active, p}
  BY <1>1, JobWorldOK
<1> HIDE DEF w
<1>3. WindowsOK'
  BY <1>1 DEF IInv, TypeOK, WindowsOK, WindowEndPending, windowVars
<1>4. /\ w.active = Donate => w.lastJob[Donate] # "none"
      /\ w.active = Donate => until' # NoWindow
  <2>1. p = Donate => until # NoWindow
    BY <1>1 DEF donationJobSupported, InWindow
  <2>2. lastJob \in [Pools -> AllJobs \cup {"none"}] /\ class # "none"
    BY DEF IInv, TypeOK, AllJobs
  <2>3. active = Donate => lastJob[Donate] # "none" /\ until # NoWindow /\ Donate \in Pools
    BY DEF IInv, DonationConfined, TypeOK
  <2> QED
    BY <1>1, <1>2, <2>1, <2>2, <2>3 DEF windowVars
<1>5. CASE /\ active' = w.active
           /\ workers' = IF p = w.active THEN p ELSE workers
           /\ closeTimer' = w.closeTimer
           /\ KeepConnections(w)
           /\ UNCHANGED <<throttled, connectTimer, halted>>
  <2>1. ConnOK(socket', lastJob', firstJobTimer')
    BY <1>2, <1>5, KeepOK
  <2>2. TypeOK' /\ JobNeedsSocket' /\ SilentSocketWatched'
    BY <1>2, <1>3, <1>5, <2>1, ConnInv DEF IInv, TypeOK, WindowsOK, WorldOK, Worlds
  <2>3. NeverStranded'
    BY <1>1, <1>2, <1>5 DEF IInv, NeverStranded, KeepConnections
  <2>4. DonationConfined'
    BY <1>3, <1>4, <1>5 DEF DonationConfined, KeepConnections, WindowsOK, WindowEndPending
  <2> QED
    BY <1>3, <2>2, <2>3, <2>4 DEF IInv, WindowsOK
<1>6. CASE p = w.active /\ pool_err(p, w)
  <2>1. Switched(p, w)
    BY <1>2, <1>6, PoolErrOK DEF Sound, IInv
  <2> QED
    BY <1>3, <1>4, <2>1, SwitchedInv
<1> QED
  BY <1>1, <1>5, <1>6

LEMMA RefuseDonationJobOK ==
    ASSUME IInv, RefuseDonationJob
    PROVE  IInv'
<1>1. ~halted /\ Donate \in Pools /\ UNCHANGED windowVars
  BY DEF RefuseDonationJob
<1>2. WorldOK(World) /\ World.active = active
  BY WorldIsOK
<1>3. WindowsOK'
  BY <1>1 DEF IInv, TypeOK, WindowsOK, WindowEndPending, windowVars
<1> DEFINE c == clear_pool_connection(Donate, World)
<1>4. WorldOK(c)
  BY <1>1, <1>2, ClearOK
<1>5. /\ c.active = active
      /\ \A q \in Pools \ {Donate} : c.socket[q] = socket[q]
  BY <1>1, <1>2, WorldIsOK DEF clear_pool_connection, WorldOK, Worlds
<1> HIDE DEF c
<1>6. CASE /\ active # Donate
           /\ KeepConnections(c)
           /\ UNCHANGED <<active, throttled, connectTimer, closeTimer, workers, halted>>
  <2>1. ConnOK(socket', lastJob', firstJobTimer')
    BY <1>4, <1>6, KeepOK
  <2>2. TypeOK' /\ JobNeedsSocket' /\ SilentSocketWatched'
    BY <1>3, <1>6, <2>1, ConnInv DEF IInv, TypeOK, WindowsOK
  <2>3. NeverStranded'
    BY <1>5, <1>6 DEF IInv, TypeOK, NeverStranded, KeepConnections
  <2>4. DonationConfined'
    BY <1>6 DEF DonationConfined
  <2> QED
    BY <1>3, <2>2, <2>3, <2>4 DEF IInv, WindowsOK
<1>7. CASE ResumeAlive(Donate, World) \/ ConnectNext(Donate, World)
  <2>1. Switched(Donate, World)
    BY <1>1, <1>2, <1>7, ResumeAliveOK, ConnectNextOK DEF IInv
  <2> QED
    BY <1>1, <1>2, <1>3, <2>1, SwitchedInv, WorldIsOK DEF IInv, DonationConfined
<1>8. CASE /\ ThrowsOnResume(Donate, World)
           /\ closeTimer' = pool_close_wait(Donate, World).closeTimer
           /\ KeepConnections(c)
           /\ UNCHANGED halted
  <2>1. ConnOK(socket', lastJob', firstJobTimer')
    BY <1>4, <1>8, KeepOK
  <2>2. active' \in Pools \ {Donate} /\ lastJob[active'] # "none"
    BY <1>2, <1>8, AlivePoolProps, WorldIsOK DEF ThrowsOnResume, WorldOK
  <2>3. closeTimer' \in [Pools -> Seq(Socks)]
    BY <1>1, <1>2, <1>8, CloseWaitOK DEF WorldOK, Worlds
  <2>4. TypeOK' /\ JobNeedsSocket' /\ SilentSocketWatched'
    BY <1>3, <1>8, <2>1, <2>2, <2>3, ConnInv DEF IInv, TypeOK, WindowsOK, ThrowsOnResume
  <2>5. socket'[active'] # NoSock
    BY <1>5, <1>8, <2>2 DEF IInv, JobNeedsSocket, KeepConnections
  <2>6. NeverStranded' /\ DonationConfined'
    BY <2>2, <2>5 DEF NeverStranded, DonationConfined
  <2> QED
    BY <1>3, <2>4, <2>6 DEF IInv, WindowsOK
<1> QED
  BY <1>6, <1>7, <1>8 DEF RefuseDonationJob, c

LEMMA ThrottleElapsesOK ==
    ASSUME IInv, NEW p \in Pools, ThrottleElapses(p)
    PROVE  IInv'
<1>1. TypeOK'
  BY DEF IInv, TypeOK, ThrottleElapses, windowVars
<1> QED
  BY <1>1 DEF IInv, ThrottleElapses, JobNeedsSocket, SilentSocketWatched, NeverStranded,
              DonationConfined, WindowEndPending, windowVars

\* The timer of the active pool finds its socket open, or opens it: the donation
\* pool is the only one connect_pool may refuse, and when active it is open.
LEMMA ConnectTimerOK ==
    ASSUME IInv, NEW p \in Pools, ConnectTimer(p)
    PROVE  IInv'
<1>1. /\ connect_pool(p, World)
      /\ UNCHANGED <<active, closeTimer, windowVars, workers, halted>>
  BY DEF ConnectTimer
<1>2. /\ WorldOK(World) /\ World.socket = socket /\ World.lastJob = lastJob
      /\ TimersOK
  BY WorldIsOK DEF IInv, TypeOK, TimersOK
<1>3. /\ ConnOK(socket', lastJob', firstJobTimer')
      /\ TimersOK'
      /\ \A q \in Pools : socket[q] # NoSock =>
           socket'[q] = socket[q] /\ lastJob'[q] = lastJob[q]
      /\ \A q \in Pools \ {p} : connectTimer'[q] = connectTimer[q]
      /\ donationConnectionAllowed(p, World) => socket'[p] # NoSock
  BY <1>1, <1>2, ConnectPoolOK
<1>4. TypeOK' /\ JobNeedsSocket' /\ SilentSocketWatched'
  BY <1>1, <1>3, ConnInv DEF IInv, TypeOK, TimersOK, windowVars
<1>5. active \in Pools
  BY DEF IInv, TypeOK
<1>6. active = Donate => socket[Donate] # NoSock
  BY <1>5 DEF IInv, DonationConfined, JobNeedsSocket
<1>7. NeverStranded'
  BY <1>1, <1>3, <1>5, <1>6 DEF IInv, NeverStranded, donationConnectionAllowed
<1>8. DonationConfined' /\ WindowEndPending'
  BY <1>1, <1>3, <1>5, <1>6 DEF IInv, DonationConfined, WindowEndPending, windowVars
<1> QED
  BY <1>4, <1>7, <1>8 DEF IInv

LEMMA FirstJobTimerOK ==
    ASSUME IInv, NEW p \in Pools, NEW s \in Socks, FirstJobTimer(p, s)
    PROVE  IInv'
<1> DEFINE w == [World EXCEPT !.firstJobTimer[p] = @ \ {s}]
<1>1. /\ ~halted
      /\ UNCHANGED windowVars
      /\ \/ /\ socket[p] # s \/ lastJob[p] # "none"
            /\ KeepConnections(w)
            /\ UNCHANGED <<active, throttled, connectTimer, closeTimer, workers, halted>>
         \/ /\ socket[p] = s /\ lastJob[p] = "none"
            /\ pool_err(p, w)
  BY DEF FirstJobTimer
<1>2. /\ w.active = active /\ w.socket = socket /\ w.lastJob = lastJob
      /\ w.firstJobTimer = [firstJobTimer EXCEPT ![p] = @ \ {s}]
      /\ w \in Worlds
  BY WorldIsOK DEF World, Worlds, WorldOK
<1>3. WindowsOK'
  BY <1>1 DEF IInv, TypeOK, WindowsOK, WindowEndPending, windowVars
<1> HIDE DEF w
<1>4. CASE /\ socket[p] # s \/ lastJob[p] # "none"
           /\ KeepConnections(w)
           /\ UNCHANGED <<active, throttled, connectTimer, closeTimer, workers, halted>>
  <2>1. WorldOK(w)
    BY <1>2, <1>4 DEF WorldOK, ConnOK, IInv, TypeOK, JobNeedsSocket, SilentSocketWatched
  <2>2. ConnOK(socket', lastJob', firstJobTimer')
    BY <1>4, <2>1, KeepOK
  <2>3. TypeOK' /\ JobNeedsSocket' /\ SilentSocketWatched'
    BY <1>3, <1>4, <2>2, ConnInv DEF IInv, TypeOK, WindowsOK
  <2>4. NeverStranded' /\ DonationConfined'
    BY <1>1, <1>2, <1>4 DEF IInv, NeverStranded, DonationConfined, KeepConnections, windowVars
  <2> QED
    BY <1>3, <2>3, <2>4 DEF IInv, WindowsOK
<1>5. CASE /\ socket[p] = s /\ lastJob[p] = "none"
           /\ pool_err(p, w)
  <2> DEFINE c == clear_pool_connection(p, w)
  <2>1. WorldOK(c)
    <3>1. /\ c \in Worlds
          /\ c.socket = [socket EXCEPT ![p] = NoSock]
          /\ c.lastJob = [lastJob EXCEPT ![p] = "none"]
          /\ c.firstJobTimer = [firstJobTimer EXCEPT ![p] = @ \ {s}]
      BY <1>2 DEF clear_pool_connection, Worlds
    <3> HIDE DEF c
    <3>2. ConnOK(c.socket, c.lastJob, c.firstJobTimer)
      BY <3>1 DEF ConnOK, IInv, TypeOK, JobNeedsSocket, SilentSocketWatched
    <3> QED
      BY <3>1, <3>2 DEF WorldOK
  <2>2. /\ c.active = active
        /\ \A q \in Pools \ {p} : c.socket[q] = socket[q] /\ c.lastJob[q] = lastJob[q]
        /\ switchPool(p, c)
    BY <1>2, <1>5 DEF clear_pool_connection, Worlds, pool_err
  <2>3. active \in Pools /\ active = Donate => lastJob[Donate] # "none" /\ until # NoWindow
    BY DEF IInv, TypeOK, DonationConfined
  <2> HIDE DEF c
  <2>4. Sound(p, c)
    BY <1>1, <2>2 DEF Sound, IInv, NeverStranded, TypeOK
  <2>5. Switched(p, c)
    BY <2>1, <2>2, <2>4, SwitchPoolOK DEF IInv
  <2>6. c.active = Donate => c.lastJob[Donate] # "none" /\ until' # NoWindow
    <3>1. active = Donate => p # Donate
      BY <1>5, <2>3 DEF IInv, TypeOK
    <3> QED
      BY <1>1, <2>2, <2>3, <3>1 DEF windowVars, IInv, TypeOK
  <2> QED
    BY <1>3, <2>5, <2>6, SwitchedInv
<1> QED
  BY <1>1, <1>4, <1>5

LEMMA CloseTimerOK ==
    ASSUME IInv, NEW p \in Pools, CloseTimer(p)
    PROVE  IInv'
<1>1. /\ closeTimer[p] # <<>>
      /\ closeTimer' = [closeTimer EXCEPT ![p] = Tail(@)]
      /\ UNCHANGED <<active, throttled, connectTimer, windowVars, workers, halted>>
  BY DEF CloseTimer
<1>2. closeTimer' \in [Pools -> Seq(Socks)]
  <2>1. closeTimer \in [Pools -> Seq(Socks)]
    BY DEF IInv, TypeOK
  <2>2. Tail(closeTimer[p]) \in Seq(Socks)
    BY <1>1, <2>1
  <2> QED
    BY <1>1, <2>1, <2>2
<1>3. WindowsOK'
  BY <1>1 DEF IInv, TypeOK, WindowsOK, WindowEndPending, windowVars
<1>4. CASE UNCHANGED <<socket, lastJob, firstJobTimer>>
  <2>1. TypeOK'
    BY <1>1, <1>2, <1>3, <1>4 DEF IInv, TypeOK, WindowsOK
  <2> QED
    BY <1>1, <1>3, <1>4, <2>1 DEF IInv, JobNeedsSocket, SilentSocketWatched, NeverStranded,
                                  DonationConfined, WindowsOK, windowVars
<1>5. CASE p # active /\ KeepConnections(clear_pool_connection(p, World))
  <2> DEFINE c == clear_pool_connection(p, World)
  <2>1. WorldOK(c)
    BY WorldIsOK, ClearOK
  <2>2. \A q \in Pools \ {p} : c.socket[q] = socket[q] /\ c.lastJob[q] = lastJob[q]
    BY WorldIsOK DEF clear_pool_connection, WorldOK, Worlds
  <2> HIDE DEF c
  <2>3. KeepConnections(c)
    BY <1>5 DEF c
  <2>4. ConnOK(socket', lastJob', firstJobTimer')
    BY <2>1, <2>3, KeepOK
  <2>5. TypeOK' /\ JobNeedsSocket' /\ SilentSocketWatched'
    BY <1>1, <1>2, <1>3, <2>4, ConnInv DEF IInv, TypeOK, WindowsOK
  <2>6. socket'[active] = socket[active] /\ lastJob'[active] = lastJob[active]
    BY <1>5, <2>2, <2>3 DEF IInv, TypeOK, KeepConnections
  <2>7. NeverStranded' /\ DonationConfined'
    BY <1>1, <2>6 DEF IInv, NeverStranded, DonationConfined, windowVars
  <2> QED
    BY <1>3, <2>5, <2>7 DEF IInv, WindowsOK
<1> QED
  BY <1>4, <1>5 DEF CloseTimer

\* The interval reconnects the primary only while it is not the active pool.
LEMMA PrimaryReconnectOK ==
    ASSUME IInv, PrimaryReconnect
    PROVE  IInv'
<1>1. /\ active # Primary /\ active # Donate
      /\ connectPoolThrottle(Primary, World)
      /\ UNCHANGED <<active, closeTimer, windowVars, workers, halted>>
  BY DEF PrimaryReconnect
<1>2. WorldOK(World) /\ World.socket = socket /\ TimersOK /\ Primary \in Pools
  BY WorldIsOK, PoolAssumption DEF IInv, TypeOK, TimersOK
<1>3. /\ ConnOK(socket', lastJob', firstJobTimer')
      /\ TimersOK'
      /\ \A q \in Pools : socket[q] # NoSock => socket'[q] = socket[q]
      /\ \A q \in Pools \ {Primary} : connectTimer'[q] = connectTimer[q]
  BY <1>1, <1>2, ThrottleOK
<1>4. TypeOK' /\ JobNeedsSocket' /\ SilentSocketWatched'
  BY <1>1, <1>3, ConnInv DEF IInv, TypeOK, TimersOK, windowVars
<1>5. NeverStranded'
  BY <1>1, <1>3 DEF IInv, TypeOK, NeverStranded
<1>6. DonationConfined' /\ WindowEndPending'
  BY <1>1 DEF IInv, DonationConfined, WindowEndPending, windowVars
<1> QED
  BY <1>4, <1>5, <1>6 DEF IInv

\* The pending timers after a new one is appended, and after the oldest is gone.
LEMMA PendingAppend ==
    ASSUME NEW S, NEW q \in Seq(S), NEW u \in S
    PROVE  Append(q, u) \in Seq(S) /\ u \in Pending(Append(q, u))
<1>1. Append(q, u) \in Seq(S) /\ Len(Append(q, u)) = Len(q) + 1 /\ Append(q, u)[Len(q) + 1] = u
      /\ Len(q) \in Nat
  OBVIOUS
<1> QED
  BY <1>1 DEF Pending

LEMMA PendingTail ==
    ASSUME NEW S, NEW q \in Seq(S), q # <<>>, NEW u \in Pending(q), u # Head(q)
    PROVE  Tail(q) \in Seq(S) /\ u \in Pending(Tail(q))
<1>1. Tail(q) \in Seq(S) /\ Len(Tail(q)) = Len(q) - 1 /\ Len(q) \in Nat
  OBVIOUS
<1>2. PICK i \in 1 .. Len(q) : u = q[i]
  BY DEF Pending
<1>3. i # 1
  BY <1>2
<1>4. i - 1 \in 1 .. Len(Tail(q)) /\ Tail(q)[i - 1] = u
  BY <1>1, <1>2, <1>3
<1> QED
  BY <1>1, <1>4 DEF Pending

LEMMA StartDonationWindowOK ==
    ASSUME IInv, StartDonationWindow
    PROVE  IInv'
<1> DEFINE w == [World EXCEPT !.inWindow = TRUE]
<1>1. PICK u \in Windows : until' = u /\ windowTimer' = Append(windowTimer, u)
  BY DEF StartDonationWindow
<1>2. /\ Donate \in Pools
      /\ expired' = FALSE
      /\ connectPoolThrottle(Donate, w)
      /\ UNCHANGED <<active, closeTimer, workers, halted>>
  BY PoolAssumption DEF StartDonationWindow
<1>3. WorldOK(w) /\ w.socket = socket /\ w.lastJob = lastJob /\ TimersOK
  BY WorldIsOK DEF IInv, TypeOK, TimersOK, WorldOK, Worlds
<1> HIDE DEF w
<1>4. /\ ConnOK(socket', lastJob', firstJobTimer')
      /\ TimersOK'
      /\ \A q \in Pools : socket[q] # NoSock =>
           socket'[q] = socket[q] /\ lastJob'[q] = lastJob[q]
      /\ \A q \in Pools \ {Donate} : connectTimer'[q] = connectTimer[q]
  BY <1>2, <1>3, ThrottleOK
<1>5. WindowsOK' /\ until' # NoWindow
  BY <1>1, <1>2, PendingAppend, WindowAssumption DEF WindowsOK, WindowEndPending, IInv, TypeOK
<1>6. TypeOK' /\ JobNeedsSocket' /\ SilentSocketWatched'
  BY <1>2, <1>4, <1>5, ConnInv DEF IInv, TypeOK, TimersOK, WindowsOK
<1>7. active \in Pools /\ (active = Donate => lastJob[Donate] # "none" /\ socket[Donate] # NoSock)
  BY DEF IInv, TypeOK, DonationConfined, JobNeedsSocket
<1>8. NeverStranded'
  BY <1>2, <1>4, <1>7 DEF IInv, NeverStranded
<1>9. DonationConfined'
  BY <1>2, <1>4, <1>5, <1>7 DEF DonationConfined, WindowsOK, WindowEndPending
<1> QED
  BY <1>5, <1>6, <1>8, <1>9 DEF IInv, WindowsOK

LEMMA WindowExpiresOK ==
    ASSUME IInv, WindowExpires
    PROVE  IInv'
<1>1. TypeOK'
  BY DEF IInv, TypeOK, WindowExpires, connVars
<1> QED
  BY <1>1 DEF IInv, WindowExpires, JobNeedsSocket, SilentSocketWatched, NeverStranded,
              DonationConfined, WindowEndPending, connVars

LEMMA WindowTimerOK ==
    ASSUME IInv, WindowTimer
    PROVE  IInv'
<1>1. windowTimer # <<>> /\ windowTimer' = Tail(windowTimer) /\ ~halted
  BY DEF WindowTimer
<1>2. windowTimer \in Seq(Windows) /\ windowTimer' \in Seq(Windows)
  BY <1>1 DEF IInv, TypeOK
<1>3. CASE /\ Head(windowTimer) # until
           /\ UNCHANGED <<active, connVars, closeTimer, until, expired, workers, halted>>
  <2>1. WindowEndPending'
    BY <1>1, <1>2, <1>3, PendingTail DEF IInv, WindowEndPending
  <2>2. TypeOK'
    BY <1>2, <1>3 DEF IInv, TypeOK, connVars
  <2> QED
    BY <1>3, <2>1, <2>2 DEF IInv, JobNeedsSocket, SilentSocketWatched, NeverStranded,
                            DonationConfined, WindowEndPending, connVars
<1>4. CASE /\ Head(windowTimer) = until
           /\ until' = NoWindow
           /\ expired' = FALSE
           /\ switchPool(Donate, [World EXCEPT !.inWindow = FALSE])
  <2> DEFINE w == [World EXCEPT !.inWindow = FALSE]
  <2>1. WorldOK(w) /\ w.active = active /\ w.socket = socket /\ w.lastJob = lastJob
    BY WorldIsOK DEF WorldOK, Worlds
  <2>2. switchPool(Donate, w)
    BY <1>4
  <2> HIDE DEF w
  <2>3. Sound(Donate, w)
    BY <1>1, <2>1 DEF Sound, IInv, NeverStranded
  <2>4. WindowsOK'
    BY <1>1, <1>2, <1>4 DEF WindowsOK, WindowEndPending, IInv
  <2>5. Donate \in Pools
    BY <1>1 DEF IInv, WindowEndPending
  <2>6. Switched(Donate, w)
    BY <2>1, <2>2, <2>3, <2>5, SwitchPoolOK DEF IInv
  <2> QED
    BY <2>1, <2>4, <2>5, <2>6, SwitchedInv DEF IInv, DonationConfined
<1> QED
  BY <1>3, <1>4 DEF WindowTimer

-----------------------------------------------------------------------------
(* Theorems *)

\* Every callback of the controller preserves the inductive invariant.
THEOREM Inductive == IInv /\ [Next]_vars => IInv'
<1> SUFFICES ASSUME IInv, [Next]_vars PROVE IInv'
  OBVIOUS
<1>1. ASSUME NEW p \in Pools, SocketFails(p) PROVE IInv'
  BY <1>1, SocketFailsOK
<1>2. ASSUME NEW p \in Pools, NEW class \in AllJobs, Job(p, class) PROVE IInv'
  BY <1>2, JobOK
<1>3. ASSUME NEW p \in Pools, ThrottleElapses(p) PROVE IInv'
  BY <1>3, ThrottleElapsesOK
<1>4. ASSUME NEW p \in Pools, ConnectTimer(p) PROVE IInv'
  BY <1>4, ConnectTimerOK
<1>5. ASSUME NEW p \in Pools, NEW s \in Socks, FirstJobTimer(p, s) PROVE IInv'
  BY <1>5, FirstJobTimerOK
<1>6. ASSUME NEW p \in Pools, CloseTimer(p) PROVE IInv'
  BY <1>6, CloseTimerOK
<1>7. CASE UNCHANGED vars
  BY <1>7 DEF IInv, TypeOK, JobNeedsSocket, SilentSocketWatched, NeverStranded,
              DonationConfined, WindowEndPending, vars, connVars, windowVars
<1> QED
  BY <1>1, <1>2, <1>3, <1>4, <1>5, <1>6, <1>7, RefuseDonationJobOK, PrimaryReconnectOK,
     StartDonationWindowOK, WindowExpiresOK, WindowTimerOK DEF Next

\* The inductive invariant holds in every behaviour.
THEOREM Invariance == Spec => []IInv
<1>1. Init => IInv
  BY InitOK
<1>2. IInv /\ [Next]_vars => IInv'
  BY Inductive
<1> QED
  BY <1>1, <1>2, PTL DEF Spec

\* Type correctness, for any configuration of pools.
THEOREM TypeCorrect == Spec => []TypeOK
<1>1. IInv => TypeOK
  BY DEF IInv
<1> QED
  BY <1>1, Invariance, PTL

\* switchPool never resumes a pool from a job whose connection is gone.
THEOREM JobsHaveSockets == Spec => []JobNeedsSocket
<1>1. IInv => JobNeedsSocket
  BY DEF IInv
<1> QED
  BY <1>1, Invariance, PTL

\* A connection that gave no job is always covered by its own timeout.
THEOREM SilenceIsWatched == Spec => []SilentSocketWatched
<1>1. IInv => SilentSocketWatched
  BY DEF IInv
<1> QED
  BY <1>1, Invariance, PTL

\* No order of failures, jobs and stale timers strands the miner on a pool that
\* is neither connected nor about to be.
THEOREM AlwaysAWayForward == Spec => []NeverStranded
<1>1. IInv => NeverStranded
  BY DEF IInv
<1> QED
  BY <1>1, Invariance, PTL

\* The donation pool is active only inside a window whose end is scheduled, even
\* when donation windows overlap.
THEOREM DonationEnds == Spec => []DonationConfined
<1>1. IInv => DonationConfined
  BY DEF IInv
<1> QED
  BY <1>1, Invariance, PTL

\* switchPool closes no socket: the pool it leaves closes later, softly.
LEMMA SwitchKeepsSockets ==
    ASSUME NEW w, NEW p \in Pools, WorldOK(w), TypeOK, switchPool(p, w)
    PROVE  \A q \in Pools : w.socket[q] # NoSock => socket'[q] = w.socket[q]
<1>1. CASE LeaveInactive(p, w) \/ ResumeAlive(p, w) \/ Uncaught(p, w)
  BY <1>1 DEF LeaveInactive, ResumeAlive, Uncaught, KeepConnections
<1>2. CASE ConnectNext(p, w)
  <2>1. connectPoolThrottle(nextNonDonatePool(p), w) /\ TimersOK
    BY <1>2 DEF ConnectNext, TypeOK, TimersOK
  <2>2. nextNonDonatePool(p) \in Pools
    BY NextPoolProps
  <2> QED
    BY <2>1, <2>2, ThrottleOK
<1> QED
  BY <1>1, <1>2 DEF switchPool

\* No timer callback takes the connection of an active pool that has a job.
THEOREM ActiveIsSpared == Spec => TimersSpareActive
<1>1. IInv /\ TimerStep /\ lastJob[active] # "none" => socket'[active] = socket[active]
  <2> SUFFICES ASSUME IInv, TimerStep, lastJob[active] # "none"
               PROVE  socket'[active] = socket[active]
    OBVIOUS
  <2>1. active \in Pools /\ socket[active] # NoSock /\ TypeOK /\ TimersOK
    BY DEF IInv, TypeOK, TimersOK, JobNeedsSocket
  <2>2. WorldOK(World) /\ World.socket = socket
    BY WorldIsOK
  <2>3. ASSUME NEW p \in Pools, ConnectTimer(p) PROVE socket'[active] = socket[active]
    BY <2>1, <2>2, <2>3, ConnectPoolOK DEF ConnectTimer
  <2>4. ASSUME NEW p \in Pools, NEW s \in Socks, FirstJobTimer(p, s)
        PROVE  socket'[active] = socket[active]
    <3> DEFINE w == [World EXCEPT !.firstJobTimer[p] = @ \ {s}]
               c == clear_pool_connection(p, w)
    <3>1. CASE KeepConnections(w)
      BY <3>1 DEF KeepConnections, World
    <3>2. CASE socket[p] = s /\ lastJob[p] = "none" /\ switchPool(p, c)
      <4>1. /\ c \in Worlds
            /\ c.socket = [socket EXCEPT ![p] = NoSock]
            /\ c.lastJob = [lastJob EXCEPT ![p] = "none"]
            /\ c.firstJobTimer = [firstJobTimer EXCEPT ![p] = @ \ {s}]
        BY <2>2 DEF clear_pool_connection, Worlds, WorldOK, World
      <4> HIDE DEF c
      <4>2. WorldOK(c)
        BY <4>1 DEF WorldOK, ConnOK, IInv, TypeOK, JobNeedsSocket, SilentSocketWatched
      <4>3. p # active /\ c.socket[active] = socket[active]
        BY <2>1, <3>2, <4>1 DEF TypeOK
      <4> QED
        BY <2>1, <3>2, <4>2, <4>3, SwitchKeepsSockets
    <3> QED
      BY <2>4, <3>1, <3>2 DEF FirstJobTimer, pool_err
  <2>5. ASSUME NEW p \in Pools, CloseTimer(p) PROVE socket'[active] = socket[active]
    <3>1. CASE UNCHANGED socket
      BY <3>1
    <3>2. CASE p # active /\ KeepConnections(clear_pool_connection(p, World))
      BY <2>1, <2>2, <3>2 DEF KeepConnections, clear_pool_connection, WorldOK, Worlds
    <3> QED
      BY <2>5, <3>1, <3>2 DEF CloseTimer
  <2>6. CASE PrimaryReconnect
    BY <2>1, <2>2, <2>6, ThrottleOK, PoolAssumption DEF PrimaryReconnect
  <2>7. CASE StartDonationWindow
    <3> DEFINE w == [World EXCEPT !.inWindow = TRUE]
    <3>1. WorldOK(w) /\ w.socket = socket
      BY <2>2 DEF WorldOK, Worlds
    <3>2. connectPoolThrottle(Donate, w) /\ Donate \in Pools
      BY <2>7, PoolAssumption DEF StartDonationWindow
    <3> HIDE DEF w
    <3> QED
      BY <2>1, <3>1, <3>2, ThrottleOK
  <2>8. CASE WindowTimer
    <3> DEFINE w == [World EXCEPT !.inWindow = FALSE]
    <3>1. WorldOK(w) /\ w.socket = socket
      BY <2>2 DEF WorldOK, Worlds
    <3>2. UNCHANGED socket \/ switchPool(Donate, w)
      BY <2>8 DEF WindowTimer, connVars
    <3>3. Donate \in Pools
      BY <2>8 DEF WindowTimer, IInv, WindowEndPending
    <3> HIDE DEF w
    <3> QED
      BY <2>1, <3>1, <3>2, <3>3, SwitchKeepsSockets
  <2> QED
    BY <2>3, <2>4, <2>5, <2>6, <2>7, <2>8 DEF TimerStep
<1>2. IInv => [TimerStep /\ lastJob[active] # "none" => socket'[active] = socket[active]]_vars
  BY <1>1
<1> QED
  BY <1>2, Invariance, PTL DEF TimersSpareActive

-----------------------------------------------------------------------------
(* Donation work, as long as set_job rejects no job.                       *)

\* Every stored job is one set_job accepts.
Accepted(lj) == \A q \in Pools : lj[q] \in {"none", "ok"}

\* Workers that hold a donation job belong to an active donation pool a.
Stops(wk, a) == wk = Donate /\ Donate # NoPool => a = Donate

\* connectPoolThrottle stores no job.
LEMMA ThrottleStores ==
    ASSUME NEW w, NEW p \in Pools, WorldOK(w), Accepted(w.lastJob),
           connectPoolThrottle(p, w) \/ connect_pool(p, w)
    PROVE  Accepted(lastJob')
<1>1. lastJob' = w.lastJob \/ lastJob' = [w.lastJob EXCEPT ![p] = "none"]
  BY DEF connectPoolThrottle, connect_pool, KeepConnections
<1>2. w.lastJob \in [Pools -> AllJobs \cup {"none"}]
  BY DEF WorldOK, Worlds
<1> QED
  BY <1>1, <1>2 DEF Accepted

\* A job that set_job accepted before is accepted when its pool is resumed.
LEMMA ResumesQuietly ==
    ASSUME NEW w, WorldOK(w), Accepted(w.lastJob), NEW p \in Pools
    PROVE  ~ThrowsOnResume(p, w)
BY AlivePoolProps DEF ThrowsOnResume, Accepted, WorldOK

\* Whichever pool switchPool leaves, the workers do not keep the donation job.
LEMMA SwitchStops ==
    ASSUME NEW w, NEW p \in Pools, WorldOK(w), Accepted(w.lastJob), Stops(workers, w.active),
           switchPool(p, w)
    PROVE  Accepted(lastJob') /\ Stops(workers', active')
<1>1. CASE LeaveInactive(p, w)
  BY <1>1 DEF LeaveInactive, KeepConnections
<1>2. CASE ResumeAlive(p, w)
  BY <1>2 DEF ResumeAlive, KeepConnections, Stops
<1>3. CASE ConnectNext(p, w)
  <2>1. nextNonDonatePool(p) \in Pools /\ connectPoolThrottle(nextNonDonatePool(p), w)
    BY <1>3, NextPoolProps DEF ConnectNext
  <2>2. Accepted(lastJob')
    BY <2>1, ThrottleStores
  <2>3. p = w.active /\ workers' = IF p = Donate THEN NoPool ELSE workers
    BY <1>3 DEF ConnectNext
  <2> QED
    BY <2>2, <2>3 DEF Stops
<1>4. ~Uncaught(p, w)
  BY ResumesQuietly DEF Uncaught
<1> QED
  BY <1>1, <1>2, <1>3, <1>4 DEF switchPool

\* Nor after a connection that failed.
LEMMA ErrStops ==
    ASSUME NEW w, NEW p \in Pools, WorldOK(w), Accepted(w.lastJob), Stops(workers, w.active),
           pool_err(p, w)
    PROVE  Accepted(lastJob') /\ Stops(workers', active')
<1> DEFINE c == clear_pool_connection(p, w)
<1>1. WorldOK(c) /\ switchPool(p, c)
  BY ClearOK DEF pool_err
<1>2. c.active = w.active /\ c.lastJob = [w.lastJob EXCEPT ![p] = "none"]
  BY DEF clear_pool_connection, WorldOK, Worlds
<1>3. w.lastJob \in [Pools -> AllJobs \cup {"none"}]
  BY DEF WorldOK, Worlds
<1> HIDE DEF c
<1>4. Accepted(c.lastJob)
  BY <1>2, <1>3 DEF Accepted
<1> QED
  BY <1>1, <1>2, <1>4, SwitchStops

\* A job that is accepted is stored, and mined when its pool is active.
LEMMA JobStored ==
    ASSUME IInv, NEW p \in Pools, NEW class \in AllJobs, Job(p, class)
    PROVE  /\ class \in JobClasses
           /\ class = "ok" => /\ lastJob' = [lastJob EXCEPT ![p] = class]
                              /\ active' \in {active, p}
                              /\ workers' = IF p = active' THEN p ELSE workers
<1> DEFINE w == [activatePoolForJob(p, World) EXCEPT !.lastJob[p] = class]
<1>1. ~halted /\ socket[p] # NoSock /\ donationJobSupported(p)
  BY DEF Job
<1>2. /\ WorldOK(w)
      /\ w.socket = socket
      /\ w.lastJob = [lastJob EXCEPT ![p] = class]
      /\ w.active \in {active, p}
  BY <1>1, JobWorldOK
<1>3. /\ class \in JobClasses
      /\ class = "ok" => /\ active' = w.active /\ lastJob' = w.lastJob
                         /\ workers' = IF p = w.active THEN p ELSE workers
  BY DEF Job, KeepConnections
<1> HIDE DEF w
<1> QED
  BY <1>2, <1>3

\* One step per callback.
LEMMA DonationStep ==
    ASSUME JobClasses = {"ok"}, IInv, Accepted(lastJob), Stops(workers, active), [Next]_vars
    PROVE  Accepted(lastJob') /\ Stops(workers', active')
<1>1. /\ WorldOK(World) /\ World.active = active /\ World.lastJob = lastJob
      /\ lastJob \in [Pools -> AllJobs \cup {"none"}]
  BY WorldIsOK DEF IInv, TypeOK
<1>2. ASSUME NEW p \in Pools, SocketFails(p) PROVE Accepted(lastJob') /\ Stops(workers', active')
  BY <1>1, <1>2, ErrStops DEF SocketFails
<1>3. ASSUME NEW p \in Pools, NEW class \in AllJobs, Job(p, class)
      PROVE  Accepted(lastJob') /\ Stops(workers', active')
  <2>1. class = "ok"
    BY <1>3, JobStored
  <2>2. /\ lastJob' = [lastJob EXCEPT ![p] = class] /\ active' \in {active, p}
        /\ workers' = IF p = active' THEN p ELSE workers
    BY <1>3, <2>1, JobStored
  <2> QED
    BY <1>1, <2>1, <2>2 DEF Accepted, Stops
<1>4. ASSUME NEW p \in Pools, ThrottleElapses(p)
      PROVE  Accepted(lastJob') /\ Stops(workers', active')
  BY <1>4 DEF ThrottleElapses
<1>5. ASSUME NEW p \in Pools, ConnectTimer(p) PROVE Accepted(lastJob') /\ Stops(workers', active')
  BY <1>1, <1>5, ThrottleStores DEF ConnectTimer
<1>6. ASSUME NEW p \in Pools, NEW s \in Socks, FirstJobTimer(p, s)
      PROVE  Accepted(lastJob') /\ Stops(workers', active')
  <2> DEFINE w == [World EXCEPT !.firstJobTimer[p] = @ \ {s}]
  <2>1. w.lastJob = lastJob /\ w.active = active
    BY <1>1 DEF WorldOK, Worlds
  <2>2. CASE KeepConnections(w) /\ UNCHANGED <<active, workers>>
    BY <2>1, <2>2 DEF KeepConnections
  <2>3. CASE lastJob[p] = "none" /\ pool_err(p, w)
    <3> DEFINE c == clear_pool_connection(p, w)
    <3>1. /\ c \in Worlds
          /\ c.socket = [socket EXCEPT ![p] = NoSock]
          /\ c.lastJob = [lastJob EXCEPT ![p] = "none"] /\ c.active = active
          /\ c.firstJobTimer = [firstJobTimer EXCEPT ![p] = @ \ {s}]
      BY <1>1 DEF clear_pool_connection, Worlds, WorldOK, World
    <3>2. switchPool(p, c)
      BY <2>3 DEF pool_err
    <3> HIDE DEF c
    <3>3. WorldOK(c)
      BY <3>1 DEF WorldOK, ConnOK, IInv, TypeOK, JobNeedsSocket, SilentSocketWatched
    <3>4. Accepted(c.lastJob)
      BY <1>1, <3>1 DEF Accepted
    <3> QED
      BY <3>1, <3>2, <3>3, <3>4, SwitchStops
  <2> QED
    BY <1>6, <2>2, <2>3 DEF FirstJobTimer
<1>7. ASSUME NEW p \in Pools PROVE Accepted(clear_pool_connection(p, World).lastJob)
  <2>1. clear_pool_connection(p, World).lastJob = [lastJob EXCEPT ![p] = "none"]
    BY <1>1 DEF clear_pool_connection, WorldOK, Worlds
  <2> QED
    BY <1>1, <2>1 DEF Accepted
<1>8. ASSUME NEW p \in Pools, CloseTimer(p) PROVE Accepted(lastJob') /\ Stops(workers', active')
  BY <1>7, <1>8 DEF CloseTimer, KeepConnections
<1>9. CASE RefuseDonationJob
  <2>1. Donate \in Pools
    BY <1>9 DEF RefuseDonationJob
  <2>2. CASE KeepConnections(clear_pool_connection(Donate, World)) /\ UNCHANGED <<active, workers>>
    BY <1>7, <2>1, <2>2 DEF KeepConnections
  <2>3. CASE ResumeAlive(Donate, World) \/ ConnectNext(Donate, World)
    BY <1>1, <2>1, <2>3, SwitchStops DEF switchPool
  <2>4. ~ThrowsOnResume(Donate, World)
    BY <1>1, <2>1, ResumesQuietly
  <2> QED
    BY <1>9, <2>2, <2>3, <2>4 DEF RefuseDonationJob
<1>10. CASE PrimaryReconnect
  BY <1>1, <1>10, ThrottleStores, PoolAssumption DEF PrimaryReconnect
<1>11. CASE StartDonationWindow
  <2> DEFINE w == [World EXCEPT !.inWindow = TRUE]
  <2>1. WorldOK(w) /\ w.lastJob = lastJob
    BY <1>1 DEF WorldOK, Worlds
  <2>2. connectPoolThrottle(Donate, w) /\ Donate \in Pools /\ UNCHANGED <<active, workers>>
    BY <1>11, PoolAssumption DEF StartDonationWindow
  <2> HIDE DEF w
  <2> QED
    BY <2>1, <2>2, ThrottleStores
<1>12. CASE WindowExpires
  BY <1>12 DEF WindowExpires, connVars
<1>13. CASE WindowTimer
  <2> DEFINE w == [World EXCEPT !.inWindow = FALSE]
  <2>1. WorldOK(w) /\ w.lastJob = lastJob /\ w.active = active
    BY <1>1 DEF WorldOK, Worlds
  <2>2. UNCHANGED <<active, lastJob, workers>> \/ switchPool(Donate, w)
    BY <1>13 DEF WindowTimer, connVars
  <2>3. Donate \in Pools
    BY <1>13 DEF WindowTimer, IInv, WindowEndPending
  <2> HIDE DEF w
  <2> QED
    BY <2>1, <2>2, <2>3, SwitchStops
<1>14. CASE UNCHANGED vars
  BY <1>14 DEF vars, connVars
<1> QED
  BY <1>2, <1>3, <1>4, <1>5, <1>6, <1>8, <1>9, <1>10, <1>11, <1>12, <1>13, <1>14 DEF Next

\* The workers never keep a donation job past the donation pool's turn, provided
\* set_job accepts what the pools send: with a job it rejects they may.
THEOREM DonationIsLeft ==
    ASSUME JobClasses = {"ok"}
    PROVE  Spec => []DonationWorkStops
<1> DEFINE Inv == Accepted(lastJob) /\ Stops(workers, active)
<1>1. Init => Inv
  BY DEF Init, Accepted, Stops
<1>2. Inv /\ IInv /\ [Next]_vars => Inv'
  BY DonationStep
<1>3. Inv => DonationWorkStops
  BY DEF Stops, DonationWorkStops
<1> HIDE DEF Inv
<1> QED
  BY <1>1, <1>2, <1>3, Invariance, PTL DEF Spec
=============================================================================
