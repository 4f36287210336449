---------------------------- MODULE PoolFailover ----------------------------
(***************************************************************************)
(* The controller's pool connections: which pool is active, which sockets  *)
(* are open, and the uncancelled timers that act on them (pool.js,         *)
(* pool/connection.js, pool/jobs.js, and the mining timers of mom.js).     *)
(*                                                                         *)
(* The controller is one JavaScript thread, so every callback (a socket    *)
(* event, a pool message, a timer) is one atomic action.  What interleaves *)
(* is the order of the callbacks: timers are never cancelled, so each may  *)
(* find a world different from the one it was armed in.                    *)
(*                                                                         *)
(* Time is abstracted to "the throttle of pool p has not elapsed yet" and  *)
(* "the clock has passed the end of the donation window".  Socket          *)
(* identities are recycled once no timer refers to them.                   *)
(***************************************************************************)
EXTENDS Integers, Sequences

CONSTANTS
    Count,       \* number of configured pools: opt.pools.length
    Primary,     \* opt.pool_ids.primary
    Donate,      \* opt.pool_ids.donate, or NoPool
    NoPool,      \* a pool id that is null
    Socks,       \* socket identities
    NoSock,      \* pool.socket === null
    Windows,     \* donation window identities: the values of `until`
    NoWindow,    \* pool.donation_until === 0
    JobClasses,  \* the jobs a pool may send
    MaxSoft,     \* bound on the pending soft-close timers of a pool
    MaxWindow    \* bound on the pending window-end timers

Pools == 0 .. Count - 1

\* set_job accepts an "ok" job and throws on a "bad" one.
AllJobs == {"ok", "bad"}

ASSUME PoolAssumption ==
    /\ Count \in Nat \ {0}
    /\ Primary \in Pools
    /\ Donate \in Pools \cup {NoPool}
    /\ Primary # Donate
    /\ NoPool \notin Pools
ASSUME SocketAssumption == NoSock \notin Socks
ASSUME WindowAssumption == NoWindow \notin Windows
ASSUME JobAssumption == JobClasses \subseteq AllJobs
ASSUME BoundAssumption == MaxSoft \in Nat /\ MaxWindow \in Nat

VARIABLES
    active,         \* opt.pool_ids.active
    socket,         \* pool.socket
    lastJob,        \* pool.last_job: "none" or the class of the stored job
    throttled,      \* Date.now() - last_connect_time < connect_throttle
    connectTimer,   \* a delayed connect_pool call is pending
    firstJobTimer,  \* sockets whose initial-job timeout is pending
    closeTimer,     \* sockets of the pending soft-close timers, oldest first
    until,          \* pool.donation_until of the donation pool
    expired,        \* Date.now() >= donation_until
    windowTimer,    \* windows of the pending window-end timers, oldest first
    workers,        \* pool whose job the workers hold, NoPool when paused or idle
    halted          \* an exception left the event loop: the process is gone

connVars == <<socket, lastJob, throttled, connectTimer, firstJobTimer>>
windowVars == <<until, expired, windowTimer>>
vars == <<active, connVars, closeTimer, windowVars, workers, halted>>

TypeOK ==
    /\ active \in Pools
    /\ socket \in [Pools -> Socks \cup {NoSock}]
    /\ lastJob \in [Pools -> AllJobs \cup {"none"}]
    /\ throttled \in [Pools -> BOOLEAN]
    /\ connectTimer \in [Pools -> BOOLEAN]
    /\ firstJobTimer \in [Pools -> SUBSET Socks]
    /\ closeTimer \in [Pools -> Seq(Socks)]
    /\ until \in Windows \cup {NoWindow}
    /\ expired \in BOOLEAN
    /\ windowTimer \in Seq(Windows)
    /\ workers \in Pools \cup {NoPool}
    /\ halted \in BOOLEAN

-----------------------------------------------------------------------------
(* Connecting *)

InWindow == until # NoWindow /\ ~expired

Pending(s) == {s[i] : i \in 1 .. Len(s)}

\* The handlers compose.  A world is what a handler finds: the state its caller
\* has already written.  Each operator below starts from a world and fixes the
\* next value of every variable of the world.
World == [active |-> active, socket |-> socket, lastJob |-> lastJob,
          firstJobTimer |-> firstJobTimer, closeTimer |-> closeTimer,
          inWindow |-> InWindow]

donationConnectionAllowed(p, w) == p # Donate \/ w.inWindow

KeepConnections(w) ==
    /\ socket' = w.socket
    /\ lastJob' = w.lastJob
    /\ firstJobTimer' = w.firstJobTimer

\* Mutant: a pool keeps one initial-job timeout instead of one per connection.
connect_pool_OneTimeout(p, w) ==
    /\ connectTimer' = [connectTimer EXCEPT ![p] = FALSE]
    /\ \/ /\ ~donationConnectionAllowed(p, w) \/ w.socket[p] # NoSock
          /\ KeepConnections(w)
          /\ UNCHANGED throttled
       \/ /\ donationConnectionAllowed(p, w) /\ w.socket[p] = NoSock
          /\ \E s \in Socks \ (w.firstJobTimer[p] \cup Pending(w.closeTimer[p])) :
               /\ socket' = [w.socket EXCEPT ![p] = s]
               /\ firstJobTimer' =
                    [w.firstJobTimer EXCEPT ![p] = IF @ = {} THEN {s} ELSE @]
          /\ lastJob' = [w.lastJob EXCEPT ![p] = "none"]
          /\ throttled' = [throttled EXCEPT ![p] = TRUE]

\* All pending connect timers of a pool share the deadline last_connect_time +
\* connect_throttle; once one of them connects the others find the socket and
\* return, so one flag stands for them.
connect_pool(p, w) ==
    /\ connectTimer' = [connectTimer EXCEPT ![p] = FALSE]
    /\ \/ /\ ~donationConnectionAllowed(p, w) \/ w.socket[p] # NoSock
          /\ KeepConnections(w)
          /\ UNCHANGED throttled
       \/ /\ donationConnectionAllowed(p, w) /\ w.socket[p] = NoSock
          /\ \E s \in Socks \ (w.firstJobTimer[p] \cup Pending(w.closeTimer[p])) :
               /\ socket' = [w.socket EXCEPT ![p] = s]
               /\ firstJobTimer' = [w.firstJobTimer EXCEPT ![p] = @ \cup {s}]
          /\ lastJob' = [w.lastJob EXCEPT ![p] = "none"]
          /\ throttled' = [throttled EXCEPT ![p] = TRUE]

\* Mutant: a throttled connection is skipped instead of delayed.
connectPoolThrottle_Skips(p, w) ==
    \/ /\ donationConnectionAllowed(p, w) /\ ~throttled[p]
       /\ connect_pool(p, w)
    \/ /\ throttled[p] \/ ~donationConnectionAllowed(p, w)
       /\ KeepConnections(w)
       /\ UNCHANGED <<throttled, connectTimer>>

connectPoolThrottle(p, w) ==
    \/ /\ ~donationConnectionAllowed(p, w)
       /\ KeepConnections(w)
       /\ UNCHANGED <<throttled, connectTimer>>
    \/ /\ donationConnectionAllowed(p, w) /\ ~throttled[p]
       /\ connect_pool(p, w)
    \/ /\ donationConnectionAllowed(p, w) /\ throttled[p]
       /\ KeepConnections(w)
       /\ connectTimer' = [connectTimer EXCEPT ![p] = TRUE]
       /\ UNCHANGED throttled

-----------------------------------------------------------------------------
(* Failover *)

\* Mutant: the missing socket is not noticed.
pool_close_wait_NoSocketCheck(p, w) ==
    [w EXCEPT !.closeTimer[p] = Append(@, w.socket[p])]

\* pool_close_wait: arm one more soft-close timer for the current socket, if any.
pool_close_wait(p, w) ==
    IF w.socket[p] = NoSock THEN w
    ELSE [w EXCEPT !.closeTimer[p] = Append(@, w.socket[p])]

\* Mutant: the stored job outlives its connection.
clear_pool_connection_KeepsJob(p, w) == [w EXCEPT !.socket[p] = NoSock]

\* clear_pool_connection, once it has found the socket current.
clear_pool_connection(p, w) ==
    [w EXCEPT !.socket[p] = NoSock, !.lastJob[p] = "none"]

Least(S) == CHOOSE q \in S : \A r \in S : q <= r

\* Pools reactivateBackupPool may resume: a stored job, neither the donation
\* pool nor the pool being left.
AliveBackups(w) == {q \in Pools \ {Donate, w.active} : w.lastJob[q] # "none"}

\* reactivateAlivePoolIfAny: the primary first, then the lowest backup index.
SomeAlive(w) == w.lastJob[Primary] # "none" \/ AliveBackups(w) # {}
AlivePool(w) ==
    IF w.lastJob[Primary] # "none" THEN Primary ELSE Least(AliveBackups(w))

\* nextNonDonatePool: the loop skips at most the one donation pool.
nextNonDonatePool(p) ==
    IF (p + 1) % Count # Donate THEN (p + 1) % Count ELSE (p + 2) % Count

\* switchPool(p) while p is not the active pool: only the soft close.
LeaveInactive(p, w) ==
    /\ p # w.active
    /\ active' = w.active
    /\ closeTimer' = pool_close_wait(p, w).closeTimer
    /\ KeepConnections(w)
    /\ UNCHANGED <<throttled, connectTimer, workers, halted>>

\* ... while another pool holds a job set_job accepts: mine that at once.
ResumeAlive(p, w) ==
    /\ p = w.active
    /\ SomeAlive(w) /\ w.lastJob[AlivePool(w)] = "ok"
    /\ active' = AlivePool(w)
    /\ workers' = AlivePool(w)
    /\ closeTimer' = pool_close_wait(p, w).closeTimer
    /\ KeepConnections(w)
    /\ UNCHANGED <<throttled, connectTimer, halted>>

\* Mutant: leaving the donation pool does not pause the workers.
ConnectNext_NoPause(p, w) ==
    /\ p = w.active
    /\ ~SomeAlive(w)
    /\ active' = nextNonDonatePool(p)
    /\ closeTimer' = pool_close_wait(p, w).closeTimer
    /\ connectPoolThrottle(nextNonDonatePool(p), w)
    /\ UNCHANGED <<workers, halted>>

\* ... while no other pool holds a job: the next pool is active and connecting.
ConnectNext(p, w) ==
    /\ p = w.active
    /\ ~SomeAlive(w)
    /\ active' = nextNonDonatePool(p)
    /\ workers' = IF p = Donate THEN NoPool ELSE workers
    /\ closeTimer' = pool_close_wait(p, w).closeTimer
    /\ connectPoolThrottle(nextNonDonatePool(p), w)
    /\ UNCHANGED halted

\* ... while the pool to resume holds a job set_job rejects: the exception
\* leaves switchPool with that pool already active.
ThrowsOnResume(p, w) ==
    /\ p = w.active
    /\ SomeAlive(w) /\ w.lastJob[AlivePool(w)] # "ok"
    /\ active' = AlivePool(w)
    /\ UNCHANGED <<throttled, connectTimer, workers>>

\* No handler above a timer or a socket event catches: the process ends.
Uncaught(p, w) ==
    /\ ThrowsOnResume(p, w)
    /\ closeTimer' = pool_close_wait(p, w).closeTimer
    /\ KeepConnections(w)
    /\ halted' = TRUE

switchPool(p, w) ==
    LeaveInactive(p, w) \/ ResumeAlive(p, w) \/ ConnectNext(p, w) \/ Uncaught(p, w)

\* pool_err on the current socket of p: drop the connection and fail over.
pool_err(p, w) == switchPool(p, clear_pool_connection(p, w))

-----------------------------------------------------------------------------
(* Pool messages and socket events *)

\* "end", "error", an unparsable line, a message handler that throws before it
\* stores a job, or an overlong buffer.
SocketFails(p) ==
    /\ ~halted
    /\ socket[p] # NoSock
    /\ pool_err(p, World)
    /\ UNCHANGED windowVars

\* activatePoolForJob: the first job of the primary or of the donation pool
\* takes over; the primary lets the pool it displaces close softly.
activatePoolForJob(p, w) ==
    CASE p = w.active \/ w.lastJob[p] # "none" -> w
      [] p # w.active /\ w.lastJob[p] = "none" /\ p = Primary ->
            [pool_close_wait(w.active, w) EXCEPT !.active = p]
      [] p # w.active /\ w.lastJob[p] = "none" /\ p = Donate -> [w EXCEPT !.active = p]
      [] OTHER -> w

\* Mutant: the window is not checked again when the job arrives.
donationJobSupported_AnyTime(p) == TRUE

\* donationJobSupported accepts a job of the donation pool only in its window
\* (and in its capability map: see RefuseDonationJob).
donationJobSupported(p) == p = Donate => InWindow

\* handlePoolJob on a job the pool may send: activate, store, and dispatch it
\* when its pool is active.  A job set_job rejects throws into pool_err.
Job(p, class) ==
    LET w == [activatePoolForJob(p, World) EXCEPT !.lastJob[p] = class] IN
    /\ ~halted
    /\ socket[p] # NoSock
    /\ donationJobSupported(p)
    /\ class \in JobClasses
    /\ \A q \in Pools : Len(w.closeTimer[q]) <= MaxSoft
    /\ \/ /\ p # w.active \/ class = "ok"
          /\ active' = w.active
          /\ workers' = IF p = w.active THEN p ELSE workers
          /\ closeTimer' = w.closeTimer
          /\ KeepConnections(w)
          /\ UNCHANGED <<throttled, connectTimer, halted>>
       \/ /\ p = w.active /\ class # "ok"
          /\ pool_err(p, w)
    /\ UNCHANGED windowVars

\* donationJobSupported refuses a job outside the window or outside the
\* capability map.  The inactive donation pool is disconnected; the active one
\* is left through switchPool, whose exception pool_message's caller catches
\* and turns into pool_err: by then the donation pool is no longer active.
RefuseDonationJob ==
    /\ ~halted
    /\ Donate \in Pools /\ socket[Donate] # NoSock
    /\ Len(closeTimer[Donate]) < MaxSoft
    /\ \/ /\ active # Donate
          /\ KeepConnections(clear_pool_connection(Donate, World))
          /\ UNCHANGED <<active, throttled, connectTimer, closeTimer, workers, halted>>
       \/ ResumeAlive(Donate, World)
       \/ ConnectNext(Donate, World)
       \/ /\ ThrowsOnResume(Donate, World)
          /\ closeTimer' = pool_close_wait(Donate, World).closeTimer
          /\ KeepConnections(clear_pool_connection(Donate, World))
          /\ UNCHANGED halted
    /\ UNCHANGED windowVars

-----------------------------------------------------------------------------
(* Timers *)

\* connect_throttle seconds have passed since the pool's last connection.
ThrottleElapses(p) ==
    /\ ~halted
    /\ throttled[p]
    /\ throttled' = [throttled EXCEPT ![p] = FALSE]
    /\ UNCHANGED <<active, socket, lastJob, connectTimer, firstJobTimer, closeTimer,
                   windowVars, workers, halted>>

\* The delayed connect_pool call runs.
ConnectTimer(p) ==
    /\ ~halted
    /\ connectTimer[p] /\ ~throttled[p]
    /\ connect_pool(p, World)
    /\ UNCHANGED <<active, closeTimer, windowVars, workers, halted>>

\* scheduleInitialJobTimeout for socket s: pool_err if s is still the pool's
\* socket and no job has been stored, nothing otherwise.
FirstJobTimer(p, s) ==
    LET w == [World EXCEPT !.firstJobTimer[p] = @ \ {s}] IN
    /\ ~halted
    /\ s \in firstJobTimer[p]
    /\ \/ /\ socket[p] # s \/ lastJob[p] # "none"
          /\ KeepConnections(w)
          /\ UNCHANGED <<active, throttled, connectTimer, closeTimer, workers, halted>>
       \/ /\ socket[p] = s /\ lastJob[p] = "none"
          /\ pool_err(p, w)
    /\ UNCHANGED windowVars

\* Mutant: the timer does not look whether its pool is active again.
CloseTimer_AlsoActive(p) ==
    /\ ~halted
    /\ closeTimer[p] # <<>>
    /\ closeTimer' = [closeTimer EXCEPT ![p] = Tail(@)]
    /\ IF socket[p] # Head(closeTimer[p])
       THEN UNCHANGED <<socket, lastJob, firstJobTimer>>
       ELSE KeepConnections(clear_pool_connection(p, World))
    /\ UNCHANGED <<active, throttled, connectTimer, windowVars, workers, halted>>

\* The oldest soft-close timer of pool p: nothing if p is active or the socket
\* was replaced, else the connection is dropped.
CloseTimer(p) ==
    /\ ~halted
    /\ closeTimer[p] # <<>>
    /\ closeTimer' = [closeTimer EXCEPT ![p] = Tail(@)]
    /\ IF p = active \/ socket[p] # Head(closeTimer[p])
       THEN UNCHANGED <<socket, lastJob, firstJobTimer>>
       ELSE KeepConnections(clear_pool_connection(p, World))
    /\ UNCHANGED <<active, throttled, connectTimer, windowVars, workers, halted>>

\* Mutant: the interval returns while the backup pool works.
PrimaryReconnect_OnlyIdle ==
    /\ ~halted
    /\ Count >= IF Donate # NoPool THEN 3 ELSE 2
    /\ lastJob[active] = "none"
    /\ active \notin {Primary, Donate}
    /\ connectPoolThrottle(Primary, World)
    /\ UNCHANGED <<active, closeTimer, windowVars, workers, halted>>

\* schedulePrimaryReconnect: an interval, scheduled only if there is a backup.
PrimaryReconnect ==
    /\ ~halted
    /\ Count >= IF Donate # NoPool THEN 3 ELSE 2
    /\ active \notin {Primary, Donate}
    /\ connectPoolThrottle(Primary, World)
    /\ UNCHANGED <<active, closeTimer, windowVars, workers, halted>>

\* startDonationWindow: an interval; a new window may open before the last ends.
StartDonationWindow ==
    /\ ~halted
    /\ Donate # NoPool
    /\ Len(windowTimer) < MaxWindow
    /\ \E u \in Windows \ (Pending(windowTimer) \cup {until}) :
         /\ until' = u
         /\ windowTimer' = Append(windowTimer, u)
    /\ expired' = FALSE
    /\ connectPoolThrottle(Donate, [World EXCEPT !.inWindow = TRUE])
    /\ UNCHANGED <<active, closeTimer, workers, halted>>

\* The clock reaches the end of the current window.
WindowExpires ==
    /\ ~halted
    /\ InWindow
    /\ expired' = TRUE
    /\ UNCHANGED <<active, connVars, closeTimer, until, windowTimer, workers, halted>>

\* The oldest window-end timer: nothing if a newer window has replaced its own.
WindowTimer ==
    /\ ~halted
    /\ windowTimer # <<>>
    /\ Head(windowTimer) = until => expired
    /\ windowTimer' = Tail(windowTimer)
    /\ \/ /\ Head(windowTimer) # until
          /\ UNCHANGED <<active, connVars, closeTimer, until, expired, workers, halted>>
       \/ /\ Head(windowTimer) = until
          /\ until' = NoWindow
          /\ expired' = FALSE
          /\ Len(closeTimer[Donate]) < MaxSoft
          /\ switchPool(Donate, [World EXCEPT !.inWindow = FALSE])

-----------------------------------------------------------------------------
\* start_mining: the primary is active and its connection is under way.
Init ==
    /\ active = Primary
    /\ \E s \in Socks :
         /\ socket = [p \in Pools |-> IF p = Primary THEN s ELSE NoSock]
         /\ firstJobTimer = [p \in Pools |-> IF p = Primary THEN {s} ELSE {}]
    /\ lastJob = [p \in Pools |-> "none"]
    /\ throttled = [p \in Pools |-> p = Primary]
    /\ connectTimer = [p \in Pools |-> FALSE]
    /\ closeTimer = [p \in Pools |-> <<>>]
    /\ until = NoWindow
    /\ expired = FALSE
    /\ windowTimer = <<>>
    /\ workers = NoPool
    /\ halted = FALSE

Next ==
    \/ \E p \in Pools :
         \/ SocketFails(p)
         \/ \E class \in AllJobs : Job(p, class)
         \/ ThrottleElapses(p)
         \/ ConnectTimer(p)
         \/ \E s \in Socks : FirstJobTimer(p, s)
         \/ CloseTimer(p)
    \/ RefuseDonationJob
    \/ PrimaryReconnect
    \/ StartDonationWindow
    \/ WindowExpires
    \/ WindowTimer

Spec == Init /\ [][Next]_vars

\* Any callback a timer makes.
TimerStep ==
    \/ \E p \in Pools :
         \/ ConnectTimer(p)
         \/ \E s \in Socks : FirstJobTimer(p, s)
         \/ CloseTimer(p)
    \/ PrimaryReconnect
    \/ StartDonationWindow
    \/ WindowTimer

-----------------------------------------------------------------------------
(* Safety *)

\* A stored job always belongs to an open connection: switchPool may resume a
\* pool from last_job alone (alivePoolJob) and shares have a socket to go to.
JobNeedsSocket == \A p \in Pools : lastJob[p] # "none" => socket[p] # NoSock

\* The miner is never left without a way forward: the active pool has a socket,
\* or a connect timer that will open one.
NeverStranded == ~halted => socket[active] # NoSock \/ connectTimer[active]

\* A connection that has produced no job yet still has its own initial-job
\* timeout, whatever the timers of earlier connections have done.
SilentSocketWatched ==
    \A p \in Pools :
        socket[p] # NoSock /\ lastJob[p] = "none" => socket[p] \in firstJobTimer[p]

\* The donation pool is active only with a job, in a window whose end timer is
\* still pending: donation always ends.
DonationConfined ==
    active = Donate =>
        /\ lastJob[Donate] # "none"
        /\ until # NoWindow
        /\ until \in Pending(windowTimer)

\* No timer callback, however stale, takes the connection of an active pool
\* that has a job.
TimersSpareActive ==
    [][TimerStep /\ lastJob[active] # "none" => socket'[active] = socket[active]]_vars

\* pool/jobs.js: "do not continue to mine on donate pool if all other pools are
\* dead".  The workers hold a donation job only while the donation pool is active.
DonationWorkStops == workers = Donate /\ Donate # NoPool /\ ~halted => active = Donate

=============================================================================
