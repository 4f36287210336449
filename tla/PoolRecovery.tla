---------------------------- MODULE PoolRecovery ----------------------------
(***************************************************************************)
(* PoolFailover under the fairness of the event loop, after any history:   *)
(* pools fail at will until, at a moment nobody knows, some of them settle *)
(* and answer from then on.                                                *)
(***************************************************************************)
EXTENDS PoolFailover

CONSTANT Reliable  \* the pools that settle

ASSUME ReliableAssumption == Reliable \subseteq Pools \ {Donate} /\ "ok" \in JobClasses

\* A reliable pool drops its connection, lets its initial-job timeout find no
\* job, or sends a job set_job rejects.
Misbehaves(p) ==
    \/ SocketFails(p)
    \/ Job(p, "bad")
    \/ lastJob[p] = "none" /\ FirstJobTimer(p, socket[p])

Settle == <>[][\A p \in Reliable : ~Misbehaves(p)]_vars

\* A pool that has settled answers a connection with a job.
Answers(p) == lastJob[p] = "none" /\ Job(p, "ok")

\* Timers always fire, and the interval of schedulePrimaryReconnect keeps
\* ticking, also outside the donation windows, which are shorter than the time
\* between them.  The answer is strongly fair because the bound MaxSoft can
\* disable it until a soft-close timer fires.
Fairness ==
    /\ \A p \in Pools :
         /\ WF_vars(ThrottleElapses(p))
         /\ WF_vars(ConnectTimer(p))
         /\ \A s \in Socks : WF_vars(FirstJobTimer(p, s))
         /\ WF_vars(CloseTimer(p))
         /\ p \in Reliable => SF_vars(Answers(p))
    /\ SF_vars(PrimaryReconnect)
    /\ WF_vars(WindowExpires)
    /\ WF_vars(WindowTimer)

FairSpec == Spec /\ Settle /\ Fairness

\* Once the primary has settled, schedulePrimaryReconnect and the failover bring
\* it back with a job again and again, from wherever the failures left the
\* timers, from a donation window, and from a backup that works.
PrimaryRegained == []<>(active = Primary /\ lastJob[Primary] # "none")
=============================================================================
