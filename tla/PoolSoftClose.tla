---------------------------- MODULE PoolSoftClose ---------------------------
(***************************************************************************)
(* PoolFailover with a history variable that dates the soft-close timers:  *)
(* a timer is stale once its pool has become active after it was armed.    *)
(* The code keeps no such record; each timer only compares the active pool *)
(* and the socket at the moment it fires.                                  *)
(***************************************************************************)
EXTENDS PoolFailover

VARIABLE stale  \* how many of the pool's pending soft-close timers are stale

HInit == Init /\ stale = [p \in Pools |-> 0]

\* The oldest timers fire first, so the stale ones are a prefix of closeTimer.
HNext ==
    /\ Next
    /\ stale' = [p \in Pools |->
         CASE active' = p /\ active # p -> Len(closeTimer[p])
           [] ~(active' = p /\ active # p)
              /\ Len(closeTimer'[p]) < Len(closeTimer[p]) /\ stale[p] > 0 -> stale[p] - 1
           [] OTHER -> stale[p]]

HSpec == HInit /\ [][HNext]_<<vars, stale>>

\* pool.js: "do not do soft close if this pool became active again".  A timer of
\* pool_close_wait armed before its pool became active again closes nothing.
StaleCloseHarmless ==
    [][\A p \in Pools : CloseTimer(p) /\ stale[p] > 0 => socket'[p] = socket[p]]_<<vars, stale>>
=============================================================================
