-------------------------- MODULE WorkerLifecycle --------------------------
(***************************************************************************)
(* The worker processes of the miner: how they are created, replaced when  *)
(* the algorithm changes, closed, killed, and how the controller tells an  *)
(* expected end from a failure and ends itself (helper.js, exit() and      *)
(* waitForWorkerClose() of mom.js, handleWorkerError of miner/messages.js).*)
(*                                                                         *)
(* Workers are subprocesses that talk over stdin and stdout, or cluster    *)
(* workers that talk over IPC.  The end of a process, its last output and  *)
(* the controller's handling of both are separate steps, in any order the  *)
(* transport allows.  Faults are counted, so that a behaviour has few.     *)
(***************************************************************************)
EXTENDS Naturals, Sequences

CONSTANTS
    Sizes,      \* workers of each generation: its length bounds generations
    MaxFaults,  \* bound: crashes, hangs, failed cores and broken messages
    MaxShares   \* bound: results sent by workers

ASSUME LifecycleAssumption ==
    /\ Sizes \in Seq(Nat \ {0}) /\ Sizes # << >>
    /\ {MaxFaults, MaxShares} \subseteq Nat

Generation(g) == {g} \X (1 .. Sizes[g])
Workers == UNION {Generation(g) : g \in 1 .. Len(Sizes)}

VARIABLES
    transport,  \* use_subprocess_workers: "sub" or "cluster"
    mode,       \* "plain", "harness" (harnessOwnsShutdownDeadline) or "mine"
                \* (controlledMine: a harness that also waits for the shares)
    gen,        \* worker_generation
    ids,        \* worker_ids with worker_procs
    mark,       \* expectedWorkerCloses, "no" when there is no entry
    forces,     \* pending forced closes: sets of workers with their origin
    phase,      \* controller: "run", "exit", "drain" or "gone"
    status,     \* process.exitCode
    awaited,    \* workers that exit() asked to close
    timed,      \* the exit timer of PROCESS_EXIT_GRACE_MS is set
    own,        \* the controller's own core: "open", "closing", or "closed", also
                \* with the process
    proc,       \* process: none, up, hung, ended (not yet seen), seen
    how,        \* how a process ended: "ok" or "bad"
    core,       \* compute core of the worker: "live" or "failed"
    closing,    \* is_exiting of the worker
    inbox,      \* commands on their way to the worker
    out,        \* messages on their way to the controller
    reason,     \* history: what the first exit() came from
    cut,        \* history: who ended it all at once: a second exit(), a crash
    guilty,     \* history: workers with a fault of their own
    faults, shares

ctl == <<transport, mode, gen, ids, mark, forces, phase, status, awaited,
         timed, own>>
wrk == <<proc, how, core, closing, inbox, out>>
hist == <<reason, cut, guilty, faults, shares>>
exitVars == <<phase, status, inbox, awaited, timed, own, forces, reason, cut>>
vars == <<transport, mode, gen, ids, mark, forces, phase, status, awaited,
          timed, own, proc, how, core, closing, inbox, out, reason, cut,
          guilty, faults, shares>>

Running(w) == proc[w] \in {"up", "hung"}
Current == Generation(gen)

Init ==
    /\ transport \in {"sub", "cluster"}
    /\ mode \in {"plain", "harness", "mine"} /\ timed = FALSE /\ own = "open"
    /\ gen = 1 /\ ids = Current
    /\ mark = [w \in Workers |-> "no"]
    /\ forces = {} /\ phase = "run" /\ status = 0 /\ awaited = {}
    /\ proc = [w \in Workers |-> IF w \in Current THEN "up" ELSE "none"]
    /\ how = [w \in Workers |-> "ok"]
    /\ core = [w \in Workers |-> "live"]
    /\ closing = [w \in Workers |-> FALSE]
    /\ inbox = [w \in Workers |-> << >>] /\ out = [w \in Workers |-> << >>]
    /\ reason = "none" /\ cut = "none"
    /\ guilty = {} /\ faults = 0 /\ shares = 0

-----------------------------------------------------------------------------
(* The controller.                                                         *)

\* Mutant: nothing is written to a worker.
Sent_Not(ws, c) == inbox

\* messageWorkers: a command for every worker that can still be written to.
Sent(ws, c) ==
    [w \in Workers |-> IF w \in ws /\ Running(w) THEN Append(inbox[w], c)
                       ELSE inbox[w]]

\* Mutant: a close is sent without noting that the end is expected.
MarkClosing_Not(m, ws) == m

\* markExpectedClose
MarkClosing(m, ws) ==
    [w \in Workers |-> IF w \in ws /\ m[w] = "no" THEN "requested" ELSE m[w]]

\* Mutant: a replaced worker is never killed.
Replace_NoForce ==
    /\ phase = "run" /\ gen < Len(Sizes)
    /\ gen' = gen + 1
    /\ mark' = MarkClosing(mark, ids)
    /\ inbox' = Sent(ids, "close")
    /\ ids' = Generation(gen + 1)
    /\ proc' = [w \in Workers |-> IF w \in ids' THEN "up" ELSE proc[w]]
    /\ UNCHANGED <<transport, mode, forces, phase, status, awaited, timed, own,
                   how, core, closing, out, hist>>

\* recreate_threads: the old generation is asked to close and is killed after
\* WORKER_REPLACE_CLOSE_GRACE_MS; a new one is started.
Replace ==
    /\ phase = "run" /\ gen < Len(Sizes)
    /\ gen' = gen + 1
    /\ mark' = MarkClosing(mark, ids)
    /\ inbox' = Sent(ids, "close")
    /\ forces' = forces \cup {[by |-> "replace", targets |-> ids]}
    /\ ids' = Generation(gen + 1)
    /\ proc' = [w \in Workers |-> IF w \in ids' THEN "up" ELSE proc[w]]
    /\ UNCHANGED <<transport, mode, phase, status, awaited, timed, own, how, core,
                   closing, out, hist>>

\* Mutant: a worker does not notice that the controller is gone.
PipesEnd_Unread(ib) == ib

\* The controller process is gone: workers read the end of their stdin, or
\* lose the IPC channel.
PipesEnd(ib) ==
    [w \in Workers |-> IF Running(w) THEN Append(ib[w], "end") ELSE ib[w]]

\* exit(code, force) on top of marks m and the workers `live'.  The first call
\* closes the controller's own core and the workers; a second forced one ends the
\* process at once, unless a harness owns the deadline.
Exit(code, force, m, live, why) ==
    IF phase = "run"
    THEN /\ phase' = "exit" /\ status' = code /\ reason' = why
         /\ mark' = MarkClosing(m, live)
         /\ inbox' = Sent(live, "close")
         /\ awaited' = live
         /\ timed' = (force /\ mode = "plain") /\ own' = "closing"
         /\ forces' = IF timed' THEN forces \cup {[by |-> "exit", targets |-> live]}
                      ELSE forces
         /\ UNCHANGED cut
    ELSE /\ mark' = m
         /\ IF force /\ mode = "plain"
            THEN /\ phase' = "gone" /\ status' = code /\ own' = "closed"
                 /\ inbox' = PipesEnd(inbox)
                 /\ cut' = why
            ELSE UNCHANGED <<phase, status, own, inbox, cut>>
         /\ UNCHANGED <<awaited, timed, forces, reason>>

\* Mutant: messages of a replaced generation reach the handler.
Heard_All(w) == TRUE

\* forWorkerGeneration
Heard(w) == w[1] = gen

\* workerError: a fatal error reaches handleWorkerError, which exits.
Fatal(w, m, live) ==
    IF Heard(w) THEN Exit(1, TRUE, m, live, "worker")
    ELSE mark' = m /\ UNCHANGED exitVars

\* A signal or the control pipe (forced), or the end of a test (not forced), as
\* often as they like.
UserExit ==
    /\ phase \in {"run", "exit"}
    /\ \E force \in BOOLEAN : Exit(0, force, mark, ids, "user")
    /\ UNCHANGED <<transport, mode, gen, ids, proc, how, core, closing, out,
                   guilty, faults, shares>>

\* Mutant: a worker that fails while it closes does not fail the run.
FailedClose_Ignored(w) == status

\* handleExpectedWorkerExit: a worker asked to close that fails to is logged
\* and fails the run.
FailedClose(w) ==
    IF mark[w] = "requested" /\ how[w] = "bad" THEN 1 ELSE status

\* Mutant: the exit event does not take the worker off the list.
Listed_Kept(w) == ids

\* The workers left after the exit event of one.
Listed(w) == ids \ {w}

\* The exit event of a worker.
WorkerExit(w) ==
    /\ phase # "gone" /\ proc[w] = "ended"
    /\ proc' = [proc EXCEPT ![w] = "seen"]
    /\ ids' = Listed(w)
    /\ IF mark[w] # "no"
       THEN /\ status' = FailedClose(w)
            /\ mark' = IF mark[w] = "requested" /\ how[w] = "bad"
                       THEN [mark EXCEPT ![w] = "reported"] ELSE mark
            /\ UNCHANGED <<phase, inbox, awaited, timed, own, forces, reason, cut>>
       ELSE Fatal(w, mark, Listed(w))
    /\ UNCHANGED <<transport, mode, gen, how, core, closing, out,
                   guilty, faults, shares>>

\* A process ends; a kill counts as a bad end.
Ends(w, h) ==
    /\ proc' = [proc EXCEPT ![w] = "ended"]
    /\ how' = [how EXCEPT ![w] = h]

\* killProcessTree, worker.kill
Kill(w) == IF Running(w) THEN Ends(w, "bad") ELSE UNCHANGED <<proc, how>>

\* A message of a worker: a result, or output the controller cannot accept.
\* A subprocess that was told to close is not blamed for it; a cluster worker
\* is, unless it was blamed before.
Message(w) ==
    /\ phase # "gone" /\ out[w] # << >>
    /\ out' = [out EXCEPT ![w] = Tail(@)]
    /\ IF Head(out[w]) = "garbage"
          /\ mark[w] \in (IF transport = "sub" THEN {"no"}
                          ELSE {"no", "requested", "forced"})
       THEN Fatal(w, [mark EXCEPT ![w] = "reported"], ids) /\ Kill(w)
       ELSE UNCHANGED <<mark, exitVars, proc, how>>
    /\ UNCHANGED <<transport, mode, gen, ids, core, closing,
                   guilty, faults, shares>>

\* A job could not be written to a worker that has ended: the error of its
\* stdin or channel comes before or after its exit event.
SendError(w) ==
    /\ phase # "gone" /\ proc[w] \in {"ended", "seen"} /\ mark[w] = "no"
    /\ Fatal(w, IF transport = "sub" THEN [mark EXCEPT ![w] = "reported"]
                ELSE mark, ids)
    /\ UNCHANGED <<transport, mode, gen, ids, proc, how, core, closing,
                   out, guilty, faults, shares>>

\* A worker the controller takes for alive: its exit event was not handled, and
\* no kill of its own was sent to it.
Unclosed(w) ==
    \/ Running(w)
    \/ proc[w] = "ended" /\ ~(transport = "sub" /\ mark[w] = "reported")

\* forceCloseWorker for the targets of closeWorkers, after the grace period.
ForceClose(f) ==
    /\ phase # "gone" /\ f \in forces
    /\ forces' = forces \ {f}
    /\ mark' = [w \in Workers |-> IF w \in f.targets /\ Unclosed(w) THEN "forced"
                                  ELSE mark[w]]
    /\ proc' = [w \in Workers |-> IF w \in f.targets /\ Running(w) THEN "ended"
                                  ELSE proc[w]]
    /\ how' = [w \in Workers |-> IF w \in f.targets /\ Running(w) THEN "bad"
                                 ELSE how[w]]
    /\ UNCHANGED <<transport, mode, gen, ids, phase, status, awaited,
                   timed, own, core, closing, inbox, out, hist>>

\* reallyExit, or the natural end of the process.
Gone(code) ==
    /\ phase' = "gone" /\ status' = code /\ own' = "closed"
    /\ inbox' = PipesEnd(inbox)
    /\ UNCHANGED <<transport, mode, gen, ids, mark, forces, awaited,
                   timed, proc, how, core, closing, out, hist>>

\* Mutant: the exit timer is not longer than the grace period of the workers.
GraceOver_Early == timed

\* WORKER_CLOSE_GRACE_MS is shorter than PROCESS_EXIT_GRACE_MS, and both
\* timers are set by the same call; a timer of Replace was set before.
GraceOver == timed /\ forces = {}

\* The timer ends the process with the code exit() was called with, whatever
\* the workers have done since.
ExitTimer ==
    phase = "exit" /\ GraceOver /\ Gone(IF reason = "worker" THEN 1 ELSE 0)

\* Mutant: the exit event of a subprocess is taken for the end of its output.
Closed_OnExit(w) == proc[w] = "seen"

\* waitForWorkerClose: the close event of a subprocess comes after its output
\* ended, the exit event of a cluster worker may come before its messages.
Closed(w) == proc[w] = "seen" /\ (transport = "sub" => out[w] = << >>)

\* The close event of the controller's own core (compute_core_close).
OwnClosed ==
    /\ phase = "exit" /\ own = "closing"
    /\ own' = "closed"
    /\ UNCHANGED <<transport, mode, gen, ids, mark, forces, phase, status,
                   awaited, timed, wrk, hist>>

\* Controlled mining goes on to wait for the answers to submitted shares.
StartDrain ==
    /\ phase = "exit" /\ mode = "mine"
    /\ own = "closed" /\ \A w \in awaited : Closed(w)
    /\ phase' = "drain"
    /\ UNCHANGED <<transport, mode, gen, ids, mark, forces, status,
                   awaited, timed, own, wrk, hist>>

Drained == phase = "drain" /\ Gone(status)

\* The timers are unref'd: the process ends when no worker and no core is left,
\* except that pool sockets keep controlled mining alive.
NaturalEnd ==
    /\ phase = "exit" /\ mode # "mine" /\ own = "closed"
    /\ \A w \in Workers : proc[w] \in {"none", "seen"} /\ out[w] = << >>
    /\ Gone(status)

\* The controller is killed while it mines, or an exception that nobody catches
\* ends it, such as the error event of its own core, which has no listener: no
\* worker is told.
ControllerCrash ==
    /\ phase = "run" \/ (phase = "exit" /\ own = "closing")
    /\ faults < MaxFaults
    /\ phase' = "gone" /\ status' = 1 /\ own' = "closed" /\ cut' = "crash"
    /\ inbox' = PipesEnd(inbox)
    /\ faults' = faults + 1
    /\ UNCHANGED <<transport, mode, gen, ids, mark, forces, awaited, timed, proc,
                   how, core, closing, out, reason, guilty, shares>>

-----------------------------------------------------------------------------
(* The workers.                                                            *)

WorkerOnly == UNCHANGED <<ctl, reason, cut>>

\* A job matters here only to a worker whose core has failed: sendToCpp throws
\* and the worker ends.
Job(w) ==
    /\ phase = "run" /\ w \in ids
    /\ proc[w] = "up" /\ core[w] = "failed" /\ ~closing[w]
    /\ Ends(w, "bad")
    /\ WorkerOnly
    /\ UNCHANGED <<core, closing, inbox, out, guilty, faults, shares>>

\* A close, or the end of stdin, is passed to the core once; a core that has
\* failed throws, and the worker ends.  Node ends a cluster worker that lost
\* its channel.
Command(w) ==
    /\ proc[w] = "up" /\ inbox[w] # << >>
    /\ inbox' = [inbox EXCEPT ![w] = Tail(@)]
    /\ closing' = [closing EXCEPT ![w] = TRUE]
    /\ IF ~closing[w] /\ core[w] = "failed" THEN Ends(w, "bad")
       ELSE IF Head(inbox[w]) = "end" /\ transport = "cluster" THEN Ends(w, "ok")
       ELSE UNCHANGED <<proc, how>>
    /\ WorkerOnly /\ UNCHANGED <<core, out, guilty, faults, shares>>

\* Nothing keeps a worker with a failed core alive once its stdin has ended.
Abandoned(w) ==
    /\ proc[w] = "up" /\ core[w] = "failed" /\ closing[w]
    /\ phase = "gone" /\ inbox[w] = << >>
    /\ Ends(w, "ok")
    /\ WorkerOnly
    /\ UNCHANGED <<core, closing, inbox, out, guilty, faults, shares>>

\* The core found a share, also while it closes.
Share(w) ==
    /\ proc[w] = "up" /\ core[w] = "live" /\ shares < MaxShares
    /\ shares' = shares + 1
    /\ out' = [out EXCEPT ![w] = Append(@, "share")]
    /\ WorkerOnly
    /\ UNCHANGED <<proc, how, core, closing, inbox, guilty, faults>>

\* The core has closed and the process ends by itself.
CoreClosed(w) ==
    /\ proc[w] = "up" /\ closing[w] /\ core[w] = "live"
    /\ Ends(w, "ok")
    /\ WorkerOnly
    /\ UNCHANGED <<core, closing, inbox, out, guilty, faults, shares>>

Fault(w) ==
    /\ proc[w] = "up" /\ faults < MaxFaults
    /\ faults' = faults + 1 /\ guilty' = guilty \cup {w}
    /\ WorkerOnly /\ UNCHANGED <<closing, inbox, shares>>

\* A crash or a broken command, or a second signal, which ends with code 0.
Crash(w) ==
    /\ Fault(w)
    /\ \E h \in {"ok", "bad"} : Ends(w, h)
    /\ UNCHANGED <<core, out>>

\* The process no longer reacts.
Hang(w) ==
    /\ Fault(w)
    /\ proc' = [proc EXCEPT ![w] = "hung"]
    /\ UNCHANGED <<how, core, out>>

\* The compute thread ended with an error: a message that is not fatal.
CoreFails(w) ==
    /\ Fault(w) /\ core[w] = "live"
    /\ core' = [core EXCEPT ![w] = "failed"]
    /\ UNCHANGED <<proc, how, out>>

Garbage(w) ==
    /\ Fault(w)
    /\ out' = [out EXCEPT ![w] = Append(@, "garbage")]
    /\ UNCHANGED <<proc, how, core>>

Faulty(w) == Crash(w) \/ Hang(w) \/ CoreFails(w) \/ Garbage(w)

-----------------------------------------------------------------------------
Next ==
    \/ Replace \/ UserExit
    \/ \E w \in Workers :
         \/ WorkerExit(w) \/ Message(w) \/ SendError(w)
         \/ Job(w) \/ Command(w) \/ Abandoned(w) \/ Share(w) \/ CoreClosed(w)
         \/ Faulty(w)
    \/ \E f \in forces : ForceClose(f)
    \/ ExitTimer \/ OwnClosed \/ StartDrain \/ Drained \/ NaturalEnd
    \/ ControllerCrash

Spec == Init /\ [][Next]_vars

\* Timers fire, events are handled, a worker that is not hung reads its
\* commands, and a core that is asked to close closes (ComputeThread).  No
\* fault, share, job or request has to happen.  Every step uses something up,
\* so behaviours are finite and fairness of the disjunction is fairness of each.
Progress ==
    \/ \E w \in Workers : \/ WorkerExit(w) \/ Message(w)
                          \/ Command(w) \/ CoreClosed(w) \/ Abandoned(w)
    \/ \E f \in forces : ForceClose(f)
    \/ ExitTimer \/ OwnClosed \/ StartDrain \/ Drained \/ NaturalEnd

FairSpec == Spec /\ WF_vars(Progress)

-----------------------------------------------------------------------------
\* Types of the state.
TypeOK ==
    /\ transport \in {"sub", "cluster"} /\ mode \in {"plain", "harness", "mine"}
    /\ timed \in BOOLEAN /\ own \in {"open", "closing", "closed"}
    /\ gen \in 1 .. Len(Sizes) /\ ids \subseteq {w \in Current : proc[w] # "seen"}
    /\ awaited \subseteq Current
    /\ mark \in [Workers -> {"no", "requested", "forced", "reported"}]
    /\ \A f \in forces : f.by \in {"replace", "exit"} /\ f.targets \subseteq Workers
    /\ phase \in {"run", "exit", "drain", "gone"} /\ status \in {0, 1}
    /\ proc \in [Workers -> {"none", "up", "hung", "ended", "seen"}]
    /\ how \in [Workers -> {"ok", "bad"}] /\ core \in [Workers -> {"live", "failed"}]
    /\ closing \in [Workers -> BOOLEAN]
    /\ inbox \in [Workers -> Seq({"close", "end"})]
    /\ out \in [Workers -> Seq({"share", "garbage"})]
    /\ reason \in {"none", "user", "worker"}
    /\ cut \in {"none", "user", "worker", "crash"}
    /\ guilty \subseteq Workers
    /\ faults \in 0 .. MaxFaults /\ shares \in 0 .. MaxShares

\* The miner only gives up by itself when a worker of the generation in use
\* failed: neither replacing workers nor what replaced ones still do, killed
\* or not, ends it.
ExitForCause == reason = "worker" => \E w \in guilty : w[1] = gen

\* With subprocess workers, nothing a worker does after the user asked for an
\* orderly exit makes the controller end at once and drop the grace period.
NotCutShort == transport = "sub" /\ reason = "user" => cut # "worker"

\* When the controller ends after its grace period, no worker that stopped
\* reacting is left behind, of the last or of a replaced generation.  (A
\* controlled exit answers for the workers in use only.)
KilledBeforeEnd ==
    phase = "gone" /\ cut = "none" =>
        \A w \in (IF mode = "mine" THEN awaited ELSE Workers) : proc[w] # "hung"

\* When controlled mining starts to wait for pool answers, every worker in use
\* has ended, and all a subprocess worker sent was read, so that no share is
\* submitted behind the wait.  Only what a worker sent that failed before the
\* exit, and was no longer listed when exit() asked the others to close, may be
\* unread: nobody waits for the end of its output.
SharesCollected ==
    mode = "mine" /\ phase \in {"drain", "gone"} /\ cut = "none" =>
        \A w \in Current :
            /\ proc[w] = "seen"
            /\ transport = "sub" /\ out[w] # << >> => w \in guilty \ awaited

\* A harness's run with subprocess workers fails when a worker did while it
\* closed, whatever the order of its last events.  (A closing cluster worker
\* killed for broken output is marked as reported, and its end is not.)
FailedCloseFails ==
    mode # "plain" /\ transport = "sub" /\ phase = "gone"
        /\ (\E w \in awaited : how[w] = "bad") => status = 1

\* An exit ends: with the timer always, without it unless a worker failed.
ExitEnds == phase = "exit" ~> (phase = "gone" \/ (~timed /\ guilty # {}))

\* A replaced worker ends while the miner goes on, even if it hangs.
RetiredEnd ==
    gen > 1 ~> \/ phase = "gone"
               \/ \A w \in Workers : w[1] < gen => ~Running(w)

\* Workers that still react do not outlive the controller.
NobodyLeft == phase = "gone" ~> \A w \in Workers : proc[w] # "up"
=============================================================================
