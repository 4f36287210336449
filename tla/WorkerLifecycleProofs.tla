----------------------- MODULE WorkerLifecycleProofs -----------------------
(***************************************************************************)
(* The safety invariants of WorkerLifecycle, for any number of generations *)
(* and of workers in each and any bound on faults, shares and requests.    *)
(*                                                                         *)
(* What the controller concludes from the end of a worker is right because *)
(* of what it noted before: a worker of the generation in use carries no   *)
(* mark until an exit, so an unmarked end is the worker's own fault, and   *)
(* after an exit every worker in use carries one.  Timers are right        *)
(* because every process that runs is either in use or the target of a     *)
(* pending forced close.                                                   *)
(***************************************************************************)
EXTENDS WorkerLifecycle, SequenceTheorems, TLAPS

-----------------------------------------------------------------------------
(* The inductive invariant.                                                *)

\* While the miner runs, every worker in use is listed, carries no mark and
\* its end, if it came, was not seen; forced closes are for replaced ones.
InUse ==
    phase = "run" =>
        /\ awaited = {} /\ reason = "none" /\ cut = "none" /\ timed = FALSE
        /\ ids = Current
        /\ \A w \in Current : mark[w] = "no" /\ proc[w] # "seen"
        /\ \A f \in forces : f.by = "replace"

\* A worker has a process exactly when its generation was started, and
\* nothing happened to it before.
Started ==
    \A w \in Workers :
        /\ proc[w] = "none" <=> w[1] > gen
        /\ proc[w] = "none" => mark[w] = "no" /\ inbox[w] = << >> /\ out[w] = << >>

\* A worker was asked to close only after the controller noted it.
Noted ==
    phase # "gone" => \A w \in Workers :
        closing[w] \/ inbox[w] # << >> => mark[w] # "no"

\* An end that nobody noted, a failed core and broken output are faults.
Blamed ==
    \A w \in Workers :
        /\ phase # "gone" /\ proc[w] \in {"ended", "seen"} /\ mark[w] = "no" => w \in guilty
        /\ core[w] = "failed" => w \in guilty
        /\ \A i \in 1 .. Len(out[w]) : out[w][i] = "garbage" => w \in guilty

\* An exit the user asked for marked every worker in use.
UserMarked == reason = "user" => \A w \in Current : mark[w] # "no"

\* Who is killed by a pending forced close.
Doomed(w) == \E f \in forces : w \in f.targets

\* A process that runs is in use or will be killed; an exit with a timer kills
\* those in use too.
Covered ==
    phase # "gone" => \A w \in Workers : Running(w) =>
        /\ w \in Current \/ Doomed(w)
        /\ timed => Doomed(w)

\* Forced closes of replaced workers, and of an exit nobody else times.
ForcesOK ==
    /\ \A f \in forces : \/ f.by = "replace" /\ \A w \in f.targets : w[1] < gen
                         \/ f.by = "exit" /\ mode = "plain"
    /\ timed => mode = "plain"

\* What a controller that ended by itself left behind.
EndedQuietly ==
    /\ phase = "drain" => /\ mode = "mine"
                          /\ \A w \in awaited : Closed(w)
    /\ phase = "gone" /\ cut = "none" =>
         /\ mode = "plain" => \A w \in Workers : ~Running(w)
         /\ mode = "harness" => \A w \in Workers : proc[w] \in {"none", "seen"}
         /\ mode = "mine" => \A w \in awaited : Closed(w)
    /\ cut \in {"user", "worker"} => mode = "plain"
    /\ cut = "crash" => phase = "gone" /\ status = 1

\* Whom exit() does not wait for: a worker that failed and whose end was seen.
Accounted ==
    phase # "run" /\ cut # "crash" =>
        \A w \in Current : w \in awaited \/ (proc[w] = "seen" /\ w \in guilty)

\* As long as no failure was reported, every worker that exit() waits for was
\* asked to close and has not ended badly.
CleanSoFar ==
    mode # "plain" /\ transport = "sub" /\ status = 0 =>
        \A w \in awaited : mark[w] = "requested" /\ (proc[w] = "seen" => how[w] = "ok")

IInv ==
    /\ TypeOK
    /\ InUse /\ Started /\ Noted /\ Blamed
    /\ ExitForCause /\ UserMarked /\ NotCutShort
    /\ Covered /\ ForcesOK /\ EndedQuietly /\ Accounted /\ CleanSoFar

-----------------------------------------------------------------------------
(* Operators.                                                              *)

\* A worker is named by its generation and its place in it.
LEMMA WorkerNames ==
    /\ \A g \in 1 .. Len(Sizes) : Generation(g) \subseteq Workers
    /\ \A g \in 1 .. Len(Sizes), w \in Workers : w \in Generation(g) <=> w[1] = g
    /\ \A w \in Workers : w[1] \in 1 .. Len(Sizes)
<1>1. \A w \in Workers : \E g \in 1 .. Len(Sizes) : w \in Generation(g)
  BY DEF Workers
<1>2. \A g, w : w \in Generation(g) => w[1] = g
  BY DEF Generation
<1>3. \A g \in 1 .. Len(Sizes) : Generation(g) \subseteq Workers
  BY DEF Workers
<1> QED
  BY <1>1, <1>2, <1>3

\* The workers in use, as far as the types go.
LEMMA CurrentNames ==
    ASSUME TypeOK
    PROVE  /\ Current \subseteq Workers
           /\ \A w \in Workers : w \in Current <=> w[1] = gen
           /\ gen \in 1 .. Len(Sizes) /\ Len(Sizes) \in Nat
  BY WorkerNames, LifecycleAssumption, LenProperties DEF TypeOK, Current

\* Commands written, and the end of the pipes, are commands.
LEMMA InboxTyped ==
    ASSUME TypeOK, NEW ws
    PROVE  /\ Sent(ws, "close") \in [Workers -> Seq({"close", "end"})]
           /\ PipesEnd(inbox) \in [Workers -> Seq({"close", "end"})]
           /\ \A w \in Workers : Sent(ws, "close")[w] # << >> =>
                 inbox[w] # << >> \/ (w \in ws /\ Running(w))
<1>1. \A w \in Workers : inbox[w] \in Seq({"close", "end"})
  BY DEF TypeOK
<1>2. \A w \in Workers, c \in {"close", "end"} : Append(inbox[w], c) \in Seq({"close", "end"})
  BY <1>1, AppendProperties
<1> QED
  BY <1>1, <1>2 DEF Sent, PipesEnd

\* Marks only grow.
LEMMA MarksTyped ==
    ASSUME NEW m \in [Workers -> {"no", "requested", "forced", "reported"}], NEW ws
    PROVE  /\ MarkClosing(m, ws) \in [Workers -> {"no", "requested", "forced", "reported"}]
           /\ \A w \in Workers : m[w] # "no" => MarkClosing(m, ws)[w] = m[w]
           /\ \A w \in Workers : m[w] = "no" =>
                 MarkClosing(m, ws)[w] = IF w \in ws THEN "requested" ELSE "no"
  BY DEF MarkClosing

-----------------------------------------------------------------------------
(* Types.                                                                  *)

\* Types of what exit() touches.
ExitTypes ==
    /\ timed \in BOOLEAN /\ own \in {"open", "closing", "closed"}
    /\ awaited \subseteq Current
    /\ mark \in [Workers -> {"no", "requested", "forced", "reported"}]
    /\ \A f \in forces : f.by \in {"replace", "exit"} /\ f.targets \subseteq Workers
    /\ phase \in {"run", "exit", "drain", "gone"} /\ status \in {0, 1}
    /\ inbox \in [Workers -> Seq({"close", "end"})]
    /\ reason \in {"none", "user", "worker"}
    /\ cut \in {"none", "user", "worker", "crash"}

\* exit() keeps the types.
LEMMA ExitTyped ==
    ASSUME TypeOK, gen' = gen,
           NEW code \in {0, 1}, NEW force \in BOOLEAN, NEW why \in {"user", "worker"},
           NEW m \in [Workers -> {"no", "requested", "forced", "reported"}],
           NEW live \in SUBSET Current, Exit(code, force, m, live, why)
    PROVE  ExitTypes'
<1>1. Current' = Current /\ Current \subseteq Workers
  BY CurrentNames DEF Current
<1>2. CASE phase = "run"
  <2>1. timed' \in BOOLEAN
    BY <1>2, Zenon DEF Exit
  <2>2. \A f \in forces' : f.by \in {"replace", "exit"} /\ f.targets \subseteq Workers
    BY <1>1, <1>2 DEF Exit, TypeOK
  <2>3. mark' \in [Workers -> {"no", "requested", "forced", "reported"}]
    BY <1>2, MarksTyped DEF Exit
  <2>4. inbox' \in [Workers -> Seq({"close", "end"})]
    BY <1>2, InboxTyped DEF Exit
  <2>5. /\ phase' = "exit" /\ status' \in {0, 1} /\ reason' \in {"user", "worker"}
        /\ awaited' \subseteq Current' /\ cut' = cut /\ own' = "closing"
    BY <1>1, <1>2 DEF Exit
  <2> QED
    BY <2>1, <2>2, <2>3, <2>4, <2>5 DEF ExitTypes, TypeOK
<1>3. CASE phase # "run"
  <2>1. /\ mark' = m /\ UNCHANGED <<awaited, timed, forces, reason>>
        /\ \/ /\ phase' = "gone" /\ status' = code /\ inbox' = PipesEnd(inbox)
              /\ cut' = why /\ own' = "closed"
           \/ UNCHANGED <<phase, status, own, inbox, cut>>
    BY <1>3 DEF Exit
  <2>2. inbox' \in [Workers -> Seq({"close", "end"})]
    <3>1. /\ PipesEnd(inbox) \in [Workers -> Seq({"close", "end"})]
          /\ inbox \in [Workers -> Seq({"close", "end"})]
      BY InboxTyped DEF TypeOK
    <3>2. inbox' \in {PipesEnd(inbox), inbox}
      BY <2>1
    <3> QED
      BY <3>1, <3>2
  <2>3. /\ timed' \in BOOLEAN /\ reason' \in {"none", "user", "worker"}
        /\ awaited' \subseteq Current' /\ own' \in {"open", "closing", "closed"}
    BY <1>1, <2>1 DEF TypeOK
  <2>4. /\ phase' \in {"run", "exit", "drain", "gone"} /\ status' \in {0, 1}
        /\ cut' \in {"none", "user", "worker", "crash"}
    BY <2>1 DEF TypeOK
  <2>5. \A f \in forces' : f.by \in {"replace", "exit"} /\ f.targets \subseteq Workers
    BY <2>1 DEF TypeOK
  <2> QED
    BY <2>1, <2>2, <2>3, <2>4, <2>5 DEF ExitTypes
<1> QED
  BY <1>2, <1>3

\* So does the handler of a fatal error.
LEMMA FatalTyped ==
    ASSUME TypeOK, gen' = gen, NEW w \in Workers,
           NEW m \in [Workers -> {"no", "requested", "forced", "reported"}],
           NEW live \in SUBSET Current, Fatal(w, m, live)
    PROVE  ExitTypes'
<1>1. CASE Heard(w)
  BY <1>1, ExitTyped DEF Fatal
<1>2. CASE ~Heard(w)
  BY <1>2 DEF Fatal, exitVars, ExitTypes, TypeOK, Current
<1> QED
  BY <1>1, <1>2

\* Every step keeps the types.
LEMMA TypeStep ==
    ASSUME TypeOK, InUse, Started, [Next]_vars
    PROVE  TypeOK'
<1> USE CurrentNames
<1>1. CASE UNCHANGED vars \/ OwnClosed
  BY <1>1 DEF OwnClosed, wrk, hist, vars, TypeOK, Current
<1>2. CASE Replace
  <2>1. /\ gen' = gen + 1 /\ gen + 1 \in 1 .. Len(Sizes) /\ ids' = Generation(gen + 1)
        /\ Current' = Generation(gen + 1) /\ awaited' = {}
        /\ ids \subseteq Workers
    BY <1>2 DEF Replace, Current, InUse, TypeOK
  <2>2. ids' \subseteq Workers
    BY <2>1, WorkerNames
  <2>3. /\ proc' \in [Workers -> {"none", "up", "hung", "ended", "seen"}]
        /\ ids' \subseteq {w \in Current' : proc'[w] # "seen"}
    BY <1>2, <2>1, <2>2 DEF Replace, TypeOK
  <2>4. mark' \in [Workers -> {"no", "requested", "forced", "reported"}]
    BY <1>2, MarksTyped DEF Replace, TypeOK
  <2>5. inbox' \in [Workers -> Seq({"close", "end"})]
    BY <1>2, InboxTyped DEF Replace
  <2>6. \A f \in forces' : f.by \in {"replace", "exit"} /\ f.targets \subseteq Workers
    BY <1>2, <2>1 DEF Replace, TypeOK
  <2> QED
    BY <1>2, <2>1, <2>3, <2>4, <2>5, <2>6 DEF Replace, TypeOK, hist
<1>3. ids \subseteq Current
  BY DEF TypeOK
<1>4. CASE UserExit
  <2>1. ExitTypes'
    BY <1>3, <1>4, ExitTyped DEF UserExit, TypeOK
  <2> QED
    BY <1>4, <2>1 DEF UserExit, ExitTypes, TypeOK, Current
<1>5. ASSUME NEW w \in Workers, WorkerExit(w) PROVE TypeOK'
  <2>1. ExitTypes'
    <3>1. CASE mark[w] = "no"
      <4>1. Listed(w) \subseteq Current
        BY <1>3 DEF Listed
      <4> QED
        BY <1>5, <3>1, <4>1, FatalTyped DEF WorkerExit, TypeOK
    <3>2. CASE mark[w] # "no"
      BY <1>5, <3>2 DEF WorkerExit, FailedClose, ExitTypes, TypeOK, Current
    <3> QED
      BY <3>1, <3>2
  <2>2. /\ proc' \in [Workers -> {"none", "up", "hung", "ended", "seen"}]
        /\ ids' = ids \ {w} /\ \A v \in Workers \ {w} : proc'[v] = proc[v]
        /\ UNCHANGED <<transport, mode, gen, how, core, closing, out, guilty, faults, shares>>
    BY <1>5 DEF WorkerExit, Listed, TypeOK
  <2>3. ids' \subseteq {v \in Current' : proc'[v] # "seen"}
    BY <2>2, CurrentNames DEF TypeOK, Current
  <2> QED
    BY <2>1, <2>2, <2>3 DEF ExitTypes, TypeOK
<1>6. ASSUME NEW w \in Workers, Message(w) PROVE TypeOK'
  <2>1. out' \in [Workers -> Seq({"share", "garbage"})]
    <3>1. out[w] \in Seq({"share", "garbage"}) /\ out[w] # << >>
      BY <1>6 DEF Message, TypeOK
    <3>2. Tail(out[w]) \in Seq({"share", "garbage"})
      BY <3>1, HeadTailProperties
    <3> QED
      BY <1>6, <3>2 DEF Message, TypeOK
  <2>2. ExitTypes'
    <3>1. CASE Fatal(w, [mark EXCEPT ![w] = "reported"], ids)
      <4>1. [mark EXCEPT ![w] = "reported"]
              \in [Workers -> {"no", "requested", "forced", "reported"}]
        BY DEF TypeOK
      <4> QED
        BY <1>3, <1>6, <3>1, <4>1, FatalTyped DEF Message
    <3>2. CASE UNCHANGED <<mark, exitVars>>
      BY <1>6, <3>2 DEF Message, exitVars, ExitTypes, TypeOK, Current
    <3> QED
      BY <1>6, <3>1, <3>2 DEF Message
  <2>3. /\ proc' \in [Workers -> {"none", "up", "hung", "ended", "seen"}]
        /\ how' \in [Workers -> {"ok", "bad"}]
        /\ \A v \in Workers : proc'[v] = "seen" => proc[v] = "seen"
    BY <1>6 DEF Message, Kill, Ends, TypeOK
  <2> QED
    BY <1>6, <2>1, <2>2, <2>3 DEF Message, ExitTypes, TypeOK, Current
<1>7. ASSUME NEW w \in Workers, SendError(w) PROVE TypeOK'
  <2>1. ExitTypes'
    <3>1. [mark EXCEPT ![w] = "reported"]
             \in [Workers -> {"no", "requested", "forced", "reported"}]
      BY DEF TypeOK
    <3> QED
      BY <1>3, <1>7, <3>1, FatalTyped DEF SendError, TypeOK
  <2> QED
    BY <1>7, <2>1 DEF SendError, ExitTypes, TypeOK, Current
<1>8. ASSUME NEW f \in forces, ForceClose(f) PROVE TypeOK'
  BY <1>8 DEF ForceClose, Unclosed, TypeOK, hist, Current
<1>9. ASSUME NEW code \in {0, 1}, Gone(code) PROVE TypeOK'
  BY <1>9, InboxTyped DEF Gone, TypeOK, hist, Current
<1>10. CASE ExitTimer \/ Drained \/ NaturalEnd
  BY <1>9, <1>10 DEF ExitTimer, Drained, NaturalEnd, TypeOK
<1>11. CASE StartDrain
  BY <1>11 DEF StartDrain, TypeOK, wrk, hist, Current
<1>12. CASE ControllerCrash
  <2>1. faults' \in 0 .. MaxFaults
    BY <1>12, LifecycleAssumption DEF ControllerCrash, TypeOK
  <2> QED
    BY <1>12, <2>1, InboxTyped DEF ControllerCrash, TypeOK, Current
<1>0. ASSUME NEW w \in Workers, (\E h \in {"ok", "bad"} : Ends(w, h)) \/ UNCHANGED <<proc, how>>,
             UNCHANGED <<gen, ids>>
      PROVE  /\ proc' \in [Workers -> {"none", "up", "hung", "ended", "seen"}]
             /\ how' \in [Workers -> {"ok", "bad"}]
             /\ ids' \subseteq {v \in Current' : proc'[v] # "seen"}
  <2>1. CASE \E h \in {"ok", "bad"} : Ends(w, h)
    <3>1. PICK h \in {"ok", "bad"} : Ends(w, h)
      BY <2>1
    <3>2. /\ proc' \in [Workers -> {"none", "up", "hung", "ended", "seen"}]
          /\ how' \in [Workers -> {"ok", "bad"}]
      BY <3>1 DEF Ends, TypeOK
    <3>3. \A v \in Workers : proc[v] # "seen" => proc'[v] # "seen"
      BY <3>1 DEF Ends, TypeOK
    <3> QED
      BY <1>0, <3>2, <3>3 DEF TypeOK, Current
  <2>2. CASE UNCHANGED <<proc, how>>
    BY <1>0, <2>2 DEF TypeOK, Current
  <2> QED
    BY <1>0, <2>1, <2>2
<1>13. ASSUME NEW w \in Workers, Job(w) \/ Abandoned(w) \/ CoreClosed(w) PROVE TypeOK'
  <2>1. /\ \E h \in {"ok", "bad"} : Ends(w, h)
        /\ UNCHANGED <<ctl, reason, cut, core, closing, inbox, out, guilty, faults, shares>>
    BY <1>13 DEF Job, Abandoned, CoreClosed, WorkerOnly
  <2>2. /\ proc' \in [Workers -> {"none", "up", "hung", "ended", "seen"}]
        /\ how' \in [Workers -> {"ok", "bad"}]
        /\ ids' \subseteq {v \in Current' : proc'[v] # "seen"}
    BY <1>0, <2>1 DEF ctl
  <2> QED
    BY <2>1, <2>2 DEF TypeOK, ctl, Current
<1>14. ASSUME NEW w \in Workers, Command(w) PROVE TypeOK'
  <2>1. inbox' \in [Workers -> Seq({"close", "end"})]
    <3>1. inbox[w] \in Seq({"close", "end"}) /\ inbox[w] # << >>
      BY <1>14 DEF Command, TypeOK
    <3>2. Tail(inbox[w]) \in Seq({"close", "end"})
      BY <3>1, HeadTailProperties
    <3> QED
      BY <1>14, <3>2 DEF Command, TypeOK
  <2>2. (\E h \in {"ok", "bad"} : Ends(w, h)) \/ UNCHANGED <<proc, how>>
    BY <1>14 DEF Command
  <2>3. /\ UNCHANGED <<ctl, reason, cut, core, out, guilty, faults, shares>>
        /\ closing' \in [Workers -> BOOLEAN]
    BY <1>14 DEF Command, WorkerOnly, TypeOK
  <2>4. /\ proc' \in [Workers -> {"none", "up", "hung", "ended", "seen"}]
        /\ how' \in [Workers -> {"ok", "bad"}]
        /\ ids' \subseteq {v \in Current' : proc'[v] # "seen"}
    BY <1>0, <2>2, <2>3 DEF ctl
  <2> QED
    BY <2>1, <2>3, <2>4 DEF TypeOK, ctl, Current
<1>15. ASSUME NEW w \in Workers PROVE /\ Append(out[w], "share") \in Seq({"share", "garbage"})
                                      /\ Append(out[w], "garbage") \in Seq({"share", "garbage"})
  BY AppendProperties DEF TypeOK
<1>16. ASSUME NEW w \in Workers, Share(w) PROVE TypeOK'
  <2>1. shares' \in 0 .. MaxShares
    BY <1>16, LifecycleAssumption DEF Share, TypeOK
  <2> QED
    BY <1>15, <1>16, <2>1 DEF Share, WorkerOnly, TypeOK, ctl, Current
<1>17. ASSUME NEW w \in Workers, Faulty(w) PROVE TypeOK'
  <2>1. Fault(w) /\ faults' \in 0 .. MaxFaults
    <3>1. Fault(w)
      BY <1>17 DEF Faulty, Crash, Hang, CoreFails, Garbage
    <3>2. faults' = faults + 1 /\ faults < MaxFaults /\ faults \in 0 .. MaxFaults
      BY <3>1 DEF Fault, TypeOK
    <3> QED
      BY <3>1, <3>2, LifecycleAssumption
  <2>2. CASE Crash(w)
    <3>1. /\ \E h \in {"ok", "bad"} : Ends(w, h)
          /\ UNCHANGED <<ctl, reason, cut, core, closing, inbox, out, shares>>
          /\ guilty' = guilty \cup {w}
      BY <2>2 DEF Crash, Fault, WorkerOnly
    <3>2. /\ proc' \in [Workers -> {"none", "up", "hung", "ended", "seen"}]
          /\ how' \in [Workers -> {"ok", "bad"}]
          /\ ids' \subseteq {v \in Current' : proc'[v] # "seen"}
      BY <1>0, <3>1 DEF ctl
    <3> QED
      BY <2>1, <3>1, <3>2 DEF TypeOK, ctl, Current
  <2>5. CASE Hang(w)
    BY <2>1, <2>5 DEF Hang, Fault, WorkerOnly, TypeOK, ctl, Current
  <2>3. CASE CoreFails(w)
    BY <2>1, <2>3 DEF CoreFails, Fault, WorkerOnly, TypeOK, ctl, Current
  <2>4. CASE Garbage(w)
    BY <1>15, <2>1, <2>4 DEF Garbage, Fault, WorkerOnly, TypeOK, ctl, Current
  <2> QED
    BY <1>17, <2>2, <2>3, <2>4, <2>5 DEF Faulty
<1> QED
  BY <1>1, <1>2, <1>4, <1>5, <1>6, <1>7, <1>8, <1>10, <1>11, <1>12, <1>13, <1>14, <1>16, <1>17
     DEF Next

-----------------------------------------------------------------------------
(* Marks and blame.                                                        *)

\* A worker whose process or output matters for an exit.
WorkerSteps(w) ==
    Job(w) \/ Command(w) \/ Abandoned(w) \/ Share(w) \/ CoreClosed(w) \/ Faulty(w)

\* A step of a worker touches nothing of the controller, no other worker, and
\* ends only a process that is up.
LEMMA WorkerStep ==
    ASSUME TypeOK, NEW w \in Workers, WorkerSteps(w)
    PROVE  /\ UNCHANGED <<ctl, reason, cut>>
           /\ proc[w] = "up" /\ proc'[w] \in {"up", "hung", "ended"}
           /\ \A v \in Workers \ {w} : proc'[v] = proc[v] /\ how'[v] = how[v]
           /\ \A v \in Workers : proc[v] = "seen" => v # w
           /\ \A v \in Workers \ {w} : inbox'[v] = inbox[v] /\ closing'[v] = closing[v]
                                       /\ core'[v] = core[v] /\ out'[v] = out[v]
           /\ guilty \subseteq guilty'
<1>1. /\ UNCHANGED <<ctl, reason, cut>> /\ proc[w] = "up" /\ guilty \subseteq guilty'
  BY DEF WorkerSteps, Job, Command, Abandoned, Share, CoreClosed, Faulty, Crash, Hang, CoreFails,
         Garbage, Fault, WorkerOnly
<1>2. /\ proc'[w] \in {"up", "hung", "ended"}
      /\ \A v \in Workers \ {w} : proc'[v] = proc[v] /\ how'[v] = how[v]
  BY <1>1 DEF WorkerSteps, Job, Command, Abandoned, Share, CoreClosed, Faulty, Crash, Hang,
         CoreFails, Garbage, Ends, TypeOK
<1>3. \A v \in Workers \ {w} : inbox'[v] = inbox[v] /\ closing'[v] = closing[v]
                               /\ core'[v] = core[v] /\ out'[v] = out[v]
  BY DEF WorkerSteps, Job, Command, Abandoned, Share, CoreClosed, Faulty, Crash, Hang,
         CoreFails, Garbage, Fault, TypeOK
<1> QED
  BY <1>1, <1>2, <1>3

\* Actions that end the controller by itself change only phase, status and the
\* pipes.
LEMMA GoneStep ==
    ASSUME ExitTimer \/ Drained \/ NaturalEnd
    PROVE  /\ phase # "run" /\ phase' = "gone"
           /\ UNCHANGED <<transport, mode, gen, ids, mark, forces, awaited, timed, proc, how,
                          core, closing, out, hist>>
  BY DEF ExitTimer, Drained, NaturalEnd, Gone

\* The handler of a fatal error of a worker in use ends the run; one of a
\* replaced worker at most marks it.
LEMMA FatalStep ==
    ASSUME TypeOK, NEW w \in Workers,
           NEW m \in [Workers -> {"no", "requested", "forced", "reported"}],
           \A v \in Workers : m[v] = mark[v] \/ (v = w /\ m[v] # "no"),
           NEW live \in SUBSET Current, Fatal(w, m, live)
    PROVE  /\ \A v \in Workers : mark[v] # "no" => mark'[v] # "no"
           /\ w \in Current => phase' # "run"
           /\ w \notin Current => /\ UNCHANGED exitVars
                                  /\ \A v \in Workers \ {w} : mark'[v] = mark[v]
           /\ phase # "run" => \A v \in Workers \ {w} : mark'[v] = mark[v]
           /\ phase # "run" => phase' # "run"
           /\ m[w] # "no" => mark'[w] # "no"
<1>1. w \in Current <=> Heard(w)
  BY CurrentNames DEF Heard
<1>2. CASE ~Heard(w)
  BY <1>1, <1>2 DEF Fatal, exitVars
<1>3. CASE Heard(w) /\ phase = "run"
  BY <1>1, <1>3, MarksTyped DEF Fatal, Exit
<1>4. CASE Heard(w) /\ phase # "run"
  BY <1>1, <1>4 DEF Fatal, Exit, TypeOK
<1> QED
  BY <1>2, <1>3, <1>4


\* What the three steps that may find a fatal error pass to its handler.
LEMMA FatalArgs ==
    ASSUME TypeOK, NEW w \in Workers
    PROVE  /\ ids \in SUBSET Current /\ Listed(w) \in SUBSET Current
           /\ mark \in [Workers -> {"no", "requested", "forced", "reported"}]
           /\ [mark EXCEPT ![w] = "reported"]
                 \in [Workers -> {"no", "requested", "forced", "reported"}]
           /\ \A v \in Workers : [mark EXCEPT ![w] = "reported"][v] =
                                    IF v = w THEN "reported" ELSE mark[v]
  BY DEF TypeOK, Listed

\* A message that is no fatal error is only read.
LEMMA MessageCases ==
    ASSUME NEW w \in Workers, Message(w)
    PROVE  /\ UNCHANGED <<transport, mode, gen, ids, core, closing, guilty, faults, shares>>
           /\ out' = [out EXCEPT ![w] = Tail(@)] /\ phase # "gone" /\ out[w] # << >>
           /\ \/ UNCHANGED <<mark, exitVars, proc, how>>
              \/ /\ Fatal(w, [mark EXCEPT ![w] = "reported"], ids) /\ Kill(w)
                 /\ Head(out[w]) = "garbage"
                 /\ transport = "sub" => mark[w] = "no"
  BY DEF Message

\* The state of the workers in use while the miner runs.
LEMMA InUseStep ==
    ASSUME IInv, [Next]_vars
    PROVE  InUse'
<1> USE CurrentNames DEF IInv
<1>1. CASE UNCHANGED vars \/ OwnClosed
  BY <1>1 DEF OwnClosed, wrk, hist, vars, InUse, Current
<1>2. CASE Replace
  <2>1. /\ phase = "run" /\ gen' = gen + 1 /\ gen + 1 \in 1 .. Len(Sizes)
        /\ ids' = Generation(gen + 1) /\ Current' = Generation(gen + 1)
    BY <1>2 DEF Replace, Current
  <2>2. \A w \in Current' : w \in Workers /\ w[1] = gen + 1 /\ w \notin Current
    BY <2>1, WorkerNames
  <2>3. \A w \in Current' : mark[w] = "no" /\ w \notin ids
    <3>1. gen + 1 > gen /\ ids \subseteq Current
      BY DEF TypeOK
    <3> QED
      BY <2>2, <3>1 DEF Started
  <2>4. \A w \in Current' : mark'[w] = "no" /\ proc'[w] = "up"
    <3>1. /\ mark \in [Workers -> {"no", "requested", "forced", "reported"}]
          /\ mark' = MarkClosing(mark, ids)
          /\ proc' = [w \in Workers |-> IF w \in ids' THEN "up" ELSE proc[w]]
      BY <1>2 DEF Replace, TypeOK
    <3> QED
      BY <2>1, <2>2, <2>3, <3>1, MarksTyped
  <2> QED
    BY <1>2, <2>1, <2>4 DEF Replace, InUse, hist
<1>3. CASE UserExit
  BY <1>3 DEF UserExit, Exit, InUse
<1>4. ASSUME NEW w \in Workers, WorkerExit(w) PROVE InUse'
  <2>1. CASE mark[w] # "no"
    BY <1>4, <2>1 DEF WorkerExit, Listed, InUse, Current, TypeOK
  <2>2. CASE mark[w] = "no"
    <3>1. Fatal(w, mark, Listed(w))
      BY <1>4, <2>2 DEF WorkerExit
    <3>2. /\ w \in Current => phase' # "run"
          /\ w \notin Current => /\ UNCHANGED exitVars
                                 /\ \A v \in Workers \ {w} : mark'[v] = mark[v]
          /\ phase # "run" => phase' # "run"
      BY <3>1, FatalArgs, FatalStep
    <3> QED
      BY <1>4, <3>2 DEF WorkerExit, Listed, InUse, Current, TypeOK, exitVars
  <2> QED
    BY <2>1, <2>2
<1>5. ASSUME NEW w \in Workers, Message(w) PROVE InUse'
  <2>1. CASE UNCHANGED <<mark, exitVars, proc, how>>
    BY <1>5, <2>1, MessageCases DEF InUse, Current, exitVars
  <2>2. CASE Fatal(w, [mark EXCEPT ![w] = "reported"], ids) /\ Kill(w)
    <3>1. /\ w \in Current => phase' # "run"
          /\ w \notin Current => /\ UNCHANGED exitVars
                                 /\ \A v \in Workers \ {w} : mark'[v] = mark[v]
          /\ phase # "run" => phase' # "run"
      BY <2>2, FatalArgs, FatalStep
    <3>2. \A v \in Workers \ {w} : proc'[v] = proc[v]
      BY <2>2 DEF Kill, Ends, TypeOK
    <3> QED
      BY <1>5, <3>1, <3>2, MessageCases DEF InUse, Current, exitVars
  <2> QED
    BY <1>5, <2>1, <2>2, MessageCases
<1>6. ASSUME NEW w \in Workers, SendError(w) PROVE InUse'
  <2>1. PICK m \in {mark, [mark EXCEPT ![w] = "reported"]} : Fatal(w, m, ids)
    BY <1>6 DEF SendError
  <2>2. /\ w \in Current => phase' # "run"
        /\ w \notin Current => /\ UNCHANGED exitVars
                               /\ \A v \in Workers \ {w} : mark'[v] = mark[v]
        /\ phase # "run" => phase' # "run"
    BY <2>1, FatalArgs, FatalStep
  <2> QED
    BY <1>6, <2>2 DEF SendError, InUse, Current, exitVars
<1>7. ASSUME NEW f \in forces, ForceClose(f) PROVE InUse'
  <2>1. phase = "run" => \A w \in f.targets : w \notin Current
    BY DEF InUse, ForcesOK, Current, Generation
  <2> QED
    BY <1>7, <2>1 DEF ForceClose, Unclosed, InUse, Current, TypeOK, hist
<1>8. CASE ExitTimer \/ Drained \/ NaturalEnd
  BY <1>8, GoneStep DEF InUse
<1>9. CASE StartDrain \/ ControllerCrash
  BY <1>9 DEF StartDrain, ControllerCrash, InUse
<1>10. ASSUME NEW w \in Workers, WorkerSteps(w) PROVE InUse'
  BY <1>10, WorkerStep DEF InUse, ctl, Current
<1> QED
  BY <1>1, <1>2, <1>3, <1>4, <1>5, <1>6, <1>7, <1>8, <1>9, <1>10 DEF Next, WorkerSteps

\* Started for one worker.
StartedOf(w) ==
    /\ proc[w] = "none" <=> w[1] > gen
    /\ proc[w] = "none" => mark[w] = "no" /\ inbox[w] = << >> /\ out[w] = << >>

\* Nothing happens to a worker before its generation is started.
LEMMA StartedStep ==
    ASSUME IInv, [Next]_vars
    PROVE  Started'
<1> USE CurrentNames DEF IInv
<1>0. SUFFICES ASSUME NEW w \in Workers
               PROVE  StartedOf(w)'
  BY DEF Started, StartedOf
<1> USE DEF StartedOf
<1>12. /\ proc[w] = "none" <=> w[1] > gen
       /\ proc[w] = "none" => /\ mark[w] = "no" /\ inbox[w] = << >> /\ out[w] = << >>
                                /\ w \notin ids
       /\ proc[w] \in {"none", "up", "hung", "ended", "seen"} /\ w[1] \in Nat /\ gen \in Nat
  BY WorkerNames DEF Started, TypeOK, Current
<1>1. CASE UNCHANGED vars \/ OwnClosed
  BY <1>12, <1>1 DEF OwnClosed, wrk, hist, vars
<1>2. CASE Replace
  <2>1. /\ gen' = gen + 1 /\ gen + 1 \in 1 .. Len(Sizes) /\ ids' = Generation(gen + 1)
        /\ proc'[w] = IF w \in ids' THEN "up" ELSE proc[w]
        /\ out' = out /\ mark' = MarkClosing(mark, ids) /\ inbox' = Sent(ids, "close")
    BY <1>2 DEF Replace, Current
  <2>2. w \in ids' <=> w[1] = gen + 1
    BY <2>1, WorkerNames
  <2>3. proc[w] = "none" => mark'[w] = "no" /\ inbox'[w] = << >>
    <3>1. mark \in [Workers -> {"no", "requested", "forced", "reported"}]
      BY DEF TypeOK
    <3>2. proc[w] = "none" => inbox'[w] = << >>
      BY <1>12, <2>1 DEF Sent, Running
    <3> QED
      BY <1>12, <2>1, <3>1, <3>2, MarksTyped
  <2> QED
    BY <1>12, <2>1, <2>2, <2>3
<1>3. ASSUME NEW m \in [Workers -> {"no", "requested", "forced", "reported"}],
             NEW live \in SUBSET ids, m[w] = mark[w],
             NEW code, NEW force, NEW why, Exit(code, force, m, live, why)
      PROVE  proc[w] = "none" => mark'[w] = "no" /\ inbox'[w] = << >>
  <2>1. proc[w] = "none" => Sent(live, "close")[w] = << >> /\ PipesEnd(inbox)[w] = << >>
    BY <1>12 DEF Sent, PipesEnd, Running
  <2>2. CASE phase = "run"
    BY <1>12, <1>3, <2>1, <2>2, MarksTyped DEF Exit
  <2>3. CASE phase # "run"
    BY <1>12, <1>3, <2>1, <2>3 DEF Exit
  <2> QED
    BY <2>2, <2>3
<1>4. ASSUME NEW v \in Workers, NEW m \in [Workers -> {"no", "requested", "forced", "reported"}],
             NEW live \in SUBSET ids, Fatal(v, m, live), m[w] = mark[w]
      PROVE  proc[w] = "none" => mark'[w] = "no" /\ inbox'[w] = << >>
  BY <1>12, <1>3, <1>4 DEF Fatal, exitVars
<1>13. CASE UserExit
  <2>1. proc[w] = "none" => mark'[w] = "no" /\ inbox'[w] = << >>
    BY <1>3, <1>13 DEF UserExit, TypeOK
  <2> QED
    BY <1>12, <1>13, <2>1 DEF UserExit
<1>5. ASSUME NEW v \in Workers, WorkerExit(v) PROVE StartedOf(w)'
  <2>1. CASE mark[v] # "no"
    BY <1>12, <1>5, <2>1 DEF WorkerExit, TypeOK
  <2>2. CASE mark[v] = "no"
    <3>1. Fatal(v, mark, Listed(v)) /\ Listed(v) \subseteq ids
      BY <1>5, <2>2 DEF WorkerExit, Listed
    <3>2. proc[w] = "none" => mark'[w] = "no" /\ inbox'[w] = << >>
      BY <1>4, <3>1 DEF TypeOK
    <3> QED
      BY <1>12, <1>5, <3>2 DEF WorkerExit, TypeOK
  <2> QED
    BY <2>1, <2>2
<1>6. ASSUME NEW v \in Workers, Message(v) PROVE StartedOf(w)'
  <2>1. /\ v # w => out'[w] = out[w]
        /\ v = w => proc[w] # "none"
    BY <1>12, <1>6, MessageCases DEF TypeOK
  <2>2. CASE UNCHANGED <<mark, exitVars, proc, how>>
    BY <1>12, <1>6, <2>1, <2>2, MessageCases DEF exitVars
  <2>3. CASE Fatal(v, [mark EXCEPT ![v] = "reported"], ids) /\ Kill(v)
    <3>1. v # w /\ proc[w] = "none" => mark'[w] = "no" /\ inbox'[w] = << >>
      BY <1>4, <2>3, FatalArgs
    <3>2. (proc'[w] = "none" <=> proc[w] = "none")
      BY <1>12, <2>3 DEF Kill, Ends, Running, TypeOK
    <3> QED
      BY <1>12, <1>6, <2>1, <3>1, <3>2, MessageCases
  <2> QED
    BY <1>6, <2>2, <2>3, MessageCases
<1>7. ASSUME NEW v \in Workers, SendError(v) PROVE StartedOf(w)'
  <2>1. PICK m \in {mark, [mark EXCEPT ![v] = "reported"]} : Fatal(v, m, ids)
    BY <1>7 DEF SendError
  <2>2. v = w => proc[w] # "none"
    BY <1>7 DEF SendError
  <2>3. proc[w] = "none" => mark'[w] = "no" /\ inbox'[w] = << >>
    BY <1>4, <2>1, <2>2, FatalArgs
  <2> QED
    BY <1>12, <1>7, <2>3 DEF SendError
<1>8. ASSUME NEW f \in forces, ForceClose(f) PROVE StartedOf(w)'
  BY <1>12, <1>8 DEF ForceClose, Unclosed, Running, hist
<1>9. CASE ExitTimer \/ Drained \/ NaturalEnd \/ ControllerCrash
  <2>1. inbox' = PipesEnd(inbox) /\ UNCHANGED <<mark, proc, out, gen>>
    BY <1>9 DEF ExitTimer, Drained, NaturalEnd, Gone, ControllerCrash
  <2> QED
    BY <1>12, <2>1 DEF PipesEnd, Running
<1>10. CASE StartDrain
  BY <1>12, <1>10 DEF StartDrain, wrk
<1>11. ASSUME NEW v \in Workers, WorkerSteps(v) PROVE StartedOf(w)'
  BY <1>12, <1>11, WorkerStep DEF ctl
<1> QED
  BY <1>1, <1>2, <1>13, <1>5, <1>6, <1>7, <1>8, <1>9, <1>10, <1>11 DEF Next, WorkerSteps

\* An event of a worker that the controller handles leaves the other workers
\* alone and either changes nothing of the exit, or is a fatal error of a
\* worker that had a fault; a subprocess without a mark.
LEMMA EventCases ==
    ASSUME IInv, NEW w \in Workers, WorkerExit(w) \/ Message(w) \/ SendError(w)
    PROVE  /\ UNCHANGED <<transport, mode, gen, core, closing, guilty, faults, shares>>
           /\ phase # "gone"
           /\ \A v \in Workers \ {w} : proc'[v] = proc[v] /\ how'[v] = how[v] /\ out'[v] = out[v]
           /\ \/ /\ UNCHANGED <<phase, inbox, awaited, timed, forces, reason, cut>>
                 /\ \A v \in Workers : mark[v] # "no" => mark'[v] # "no"
              \/ /\ w \in guilty /\ (transport = "sub" => mark[w] = "no")
                 /\ \E m \in [Workers -> {"no", "requested", "forced", "reported"}],
                       live \in SUBSET ids :
                         /\ Fatal(w, m, live)
                         /\ \A v \in Workers : m[v] = mark[v] \/ (v = w /\ m[v] # "no")
<1> USE DEF IInv
<1>1. CASE WorkerExit(w)
  <2>1. CASE mark[w] # "no"
    BY <1>1, <2>1 DEF WorkerExit, TypeOK
  <2>2. CASE mark[w] = "no"
    <3>1. Fatal(w, mark, Listed(w)) /\ Listed(w) \in SUBSET ids /\ proc[w] = "ended" /\ phase # "gone"
      BY <1>1, <2>2 DEF WorkerExit, Listed
    <3>2. w \in guilty
      BY <2>2, <3>1 DEF Blamed
    <3>3. /\ UNCHANGED <<transport, mode, gen, core, closing, guilty, faults, shares>>
          /\ \A v \in Workers \ {w} : proc'[v] = proc[v] /\ how'[v] = how[v] /\ out'[v] = out[v]
      BY <1>1 DEF WorkerExit, TypeOK
    <3>4. mark \in [Workers -> {"no", "requested", "forced", "reported"}]
      BY DEF TypeOK
    <3> QED
      BY <2>2, <3>1, <3>2, <3>3, <3>4
  <2> QED
    BY <2>1, <2>2
<1>2. CASE Message(w)
  <2>1. /\ UNCHANGED <<transport, mode, gen, core, closing, guilty, faults, shares>>
        /\ phase # "gone" /\ out[w] # << >>
        /\ \A v \in Workers \ {w} : out'[v] = out[v]
    BY <1>2 DEF Message, TypeOK
  <2>2. CASE UNCHANGED <<mark, exitVars, proc, how>>
    BY <2>1, <2>2 DEF exitVars
  <2>3. CASE /\ Fatal(w, [mark EXCEPT ![w] = "reported"], ids) /\ Kill(w)
             /\ Head(out[w]) = "garbage" /\ (transport = "sub" => mark[w] = "no")
    <3>1. w \in guilty
      <4>1. out[w] \in Seq({"share", "garbage"}) /\ out[w] # << >>
        BY <2>1 DEF TypeOK
      <4>2. Len(out[w]) \in Nat /\ Len(out[w]) # 0 /\ Head(out[w]) = out[w][1]
        BY <4>1, EmptySeq, LenProperties, HeadTailProperties
      <4>3. 1 \in 1 .. Len(out[w])
        BY <4>2
      <4> QED
        BY <2>3, <4>2, <4>3 DEF Blamed
    <3>2. \A v \in Workers \ {w} : proc'[v] = proc[v] /\ how'[v] = how[v]
      BY <2>3 DEF Kill, Ends, TypeOK
    <3>3. \A v \in Workers : [mark EXCEPT ![w] = "reported"][v] = mark[v]
                             \/ (v = w /\ [mark EXCEPT ![w] = "reported"][v] # "no")
      BY FatalArgs
    <3> QED
      BY <2>1, <2>3, <3>1, <3>2, <3>3, FatalArgs
  <2> QED
    BY <1>2, <2>2, <2>3, MessageCases
<1>3. CASE SendError(w)
  <2>1. PICK m \in {mark, [mark EXCEPT ![w] = "reported"]} : Fatal(w, m, ids)
    BY <1>3 DEF SendError
  <2>2. /\ m \in [Workers -> {"no", "requested", "forced", "reported"}]
        /\ \A v \in Workers : m[v] = mark[v] \/ (v = w /\ m[v] # "no")
    BY FatalArgs
  <2>3. w \in guilty /\ mark[w] = "no"
    BY <1>3 DEF SendError, Blamed
  <2> QED
    BY <1>3, <2>1, <2>2, <2>3 DEF SendError
<1> QED
  BY <1>1, <1>2, <1>3

\* A worker is asked to close, by exit() or as a replaced one, in the step
\* that notes it.
LEMMA ExitNoted ==
    ASSUME TypeOK, Noted,
           NEW m \in [Workers -> {"no", "requested", "forced", "reported"}],
           \A v \in Workers : mark[v] # "no" => m[v] # "no",
           NEW live, NEW code, NEW force, NEW why,
           Exit(code, force, m, live, why), phase # "gone"
    PROVE  /\ \A v \in Workers : mark[v] # "no" => mark'[v] # "no"
           /\ phase' # "gone" => \A v \in Workers : inbox'[v] # << >> => mark'[v] # "no"
<1>1. CASE phase = "run"
  <2>1. mark' = MarkClosing(m, live) /\ inbox' = Sent(live, "close")
    BY <1>1 DEF Exit
  <2>2. \A v \in Workers : mark[v] # "no" => mark'[v] # "no"
    BY <2>1, MarksTyped
  <2>3. \A v \in Workers : v \in live => mark'[v] # "no"
    BY <2>1, MarksTyped
  <2>4. \A v \in Workers : inbox'[v] # << >> => inbox[v] # << >> \/ v \in live
    BY <2>1, InboxTyped
  <2> QED
    BY <1>1, <2>2, <2>3, <2>4 DEF Noted
<1>2. CASE phase # "run"
  BY <1>2 DEF Exit, Noted
<1> QED
  BY <1>1, <1>2

\* No worker is asked to close before the controller noted it.
LEMMA NotedStep ==
    ASSUME IInv, [Next]_vars
    PROVE  Noted'
<1> USE DEF IInv
<1>1. CASE UNCHANGED vars \/ OwnClosed
  BY <1>1 DEF OwnClosed, wrk, hist, vars, Noted
<1>2. CASE Replace
  <2>1. /\ phase = "run" /\ mark' = MarkClosing(mark, ids) /\ inbox' = Sent(ids, "close")
        /\ closing' = closing
        /\ mark \in [Workers -> {"no", "requested", "forced", "reported"}]
    BY <1>2 DEF Replace, TypeOK
  <2>2. \A v \in Workers : mark[v] # "no" \/ v \in ids => mark'[v] # "no"
    BY <2>1, MarksTyped
  <2>3. \A v \in Workers : inbox'[v] # << >> => inbox[v] # << >> \/ v \in ids
    BY <2>1, InboxTyped
  <2> QED
    BY <2>1, <2>2, <2>3 DEF Noted
<1>3. CASE UserExit
  <2>1. PICK force \in BOOLEAN : Exit(0, force, mark, ids, "user")
    BY <1>3 DEF UserExit
  <2>2. phase # "gone" /\ closing' = closing
        /\ mark \in [Workers -> {"no", "requested", "forced", "reported"}]
    BY <1>3 DEF UserExit, TypeOK
  <2> QED
    BY <2>1, <2>2, ExitNoted DEF Noted
<1>4. ASSUME NEW w \in Workers, WorkerExit(w) \/ Message(w) \/ SendError(w) PROVE Noted'
  <2>1. closing' = closing /\ phase # "gone"
    BY <1>4, EventCases
  <2>2. CASE /\ UNCHANGED <<phase, inbox, awaited, timed, forces, reason, cut>>
             /\ \A v \in Workers : mark[v] # "no" => mark'[v] # "no"
    BY <2>1, <2>2 DEF Noted
  <2>3. ASSUME NEW m \in [Workers -> {"no", "requested", "forced", "reported"}],
               NEW live \in SUBSET ids, Fatal(w, m, live),
               \A v \in Workers : m[v] = mark[v] \/ (v = w /\ m[v] # "no")
        PROVE  Noted'
    <3>1. \A v \in Workers : mark[v] # "no" => m[v] # "no"
      BY <2>3
    <3>2. CASE Heard(w)
      BY <2>1, <2>3, <3>1, <3>2, ExitNoted DEF Fatal, Noted
    <3>3. CASE ~Heard(w)
      BY <2>1, <2>3, <3>1, <3>3 DEF Fatal, exitVars, Noted
    <3> QED
      BY <3>2, <3>3
  <2> QED
    BY <1>4, <2>2, <2>3, EventCases
<1>5. ASSUME NEW f \in forces, ForceClose(f) PROVE Noted'
  BY <1>5 DEF ForceClose, Unclosed, Noted, TypeOK, hist
<1>6. CASE ExitTimer \/ Drained \/ NaturalEnd \/ ControllerCrash
  BY <1>6, GoneStep DEF Noted, ControllerCrash
<1>7. CASE StartDrain
  BY <1>7 DEF StartDrain, Noted, wrk
<1>8. ASSUME NEW w \in Workers, WorkerSteps(w) PROVE Noted'
  <2>1. mark' = mark /\ phase' = phase
    BY <1>8, WorkerStep DEF ctl
  <2>2. CASE Command(w)
    BY <1>8, <2>1, <2>2, WorkerStep DEF Command, Noted
  <2>3. CASE ~Command(w)
    <3>1. UNCHANGED <<inbox, closing>>
      BY <1>8, <2>3 DEF WorkerSteps, Job, Abandoned, Share, CoreClosed, Faulty, Crash, Hang,
                        CoreFails, Garbage, Fault
    <3> QED
      BY <2>1, <3>1 DEF Noted
  <2> QED
    BY <2>2, <2>3
<1> QED
  BY <1>1, <1>2, <1>3, <1>4, <1>5, <1>6, <1>7, <1>8 DEF Next, WorkerSteps

\* Every end that nobody noted, failed core and broken message has a worker at
\* fault behind it.
LEMMA BlamedStep ==
    ASSUME IInv, [Next]_vars
    PROVE  Blamed'
<1> USE DEF IInv
<1>1. CASE UNCHANGED vars \/ OwnClosed
  BY <1>1 DEF OwnClosed, wrk, hist, vars, Blamed
<1>2. CASE Replace
  <2>1. /\ UNCHANGED <<core, out, guilty, phase>>
        /\ mark \in [Workers -> {"no", "requested", "forced", "reported"}]
        /\ mark' = MarkClosing(mark, ids)
        /\ \A w \in Workers : proc'[w] \in {"up", proc[w]}
    BY <1>2 DEF Replace, hist, TypeOK
  <2>2. \A w \in Workers : mark[w] # "no" => mark'[w] # "no"
    BY <2>1, MarksTyped
  <2> QED
    BY <2>1, <2>2 DEF Blamed
<1>3. ASSUME \A w \in Workers : mark[w] # "no" => mark'[w] # "no",
             UNCHANGED <<core, out, guilty, proc>>, phase' # "gone" => phase # "gone"
      PROVE  Blamed'
  BY <1>3 DEF Blamed
<1>4. CASE UserExit
  <2>1. PICK force \in BOOLEAN : Exit(0, force, mark, ids, "user")
    BY <1>4 DEF UserExit
  <2>2. phase # "gone" /\ mark \in [Workers -> {"no", "requested", "forced", "reported"}]
    BY <1>4 DEF UserExit, TypeOK
  <2>3. \A w \in Workers : mark[w] # "no" => mark'[w] # "no"
    BY <2>1, <2>2, ExitNoted
  <2> QED
    BY <1>3, <1>4, <2>2, <2>3 DEF UserExit
<1>5. ASSUME NEW w \in Workers, WorkerExit(w) \/ Message(w) \/ SendError(w) PROVE Blamed'
  <2>1. /\ UNCHANGED <<core, guilty>> /\ phase # "gone"
        /\ \A v \in Workers \ {w} : proc'[v] = proc[v] /\ out'[v] = out[v]
    BY <1>5, EventCases
  <2>2. \A v \in Workers : mark[v] # "no" => mark'[v] # "no"
    <3>1. ASSUME NEW m \in [Workers -> {"no", "requested", "forced", "reported"}],
                 NEW live \in SUBSET ids, Fatal(w, m, live),
                 \A v \in Workers : m[v] = mark[v] \/ (v = w /\ m[v] # "no")
          PROVE  \A v \in Workers : mark[v] # "no" => mark'[v] # "no"
      <4>1. live \in SUBSET Current
        BY DEF TypeOK
      <4> QED
        BY <3>1, <4>1, FatalStep
    <3> QED
      BY <1>5, <3>1, EventCases
  <2>3. proc'[w] \in {"ended", "seen"} /\ mark'[w] = "no" => w \in guilty
    <3>1. CASE WorkerExit(w) \/ SendError(w)
      BY <2>1, <2>2, <3>1 DEF WorkerExit, SendError, Blamed
    <3>2. CASE Message(w) /\ UNCHANGED <<mark, exitVars, proc, how>>
      BY <2>1, <3>2 DEF Blamed
    <3>3. CASE Message(w) /\ Fatal(w, [mark EXCEPT ![w] = "reported"], ids)
      <4>1. ids \in SUBSET Current /\ [mark EXCEPT ![w] = "reported"][w] # "no"
        BY FatalArgs
      <4>2. mark'[w] # "no"
        BY <3>3, <4>1, FatalArgs, FatalStep
      <4> QED
        BY <4>2
    <3> QED
      BY <1>5, <3>1, <3>2, <3>3, MessageCases
  <2>4. \A i \in 1 .. Len(out'[w]) : out'[w][i] = "garbage" => w \in guilty
    <3>1. CASE Message(w)
      <4>0. out' = [out EXCEPT ![w] = Tail(@)] /\ out[w] # << >>
        BY <3>1, MessageCases
      <4>1. out[w] \in Seq({"share", "garbage"}) /\ out[w] # << >> /\ out'[w] = Tail(out[w])
        BY <4>0 DEF TypeOK
      <4>2. /\ Len(out[w]) \in Nat /\ Len(out'[w]) = Len(out[w]) - 1
            /\ \A i \in 1 .. Len(out'[w]) : out'[w][i] = out[w][i + 1]
        BY <4>1, LenProperties, HeadTailProperties
      <4>3. \A i \in 1 .. Len(out'[w]) : i + 1 \in 1 .. Len(out[w])
        BY <4>2
      <4> QED
        BY <4>2, <4>3 DEF Blamed
    <3>2. CASE WorkerExit(w) \/ SendError(w)
      BY <3>2 DEF WorkerExit, SendError, Blamed
    <3> QED
      BY <1>5, <3>1, <3>2
  <2> QED
    BY <2>1, <2>2, <2>3, <2>4 DEF Blamed
<1>6. ASSUME NEW f \in forces, ForceClose(f) PROVE Blamed'
  <2>1. UNCHANGED <<core, out, guilty, phase>>
    BY <1>6 DEF ForceClose, Unclosed, hist
  <2>2. \A w \in Workers : mark'[w] = "no" => mark[w] = "no" /\ proc'[w] = proc[w]
    BY <1>6 DEF ForceClose, Unclosed, TypeOK
  <2> QED
    BY <2>1, <2>2 DEF Blamed
<1>7. CASE ExitTimer \/ Drained \/ NaturalEnd \/ ControllerCrash
  BY <1>3, <1>7, GoneStep DEF ControllerCrash, hist
<1>8. CASE StartDrain
  BY <1>3, <1>8 DEF StartDrain, wrk, hist
<1>9. ASSUME NEW w \in Workers, WorkerSteps(w) PROVE Blamed'
  <2>1. /\ mark' = mark /\ phase' = phase /\ guilty \subseteq guilty'
        /\ \A v \in Workers \ {w} : proc'[v] = proc[v] /\ core'[v] = core[v] /\ out'[v] = out[v]
        /\ proc[w] = "up"
    BY <1>9, WorkerStep DEF ctl
  <2>2. phase # "gone" /\ proc'[w] \in {"ended", "seen"} /\ mark[w] = "no" => w \in guilty'
    <3>1. CASE Job(w)
      BY <2>1, <3>1 DEF Job, Blamed
    <3>2. CASE Command(w) \/ CoreClosed(w)
      BY <2>1, <3>2 DEF Command, CoreClosed, Noted
    <3>3. CASE Abandoned(w)
      BY <2>1, <3>3 DEF Abandoned
    <3>4. CASE Share(w)
      BY <2>1, <3>4 DEF Share
    <3>5. CASE Faulty(w)
      BY <3>5 DEF Faulty, Crash, Hang, CoreFails, Garbage, Fault
    <3> QED
      BY <1>9, <3>1, <3>2, <3>3, <3>4, <3>5 DEF WorkerSteps
  <2>3. core'[w] = "failed" => w \in guilty'
    <3>1. core' = core \/ w \in guilty'
      BY <1>9 DEF WorkerSteps, Job, Command, Abandoned, Share, CoreClosed, Faulty, Crash, Hang,
                  CoreFails, Garbage, Fault
    <3> QED
      BY <2>1, <3>1 DEF Blamed
  <2>4. \A i \in 1 .. Len(out'[w]) : out'[w][i] = "garbage" => w \in guilty'
    <3>1. out' = out \/ w \in guilty' \/ out' = [out EXCEPT ![w] = Append(@, "share")]
      BY <1>9 DEF WorkerSteps, Job, Command, Abandoned, Share, CoreClosed, Faulty, Crash, Hang,
                  CoreFails, Garbage, Fault
    <3>2. CASE out' = [out EXCEPT ![w] = Append(@, "share")]
      <4>1. out[w] \in Seq({"share", "garbage"}) /\ out'[w] = Append(out[w], "share")
        BY <3>2 DEF TypeOK
      <4>2. /\ Len(out[w]) \in Nat /\ Len(out'[w]) = Len(out[w]) + 1
            /\ \A i \in 1 .. Len(out[w]) : out'[w][i] = out[w][i]
            /\ out'[w][Len(out[w]) + 1] = "share"
        BY <4>1, LenProperties, AppendProperties
      <4>3. \A i \in 1 .. Len(out'[w]) : i \in 1 .. Len(out[w]) \/ i = Len(out[w]) + 1
        BY <4>2
      <4> QED
        BY <2>1, <4>2, <4>3 DEF Blamed
    <3> QED
      BY <2>1, <3>1, <3>2 DEF Blamed
  <2> QED
    BY <2>1, <2>2, <2>3, <2>4 DEF Blamed
<1> QED
  BY <1>1, <1>2, <1>4, <1>5, <1>6, <1>7, <1>8, <1>9 DEF Next, WorkerSteps

\* What an exit came from, and who cut it short.
LEMMA CauseStep ==
    ASSUME IInv, [Next]_vars
    PROVE  ExitForCause' /\ UserMarked' /\ NotCutShort'
<1> USE CurrentNames DEF IInv
<1>1. ASSUME UNCHANGED <<reason, gen, transport>>, cut' \in {cut, "user", "crash"},
             guilty \subseteq guilty',
             \A w \in Workers : mark[w] # "no" => mark'[w] # "no"
      PROVE  ExitForCause' /\ UserMarked' /\ NotCutShort'
  BY <1>1 DEF ExitForCause, UserMarked, NotCutShort, Current
<1>2. CASE UNCHANGED vars \/ OwnClosed
  BY <1>1, <1>2 DEF OwnClosed, wrk, hist, vars
<1>3. CASE Replace
  <2>1. reason = "none" /\ reason' = "none"
    BY <1>3 DEF Replace, InUse, hist
  <2> QED
    BY <2>1 DEF ExitForCause, UserMarked, NotCutShort
<1>4. CASE UserExit
  <2>1. PICK force \in BOOLEAN : Exit(0, force, mark, ids, "user")
    BY <1>4 DEF UserExit
  <2>2. UNCHANGED <<gen, transport, guilty>>
        /\ mark \in [Workers -> {"no", "requested", "forced", "reported"}]
    BY <1>4 DEF UserExit, TypeOK
  <2>3. CASE phase = "run"
    <3>1. /\ reason' = "user" /\ cut' = "none" /\ mark' = MarkClosing(mark, Current)
      BY <2>1, <2>3 DEF Exit, InUse
    <3>2. \A w \in Current : mark'[w] # "no"
      BY <2>2, <3>1, MarksTyped
    <3> QED
      BY <2>2, <3>1, <3>2 DEF ExitForCause, UserMarked, NotCutShort, Current
  <2>4. CASE phase # "run"
    <3>1. mark' = mark /\ reason' = reason /\ cut' \in {cut, "user"}
      BY <2>1, <2>4 DEF Exit
    <3> QED
      BY <1>1, <2>2, <3>1
  <2> QED
    BY <2>3, <2>4
<1>5. ASSUME NEW w \in Workers, WorkerExit(w) \/ Message(w) \/ SendError(w)
      PROVE  ExitForCause' /\ UserMarked' /\ NotCutShort'
  <2>1. UNCHANGED <<gen, transport, guilty>>
    BY <1>5, EventCases
  <2>2. CASE /\ UNCHANGED <<phase, inbox, awaited, timed, forces, reason, cut>>
             /\ \A v \in Workers : mark[v] # "no" => mark'[v] # "no"
    BY <1>1, <2>1, <2>2
  <2>3. ASSUME w \in guilty, transport = "sub" => mark[w] = "no",
               NEW m \in [Workers -> {"no", "requested", "forced", "reported"}],
               NEW live \in SUBSET ids, Fatal(w, m, live),
               \A v \in Workers : m[v] = mark[v] \/ (v = w /\ m[v] # "no")
        PROVE  ExitForCause' /\ UserMarked' /\ NotCutShort'
    <3>1. \A v \in Workers : mark[v] # "no" => mark'[v] # "no"
      <4>1. live \in SUBSET Current
        BY DEF TypeOK
      <4> QED
        BY <2>3, <4>1, FatalStep
    <3>2. CASE ~Heard(w)
      <4>1. reason' = reason /\ cut' = cut
        BY <2>3, <3>2 DEF Fatal, exitVars
      <4> QED
        BY <1>1, <2>1, <3>1, <4>1
    <3>3. CASE Heard(w) /\ phase = "run"
      <4>1. reason' = "worker" /\ w[1] = gen'
        BY <2>1, <2>3, <3>3 DEF Fatal, Exit, Heard
      <4> QED
        BY <2>1, <2>3, <4>1 DEF ExitForCause, UserMarked, NotCutShort
    <3>4. CASE Heard(w) /\ phase # "run"
      <4>1. reason' = reason /\ cut' \in {cut, "worker"}
        BY <2>3, <3>4 DEF Fatal, Exit
      <4>2. transport = "sub" => reason # "user"
        BY <2>3, <3>4 DEF UserMarked, Heard
      <4> QED
        BY <2>1, <3>1, <4>1, <4>2 DEF ExitForCause, UserMarked, NotCutShort, Current
    <3> QED
      BY <3>2, <3>3, <3>4
  <2> QED
    BY <1>5, <2>2, <2>3, EventCases
<1>6. ASSUME NEW f \in forces, ForceClose(f) PROVE ExitForCause' /\ UserMarked' /\ NotCutShort'
  BY <1>1, <1>6 DEF ForceClose, Unclosed, TypeOK, hist
<1>7. CASE ExitTimer \/ Drained \/ NaturalEnd
  BY <1>1, <1>7, GoneStep DEF hist
<1>8. CASE StartDrain \/ ControllerCrash
  BY <1>1, <1>8 DEF StartDrain, ControllerCrash, hist
<1>9. ASSUME NEW w \in Workers, WorkerSteps(w) PROVE ExitForCause' /\ UserMarked' /\ NotCutShort'
  BY <1>1, <1>9, WorkerStep DEF ctl
<1> QED
  BY <1>2, <1>3, <1>4, <1>5, <1>6, <1>7, <1>8, <1>9 DEF Next, WorkerSteps

-----------------------------------------------------------------------------
(* Timers and the end of the controller.                                   *)

\* More about an event of a worker: no process starts, one whose end was seen
\* and whose output was read stays so, and exit() is given every worker in use
\* whose end is not being handled.
LEMMA EventProcs ==
    ASSUME IInv, NEW w \in Workers, WorkerExit(w) \/ Message(w) \/ SendError(w)
    PROVE  /\ \A v \in Workers : Running(v)' => Running(v)
           /\ \A v \in Workers : proc[v] = "seen" => proc'[v] = "seen" /\ how'[v] = how[v]
           /\ \A v \in Workers : out[v] = << >> => out'[v] = << >>
<1> USE DEF IInv
<1>1. \A v \in Workers \ {w} : proc'[v] = proc[v] /\ how'[v] = how[v] /\ out'[v] = out[v]
  BY EventCases
<1>2. CASE WorkerExit(w)
  <2>1. proc[w] = "ended" /\ proc'[w] = "seen" /\ out' = out
    BY <1>2 DEF WorkerExit, TypeOK
  <2> QED
    BY <1>1, <2>1 DEF Running
<1>3. CASE SendError(w)
  BY <1>3 DEF SendError, Running
<1>4. CASE Message(w)
  <2>1. out[w] # << >> /\ (UNCHANGED <<proc, how>> \/ Kill(w))
    BY <1>4, MessageCases
  <2>2. /\ Running(w)' => Running(w)
        /\ proc[w] = "seen" => proc'[w] = "seen" /\ how'[w] = how[w]
    BY <2>1 DEF Kill, Ends, Running, TypeOK
  <2> QED
    BY <1>1, <2>1, <2>2 DEF Running
<1> QED
  BY <1>2, <1>3, <1>4

\* The timer of exit() covers whom the first call was given.
LEMMA ExitCovers ==
    ASSUME IInv, NEW code, NEW force, NEW m, NEW live, NEW why,
           Exit(code, force, m, live, why), gen' = gen, phase # "gone",
           \A v \in Workers : Running(v)' => Running(v) /\ (v \in ids => v \in live)
    PROVE  Covered'
<1> USE CurrentNames DEF IInv
<1>1. Current' = Current
  BY DEF Current
<1>2. CASE phase = "run"
  <2>1. /\ forces \subseteq forces' /\ ids = Current
    BY <1>2 DEF Exit, InUse
  <2>3. timed' => \E f \in forces' : f.targets = live
    <3>1. timed' => forces' = forces \cup {[by |-> "exit", targets |-> live]}
      BY <1>2 DEF Exit
    <3>2. [by |-> "exit", targets |-> live].targets = live
      OBVIOUS
    <3> QED
      BY <3>1, <3>2
  <2>2. ASSUME NEW v \in Workers, Running(v)'
        PROVE  (v \in Current' \/ Doomed(v)') /\ (timed' => Doomed(v)')
    <3>1. v \in Current \/ Doomed(v)
      BY <1>2, <2>2 DEF Covered
    <3>2. Doomed(v) => Doomed(v)'
      BY <2>1 DEF Doomed
    <3>3. v \in Current /\ timed' => Doomed(v)'
      BY <2>1, <2>2, <2>3 DEF Doomed
    <3> QED
      BY <1>1, <3>1, <3>2, <3>3
  <2>4. \A v \in Workers : Running(v)' => v \in Current' \/ Doomed(v)'
    BY <2>2
  <2>5. \A v \in Workers : Running(v)' => (timed' => Doomed(v)')
    BY <2>2
  <2> QED
    BY <2>4, <2>5 DEF Covered
<1>3. CASE phase # "run"
  <2>1. UNCHANGED <<forces, timed>>
    BY <1>3 DEF Exit
  <2> QED
    BY <1>1, <2>1 DEF Covered, Doomed
<1> QED
  BY <1>2, <1>3

\* Every process that runs is in use or will be killed.
LEMMA CoveredStep ==
    ASSUME IInv, [Next]_vars
    PROVE  Covered'
<1> USE CurrentNames DEF IInv
<1>1. ASSUME UNCHANGED <<gen, forces, timed>>, phase' # "gone" => phase # "gone",
             \A w \in Workers : Running(w)' => Running(w)
      PROVE  Covered'
  BY <1>1 DEF Covered, Doomed, Current
<1>2. CASE UNCHANGED vars \/ OwnClosed
  BY <1>1, <1>2 DEF OwnClosed, wrk, hist, vars, Running
<1>3. CASE Replace
  <2>1. /\ phase = "run" /\ ids' = Current' /\ ids = Current /\ timed' = FALSE
        /\ \A w \in Workers : w \notin ids' => proc'[w] = proc[w]
        /\ forces' = forces \cup {[by |-> "replace", targets |-> ids]}
    BY <1>3 DEF Replace, InUse, Current
  <2>3. forces \subseteq forces' /\ \E f \in forces' : f.targets = ids
    <3>1. [by |-> "replace", targets |-> ids].targets = ids
      OBVIOUS
    <3> QED
      BY <2>1, <3>1
  <2>2. ASSUME NEW w \in Workers, Running(w)', w \notin Current' PROVE Doomed(w)'
    <3>1. Running(w)
      BY <2>1, <2>2 DEF Running
    <3>2. w \in ids \/ Doomed(w)
      BY <2>1, <3>1 DEF Covered
    <3> QED
      BY <2>3, <3>2 DEF Doomed
  <2> QED
    BY <2>1, <2>2 DEF Covered
<1>4. CASE UserExit
  <2>1. PICK force \in BOOLEAN : Exit(0, force, mark, ids, "user")
    BY <1>4 DEF UserExit
  <2>2. phase # "gone" /\ gen' = gen /\ proc' = proc
    BY <1>4 DEF UserExit
  <2> QED
    BY <2>1, <2>2, ExitCovers DEF Running
<1>5. ASSUME NEW w \in Workers, WorkerExit(w) \/ Message(w) \/ SendError(w) PROVE Covered'
  <2>1. gen' = gen /\ phase # "gone" /\ \A v \in Workers : Running(v)' => Running(v)
    BY <1>5, EventCases, EventProcs
  <2>2. CASE UNCHANGED <<forces, timed>>
    BY <1>1, <2>1, <2>2
  <2>3. CASE ~UNCHANGED <<forces, timed>>
    <3>1. PICK m, live : /\ Exit(1, TRUE, m, live, "worker")
                         /\ live = ids \/ (live = Listed(w) /\ WorkerExit(w))
      BY <1>5, <2>3 DEF WorkerExit, Message, SendError, Fatal, exitVars
    <3>2. WorkerExit(w) => ~Running(w)'
      BY DEF WorkerExit, Running, TypeOK
    <3>3. \A v \in Workers : Running(v)' => (v \in ids => v \in live)
      BY <3>1, <3>2 DEF Listed
    <3> QED
      BY <2>1, <3>1, <3>3, ExitCovers
  <2> QED
    BY <2>2, <2>3
<1>6. ASSUME NEW f \in forces, ForceClose(f) PROVE Covered'
  <2>1. /\ UNCHANGED <<gen, timed, phase>> /\ forces' = forces \ {f} /\ phase # "gone"
        /\ \A w \in Workers : Running(w)' => Running(w) /\ w \notin f.targets
    BY <1>6 DEF ForceClose, Unclosed, Running
  <2>2. \A w \in Workers : Running(w)' /\ Doomed(w) => Doomed(w)'
    BY <2>1 DEF Doomed
  <2> QED
    BY <2>1, <2>2 DEF Covered, Current
<1>7. CASE ExitTimer \/ Drained \/ NaturalEnd \/ ControllerCrash
  BY <1>7, GoneStep DEF ControllerCrash, Covered
<1>8. CASE StartDrain
  BY <1>1, <1>8 DEF StartDrain, wrk, Running
<1>9. ASSUME NEW w \in Workers, WorkerSteps(w) PROVE Covered'
  <2>1. \A v \in Workers : Running(v)' => Running(v)
    BY <1>9, WorkerStep DEF Running
  <2> QED
    BY <1>1, <1>9, <2>1, WorkerStep DEF ctl
<1> QED
  BY <1>2, <1>3, <1>4, <1>5, <1>6, <1>7, <1>8, <1>9 DEF Next, WorkerSteps

\* Forced closes aim at replaced workers, unless exit() set them.
LEMMA ForcesStep ==
    ASSUME IInv, [Next]_vars
    PROVE  ForcesOK'
<1> USE CurrentNames DEF IInv
<1>1. ASSUME UNCHANGED <<gen, mode, timed>>, forces' \subseteq forces PROVE ForcesOK'
  BY <1>1 DEF ForcesOK
<1>2. CASE UNCHANGED vars \/ OwnClosed
  BY <1>1, <1>2 DEF OwnClosed, wrk, hist, vars
<1>3. CASE Replace
  <2>1. /\ gen' = gen + 1 /\ UNCHANGED <<mode, timed>>
        /\ forces' = forces \cup {[by |-> "replace", targets |-> ids]}
        /\ ids = Current
    BY <1>3 DEF Replace, InUse
  <2>2. \A w \in ids : w[1] < gen'
    <3>1. gen \in Nat /\ gen < gen'
      BY <2>1
    <3>2. \A w \in ids : w[1] = gen
      BY <2>1
    <3> QED
      BY <3>1, <3>2
  <2>3. \A f \in forces : f.by = "replace" => \A w \in f.targets : w[1] < gen'
    <3>1. \A f \in forces : \A w \in f.targets : w[1] \in Nat
      BY WorkerNames DEF TypeOK
    <3>2. \A f \in forces : f.by = "replace" => \A w \in f.targets : w[1] < gen
      BY DEF ForcesOK
    <3>3. \A n \in Nat : n < gen => n < gen'
      BY <2>1
    <3> QED
      BY <3>1, <3>2, <3>3
  <2> QED
    BY <2>1, <2>2, <2>3 DEF ForcesOK
<1>4. ASSUME NEW code, NEW force, NEW m, NEW live, NEW why, Exit(code, force, m, live, why),
             UNCHANGED <<gen, mode>>
      PROVE  ForcesOK'
  <2>1. CASE phase = "run"
    <3>1. /\ timed' => mode = "plain"
          /\ forces' = forces \/ (mode = "plain" /\
                 forces' = forces \cup {[by |-> "exit", targets |-> live]})
      BY <1>4, <2>1 DEF Exit
    <3>2. [by |-> "exit", targets |-> live].by = "exit"
      OBVIOUS
    <3> QED
      BY <1>4, <3>1, <3>2 DEF ForcesOK
  <2>2. CASE phase # "run"
    BY <1>1, <1>4, <2>2 DEF Exit
  <2> QED
    BY <2>1, <2>2
<1>5. CASE UserExit
  BY <1>4, <1>5 DEF UserExit
<1>6. ASSUME NEW w \in Workers, WorkerExit(w) \/ Message(w) \/ SendError(w) PROVE ForcesOK'
  <2>1. UNCHANGED <<gen, mode>>
    BY <1>6, EventCases
  <2>2. CASE UNCHANGED <<forces, timed>>
    BY <1>1, <2>1, <2>2
  <2>3. CASE ~UNCHANGED <<forces, timed>>
    <3>1. \E m, live : Exit(1, TRUE, m, live, "worker")
      BY <1>6, <2>3 DEF WorkerExit, Message, SendError, Fatal, exitVars
    <3> QED
      BY <1>4, <2>1, <3>1
  <2> QED
    BY <2>2, <2>3
<1>7. ASSUME NEW f \in forces, ForceClose(f) PROVE ForcesOK'
  BY <1>1, <1>7 DEF ForceClose, Unclosed
<1>8. CASE ExitTimer \/ Drained \/ NaturalEnd
  BY <1>1, <1>8, GoneStep
<1>9. CASE StartDrain \/ ControllerCrash
  BY <1>1, <1>9 DEF StartDrain, ControllerCrash
<1>10. ASSUME NEW w \in Workers, WorkerSteps(w) PROVE ForcesOK'
  BY <1>1, <1>10, WorkerStep DEF ctl
<1> QED
  BY <1>2, <1>3, <1>5, <1>6, <1>7, <1>8, <1>9, <1>10 DEF Next, WorkerSteps

\* What a controller that ends by itself leaves behind.
LEMMA QuietStep ==
    ASSUME IInv, [Next]_vars
    PROVE  EndedQuietly'
<1> USE CurrentNames DEF IInv
<1>1. ASSUME UNCHANGED <<transport, mode, awaited, phase>>,
             cut' = cut \/ (cut' \in {"user", "worker"} /\ mode = "plain"),
             phase # "gone",
             \A w \in Workers : proc[w] = "seen" => proc'[w] = "seen",
             \A w \in Workers : proc[w] = "seen" /\ out[w] = << >> => out'[w] = << >>
      PROVE  EndedQuietly'
  <2>1. awaited \subseteq Workers
    BY DEF TypeOK
  <2>2. phase = "drain" => mode = "mine" /\ \A w \in awaited : Closed(w)'
    BY <1>1, <2>1 DEF EndedQuietly, Closed
  <2>3. cut' \in {"user", "worker"} => mode = "plain"
    BY <1>1 DEF EndedQuietly
  <2>4. cut' # "crash"
    BY <1>1 DEF EndedQuietly
  <2> QED
    BY <1>1, <2>2, <2>3, <2>4 DEF EndedQuietly
<1>2. CASE UNCHANGED vars \/ OwnClosed
  BY <1>2 DEF OwnClosed, wrk, hist, vars, EndedQuietly, Closed, Running
<1>3. CASE Replace
  <2>1. phase' = "run" /\ cut' = "none"
    BY <1>3 DEF Replace, InUse, hist
  <2> QED
    BY <2>1 DEF EndedQuietly
<1>4. ASSUME NEW code, NEW force, NEW m, NEW live, NEW why \in {"user", "worker"},
             Exit(code, force, m, live, why), UNCHANGED <<transport, mode>>, phase # "gone",
             \A w \in Workers : proc[w] = "seen" => proc'[w] = "seen",
             \A w \in Workers : proc[w] = "seen" /\ out[w] = << >> => out'[w] = << >>
      PROVE  EndedQuietly'
  <2>1. CASE phase = "run"
    <3>1. phase' = "exit" /\ cut' = "none"
      BY <1>4, <2>1 DEF Exit, InUse
    <3> QED
      BY <3>1 DEF EndedQuietly
  <2>2. CASE phase # "run" /\ force /\ mode = "plain"
    <3>1. phase' = "gone" /\ cut' \in {"user", "worker"}
      BY <1>4, <2>2 DEF Exit
    <3> QED
      BY <1>4, <2>2, <3>1 DEF EndedQuietly
  <2>3. CASE phase # "run" /\ ~(force /\ mode = "plain")
    <3>1. UNCHANGED <<phase, cut, awaited>>
      BY <1>4, <2>3 DEF Exit
    <3> QED
      BY <1>1, <1>4, <3>1
  <2> QED
    BY <2>1, <2>2, <2>3
<1>5. CASE UserExit
  BY <1>4, <1>5 DEF UserExit
<1>6. ASSUME NEW w \in Workers, WorkerExit(w) \/ Message(w) \/ SendError(w) PROVE EndedQuietly'
  <2>1. /\ UNCHANGED <<transport, mode>> /\ phase # "gone"
        /\ \A v \in Workers : proc[v] = "seen" => proc'[v] = "seen"
        /\ \A v \in Workers : proc[v] = "seen" /\ out[v] = << >> => out'[v] = << >>
    BY <1>6, EventCases, EventProcs
  <2>2. CASE UNCHANGED <<phase, cut, awaited>>
    BY <1>1, <2>1, <2>2
  <2>3. CASE ~UNCHANGED <<phase, cut, awaited>>
    <3>1. \E m, live : Exit(1, TRUE, m, live, "worker")
      BY <1>6, <2>3 DEF WorkerExit, Message, SendError, Fatal, exitVars
    <3> QED
      BY <1>4, <2>1, <3>1
  <2> QED
    BY <2>2, <2>3
<1>7. ASSUME NEW f \in forces, ForceClose(f) PROVE EndedQuietly'
  BY <1>1, <1>7 DEF ForceClose, Unclosed, Running, hist
<1>8. CASE ExitTimer
  <2>1. /\ phase = "exit" /\ timed /\ forces = {} /\ mode = "plain" /\ mode' = mode
        /\ phase' = "gone" /\ UNCHANGED <<proc, cut, awaited>>
    BY <1>8 DEF ExitTimer, GraceOver, Gone, ForcesOK, hist
  <2>2. \A w \in Workers : ~Running(w)
    BY <2>1 DEF Covered, Doomed
  <2> QED
    BY <2>1, <2>2 DEF EndedQuietly, Running
<1>9. CASE Drained
  <2>1. /\ phase = "drain" /\ mode = "mine" /\ \A w \in awaited : Closed(w)
        /\ phase' = "gone" /\ UNCHANGED <<proc, cut, awaited, mode, out, transport>>
    BY <1>9 DEF Drained, Gone, hist, EndedQuietly
  <2> QED
    BY <2>1 DEF EndedQuietly, Closed
<1>10. CASE NaturalEnd
  <2>1. /\ mode # "mine" /\ \A w \in Workers : proc[w] \in {"none", "seen"}
        /\ phase' = "gone" /\ UNCHANGED <<proc, cut, awaited, mode>> /\ phase # "gone"
    BY <1>10 DEF NaturalEnd, Gone, hist
  <2>2. cut # "crash"
    BY <2>1 DEF EndedQuietly
  <2> QED
    BY <2>1, <2>2 DEF EndedQuietly, Running
<1>11. CASE StartDrain
  <2>1. /\ mode = "mine" /\ phase' = "drain" /\ \A w \in awaited : Closed(w)
        /\ UNCHANGED <<transport, proc, out, cut, awaited, mode>>
    BY <1>11 DEF StartDrain, wrk, hist
  <2>2. cut # "crash"
    BY <1>11 DEF StartDrain, EndedQuietly
  <2> QED
    BY <2>1, <2>2 DEF EndedQuietly, Closed
<1>12. CASE ControllerCrash
  <2>1. phase' = "gone" /\ cut' = "crash" /\ status' = 1
    BY <1>12 DEF ControllerCrash
  <2> QED
    BY <2>1 DEF EndedQuietly
<1>13. ASSUME NEW w \in Workers, WorkerSteps(w) PROVE EndedQuietly'
  <2>1. /\ UNCHANGED <<transport, mode, awaited, phase, cut, status>> /\ proc[w] = "up"
        /\ \A v \in Workers \ {w} : proc'[v] = proc[v] /\ out'[v] = out[v]
    BY <1>13, WorkerStep DEF ctl
  <2>2. CASE phase # "gone"
    BY <1>1, <2>1, <2>2
  <2>3. CASE phase = "gone" /\ cut = "none"
    <3>1. mode # "plain" /\ mode # "harness"
      BY <2>1, <2>3 DEF EndedQuietly, Running
    <3>2. mode = "mine" /\ \A v \in awaited : Closed(v) /\ v \in Workers
      BY <2>3, <3>1 DEF EndedQuietly, TypeOK
    <3>3. \A v \in awaited : Closed(v)'
      BY <2>1, <3>2 DEF Closed
    <3> QED
      BY <2>1, <2>3, <3>2, <3>3 DEF EndedQuietly
  <2>4. CASE phase = "gone" /\ cut # "none"
    BY <2>1, <2>4 DEF EndedQuietly
  <2> QED
    BY <2>2, <2>3, <2>4
<1> QED
  BY <1>2, <1>3, <1>5, <1>6, <1>7, <1>8, <1>9, <1>10, <1>11, <1>12, <1>13 DEF Next, WorkerSteps

\* Every worker in use that exit() does not wait for had failed before.
LEMMA AccountedStep ==
    ASSUME IInv, [Next]_vars
    PROVE  Accounted'
<1> USE CurrentNames DEF IInv
<1>1. ASSUME UNCHANGED <<gen, awaited>>, guilty \subseteq guilty', cut' = "crash" \/ cut # "crash",
             phase # "run", \A w \in Workers : proc[w] = "seen" => proc'[w] = "seen"
      PROVE  Accounted'
  BY <1>1 DEF Accounted, Current
<1>2. CASE UNCHANGED vars \/ OwnClosed
  BY <1>2 DEF OwnClosed, wrk, hist, vars, Accounted, Current
<1>3. CASE Replace
  BY <1>3 DEF Replace, Accounted
<1>4. CASE phase = "run" /\ UNCHANGED phase
  BY <1>4 DEF Accounted
<1>5. CASE UserExit
  <2>1. UNCHANGED <<gen, proc, guilty>> /\ phase # "gone"
    BY <1>5 DEF UserExit
  <2>2. PICK force \in BOOLEAN : Exit(0, force, mark, ids, "user")
    BY <1>5 DEF UserExit
  <2>3. CASE phase = "run"
    BY <2>1, <2>2, <2>3 DEF Exit, InUse, Accounted, Current
  <2>4. CASE phase # "run"
    BY <1>1, <2>1, <2>2, <2>4 DEF Exit, EndedQuietly
  <2> QED
    BY <2>3, <2>4
<1>6. ASSUME NEW w \in Workers, WorkerExit(w) \/ Message(w) \/ SendError(w) PROVE Accounted'
  <2>1. /\ UNCHANGED <<gen, guilty>> /\ phase # "gone"
        /\ \A v \in Workers : proc[v] = "seen" => proc'[v] = "seen"
    BY <1>6, EventCases, EventProcs
  <2>2. CASE phase # "run"
    <3>1. UNCHANGED awaited
      BY <1>6, <2>2 DEF WorkerExit, Message, SendError, Fatal, Exit, exitVars
    <3> QED
      BY <1>1, <2>1, <2>2, <3>1 DEF EndedQuietly
  <2>3. CASE phase = "run" /\ phase' # "run"
    <3>1. CASE awaited' = ids
      BY <2>1, <2>3, <3>1 DEF InUse, Accounted, Current
    <3>2. CASE awaited' = Listed(w) /\ WorkerExit(w) /\ mark[w] = "no"
      <4>1. proc[w] = "ended" /\ proc'[w] = "seen"
        BY <3>2 DEF WorkerExit, TypeOK
      <4>2. w \in guilty
        BY <2>1, <3>2, <4>1 DEF Blamed
      <4> QED
        BY <2>1, <2>3, <3>2, <4>1, <4>2 DEF InUse, Accounted, Current, Listed
    <3> QED
      BY <1>6, <2>3, <3>1, <3>2 DEF WorkerExit, Message, SendError, Fatal, Exit, exitVars
  <2> QED
    BY <1>4, <2>2, <2>3
<1>7. ASSUME NEW f \in forces, ForceClose(f) PROVE Accounted'
  <2>1. /\ UNCHANGED <<gen, awaited, guilty, phase, cut>> /\ phase # "gone"
        /\ \A w \in Workers : proc[w] = "seen" => proc'[w] = "seen"
    BY <1>7 DEF ForceClose, Running, hist
  <2> QED
    BY <1>1, <1>4, <2>1 DEF EndedQuietly
<1>8. CASE ExitTimer \/ Drained \/ NaturalEnd
  <2>1. phase \in {"exit", "drain"} /\ UNCHANGED <<gen, awaited, guilty, proc, cut>>
    BY <1>8, GoneStep DEF ExitTimer, Drained, NaturalEnd, hist
  <2> QED
    BY <1>1, <2>1 DEF EndedQuietly
<1>9. CASE StartDrain
  <2>1. phase = "exit" /\ UNCHANGED <<gen, awaited, guilty, proc, cut>>
    BY <1>9 DEF StartDrain, wrk, hist
  <2> QED
    BY <1>1, <2>1 DEF EndedQuietly
<1>10. CASE ControllerCrash
  BY <1>10 DEF ControllerCrash, Accounted
<1>11. ASSUME NEW w \in Workers, WorkerSteps(w) PROVE Accounted'
  <2>1. /\ UNCHANGED <<gen, awaited, phase, cut>> /\ guilty \subseteq guilty'
        /\ \A v \in Workers : proc[v] = "seen" => proc'[v] = "seen"
    BY <1>11, WorkerStep DEF ctl
  <2>2. CASE cut = "crash"
    BY <2>1, <2>2 DEF Accounted
  <2> QED
    BY <1>1, <1>4, <2>1, <2>2
<1> QED
  BY <1>2, <1>3, <1>5, <1>6, <1>7, <1>8, <1>9, <1>10, <1>11 DEF Next, WorkerSteps

\* A worker that ends badly while an exit waits for it is reported.
LEMMA CleanStep ==
    ASSUME IInv, [Next]_vars
    PROVE  CleanSoFar'
<1> USE CurrentNames DEF IInv
<1>0. awaited \subseteq Workers /\ awaited \subseteq Current
  BY DEF TypeOK
<1>1. ASSUME UNCHANGED <<transport, mode, awaited>>, status' = status \/ awaited = {},
             \A w \in awaited : /\ mark'[w] = mark[w]
                                /\ proc'[w] = "seen" => proc[w] = "seen" /\ how'[w] = how[w]
      PROVE  CleanSoFar'
  BY <1>1 DEF CleanSoFar
<1>2. CASE UNCHANGED vars \/ OwnClosed
  BY <1>2 DEF OwnClosed, wrk, hist, vars, CleanSoFar
<1>3. CASE Replace
  <2>1. awaited' = {}
    BY <1>3 DEF Replace, InUse
  <2> QED
    BY <2>1 DEF CleanSoFar
<1>4. CASE UserExit
  <2>1. PICK force \in BOOLEAN : Exit(0, force, mark, ids, "user")
    BY <1>4 DEF UserExit
  <2>2. UNCHANGED <<transport, mode, proc, how>>
        /\ mark \in [Workers -> {"no", "requested", "forced", "reported"}]
    BY <1>4 DEF UserExit, TypeOK
  <2>3. CASE phase = "run"
    <3>1. mark' = MarkClosing(mark, ids) /\ awaited' = ids /\ ids = Current
          /\ \A w \in Current : mark[w] = "no" /\ proc[w] # "seen"
      BY <2>1, <2>3 DEF Exit, InUse
    <3>2. \A w \in Current : mark'[w] = "requested"
      BY <2>2, <3>1, MarksTyped
    <3> QED
      BY <2>2, <3>1, <3>2 DEF CleanSoFar
  <2>4. CASE phase # "run" /\ mode = "plain"
    BY <2>2, <2>4 DEF CleanSoFar
  <2>5. CASE phase # "run" /\ mode # "plain"
    <3>1. UNCHANGED <<mark, status, awaited>>
      BY <2>1, <2>5 DEF Exit
    <3> QED
      BY <1>1, <2>2, <3>1
  <2> QED
    BY <2>3, <2>4, <2>5
<1>5. ASSUME NEW w \in Workers, Fatal(w, mark, Listed(w)) \/ Fatal(w, mark, ids)
                                \/ Fatal(w, [mark EXCEPT ![w] = "reported"], ids),
             mode # "plain", transport = "sub", status = 0, phase # "run", mark[w] = "no"
      PROVE  /\ UNCHANGED <<awaited, status>> /\ w \notin awaited
             /\ \A v \in awaited : mark'[v] = mark[v]
  <2>1. w \notin awaited
    BY <1>5 DEF CleanSoFar
  <2>2. \A v \in awaited : [mark EXCEPT ![w] = "reported"][v] = mark[v]
    BY <1>0, <2>1 DEF TypeOK
  <2>3. UNCHANGED <<awaited, status>> /\ mark' \in {mark, [mark EXCEPT ![w] = "reported"]}
    BY <1>5 DEF Fatal, Exit, exitVars
  <2> QED
    BY <2>1, <2>2, <2>3
<1>6. ASSUME NEW w \in Workers, WorkerExit(w) \/ Message(w) \/ SendError(w) PROVE CleanSoFar'
  <2>1. /\ UNCHANGED <<transport, mode>> /\ phase # "gone"
        /\ \A v \in Workers \ {w} : proc'[v] = proc[v] /\ how'[v] = how[v]
        /\ \A v \in Workers : proc[v] = "seen" => proc'[v] = "seen" /\ how'[v] = how[v]
    BY <1>6, EventCases, EventProcs
  <2>2. CASE mode = "plain" \/ transport # "sub"
    BY <2>1, <2>2 DEF CleanSoFar
  <2>3. CASE phase = "run"
    <3>1. awaited = {}
      BY <2>3 DEF InUse
    <3>2. status' = 1 \/ awaited' = {}
      BY <1>6, <2>3, <3>1 DEF WorkerExit, Message, SendError, Fatal, Exit, exitVars
    <3> QED
      BY <3>2 DEF CleanSoFar
  <2>4. CASE phase # "run" /\ mode # "plain" /\ status # 0
    <3>1. status' # 0
      BY <1>6, <2>4 DEF WorkerExit, Message, SendError, Fatal, Exit, exitVars, FailedClose
    <3> QED
      BY <3>1 DEF CleanSoFar
  <2>5. CASE phase # "run" /\ mode # "plain" /\ transport = "sub" /\ status = 0
    <3>1. CASE WorkerExit(w) /\ mark[w] # "no"
      <4>1. /\ awaited' = awaited /\ how' = how /\ proc' = [proc EXCEPT ![w] = "seen"]
            /\ IF mark[w] = "requested" /\ how[w] = "bad" THEN status' = 1
               ELSE status' = status /\ mark' = mark
        BY <3>1 DEF WorkerExit, FailedClose
      <4>2. CASE mark[w] = "requested" /\ how[w] = "bad"
        BY <4>1, <4>2 DEF CleanSoFar
      <4>3. CASE ~(mark[w] = "requested" /\ how[w] = "bad")
        <5>1. \A v \in awaited : mark[v] = "requested" /\ (proc[v] = "seen" => how[v] = "ok")
          BY <2>5 DEF CleanSoFar
        <5>2. w \in awaited => how[w] = "ok"
          BY <4>3, <5>1 DEF TypeOK
        <5>3. \A v \in awaited : v # w => proc'[v] = proc[v]
          BY <1>0, <2>1
        <5> QED
          BY <4>1, <4>3, <5>1, <5>2, <5>3 DEF CleanSoFar
      <4> QED
        BY <4>2, <4>3
    <3>2. CASE Message(w) /\ UNCHANGED <<mark, exitVars, proc, how>>
      BY <1>1, <2>1, <3>2 DEF exitVars
    <3>3. CASE ~(WorkerExit(w) /\ mark[w] # "no")
               /\ ~(Message(w) /\ UNCHANGED <<mark, exitVars, proc, how>>)
      <4>1. /\ mark[w] = "no"
            /\ Fatal(w, mark, Listed(w)) \/ Fatal(w, mark, ids)
               \/ Fatal(w, [mark EXCEPT ![w] = "reported"], ids)
        BY <1>6, <2>5, <3>3, MessageCases DEF WorkerExit, SendError
      <4>2. /\ UNCHANGED <<awaited, status>> /\ w \notin awaited
            /\ \A v \in awaited : mark'[v] = mark[v]
        BY <1>5, <2>5, <4>1
      <4>3. \A v \in awaited : proc'[v] = proc[v] /\ how'[v] = how[v]
        BY <1>0, <2>1, <4>2
      <4> QED
        BY <1>1, <2>1, <4>2, <4>3
    <3> QED
      BY <3>1, <3>2, <3>3
  <2> QED
    BY <2>2, <2>3, <2>4, <2>5
<1>7. ASSUME NEW f \in forces, ForceClose(f) PROVE CleanSoFar'
  <2>1. UNCHANGED <<transport, mode, awaited, status>>
    BY <1>7 DEF ForceClose, Unclosed
  <2>2. CASE mode = "plain"
    BY <2>1, <2>2 DEF CleanSoFar
  <2>3. CASE mode # "plain"
    <3>1. \A w \in f.targets : w[1] < gen
      BY <2>3 DEF ForcesOK
    <3>2. \A w \in awaited : w[1] = gen /\ ~(gen < gen)
      BY <1>0
    <3>3. \A w \in awaited : w \notin f.targets
      BY <3>1, <3>2
    <3>4. \A w \in awaited : mark'[w] = mark[w] /\ proc'[w] = proc[w] /\ how'[w] = how[w]
      BY <1>0, <1>7, <3>3 DEF ForceClose, Unclosed
    <3> QED
      BY <1>1, <2>1, <3>4
  <2> QED
    BY <2>2, <2>3
<1>8. CASE ExitTimer
  <2>1. mode' = "plain"
    BY <1>8 DEF ExitTimer, GraceOver, Gone, ForcesOK
  <2> QED
    BY <2>1 DEF CleanSoFar
<1>9. CASE Drained \/ NaturalEnd
  BY <1>1, <1>9 DEF Drained, NaturalEnd, Gone
<1>10. CASE StartDrain
  BY <1>1, <1>10 DEF StartDrain, wrk
<1>11. CASE ControllerCrash
  BY <1>11 DEF ControllerCrash, CleanSoFar
<1>12. ASSUME NEW w \in Workers, WorkerSteps(w) PROVE CleanSoFar'
  <2>1. /\ UNCHANGED <<transport, mode, awaited, status, mark>> /\ proc'[w] # "seen"
        /\ \A v \in Workers \ {w} : proc'[v] = proc[v] /\ how'[v] = how[v]
    BY <1>12, WorkerStep DEF ctl
  <2> QED
    BY <1>0, <1>1, <2>1
<1> QED
  BY <1>2, <1>3, <1>4, <1>6, <1>7, <1>8, <1>9, <1>10, <1>11, <1>12 DEF Next, WorkerSteps

-----------------------------------------------------------------------------
(* The theorems.                                                           *)

\* The invariant holds when the miner has created its first workers.
LEMMA InitIInv ==
    ASSUME Init
    PROVE  IInv
<1>1. 1 \in 1 .. Len(Sizes) /\ Len(Sizes) \in Nat
  <2>1. Len(Sizes) \in Nat /\ Len(Sizes) # 0
    BY LifecycleAssumption, EmptySeq, LenProperties
  <2> QED
    BY <2>1
<1>2. Current \subseteq Workers /\ \A w \in Workers : w \in Current <=> w[1] = 1
  BY <1>1, WorkerNames DEF Init, Current
<1>3. \A S : << >> \in Seq(S) /\ Len(<< >>) = 0
  BY EmptySeq
<1>4. TypeOK
  <2>1. 0 \in 0 .. MaxFaults /\ 0 \in 0 .. MaxShares
    BY LifecycleAssumption
  <2>2. timed \in BOOLEAN /\ closing \in [Workers -> BOOLEAN]
    BY Zenon DEF Init
  <2>3. /\ inbox \in [Workers -> Seq({"close", "end"})]
        /\ out \in [Workers -> Seq({"share", "garbage"})]
    BY <1>3 DEF Init
  <2>4. ids \subseteq {w \in Current : proc[w] # "seen"}
    BY <1>2 DEF Init
  <2> QED
    BY <1>1, <2>1, <2>2, <2>3, <2>4 DEF Init, TypeOK
<1>5. InUse
  BY <1>2 DEF Init, InUse
<1>6. Started
  <2>1. \A w \in Workers : w[1] \in Nat /\ (w[1] > 1 <=> w[1] # 1)
    BY WorkerNames
  <2> QED
    BY <1>2, <2>1 DEF Init, Started
<1>7. Noted /\ ExitForCause /\ UserMarked /\ NotCutShort /\ ForcesOK /\ CleanSoFar
      /\ Accounted
  BY DEF Init, Noted, ExitForCause, UserMarked, NotCutShort, ForcesOK, CleanSoFar, Accounted
<1>8. Blamed
  <2>1. \A w \in Workers : /\ proc[w] \in {"none", "up"} /\ core[w] = "live"
                           /\ 1 .. Len(out[w]) = {}
    BY <1>3 DEF Init
  <2> QED
    BY <2>1 DEF Blamed
<1>9. Covered
  BY DEF Init, Covered, Running
<1>10. EndedQuietly
  BY DEF Init, EndedQuietly
<1> QED
  BY <1>4, <1>5, <1>6, <1>7, <1>8, <1>9, <1>10 DEF IInv

\* The state of the workers and what the controller noted of them agree in
\* every reachable state.
THEOREM Invariance == Spec => []IInv
<1>1. Init => IInv
  BY InitIInv
<1>2. IInv /\ [Next]_vars => IInv'
  <2> SUFFICES ASSUME IInv, [Next]_vars PROVE IInv'
    OBVIOUS
  <2>1. TypeOK'
    BY TypeStep DEF IInv
  <2> QED
    BY <2>1, InUseStep, StartedStep, NotedStep, BlamedStep, CauseStep, CoveredStep, ForcesStep,
       QuietStep, AccountedStep, CleanStep DEF IInv
<1> QED
  BY <1>1, <1>2, PTL DEF Spec

\* The state has its types in every reachable state.
THEOREM TypeCorrect == Spec => []TypeOK
<1>1. IInv => TypeOK
  BY DEF IInv
<1> QED
  BY <1>1, Invariance, PTL

\* handleWorkerError gives up only over a fault of a worker in use: an end that
\* was asked for carries a mark, and forWorkerGeneration drops the events of
\* replaced workers.
THEOREM ExitsForCause == Spec => []ExitForCause
<1>1. IInv => ExitForCause
  BY DEF IInv
<1> QED
  BY <1>1, Invariance, PTL

\* An orderly exit with subprocess workers is not ended at once by a worker:
\* the first exit() marked all those in use.
THEOREM GraceKept == Spec => []NotCutShort
<1>1. IInv => NotCutShort
  BY DEF IInv
<1> QED
  BY <1>1, Invariance, PTL

\* The exit timer fires after the forced closes, and those cover every process
\* that runs; the other ways to end wait for the processes themselves.
THEOREM NoneLeftHung == Spec => []KilledBeforeEnd
<1>1. IInv => KilledBeforeEnd
  <2> SUFFICES ASSUME IInv, phase = "gone", cut = "none",
                      NEW w \in (IF mode = "mine" THEN awaited ELSE Workers)
               PROVE  proc[w] # "hung"
    BY DEF KilledBeforeEnd
  <2> QED
    BY DEF IInv, EndedQuietly, Closed, Running, TypeOK
<1> QED
  BY <1>1, Invariance, PTL

\* exit() is given every worker in use that has not failed and ended before, and
\* waitForWorkerClose waits for the end of a subprocess's output: controlled
\* mining starts to wait for the pool when no worker in use runs and only a
\* failed one may have left something unread.
THEOREM SharesRead == Spec => []SharesCollected
<1>1. ASSUME IInv PROVE SharesCollected
  <2> SUFFICES ASSUME mode = "mine", phase \in {"drain", "gone"}, cut = "none", NEW w \in Current
               PROVE  /\ proc[w] = "seen"
                      /\ transport = "sub" /\ out[w] # << >> => w \in guilty \ awaited
    BY DEF SharesCollected
  <2>1. \A v \in awaited : Closed(v)
    BY <1>1 DEF IInv, EndedQuietly
  <2>2. w \in awaited \/ (proc[w] = "seen" /\ w \in guilty)
    BY <1>1 DEF IInv, Accounted
  <2> QED
    BY <2>1, <2>2 DEF Closed
<1>2. IInv => SharesCollected
  BY <1>1
<1> QED
  BY <1>2, Invariance, PTL

\* The run of a harness fails when one of the workers it waits for ended badly,
\* in whatever order its end, its output and the exit came.
THEOREM FailuresReported == Spec => []FailedCloseFails
<1>1. IInv => FailedCloseFails
  <2> SUFFICES ASSUME IInv, mode # "plain", transport = "sub", phase = "gone",
                      NEW w \in awaited, how[w] = "bad", status # 1
               PROVE  FALSE
    BY DEF FailedCloseFails
  <2> USE DEF IInv
  <2>1. w \in Workers /\ w[1] = gen /\ gen \in Nat
    BY CurrentNames DEF TypeOK
  <2>2. proc[w] # "none"
    BY <2>1 DEF Started
  <2>3. cut = "none"
    BY DEF EndedQuietly, TypeOK
  <2>4. proc[w] = "seen"
    BY <2>1, <2>2, <2>3 DEF EndedQuietly, Closed, TypeOK
  <2>5. how[w] = "ok"
    BY <2>4 DEF CleanSoFar, TypeOK
  <2> QED
    BY <2>5
<1> QED
  BY <1>1, Invariance, PTL
=============================================================================
