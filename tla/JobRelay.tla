------------------------------ MODULE JobRelay ------------------------------
(***************************************************************************)
(* How a pool's job reaches the compute workers and how their shares and   *)
(* their progress come back (miner/jobs.js, miner/messages.js, the worker  *)
(* generations of helper.js, Core::process_message of native/core).        *)
(*                                                                         *)
(* The controller and every worker process run concurrently and talk over  *)
(* ordered pipes.  A result or a last_nonce message therefore meets a      *)
(* controller that may have changed the active pool, replaced the job or   *)
(* retired the workers meanwhile.                                          *)
(*                                                                         *)
(* Which pool becomes active is PoolFailover's business: here any change   *)
(* of the active pool it allows may happen at any time.  The content of a  *)
(* job (blob, seed, height) is a number; a pool may name two contents by   *)
(* the same job id.  Nonces are counted from 0 with a batch of one.        *)
(***************************************************************************)
EXTENDS Integers, Sequences, SequencesExt, FiniteSets

CONSTANTS
    Pools,       \* configured pools
    Primary,     \* opt.pool_ids.primary
    Donate,      \* opt.pool_ids.donate, or a value that is no pool
    Ids,         \* job ids pools use, and may reuse
    Algos,       \* algorithms of the jobs; the device list is a function of it
    RandomX,     \* those of them that run on the RX_CPU thread pool
    N,           \* worker processes per generation: get_dev_threads(dev)
    Retarget,    \* pools may resend the content of the job they last sent
    MaxContent, MaxToken, MaxGen, MaxNonce, MaxShares   \* bounds

ASSUME RelayAssumption ==
    /\ Primary \in Pools \ {Donate}
    /\ N \in Nat \ {0}
    /\ RandomX \subseteq Algos
    /\ Retarget \in BOOLEAN
    /\ {MaxContent, MaxToken, MaxGen, MaxNonce, MaxShares} \subseteq Nat

Threads == 0 .. N - 1
Workers == (1 .. MaxGen) \X Threads

NoJob == [content |-> 0]
NoWork == [token |-> 0]
Unset == -1               \* job.nonce is undefined

VARIABLES
    active,     \* opt.pool_ids.active
    held,       \* pool.last_job
    lastJob,    \* what getLastJob returns: the job last dispatched, or NoJob
    liveToken,  \* liveJobToken
    generation, \* worker_generation
    exiting,    \* is_exiting
    contents,   \* number of job contents created so far
    down,       \* commands on their way to each worker, oldest first
    up,         \* messages on their way to the controller, oldest first
    work,       \* the job each worker's core holds, with its search position
    running,    \* m_has_fn, or RandomX threads: the core is hashing its job
    gone,       \* workers that have processed their close command
    sent,       \* the shares written to pools, oldest first
    early       \* history: contents that were sent again, or whose workers were
                \* retired, while a position searched or to start from was unknown

ctrlVars == <<active, held, lastJob, liveToken, generation, exiting, contents>>
coreVars == <<work, running, gone>>
vars == <<ctrlVars, down, up, coreVars, sent, early>>

\* The workers messageWorkers reaches: the current generation's.
Current(g) == {w \in Workers : w[1] = g}

\* `sound' says whether the core's parser takes the job.  The controller checks
\* less: it dispatches such a job like any other.
Jobs == [content : 1 .. MaxContent, id : Ids, algo : Algos, sound : BOOLEAN,
         token : 0 .. MaxToken, nonce : Nat \cup {Unset}]

Works == [content : 1 .. MaxContent, id : Ids, algo : Algos, token : 1 .. MaxToken,
          pool : Pools, cur : Nat]

TypeOK ==
    /\ active \in Pools
    /\ held \in [Pools -> Jobs \cup {NoJob}]
    /\ liveToken \in 0 .. MaxToken
    /\ generation \in 0 .. MaxGen
    /\ exiting \in BOOLEAN
    /\ contents \in 0 .. MaxContent
    /\ gone \subseteq Workers
    /\ early \subseteq 1 .. MaxContent
    /\ running \in [Workers -> BOOLEAN]
    /\ \A w \in Workers :
         /\ work[w] \in Works \cup {NoWork}
         /\ running[w] => work[w] # NoWork
         /\ w[1] > generation => down[w] = <<>> /\ work[w] = NoWork

-----------------------------------------------------------------------------
(* Controller: dispatching a job *)

\* Mutant: the resume position is not used.
addNonceFields_FromZero(p, job) == 0

\* addNonceFields: the job's own resume position, else the one last used for
\* this pool and algorithm, else 0.
addNonceFields(p, job) ==
    CASE job.nonce # Unset -> job.nonce
      [] job.nonce = Unset /\ lastJob # NoJob /\ lastJob.pool = p
                           /\ lastJob.algo = job.algo -> lastJob.nonce
      [] OTHER -> 0

\* messageWorkers: one command to every worker of the current generation.
messageWorkers(cmd) ==
    [w \in Workers |-> IF w \in Current(generation) THEN Append(down[w], cmd) ELSE down[w]]

\* The workers were started for this algorithm and its devices.
WorkersFit(algo) == lastJob # NoJob /\ lastJob.algo = algo

\* Mutant: the new workers are started without a new generation number.
Dispatch_SameGeneration(algo, cmd) ==
    \/ /\ WorkersFit(algo)
       /\ down' = messageWorkers(cmd)
       /\ UNCHANGED generation
    \/ /\ ~WorkersFit(algo)
       /\ generation < MaxGen
       /\ down' = [w \in Workers |-> IF w \in Current(generation + 1) THEN <<cmd>>
                                     ELSE messageWorkers([type |-> "close"])[w]]
       /\ UNCHANGED generation

\* ensureWorkersForJob then the dispatch.  An algorithm change retires the
\* generation: its workers are told to close and a new one gets the job.
Dispatch(algo, cmd) ==
    \/ /\ WorkersFit(algo)
       /\ down' = messageWorkers(cmd)
       /\ UNCHANGED generation
    \/ /\ ~WorkersFit(algo)
       /\ generation < MaxGen
       /\ generation' = generation + 1
       /\ down' = [w \in Workers |-> IF w \in Current(generation + 1) THEN <<cmd>>
                                     ELSE messageWorkers([type |-> "close"])[w]]

\* Mutant: a controller that is exiting still dispatches.
set_job_WhileExiting(p, h) ==
    LET job == [h[p] EXCEPT !.token = liveToken + 1]
        start == addNonceFields(p, job)
    IN  /\ liveToken < MaxToken
        /\ liveToken' = liveToken + 1
        /\ held' = [h EXCEPT ![p] = job]
        /\ lastJob' = [content |-> job.content, algo |-> job.algo, pool |-> p,
                       nonce |-> start]
        /\ Dispatch(job.algo, [type |-> "job", algo |-> job.algo, pool |-> p,
                               id |-> job.id, token |-> job.token, sound |-> job.sound,
                               content |-> job.content, nonce |-> start])

\* set_job on the job pool p holds in h: a new token, then the dispatch unless
\* the controller is exiting.
set_job(p, h) ==
    LET job == [h[p] EXCEPT !.token = liveToken + 1]
        start == addNonceFields(p, job)
    IN  /\ liveToken < MaxToken
        /\ liveToken' = liveToken + 1
        /\ held' = [h EXCEPT ![p] = job]
        /\ \/ /\ exiting
              /\ UNCHANGED <<lastJob, generation, down>>
           \/ /\ ~exiting
              /\ lastJob' = [content |-> job.content, algo |-> job.algo, pool |-> p,
                             nonce |-> start]
              /\ Dispatch(job.algo, [type |-> "job", algo |-> job.algo, pool |-> p,
                                     id |-> job.id, token |-> job.token,
                                     sound |-> job.sound, content |-> job.content,
                                     nonce |-> start])

\* Some worker has yet to take or to leave the job dispatched under token t, or
\* its report is still on the way.
Unreported(t) ==
    \E w \in Workers :
        \/ work[w] # NoWork /\ work[w].token = t
        \/ \E c \in Range(down[w]) : c.type = "job" /\ c.token = t
        \/ \E m \in Range(up[w]) : m.type = "last_nonce" /\ m.token = t

\* The contents in h whose last reports are lost with a generation that retires.
Forgotten(h) ==
    {c \in 1 .. MaxContent :
        /\ generation' # generation
        /\ \E p \in Pools : h[p] # NoJob /\ h[p].content = c /\ Unreported(h[p].token)}

\* handlePoolJob: a new job of pool p.  The first job of the primary or of the
\* donation pool makes it active; an active pool's job is dispatched, any other
\* only stored.
PoolJob(p) ==
    \E id \in Ids, algo \in Algos, sound \in BOOLEAN :
        LET h == [held EXCEPT ![p] = [content |-> contents + 1, id |-> id, algo |-> algo,
                                      sound |-> sound, token |-> 0, nonce |-> Unset]]
            first == held[p] = NoJob /\ p \in {Primary, Donate}
        IN  /\ contents < MaxContent
            /\ contents' = contents + 1
            /\ \/ /\ p = active \/ first
                  /\ active' = p
                  /\ set_job(p, h)
                  /\ early' = early \cup Forgotten(h)
               \/ /\ p # active /\ ~first
                  /\ held' = h
                  /\ UNCHANGED <<active, lastJob, liveToken, generation, down, early>>
            /\ UNCHANGED <<exiting, up, coreVars, sent>>

\* A resent job has no position of its own.  The one its resumption knew is lost
\* if no worker is sure to start from it, since their memory is not allocated.
PositionDropped(p) ==
    held[p].nonce # Unset /\ \A w \in Current(generation) : work[w] = NoWork

\* handlePoolJob on a job with the content of the one the active pool sent last.
\* RandomX searches it again; a core that refuses it reports under the old token.
Retargets(p) ==
    /\ Retarget
    /\ p = active /\ held[p] # NoJob
    /\ \E id \in Ids, sound \in BOOLEAN :
         /\ set_job(p, [held EXCEPT ![p].id = id, ![p].sound = sound, ![p].nonce = Unset])
         /\ early' = IF sound /\ held[p].algo \notin RandomX /\ ~PositionDropped(p)
                     THEN early ELSE early \cup {held[p].content}
    /\ UNCHANGED <<active, exiting, contents, up, coreVars, sent>>

Alive(p, h) == {q \in Pools \ {p, Donate} : h[q] # NoJob}

\* switchPool away from the active pool p: a pool that holds a job is resumed,
\* else another pool is active without a job; the donation pool's work pauses.
switchPool(p, h) ==
    /\ \/ \E q \in Alive(p, h) :
            /\ active' = q
            /\ set_job(q, h)
            /\ early' = early \cup Forgotten(h) \cup
                          {c \in {h[q].content} : Unreported(h[q].token)}
       \/ /\ Alive(p, h) = {}
          /\ active' \in {q \in Pools \ {Donate} : h[q] = NoJob}
          /\ held' = h
          /\ down' = IF p = Donate THEN messageWorkers([type |-> "pause"]) ELSE down
          /\ UNCHANGED <<lastJob, liveToken, generation, early>>
    /\ UNCHANGED <<exiting, contents, up, coreVars, sent>>

\* The end of the donation window: the donation pool keeps its connection.
WindowEnds == active = Donate /\ switchPool(Donate, held)

\* clear_pool_connection, then switchPool if the pool was active.
Disconnect(p) ==
    LET h == [held EXCEPT ![p] = NoJob] IN
    /\ held[p] # NoJob
    /\ \/ p = active /\ switchPool(p, h)
       \/ /\ p # active
          /\ held' = h
          /\ UNCHANGED <<active, lastJob, liveToken, generation, exiting, contents,
                         down, up, coreVars, sent, early>>

\* exit: the workers are told to close.
Exit ==
    /\ ~exiting
    /\ exiting' = TRUE
    /\ down' = messageWorkers([type |-> "close"])
    /\ UNCHANGED <<active, held, lastJob, liveToken, generation, contents, up, coreVars, sent,
                   early>>

-----------------------------------------------------------------------------
(* Workers *)

\* The position last_nonce reports: the batch after the one in the input
\* buffer, or for a RandomX thread the nonce it has not finished.
Position(k) == IF k.algo \in RandomX THEN k.cur ELSE k.cur + N

LastNonce(k) ==
    [type |-> "last_nonce", pool |-> k.pool, id |-> k.id, token |-> k.token,
     nonce |-> Position(k)]

\* Core reports the job it leaves; RandomX threads report when they stop.
Reports(w) ==
    IF work[w] # NoWork /\ (work[w].algo \in RandomX => running[w])
    THEN Append(up[w], LastNonce(work[w])) ELSE up[w]

\* Mutant: the same compute input returns before the metadata is refreshed.
Take_KeepsToken(w, cmd) ==
    IF running[w] /\ work[w].content = cmd.content /\ cmd.algo \notin RandomX
    THEN work[w]
    ELSE [pool |-> cmd.pool, id |-> cmd.id, token |-> cmd.token, content |-> cmd.content,
          algo |-> cmd.algo, cur |-> cmd.nonce + w[2]]

\* The core's job after a "job" command.  The same compute input keeps the
\* search position and refreshes the submit metadata; RandomX always restarts.
Take(w, cmd) ==
    LET same == running[w] /\ work[w].content = cmd.content /\ cmd.algo \notin RandomX
    IN  [pool |-> cmd.pool, id |-> cmd.id, token |-> cmd.token, content |-> cmd.content,
         algo |-> cmd.algo, cur |-> IF same THEN work[w].cur ELSE cmd.nonce + w[2]]

\* The core stops hashing and keeps its job; RandomX threads report.
Stops(w) ==
    /\ running' = [running EXCEPT ![w] = FALSE]
    /\ up' = [up EXCEPT ![w] = IF work[w] # NoWork /\ work[w].algo \in RandomX
                               THEN Reports(w) ELSE @]
    /\ UNCHANGED <<work, gone>>

\* set_job allocates: for the first job of the process, and for another RandomX
\* seed.
Allocates(w, cmd) ==
    work[w] # NoWork => cmd.algo \in RandomX /\ work[w].content # cmd.content

\* Core::process_message on the worker's next command.  A job that the parser
\* refuses changes nothing, and the job before goes on; when the allocation
\* fails, the loop is left idle with the ids of the job before.
Process(w) ==
    LET cmd == Head(down[w]) IN
    /\ w \notin gone
    /\ down[w] # <<>>
    /\ down' = [down EXCEPT ![w] = Tail(@)]
    /\ \/ /\ cmd.type = "job" /\ cmd.sound
          /\ work' = [work EXCEPT ![w] = Take(w, cmd)]
          /\ running' = [running EXCEPT ![w] = TRUE]
          /\ up' = [up EXCEPT ![w] = Reports(w)]
          /\ UNCHANGED gone
       \/ /\ cmd.type = "job" /\ ~cmd.sound
          /\ UNCHANGED <<work, running, up, gone>>
       \/ cmd.type = "job" /\ cmd.sound /\ Allocates(w, cmd) /\ Stops(w)
       \/ cmd.type = "pause" /\ Stops(w)
       \/ /\ cmd.type = "close"
          /\ gone' = gone \cup {w}
          /\ running' = [running EXCEPT ![w] = FALSE]
          /\ up' = [up EXCEPT ![w] = Reports(w)]
          /\ UNCHANGED work
    /\ UNCHANGED <<ctrlVars, sent, early>>

Results(s) == Cardinality({i \in DOMAIN s : s[i].type = "result"})

\* One batch: hash the nonce in the input buffer, report it if it meets the
\* target, and move on to this worker's next nonce.
Hash(w) ==
    /\ w \notin gone
    /\ running[w]
    /\ work[w].cur <= MaxNonce
    /\ work' = [work EXCEPT ![w].cur = @ + N]
    /\ \E found \in BOOLEAN :
         up' = IF found
               THEN [up EXCEPT ![w] = Append(@,
                       [type |-> "result", pool |-> work[w].pool, id |-> work[w].id,
                        token |-> work[w].token, content |-> work[w].content,
                        nonce |-> work[w].cur])]
               ELSE up
    /\ \A v \in Workers : Results(up'[v]) <= 1
    /\ UNCHANGED <<ctrlVars, down, running, gone, sent, early>>

-----------------------------------------------------------------------------
(* Controller: messages from the workers *)

\* Mutant: results are matched by the job id alone.
matchingPoolJob_IdOnly(m) ==
    held[m.pool] # NoJob /\ held[m.pool].token # 0 /\ held[m.pool].id = m.id

\* matchingPoolJob: the pool still holds the very job instance the message is for.
matchingPoolJob(m) ==
    held[m.pool] # NoJob /\ held[m.pool].token = m.token /\ held[m.pool].id = m.id

\* handleResult: a share of the held job is written to its pool, others dropped.
handleResult(m) ==
    /\ m.type = "result"
    /\ matchingPoolJob(m) => Len(sent) < MaxShares
    /\ sent' = IF matchingPoolJob(m)
               THEN Append(sent, [pool |-> m.pool, id |-> m.id, content |-> m.content,
                                  nonce |-> m.nonce])
               ELSE sent
    /\ UNCHANGED held

\* handleLastNonce: the largest position reported for a background job is kept.
handleLastNonce(m) ==
    /\ m.type = "last_nonce"
    /\ held' = IF m.pool # active /\ matchingPoolJob(m) /\ held[m.pool].nonce < m.nonce
               THEN [held EXCEPT ![m.pool].nonce = m.nonce] ELSE held
    /\ UNCHANGED sent

\* The next message of a worker reaches the controller, which drops those of
\* retired generations (forWorkerGeneration).
Deliver(w) ==
    LET m == Head(up[w]) IN
    /\ up[w] # <<>>
    /\ up' = [up EXCEPT ![w] = Tail(@)]
    /\ \/ /\ w[1] = generation
          /\ handleResult(m) \/ handleLastNonce(m)
       \/ /\ w[1] # generation
          /\ UNCHANGED <<held, sent>>
    /\ UNCHANGED <<active, lastJob, liveToken, generation, exiting, contents, down, coreVars,
                   early>>

-----------------------------------------------------------------------------
Init ==
    /\ active = Primary
    /\ held = [p \in Pools |-> NoJob]
    /\ lastJob = NoJob
    /\ liveToken = 0
    /\ generation = 0
    /\ exiting = FALSE
    /\ contents = 0
    /\ down = [w \in Workers |-> <<>>]
    /\ up = [w \in Workers |-> <<>>]
    /\ work = [w \in Workers |-> NoWork]
    /\ running = [w \in Workers |-> FALSE]
    /\ gone = {}
    /\ sent = <<>>
    /\ early = {}

Next ==
    \/ \E p \in Pools :
         PoolJob(p) \/ Retargets(p) \/ Disconnect(p)
    \/ WindowEnds
    \/ Exit
    \/ \E w \in Workers : Process(w) \/ Hash(w) \/ Deliver(w)

Spec == Init /\ [][Next]_vars

-----------------------------------------------------------------------------
(* Properties *)

\* handleResult: whatever a late result has overtaken, every share written to a
\* pool was found on the content of the job that pool now holds, under its id.
ShareForHeldJob ==
    [][Len(sent') > Len(sent) =>
         LET s == Last(sent') IN
         held[s.pool] # NoJob /\ s.content = held[s.pool].content
                              /\ s.id = held[s.pool].id]_vars

\* miner/messages.js: "store max last nonce for background pool job to resume it
\* from there".  No share is written to a pool twice: a resumed job does not
\* search again what was searched before it was left.
NoDuplicateShare ==
    \A i, j \in DOMAIN sent :
        sent[i].content = sent[j].content /\ sent[i].nonce = sent[j].nonce => i = j

\* What handleLastNonce does guarantee, in any order of commands, reports and
\* switches: a share is written twice only if its job was sent again, or its
\* workers retired, while a position of it was unknown (`early' says when).  Two
\* workers of one dispatch never find the same share, a retargeted job goes on
\* where it was, and reports may come in any order while the job is in the
\* background.
DuplicateOnlyIfEarly ==
    \A i, j \in DOMAIN sent :
        /\ i # j
        /\ sent[i].content = sent[j].content /\ sent[i].nonce = sent[j].nonce
        => sent[i].content \in early

\* A worker that has caught up with its commands mines the job the active pool
\* holds, under the token and id its shares will be matched by.  If its core
\* refused that job, it is still on one dispatched before, whose shares go by
\* their own token; if memory ran out, it does not run.
CaughtUpWorkerMinesHeldJob ==
    \A w \in Current(generation) :
        ~exiting /\ down[w] = <<>> /\ running[w] /\ held[active] # NoJob =>
            IF held[active].sound
            THEN /\ work[w].pool = active
                 /\ work[w].token = held[active].token
                 /\ work[w].id = held[active].id
            ELSE work[w].token < held[active].token

\* exit closes the workers once: afterwards every worker ever started has left
\* or has a close command coming, so the process can end.
ExitReachesWorkers ==
    exiting => \A w \in Workers :
        w[1] <= generation =>
            w \in gone \/ \E i \in DOMAIN down[w] : down[w][i].type = "close"

=============================================================================
