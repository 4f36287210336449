--------------------------- MODULE ComputeThread ---------------------------
(***************************************************************************)
(* One native compute core: the JavaScript thread that posts commands to   *)
(* it, the compute thread that handles them, and the RandomX threads the   *)
(* compute thread starts for a job (AsyncWorker of native/async-worker.h,  *)
(* Core of native/core.h, native/core/ and native/job/).                   *)
(*                                                                         *)
(* Commands travel through a mutex-protected queue that the compute thread *)
(* empties as a whole; events travel back through a Node thread-safe       *)
(* function, whose queue is unbounded, and reach JavaScript only while its *)
(* thread is not inside a native call.  Atomics that two threads touch are *)
(* read and written in steps of their own.  A command is named by its      *)
(* place in `sent', which stands for the job token.                        *)
(***************************************************************************)
EXTENDS Naturals, Sequences

CONSTANTS
    Keys,       \* algorithms with their seeds
    Blobs,      \* what is hashed
    Scripts,    \* sequences of commands JavaScript may post, see CmdType
    B,          \* m_batch: RandomX threads of a job
    NoKey,      \* m_algo_str is empty / nothing is allocated
    MaxFound    \* bound: results found

Kinds == {"mine", "bench", "test", "pause", "misc", "close"}

\* kind:  mine, bench and test are the set_job commands; misc stands for
\*        read_msr, write_msr, algo_params and unknown names;
\* dev:   "rx" when RandomX threads do the work, "fn" when the compute thread
\*        calls m_fn itself;
\* key:   algorithm and seed, what memory and dataset are built for;
\* input: the blob.  Both are empty in a command without a job.
Inputs == Blobs \cup {""}
CmdType == [kind : Kinds, dev : {"fn", "rx"}, key : Keys \cup {""}, input : Inputs]
Close == [kind |-> "close", dev |-> "fn", key |-> "", input |-> ""]

Cmds == {Close} \cup UNION {{s[i] : i \in DOMAIN s} : s \in Scripts}

ASSUME ThreadAssumption ==
    /\ B \in Nat \ {0} /\ MaxFound \in Nat
    /\ \A s \in Scripts : s \in Seq(CmdType)
    /\ \A c \in Cmds : c.key # NoKey

Lanes == 1 .. B
None == 0                       \* no job: the id strings are empty

VARIABLES
    js,         \* JavaScript thread: what it is doing inside native code
    cmd,        \* the command being posted
    accepting, started, stopped,        \* atomics of AsyncWorker
    tsfn,       \* m_tsfn: "none", "open" or "released"
    fromNode,   \* queue of commands
    events,     \* queue of the thread-safe function
    pc,         \* compute thread
    batch,      \* commands drained and not handled
    dev, mode, key, input, job, hasFn,  \* members of Core
    pos,        \* job whose search position m_nonce32 / m_nonce64 holds
    ref,        \* m_job_ref
    vms, dataset,   \* RandomX machines exist; what the dataset was built for
    rx,         \* RandomX threads
    sent,       \* history: the commands written to the queue
    handled,    \* history: how many were handled
    over,       \* history: the terminal event queued, or "no"
    told,       \* history: the terminal event reached JavaScript
    owed,       \* history: <<job, lane>> whose position was not reported
    lost,       \* history: those of them that an error has ended
    found       \* history: results found

jsVars == <<js, cmd, accepting, started, stopped>>
memVars == <<key, vms, dataset>>
jobVars == <<dev, mode, input, job, hasFn, pos>>
ghosts == <<sent, handled, over, told, owed, lost, found>>
vars == <<js, cmd, accepting, started, stopped, tsfn, fromNode, events, pc,
          batch, dev, mode, key, input, job, hasFn, pos, ref, vms, dataset,
          rx, sent, handled, over, told, owed, lost, found>>

\* An event: its name, the job its id fields name, and the blob it is about.
Event(t, j, i) == [type |-> t, tag |-> j, input |-> i]
Plain(t) == Event(t, None, "")
Terminals == {"complete", "failed"}

Off == [st |-> "none", ref |-> 0, job |-> None]
Alive(b) == rx[b].st \in {"hash", "send"}
HasThreads == \E b \in Lanes : rx[b].st # "none"

Init ==
    /\ js = "idle" /\ cmd = Close
    /\ accepting = TRUE /\ started = FALSE /\ stopped = FALSE
    /\ tsfn = "none" /\ fromNode = << >> /\ events = << >>
    /\ pc = "off" /\ batch = << >>
    /\ dev = "fn" /\ mode = "mine" /\ key = NoKey /\ input = "" /\ job = None
    /\ hasFn = FALSE /\ pos = None /\ ref = 0 /\ vms = FALSE /\ dataset = NoKey
    /\ rx = [b \in Lanes |-> Off]
    /\ sent = << >> /\ handled = 0 /\ over = "no" /\ told = FALSE
    /\ owed = {} /\ lost = {} /\ found = 0

-----------------------------------------------------------------------------
(* The JavaScript thread: sendToCpp, the destructor, the event loop.       *)

\* MessageQueue::write
Write(c) ==
    /\ sent' = Append(sent, c)
    /\ fromNode' = Append(fromNode, Len(sent) + 1)

\* First check of post(), then start(): the thread exists from now on.
Post(c) ==
    /\ js = "idle" /\ accepting /\ Append(sent, c) \in Scripts
    /\ js' = "recheck" /\ cmd' = c
    /\ started' = TRUE
    /\ IF started THEN UNCHANGED <<tsfn, pc>>
       ELSE tsfn' = "open" /\ pc' = "drain"
    /\ UNCHANGED <<accepting, stopped, fromNode, events, batch, jobVars, ref,
                   memVars, rx, ghosts>>

\* start() cannot create the thread: the core is finished without an event,
\* and post() throws.  (If the thread-safe function cannot be created,
\* nothing has changed when post() throws.)
StartFails ==
    /\ js = "idle" /\ accepting /\ ~started
    /\ started' = TRUE /\ accepting' = FALSE /\ stopped' = TRUE
    /\ tsfn' = "released"
    /\ UNCHANGED <<js, cmd, fromNode, events, pc, batch, jobVars, ref, memVars,
                   rx, ghosts>>

\* Second check of post(): it throws, or goes on to write.
Recheck ==
    /\ js = "recheck"
    /\ js' = IF accepting THEN "write" ELSE "idle"
    /\ UNCHANGED <<cmd, accepting, started, stopped, tsfn, fromNode, events, pc,
                   batch, jobVars, ref, memVars, rx, ghosts>>

PostWrite ==
    /\ js = "write"
    /\ Write(cmd)
    /\ js' = IF cmd.kind = "close" THEN "shut" ELSE "idle"
    /\ UNCHANGED <<cmd, accepting, started, stopped, tsfn, events, pc, batch,
                   jobVars, ref, memVars, rx, handled, over, told, owed, lost, found>>

PostShut ==
    /\ js = "shut"
    /\ js' = "idle" /\ accepting' = FALSE
    /\ UNCHANGED <<cmd, started, stopped, tsfn, fromNode, events, pc, batch,
                   jobVars, ref, memVars, rx, ghosts>>

\* ~Core: the wrapper is collected, or the environment is torn down.
Destroy ==
    /\ js = "idle"
    /\ js' = IF started /\ ~stopped THEN "exchange" ELSE "join"
    /\ UNCHANGED <<cmd, accepting, started, stopped, tsfn, fromNode, events, pc,
                   batch, jobVars, ref, memVars, rx, ghosts>>

\* m_accepting.exchange(false) in stop()
Exchange ==
    /\ js = "exchange"
    /\ js' = IF accepting THEN "writeClose" ELSE "join"
    /\ accepting' = FALSE
    /\ UNCHANGED <<cmd, started, stopped, tsfn, fromNode, events, pc, batch,
                   jobVars, ref, memVars, rx, ghosts>>

StopWrite ==
    /\ js = "writeClose"
    /\ Write(Close)
    /\ js' = "join"
    /\ UNCHANGED <<cmd, accepting, started, stopped, tsfn, events, pc, batch,
                   jobVars, ref, memVars, rx, handled, over, told, owed, lost, found>>

Joined ==
    /\ js = "join" /\ pc \in {"off", "dead"}
    /\ js' = "gone"
    /\ UNCHANGED <<cmd, accepting, started, stopped, tsfn, fromNode, events, pc,
                   batch, jobVars, ref, memVars, rx, ghosts>>

\* call_event: the event loop hands one event to its callback.
CallEvent ==
    /\ js \in {"idle", "gone"} /\ events # << >>
    /\ events' = Tail(events)
    /\ told' = (told \/ Head(events).type \in Terminals)
    /\ UNCHANGED <<jsVars, tsfn, fromNode, pc, batch, jobVars, ref, memVars, rx,
                   sent, handled, over, owed, lost, found>>

-----------------------------------------------------------------------------
(* The compute thread: Core::Execute, process_message and set_job.         *)

Cur == sent[Head(batch)]
Work == {"mine", "bench", "test"}

\* queue_event: nothing is queued once the thread-safe function is gone.
Send(es) == events' = IF tsfn = "open" THEN events \o es ELSE events

\* Mutant: the loop over the batch does not end.
Done_NoEnd ==
    /\ handled' = handled + 1
    /\ batch' = Tail(batch)
    /\ pc' = "handle"

\* The command is handled and the next one of the batch, if any, is taken.
Done ==
    /\ handled' = handled + 1
    /\ batch' = Tail(batch)
    /\ pc' = IF Len(batch) = 1 THEN "drain" ELSE "handle"

\* last_nonce() and send_last_nonce(): RandomX threads report for themselves,
\* and a position without a pool job is not reported.
LastNonce ==
    IF dev = "rx" \/ pos = None \/ job = None THEN << >>
    ELSE <<Event("last_nonce", job, sent[pos].input)>>
Reported == {<<job, 0>>}

\* Mutant: the queue is copied and not emptied.
Drain_Copy ==
    /\ pc = "drain" /\ fromNode # << >>
    /\ batch' = fromNode
    /\ pc' = "handle"
    /\ UNCHANGED <<jsVars, tsfn, fromNode, events, jobVars, ref, memVars, rx,
                   ghosts>>

\* MessageQueue::drain takes the whole queue.
Drain ==
    /\ pc = "drain" /\ fromNode # << >>
    /\ batch' = fromNode /\ fromNode' = << >>
    /\ pc' = "handle"
    /\ UNCHANGED <<jsVars, tsfn, events, jobVars, ref, memVars, rx, ghosts>>

\* Commands that keep the jobs as they are, and set_job commands refused while
\* their fields are parsed: the old job goes on.
HandleOther ==
    /\ pc = "handle"
    /\ \/ Cur.kind = "misc" /\ \E t \in {"none", "answer", "error"} :
             Send(IF t = "none" THEN << >> ELSE <<Plain(t)>>)
       \/ Cur.kind \in Work /\ Send(<<Plain("error")>>)
    /\ Done
    /\ UNCHANGED <<jsVars, tsfn, fromNode, jobVars, ref, memVars, rx, sent,
                   over, told, owed, lost, found>>

\* Mutant: set_job replaces the job under its RandomX threads.
Stops_NotForJobs(c) == c.kind \in {"pause", "close"}

\* The command waits for the RandomX threads (stop_rx_threads).
Stops(c) == c.kind \in {"pause", "close"} \/ (c.kind \in Work /\ dev = "rx")

\* Mutant: the threads are joined before they are told that the job is gone.
NextJobRef_Late == ref

\* next_job_ref() in stop_rx_threads
NextJobRef == IF HasThreads THEN ref + 1 ELSE ref

\* Up to the joins of stop_rx_threads; close reports its position first.
Begin ==
    /\ pc = "handle" /\ Cur.kind # "misc"
    /\ pc' = "join"
    /\ ref' = IF Stops(Cur) THEN NextJobRef ELSE ref
    /\ IF Cur.kind = "close"
       THEN Send(LastNonce) /\ owed' = owed \ Reported
       ELSE UNCHANGED <<events, owed>>
    /\ UNCHANGED <<jsVars, tsfn, fromNode, batch, jobVars, memVars, rx, sent,
                   handled, over, told, lost, found>>

\* All threads are joined and m_rx_threads is cleared.
Ready ==
    /\ pc = "join"
    /\ Stops(Cur) => \A b \in Lanes : ~Alive(b)
RxCleared == IF Stops(Cur) THEN [b \in Lanes |-> Off] ELSE rx

ApplyPause ==
    /\ Ready /\ Cur.kind = "pause"
    /\ hasFn' = FALSE
    /\ rx' = RxCleared
    /\ Done
    /\ UNCHANGED <<jsVars, tsfn, fromNode, events, dev, mode, input, job, pos,
                   ref, memVars, sent, over, told, owed, lost, found>>

\* free_memory() and the end of the loop; the rest of the batch is dropped.
ApplyClose ==
    /\ Ready /\ Cur.kind = "close"
    /\ rx' = RxCleared /\ vms' = FALSE /\ dataset' = NoKey
    /\ handled' = handled + 1 /\ batch' = << >> /\ pc' = "complete"
    /\ UNCHANGED <<jsVars, tsfn, fromNode, events, jobVars, ref, key, sent,
                   over, told, owed, lost, found>>

SameShape(c) == c.kind # "test" /\ <<mode, key, dev>> = <<c.kind, c.key, c.dev>>
SameInput(c) == SameShape(c) /\ c.dev = "fn" /\ hasFn /\ input = c.input
Rebuild(c) == key # c.key \/ dev # c.dev
JobOf(c) == IF c.kind = "mine" THEN Head(batch) ELSE None
Lane(c) == IF c.kind # "mine" THEN {}
           ELSE {Head(batch)} \X (IF c.dev = "rx" THEN Lanes ELSE {0})

\* Same work under another job id: the search goes on and only the ids change.
Refresh(c) ==
    /\ Ready /\ c.kind \in Work /\ SameInput(c)
    /\ job' = JobOf(c)
    /\ Send(LastNonce) /\ owed' = (owed \ Reported) \cup Lane(c)
    /\ Done
    /\ UNCHANGED <<jsVars, tsfn, fromNode, dev, mode, input, hasFn, pos, ref,
                   memVars, rx, sent, over, told, lost, found>>

\* Mutant: a failed allocation leaves m_algo_str as it was.
FailedKey_Kept(c) == key

\* m_algo_str.clear(): the next job allocates and initializes everything anew.
FailedKey(c) == NoKey

\* An allocation, the dataset or a virtual machine fails with a string: what
\* was allocated is freed and the ids stay those of the old job.
SetJobFails(c) ==
    /\ Ready /\ c.kind \in Work /\ ~SameInput(c) /\ Rebuild(c)
    /\ hasFn' = FALSE /\ ref' = ref + 1
    /\ key' = FailedKey(c) /\ vms' = FALSE /\ dataset' = NoKey
    /\ rx' = RxCleared
    /\ Send(<<Plain("error")>>)
    /\ Done
    /\ UNCHANGED <<jsVars, tsfn, fromNode, dev, mode, input, job, pos, sent,
                   over, told, owed, lost, found>>

\* What a job that is not refused does to the members of Core.
Members(c) ==
    /\ ref' = ref + 1
    /\ dev' = c.dev /\ mode' = c.kind /\ input' = c.input /\ job' = JobOf(c)
    /\ IF Rebuild(c)
       THEN /\ key' = c.key
            /\ vms' = (c.dev = "rx")
            /\ dataset' = IF c.dev = "rx" THEN c.key ELSE NoKey
       ELSE UNCHANGED memVars

\* A job for m_fn.  If its first nonce leaves the protected range (`ok' is
\* false), set_job throws after the ids were replaced: the position of the job
\* before is never reported.
SetJobFn(c) ==
    /\ Ready /\ c.kind \in Work /\ ~SameInput(c) /\ c.dev = "fn"
    /\ Members(c)
    /\ rx' = RxCleared
    /\ pos' = Head(batch)
    /\ \E ok \in BOOLEAN :
         /\ hasFn' = ok
         /\ Send(IF ok THEN LastNonce ELSE <<Plain("error")>>)
         /\ owed' = (IF ok THEN owed \ Reported ELSE owed) \cup Lane(c)
         /\ lost' = IF ok THEN lost ELSE lost \cup (owed \cap Reported)
    /\ Done
    /\ UNCHANGED <<jsVars, tsfn, fromNode, sent, over, told, found>>

\* A job for RandomX threads.
SetJobRx(c) ==
    /\ Ready /\ c.kind \in Work /\ c.dev = "rx"
    /\ Members(c)
    /\ hasFn' = FALSE /\ pos' = None
    /\ rx' = [b \in Lanes |-> [st |-> "hash", ref |-> ref', job |-> Head(batch)]]
    /\ Send(LastNonce)
    /\ owed' = (owed \ Reported) \cup Lane(c)
    /\ Done
    /\ UNCHANGED <<jsVars, tsfn, fromNode, sent, over, told, lost, found>>

\* A RandomX thread cannot be created: those created are told to stop, and the
\* exception, which is no string, leaves Execute.
SetJobRxUnwinds(c) ==
    /\ Ready /\ c.kind \in Work /\ c.dev = "rx"
    /\ dev' = c.dev /\ mode' = c.kind /\ input' = c.input /\ job' = JobOf(c)
    /\ hasFn' = FALSE /\ pos' = None /\ ref' = ref + 2
    /\ IF Rebuild(c) THEN key' = c.key /\ vms' = TRUE /\ dataset' = c.key
       ELSE UNCHANGED memVars
    /\ \E n \in 0 .. B - 1 :
         rx' = [b \in Lanes |-> IF b > n THEN Off ELSE
                    [st |-> "hash", ref |-> ref + 1, job |-> Head(batch)]]
    /\ pc' = "unwind"
    /\ UNCHANGED <<jsVars, tsfn, fromNode, events, batch, ghosts>>

\* Any other exception that is no string (std::bad_alloc, std::out_of_range)
\* reaches the handler around the loop, which stops the RandomX threads.
Unwind ==
    /\ pc = "handle" \/ Ready
    /\ ref' = NextJobRef
    /\ pc' = "unwind"
    /\ UNCHANGED <<jsVars, tsfn, fromNode, events, batch, jobVars, memVars, rx,
                   ghosts>>

\* Mutant: the exception leaves Execute without free_memory().
Unwound_NoJoin ==
    /\ pc = "unwind"
    /\ pc' = "failed"
    /\ UNCHANGED <<jsVars, tsfn, fromNode, events, batch, jobVars, ref, memVars,
                   rx, ghosts>>

\* free_memory() of the handler has joined the threads.
Unwound ==
    /\ pc = "unwind" /\ \A b \in Lanes : ~Alive(b)
    /\ rx' = [b \in Lanes |-> Off] /\ vms' = FALSE /\ dataset' = NoKey
    /\ pc' = "failed"
    /\ UNCHANGED <<jsVars, tsfn, fromNode, events, batch, jobVars, ref, key,
                   ghosts>>

\* One call of m_fn that finds a share, answers a test, or fails.  A call that
\* finds nothing changes nothing here.
Dispatch ==
    /\ pc = "drain" /\ hasFn
    /\ \/ /\ mode = "mine" /\ found < MaxFound
          /\ found' = found + 1 /\ hasFn' = TRUE
          /\ Send(<<Event("result", job, input)>>)
       \/ /\ mode = "test" /\ Send(<<Plain("test")>>)
          /\ hasFn' = FALSE /\ found' = found
       \/ Send(<<Plain("error")>>) /\ hasFn' = FALSE /\ found' = found
    /\ UNCHANGED <<jsVars, tsfn, fromNode, pc, batch, dev, mode, input, job,
                   pos, ref, memVars, rx, sent, handled, over, told, owed, lost>>

\* run(): the terminal event, then m_accepting, m_stopped and m_tsfn.
Terminal ==
    /\ pc \in Terminals
    /\ Send(<<Plain(pc)>>)
    /\ over' = IF pc = "complete" THEN "complete" ELSE "error"
    /\ pc' = "refuse"
    /\ UNCHANGED <<jsVars, tsfn, fromNode, batch, jobVars, ref, memVars, rx,
                   sent, handled, told, owed, lost, found>>

Refuse ==
    /\ pc = "refuse"
    /\ pc' = "mark" /\ accepting' = FALSE
    /\ UNCHANGED <<js, cmd, started, stopped, tsfn, fromNode, events, batch,
                   jobVars, ref, memVars, rx, ghosts>>

Mark ==
    /\ pc = "mark"
    /\ pc' = "release" /\ stopped' = TRUE
    /\ UNCHANGED <<js, cmd, accepting, started, tsfn, fromNode, events, batch,
                   jobVars, ref, memVars, rx, ghosts>>

Release ==
    /\ pc = "release"
    /\ pc' = "dead" /\ tsfn' = "released"
    /\ UNCHANGED <<jsVars, fromNode, events, batch, jobVars, ref, memVars, rx,
                   ghosts>>

-----------------------------------------------------------------------------
(* The RandomX threads of a job.                                           *)

RxUnchanged == UNCHANGED <<jsVars, tsfn, fromNode, pc, batch, jobVars, ref,
                           memVars, sent, handled, over, told>>
RxCmd(b) == sent[rx[b].job]
Current(b) == rx[b].ref = ref
RxTo(b, st) == rx' = [rx EXCEPT ![b].st = st]

\* A hash below the target; the ids are read later, in RxSend.
RxFind(b) ==
    /\ rx[b].st = "hash" /\ RxCmd(b).kind = "mine" /\ Current(b)
    /\ found < MaxFound /\ found' = found + 1
    /\ RxTo(b, "send")
    /\ RxUnchanged /\ UNCHANGED <<events, owed, lost>>

\* send_result reads the ids from the members of Core.
RxSend(b) ==
    /\ rx[b].st = "send"
    /\ Send(<<Event("result", job, RxCmd(b).input)>>)
    /\ RxTo(b, "hash")
    /\ RxUnchanged /\ UNCHANGED <<owed, lost, found>>

RxTest(b) ==
    /\ rx[b].st = "hash" /\ RxCmd(b).kind = "test"
    /\ Send(<<Plain("test")>>)
    /\ RxTo(b, "done")
    /\ RxUnchanged /\ UNCHANGED <<owed, lost, found>>

\* The nonce range ends, or the thread throws: no position is reported.
RxFails(b) ==
    /\ rx[b].st = "hash"
    /\ Send(<<Plain("error")>>)
    /\ RxTo(b, "done")
    /\ lost' = lost \cup {<<rx[b].job, b>>}
    /\ RxUnchanged /\ UNCHANGED <<owed, found>>

\* Mutant: a RandomX thread leaves without its position.
RxLeave_Silent(b) ==
    /\ rx[b].st = "hash" /\ RxCmd(b).kind # "test" /\ ~Current(b)
    /\ RxTo(b, "done")
    /\ RxUnchanged /\ UNCHANGED <<events, owed, lost, found>>

\* m_job_ref changed: the position is reported with the ids of the thread.
RxLeave(b) ==
    /\ rx[b].st = "hash" /\ RxCmd(b).kind # "test" /\ ~Current(b)
    /\ Send(IF RxCmd(b).kind = "mine"
            THEN <<Event("last_nonce", rx[b].job, RxCmd(b).input)>> ELSE << >>)
    /\ RxTo(b, "done")
    /\ owed' = owed \ {<<rx[b].job, b>>}
    /\ RxUnchanged /\ UNCHANGED <<lost, found>>

-----------------------------------------------------------------------------
SetJob(c) ==
    \/ Refresh(c) \/ SetJobFails(c) \/ SetJobFn(c) \/ SetJobRx(c)
    \/ SetJobRxUnwinds(c)

JsStep == Recheck \/ PostWrite \/ PostShut \/ Exchange \/ StopWrite \/ Joined

ComputeStep ==
    \/ Drain \/ HandleOther \/ Begin \/ ApplyPause \/ ApplyClose
    \/ SetJob(Cur) \/ Unwind \/ Unwound
    \/ Terminal \/ Refuse \/ Mark \/ Release

RxStep(b) == RxFind(b) \/ RxSend(b) \/ RxTest(b) \/ RxFails(b) \/ RxLeave(b)

Next ==
    \/ \E c \in Cmds : Post(c)
    \/ StartFails \/ Destroy \/ JsStep \/ CallEvent
    \/ ComputeStep \/ Dispatch
    \/ \E b \in Lanes : RxStep(b)

Spec == Init /\ [][Next]_vars

\* Threads are scheduled, a hash and a callback end, and a mutex is not held
\* for ever.  Nothing obliges JavaScript to post or to drop the object, and no
\* thread has to find a share or to fail.
Fairness ==
    /\ WF_vars(JsStep) /\ WF_vars(CallEvent) /\ WF_vars(ComputeStep)
    /\ \A b \in Lanes : WF_vars(RxSend(b) \/ RxTest(b) \/ RxLeave(b))

FairSpec == Spec /\ Fairness

-----------------------------------------------------------------------------
Tokens == 0 .. Len(sent)

\* Types of the state.
TypeOK ==
    /\ js \in {"idle", "recheck", "write", "shut", "exchange", "writeClose",
               "join", "gone"}
    /\ cmd \in Cmds
    /\ {accepting, started, stopped, hasFn, vms, told} \subseteq BOOLEAN
    /\ tsfn \in {"none", "open", "released"}
    /\ pc \in {"off", "drain", "handle", "join", "unwind", "refuse", "mark",
               "release", "dead"} \cup Terminals
    /\ fromNode \in Seq(Tokens) /\ batch \in Seq(Tokens)
    /\ pc \in {"handle", "join"} => batch # << >>
    /\ events \in Seq([type : {"result", "last_nonce", "test", "answer", "error"}
                                 \cup Terminals,
                       tag : Tokens, input : Inputs])
    /\ dev \in {"fn", "rx"} /\ mode \in Work /\ input \in Inputs
    /\ job \in Tokens /\ pos \in Tokens /\ ref \in Nat
    /\ rx \in [Lanes -> [st : {"none", "hash", "send", "done"}, ref : Nat,
                         job : Tokens]]
    /\ sent \in Seq(Cmds) /\ handled \in 0 .. Len(sent)
    /\ over \in {"no", "complete", "error"}
    /\ owed \cup lost \subseteq Tokens \X (0 .. B) /\ found \in 0 .. MaxFound

\* A result or a position reported to JavaScript is about the blob of the job
\* it names.  send_result takes the ids from members that set_job replaces
\* while RandomX threads of the old job may hold a result to send.
TagsMatch ==
    \A i \in 1 .. Len(events) :
        events[i].type \in {"result", "last_nonce"} =>
            /\ events[i].tag # None
            /\ sent[events[i].tag].input = events[i].input

\* The terminal event is the last one ever queued, and a RandomX thread never
\* outlives the thread-safe function it sends through, however the compute
\* thread ends.
TerminalLast ==
    /\ \A i \in 1 .. Len(events) : events[i].type \in Terminals => i = Len(events)
    /\ told => events = << >>
    /\ (\E b \in Lanes : Alive(b)) => tsfn = "open" /\ over = "no"

\* A RandomX thread only hashes on machines that exist, over the dataset of
\* its own job's algorithm and seed, also after earlier jobs failed halfway.
RxMemoryValid ==
    \A b \in Lanes : Alive(b) => vms /\ dataset = sent[rx[b].job].key

\* The search position of a pool job is reported before the job is forgotten,
\* so that it can be resumed, unless an error ended the job: a replacement that
\* fails after it took over the ids (`lost' in SetJobFn), or a RandomX thread
\* that ends with an error.  Refused and failed jobs, pauses, refreshed ids and
\* an orderly close lose none: between two commands only the job in hand still
\* owes a position, and after the close nothing does.
PositionReported ==
    /\ pc = "drain" => \A o \in owed \ lost : o[1] = job
    /\ over = "complete" => owed \subseteq lost

\* Commands are handled in the order sendToCpp accepted them, each once, none
\* after close or after a failure (see CommandChannel).  A post that passed its
\* check before the worker ended still counts as open.
Channel == INSTANCE CommandChannel WITH
    open <- accepting \/ js = "write", accepted <- sent
CommandsInOrder == Channel!Spec

\* A close that was posted ends the compute thread and its RandomX threads,
\* and JavaScript is told.  The destructor returns: it never waits for a thread
\* nobody stops.
CloseEnds ==
    /\ ((\E i \in 1 .. Len(sent) : sent[i].kind = "close") ~> told)
    /\ (js = "join" ~> js = "gone")
=============================================================================
