--------------------------- MODULE StratumSession ---------------------------
(***************************************************************************)
(* One pool connection as the Stratum dialects see it (pool.js and         *)
(* pool/connection.js): the login handshake, the routing of responses by   *)
(* request id or by method, the accounting of share responses and the      *)
(* drain that a controlled shutdown waits for.                             *)
(*                                                                         *)
(* The pool at the other end is external: it answers requests in any       *)
(* order, may answer one twice, and announces jobs whenever it likes.  One *)
(* TCP stream carries what it sends, in order.  The session sees of a      *)
(* message its encoding (mode), its id and its verdict; which request it   *)
(* answers (what, n) only the pool knows.                                  *)
(***************************************************************************)
EXTENDS Integers, Sequences, SequencesExt, FiniteSets, FiniteSetsExt

CONSTANTS
    Dialects,      \* handshakes the configuration may choose
    Families,      \* protocols an object login's pool may assign
    Jobs,          \* jobs that handlePoolJob stores
    Malformed,     \* a job that throws: in its decoder, in handlePoolJob, or in
                   \* set_job if the pool is active (else it is one of Jobs)
    Undecoded,     \* a job whose decoder returns null
    NoJob,
    WorkId,        \* request id of ctxc_getWork: 100
    CortexLimit,   \* cortex_pending_limit: 4096
    MaxShares, MaxAnnounced, MaxRepeats, MaxConnections   \* bounds

ASSUME SessionAssumption ==
    /\ Dialects \subseteq {"login", "subscribe", "pearlhash", "cortex",
                           "ironfish", "beam", "conflux"}
    /\ Families \subseteq {"login", "cortex", "ironfish", "beam"}
    /\ NoJob \notin Jobs \cup {Malformed, Undecoded}
    /\ Malformed \notin Jobs \cup {Undecoded} /\ Undecoded \notin Jobs
    /\ {WorkId, CortexLimit, MaxShares, MaxAnnounced, MaxRepeats, MaxConnections}
          \subseteq Nat
    /\ WorkId > 4

\* Request ids.  Cortex gives its login 72 and its shares the numbers from 73
\* on, WorkId among them; here the login has 4 and the shares follow it.
CortexLoginId == 4
SubmitId == 3

VARIABLES
    dialect,    \* the handshake the configuration chose
    pool,       \* the connection's PoolConfig record, and what the pool at
                \* the other end has not answered (requests)
    cortexId,   \* cortex_submit_id, never reset
    drain,      \* "off", "waiting", "drained" or "expired"
    wire,       \* what the pool has sent and the session not yet read
    shares,     \* shares written so far, on every connection
    announced, repeats, connections,   \* bounded counts
    granted,    \* the pool has accepted this connection's login
    latest      \* the job it announced last, of those that count: see Announce

poolSide == <<announced, repeats, granted, latest>>
vars == <<dialect, pool, cortexId, drain, wire, shares, connections, poolSide>>

Announced == Jobs \cup {Malformed, Undecoded}
Protocols == Dialects \cup Families \cup {"login"}
Modes == {"id", "cortex", "ironfish", "beam"}
Requests == [what : {"login", "subscribe", "authorize", "work", "share"},
             mode : Modes, id : Nat, n : Nat]
Messages == [what : {"login", "subscribe", "authorize", "work", "share", "notify"},
             mode : Modes, id : Nat, n : Nat, ok : BOOLEAN,
             job : Announced \cup {NoJob}, family : Protocols]

\* A pending_job that is null is no message.
ASSUME NoJobAssumption == NoJob \notin Messages

\* How shares of a protocol's jobs are numbered and answered: Cortex by ids of
\* their own, Iron Fish and Beam by method, all others by id 3.
SubmitMode(p) == IF p \in {"cortex", "ironfish", "beam"} THEN p ELSE "id"

Idle == [job |-> NoJob, mode |-> "id"]

\* The record clear_pool_connection leaves behind; share totals survive it.
Cleared(p) ==
    [socket |-> FALSE, protocol |-> dialect, logged_in |-> FALSE, pending |-> {},
     pending_job |-> NoJob, last_job |-> Idle, pending_submit_count |-> 0,
     pending_cortex_submit_ids |-> {}, requests |-> {},
     good_shares |-> p.good_shares, bad_shares |-> p.bad_shares]

PoolConfig ==
    [socket : BOOLEAN, protocol : Protocols, logged_in : BOOLEAN,
     pending : SUBSET {"subscribe", "authorize", "login", "work"},
     pending_job : {NoJob} \cup Messages,
     last_job : [job : Jobs \cup {NoJob}, mode : Modes],
     pending_submit_count : Int, pending_cortex_submit_ids : SUBSET Nat,
     requests : SUBSET Requests, good_shares : Nat, bad_shares : Nat]

TypeOK ==
    /\ dialect \in Dialects
    /\ pool \in PoolConfig
    /\ cortexId \in Nat
    /\ drain \in {"off", "waiting", "drained", "expired"}
    /\ wire \in Seq(Messages)
    /\ {shares, announced, repeats, connections} \subseteq Nat
    /\ granted \in BOOLEAN /\ latest \in Jobs \cup {Malformed, NoJob}
    /\ ~pool.socket => pool = Cleared(pool) /\ wire = <<>>

Running == drain \in {"off", "waiting"}

-----------------------------------------------------------------------------
(* Writing *)

Request(what, id) == [what |-> what, mode |-> SubmitMode(dialect), id |-> id, n |-> 0]

\* pool_write drops what a closed socket cannot carry and counts id-3 shares.
pool_write(p, r) ==
    IF ~p.socket THEN p
    ELSE [p EXCEPT !.requests = @ \cup {r},
                   !.pending_submit_count =
                       IF r.what = "share" /\ r.mode = "id" THEN @ + 1 ELSE @]

\* What handlePoolConnect writes, and the flags that guard the answers.
Handshake(p) ==
    CASE dialect = "cortex" ->
            pool_write([p EXCEPT !.pending = {"login"}], Request("login", CortexLoginId))
      [] dialect = "subscribe" ->
            pool_write([p EXCEPT !.pending = {"subscribe"}], Request("subscribe", 1))
      [] dialect = "pearlhash" ->
            pool_write(pool_write([p EXCEPT !.pending = {"authorize"}],
                                  Request("subscribe", 1)), Request("authorize", 2))
      [] OTHER -> pool_write(p, Request("login", 1))

handlePoolConnect ==
    /\ ~pool.socket /\ Running /\ connections < MaxConnections
    /\ connections' = connections + 1
    /\ pool' = Handshake([pool EXCEPT !.socket = TRUE])
    /\ UNCHANGED <<dialect, cortexId, drain, wire, shares, poolSide>>

\* A share message for a job decoded to mode: what identifies its response.
ShareRequest(mode, n) ==
    [what |-> "share", mode |-> mode, n |-> n,
     id |-> CASE mode = "cortex" -> n
              [] mode = "ironfish" -> 2
              [] mode = "beam" -> 0          \* the job's id
              [] OTHER -> SubmitId]

\* Mutant: a share may get the id of the pending ctxc_getWork.
nextCortexSubmitId_NoSkip(id) == id + 1

nextCortexSubmitId(id) == IF id + 1 = WorkId THEN id + 2 ELSE id + 1

\* handleResult for a share of the held job (JobRelay says when there is one).
handleResult ==
    /\ pool.last_job.job # NoJob /\ drain = "off" /\ shares < MaxShares
    /\ IF pool.last_job.mode = "cortex"
       THEN /\ Cardinality(pool.pending_cortex_submit_ids) < CortexLimit
            /\ cortexId' = nextCortexSubmitId(cortexId)
            /\ pool' = pool_write([pool EXCEPT !.pending_cortex_submit_ids = @ \cup {cortexId'}],
                                  ShareRequest("cortex", cortexId'))
       ELSE /\ pool' = pool_write(pool, ShareRequest(pool.last_job.mode, shares + 1))
            /\ UNCHANGED cortexId
    /\ shares' = shares + 1
    /\ UNCHANGED <<dialect, drain, wire, connections, poolSide>>

-----------------------------------------------------------------------------
(* The pool at the other end (external) *)

\* It answers r, and may remember it and answer once more.  An object login
\* may be answered with a job and its protocol; an accepted getWork has one.  A
\* login's job that does not decode throws.
Answer(r, ok, job, family, again) ==
    /\ pool.socket /\ Running
    /\ job # NoJob => ok /\ (r.what = "work" \/ (r.what = "login" /\ dialect = "login"))
    /\ r.what = "work" /\ ok => job # NoJob
    /\ job = Undecoded => r.what = "work"
    /\ family = dialect \/ (r.what = "login" /\ dialect = "login")
    /\ again => repeats < MaxRepeats
    /\ pool' = [pool EXCEPT !.requests = IF again THEN @ ELSE @ \ {r}]
    /\ repeats' = repeats + (IF again THEN 1 ELSE 0)
    /\ wire' = Append(wire, [what |-> r.what, mode |-> r.mode, id |-> r.id, n |-> r.n,
                             ok |-> ok, job |-> job, family |-> family])
    /\ granted' = (granted \/ (ok /\ r.what \in {"login", "authorize"}))
    /\ latest' = IF job \in {NoJob, Undecoded} THEN latest ELSE job
    /\ UNCHANGED <<dialect, cortexId, drain, shares, announced, connections>>

\* It pushes a job: on an object login a generic "job" message or, marked with
\* another protocol, that protocol's own notification.  A job counts once the
\* login is accepted or while its announcement waits for that; one that does not
\* decode then counts for nothing, but takes the place of the one that waited.
Announce(job, family, generic) ==
    LET waits == "authorize" \in pool.pending \/ dialect = "ironfish" IN
    /\ pool.socket /\ Running /\ announced < MaxAnnounced
    /\ family = dialect \/ (dialect = "login" /\ family \in Families)
    /\ generic => dialect = "login"
    /\ announced' = announced + 1
    /\ wire' = Append(wire, [what |-> "notify", id |-> 0, n |-> 0, ok |-> TRUE,
                             mode |-> IF generic THEN "id" ELSE SubmitMode(family),
                             job |-> job, family |-> family])
    /\ latest' = CASE (granted \/ waits) /\ job # Undecoded -> job
                   [] ~granted /\ waits /\ job = Undecoded -> NoJob
                   [] OTHER -> latest
    /\ UNCHANGED <<dialect, pool, cortexId, drain, shares, repeats, granted, connections>>

-----------------------------------------------------------------------------
(* Reading: pool_message.  The operators below map a PoolConfig record to    *)
(* the record the handler leaves; a handler that throws closes the           *)
(* connection, which is Cleared.                                             *)

\* Mutant: a job that does not decode is stored.
handlePoolJob_Unchecked(p, job, mode) ==
    [p EXCEPT !.last_job = [job |-> job, mode |-> mode]]

\* handlePoolJob, for a job whose shares are submitted in the given mode.
handlePoolJob(p, job, mode) ==
    IF job = Malformed THEN Cleared(p)
    ELSE [p EXCEPT !.last_job = [job |-> job, mode |-> mode]]

\* pool_message on an announcement it decodes: one whose decoder returns null is
\* logged, and the session goes on with the job it had or without one.
takeJob(p, job, mode) == IF job = Undecoded THEN p ELSE handlePoolJob(p, job, mode)

\* Mutant: the job that waited for the login is forgotten.
AcceptPending_Dropped(p) == [p EXCEPT !.logged_in = TRUE, !.pending_job = NoJob]

\* The job that waited for the login is processed once it is accepted.
AcceptPending(p) ==
    LET q == [p EXCEPT !.logged_in = TRUE, !.pending_job = NoJob]
    IN  IF p.pending_job = NoJob THEN q
        ELSE takeJob(q, p.pending_job.job, p.pending_job.mode)

loginFailed(p) == [p EXCEPT !.logged_in = FALSE, !.pending_job = NoJob]

handleLoginResponse(p, m) ==
    LET q == [p EXCEPT !.pending = @ \ {"login"}]
    IN  CASE ~m.ok -> loginFailed(q)
          [] m.ok /\ p.protocol = "cortex" ->
                pool_write([q EXCEPT !.logged_in = TRUE, !.pending = @ \cup {"work"}],
                           Request("work", WorkId))
          [] OTHER -> [q EXCEPT !.logged_in = TRUE]

handleSubscribeResponse(p, m) ==
    LET q == [p EXCEPT !.pending = @ \ {"subscribe"}]
    IN  CASE ~m.ok -> [q EXCEPT !.pending_job = NoJob]
          [] m.ok /\ q.logged_in -> q
          [] OTHER -> pool_write([q EXCEPT !.pending = @ \cup {"authorize"}],
                                 Request("authorize", 2))

handleAuthorizeResponse(p, m) ==
    LET q == [p EXCEPT !.pending = @ \ {"authorize"}]
    IN  IF m.ok THEN AcceptPending(q) ELSE loginFailed(q)

handleShareResponse(p, m) ==
    IF m.ok THEN [p EXCEPT !.good_shares = @ + 1] ELSE [p EXCEPT !.bad_shares = @ + 1]

\* Mutant: any response with id 3 is counted.
AwaitsShare_Always(p) == TRUE

\* A share response with id 3 counts only against a share that waits for one.
AwaitsShare(p) == p.pending_submit_count > 0

\* poolResponseHandler: the handler of an id, if its request is pending.
poolResponseHandler(p, m) ==
    CASE p.protocol = "cortex" ->
            (CASE m.id = CortexLoginId /\ "login" \in p.pending -> handleLoginResponse(p, m)
               [] m.id = WorkId /\ "work" \in p.pending -> [p EXCEPT !.pending = @ \ {"work"}]
               [] m.id \in p.pending_cortex_submit_ids \ {CortexLoginId, WorkId} ->
                     handleShareResponse([p EXCEPT !.pending_cortex_submit_ids = @ \ {m.id}], m)
               [] OTHER -> p)
      [] p.protocol = "ironfish" -> p
      [] OTHER ->
            (CASE m.id = 1 /\ dialect \in {"login", "conflux"} -> handleLoginResponse(p, m)
               [] m.id = 1 /\ "subscribe" \in p.pending -> handleSubscribeResponse(p, m)
               [] m.id = 2 /\ "authorize" \in p.pending -> handleAuthorizeResponse(p, m)
               [] m.id = SubmitId /\ AwaitsShare(p) ->
                     handleShareResponse([p EXCEPT !.pending_submit_count = @ - 1], m)
               [] OTHER -> p)

\* handlePoolResponse: an accepted object login also tells its protocol.
handlePoolResponse(p, m) ==
    LET q == poolResponseHandler(p, m)
    IN  IF m.what = "login" /\ m.ok /\ dialect = "login"
              /\ p.protocol \notin {"cortex", "ironfish"}
        THEN [q EXCEPT !.protocol = m.family] ELSE q

\* handleIronfishMessage: pushes by method, errors by method or by id, and any
\* other error as a login failure while the handshake is open.
handleIronfishMessage(p, m) ==
    CASE m.what = "login" -> IF m.ok THEN AcceptPending(p) ELSE loginFailed(p)
      [] m.what = "share" /\ m.mode = "ironfish" -> handleShareResponse(p, m)
      [] OTHER -> IF ~p.logged_in \/ p.pending_job # NoJob THEN loginFailed(p) ELSE p

handleBeamResult(p, m) ==
    IF m.what = "login" THEN [p EXCEPT !.logged_in = m.ok] ELSE handleShareResponse(p, m)

\* Mutant: a job is taken whether or not the login was accepted.
JobAnnouncement_Early(p, m) == takeJob(p, m.job, m.mode)

\* A job announcement waits for the login where the protocol has one pending,
\* is not decoded before the login, and is a job afterwards.
JobAnnouncement(p, m) ==
    CASE ~p.logged_in /\ m.mode # "cortex"
            /\ ("authorize" \in p.pending \/ p.protocol = "ironfish") ->
            [p EXCEPT !.pending_job = m]
      [] p.logged_in /\ m.mode \in {"id", p.protocol} -> takeJob(p, m.job, m.mode)
      [] OTHER -> p

\* rememberPoolProtocol for a pushed message: a marked job changes how later
\* messages of an object login are routed.
rememberPoolProtocol(p, m) ==
    IF dialect = "login" /\ m.mode # "cortex" THEN [p EXCEPT !.protocol = m.family] ELSE p

\* An answer without a job, by the encoding it comes in.
handlePoolAnswer(p, m) ==
    CASE m.mode = "beam" -> IF p.protocol = "beam" THEN handleBeamResult(p, m) ELSE p
      [] m.mode = "ironfish" /\ p.protocol # "ironfish" -> p
      [] m.mode # "beam" /\ p.protocol = "ironfish" /\ (m.mode = "ironfish" \/ ~m.ok) ->
            handleIronfishMessage(p, m)
      [] OTHER -> handlePoolResponse(p, m)

\* pool_message by what the message is.  A getWork answer that does not decode is
\* an answer without a job: it is no longer pending, and the session has no work.
pool_message(p, m) ==
    CASE m.what = "notify" -> JobAnnouncement(rememberPoolProtocol(p, m), m)
      [] m.what = "login" /\ m.job # NoJob ->
            handlePoolJob([p EXCEPT !.logged_in = TRUE, !.protocol = m.family], m.job, "id")
      [] m.what = "work" /\ m.ok /\ m.job # Undecoded /\ p.logged_in ->
            IF "work" \in p.pending
            THEN handlePoolJob([p EXCEPT !.pending = @ \ {"work"}], m.job, "cortex") ELSE p
      [] OTHER -> handlePoolAnswer(p, m)

\* poolDataHandler reads one line; a handler that closed the connection leaves
\* the rest of the stream unread.
Read ==
    /\ wire # <<>> /\ Running
    /\ pool' = pool_message(pool, Head(wire))
    /\ wire' = IF pool'.socket THEN Tail(wire) ELSE <<>>
    /\ granted' = (granted /\ pool'.socket)
    /\ latest' = IF pool'.socket THEN latest ELSE NoJob
    /\ UNCHANGED <<dialect, cortexId, drain, shares, announced, repeats, connections>>

\* The socket closes, fails or times out, or PoolFailover gives the pool up.
Disconnect ==
    /\ pool.socket /\ Running
    /\ pool' = Cleared(pool) /\ wire' = <<>> /\ granted' = FALSE /\ latest' = NoJob
    /\ UNCHANGED <<dialect, cortexId, drain, shares, announced, repeats, connections>>

-----------------------------------------------------------------------------
(* Controlled shutdown: workers are closed before the drain begins *)

BeginDrain ==
    /\ drain = "off" /\ drain' = "waiting"
    /\ UNCHANGED <<dialect, pool, cortexId, wire, shares, connections, poolSide>>

\* Mutant: the drain does not look at the Cortex ids.
SharesPending_CountOnly(p) == p.socket /\ p.pending_submit_count > 0

\* What waitForPendingShares waits for.
SharesPending(p) ==
    p.socket /\ (p.pending_submit_count > 0 \/ p.pending_cortex_submit_ids # {})

waitForPendingShares ==
    /\ drain = "waiting" /\ ~SharesPending(pool)
    /\ drain' = "drained"
    /\ UNCHANGED <<dialect, pool, cortexId, wire, shares, connections, poolSide>>

DrainDeadline ==
    /\ drain = "waiting" /\ drain' = "expired"
    /\ UNCHANGED <<dialect, pool, cortexId, wire, shares, connections, poolSide>>

-----------------------------------------------------------------------------
Init ==
    /\ dialect \in Dialects
    /\ pool = Cleared([good_shares |-> 0, bad_shares |-> 0])
    /\ cortexId = CortexLoginId
    /\ drain = "off" /\ wire = <<>>
    /\ shares = 0 /\ announced = 0 /\ repeats = 0 /\ connections = 0
    /\ granted = FALSE /\ latest = NoJob

PoolStep ==
    \/ \E r \in pool.requests, ok \in BOOLEAN, job \in Announced \cup {NoJob},
          family \in Families \cup {dialect}, again \in BOOLEAN :
             Answer(r, ok, job, family, again)
    \/ \E job \in Announced, family \in Families \cup {dialect},
          generic \in BOOLEAN : Announce(job, family, generic)

Next ==
    \/ handlePoolConnect \/ handleResult \/ PoolStep \/ Read \/ Disconnect
    \/ BeginDrain \/ waitForPendingShares \/ DrainDeadline

Spec == Init /\ [][Next]_vars

-----------------------------------------------------------------------------
(* Properties *)

InFlight == pool.requests \cup Range(wire)

\* The shares of this connection that no response has settled, by encoding.
Unanswered(mode) == {m.n : m \in {r \in InFlight : r.what = "share" /\ r.mode = mode}}

\* As long as the pool answers each request once, the pending counter and the
\* pending Cortex ids name exactly the shares whose responses are still to be
\* read: no response is dropped, taken for another request's or left pending
\* for ever, in whatever order the pool answers.
PendingIsUnanswered ==
    repeats = 0 /\ pool.protocol = dialect =>
        /\ pool.pending_submit_count = Cardinality(Unanswered("id"))
        /\ pool.pending_cortex_submit_ids = Unanswered("cortex")

\* A pool that answers twice cannot inflate the share totals where responses
\* have ids: accepted and rejected shares never outnumber the shares written.
SharesCountedOnce ==
    ({dialect} \cup Families) \cap {"ironfish", "beam"} = {}
        => pool.good_shares + pool.bad_shares <= shares

\* No job is mined on a connection whose login the pool has not accepted,
\* however early the pool announces one.
MinesOnlyWhenGranted == pool.last_job.job # NoJob => granted

\* Once the login is accepted and no job is left in the stream, the session mines
\* the job the pool announced last, including one announced while the login was
\* still being decided.  Announcements that do not decode neither replace nor
\* end it, except that while the login is being decided pool_message keeps only
\* the last announcement, undecoded, so that one of these displaces a job.
LatestJobHeld ==
    /\ repeats = 0 /\ pool.logged_in /\ latest # NoJob
    /\ \A i \in DOMAIN wire : wire[i].job \in {NoJob, Undecoded}
    => pool.last_job.job = latest

\* The drain ends early only when every share that pool_write or Cortex keeps as
\* pending has its response.
DrainHearsCounted ==
    [][drain = "waiting" /\ drain' = "drained" /\ pool.socket /\ repeats = 0
          => Unanswered("id") \cup Unanswered("cortex") = {}]_vars

\* The drain ends early only when no response is outstanding on an open
\* connection: a controlled exit does not cut off the answer to a last share.
DrainHearsEveryShare ==
    [][drain = "waiting" /\ drain' = "drained" /\ pool.socket
          => \A mode \in Modes : Unanswered(mode) = {}]_vars
=============================================================================
