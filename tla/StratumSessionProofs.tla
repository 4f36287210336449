------------------------ MODULE StratumSessionProofs ------------------------
(***************************************************************************)
(* The safety properties of StratumSession, for any set of handshakes,     *)
(* protocols and jobs and any bounds, whatever the order in which the pool *)
(* answers and announces.                                                  *)
(*                                                                         *)
(* An answer carries an id; which request it answers follows from the id   *)
(* only because every dialect keeps the ids of its requests apart.  That   *)
(* is the core of the invariant: the shape of everything in flight.        *)
(***************************************************************************)
EXTENDS StratumSession, FiniteSetTheorems, SequenceTheorems, TLAPS

-----------------------------------------------------------------------------
(* The inductive invariant.                                                *)

\* The session never changes its protocol: only the pool of an object login
\* can assign one, and it has none to assign but its own.
Keeps(d) == d = "login" => Families \subseteq {"login"}

\* What a session with handshake d puts into a request, and finds in a message.
Asked(x, d) ==
    /\ Keeps(d) => x.mode = SubmitMode(d)
    /\ x.what = "login" => x.id = (IF d = "cortex" THEN CortexLoginId ELSE 1)
    /\ x.what = "subscribe" => x.id = 1 /\ d \in {"subscribe", "pearlhash"}
    /\ x.what = "authorize" => x.id = 2 /\ d \in {"subscribe", "pearlhash"}
    /\ x.what = "work" => x.id = WorkId /\ d = "cortex"
    /\ x.what = "share" => /\ x.id = ShareRequest(x.mode, x.n).id
                           /\ x.mode = "cortex" => x.n > CortexLoginId /\ x.n # WorkId

\* What else the pool's message m says, g being whether it accepted the login.
Sent(m, d, g) ==
    /\ Asked(m, d)
    /\ m.what \in {"login", "authorize"} /\ m.ok => g
    /\ m.what = "login" /\ m.job # NoJob => m.ok /\ d = "login" /\ m.job # Undecoded
    /\ m.family \in {d} \cup Families /\ (m.family # d => d = "login")

Framed ==
    /\ \A r \in pool.requests : Asked(r, dialect)
    /\ \A m \in Range(wire) : Sent(m, dialect, granted)

\* The flags of a session follow its handshake, and it mines only with a login.
Standing(p, d, g) ==
    /\ p.logged_in \/ p.last_job.job # NoJob => g
    /\ "login" \in p.pending => d = "cortex"
    /\ "subscribe" \in p.pending => d = "subscribe"
    /\ "authorize" \in p.pending => d \in {"subscribe", "pearlhash"}
    /\ p.protocol \in {d} \cup Families /\ (p.protocol # d => d = "login")
    /\ Keeps(d) /\ p.last_job.job # NoJob => p.last_job.mode = SubmitMode(d)
    /\ Keeps(d) /\ p.pending_job # NoJob => p.pending_job.mode = SubmitMode(d)

\* The totals and what is pending do not outnumber the shares, where answers
\* have ids.
Counted(p, d, k) ==
    /\ p.pending_submit_count \in Nat /\ IsFiniteSet(p.pending_cortex_submit_ids)
    /\ ({d} \cup Families) \cap {"ironfish", "beam"} = {}
          => p.good_shares + p.bad_shares + p.pending_submit_count
                + Cardinality(p.pending_cortex_submit_ids) <= k

\* Up to c, Cortex ids have been given, and k shares have been written.
Below(x, c, k) == x.what = "share" => x.n <= (IF x.mode = "cortex" THEN c ELSE k)

\* The numbers of shares in flight have been given.
Numbered ==
    /\ cortexId >= CortexLoginId
    /\ \A r \in pool.requests : Below(r, cortexId, shares)
    /\ \A m \in Range(wire) : Below(m, cortexId, shares)

\* No share is in flight twice.
Once(rs, w) ==
    /\ \A i, j \in DOMAIN w :
          w[i].what = "share" /\ w[j].what = "share" /\ w[i].n = w[j].n => i = j
    /\ \A r \in rs : \A i \in DOMAIN w :
          r.what = "share" /\ w[i].what = "share" => r.n # w[i].n

\* The numbers of the shares in flight between requests rs and messages w.
Unsettled(rs, w, mode) ==
    {x.n : x \in {y \in rs \cup Range(w) : y.what = "share" /\ y.mode = mode}}

\* What is pending is what is in flight.
Tracks(p, w) ==
    /\ Once(p.requests, w)
    /\ IsFiniteSet(Unsettled(p.requests, w, "id"))
    /\ p.pending_submit_count = Cardinality(Unsettled(p.requests, w, "id"))
    /\ p.pending_cortex_submit_ids = Unsettled(p.requests, w, "cortex")

\* As long as the pool answers once and the session keeps its protocol.
Tracked == Keeps(dialect) /\ repeats = 0 => Tracks(pool, wire)

IInv == /\ TypeOK /\ Framed /\ Standing(pool, dialect, granted)
        /\ Counted(pool, dialect, shares) /\ Numbered /\ Tracked

-----------------------------------------------------------------------------
(* Operators.                                                              *)

\* The session is open and its record is well formed.
Kept(p) == p \in PoolConfig /\ p.socket = TRUE /\ Standing(p, dialect, granted)

\* From p to q only requests other than shares were written.
Wrote(p, q) ==
    /\ p.requests \subseteq q.requests
    /\ \A r \in q.requests : r \in p.requests \/ (Asked(r, dialect) /\ r.what # "share")

SamePending(p, q) ==
    /\ q.pending_submit_count = p.pending_submit_count
    /\ q.pending_cortex_submit_ids = p.pending_cortex_submit_ids

SameTotals(p, q) == q.good_shares = p.good_shares /\ q.bad_shares = p.bad_shares

\* One share more has been counted.
OneMore(p, q) == q.good_shares + q.bad_shares = p.good_shares + p.bad_shares + 1

Calm(p, q) == Kept(q) /\ Wrote(p, q) /\ SamePending(p, q) /\ SameTotals(p, q)

\* What a handler that settles no share leaves.
Quiet(p, q) == q = Cleared(p) \/ Calm(p, q)

\* Everything was given up but the totals.
LEMMA ClearedOK ==
    ASSUME NEW p, NEW g, p.good_shares \in Nat, p.bad_shares \in Nat, dialect \in Dialects
    PROVE  /\ Cleared(p) \in PoolConfig /\ Cleared(p).socket = FALSE
           /\ Standing(Cleared(p), dialect, g)
           /\ Cleared(Cleared(p)) = Cleared(p)
           /\ SameTotals(p, Cleared(p))
           /\ Cleared(p).requests = {} /\ Cleared(p).pending_cortex_submit_ids = {}
           /\ Cleared(p).pending_submit_count = 0
<1>1. dialect \in Protocols
  BY DEF Protocols
<1>2. Idle \in [job : Jobs \cup {NoJob}, mode : Modes] /\ Idle.job = NoJob
  BY DEF Idle, Modes
<1>3. Cleared(p) \in PoolConfig
  BY <1>1, <1>2 DEF Cleared, PoolConfig
<1>4. Standing(Cleared(p), dialect, g)
  BY <1>2 DEF Cleared, Standing
<1> QED
  BY <1>3, <1>4 DEF Cleared, SameTotals

LEMMA Chain ==
    ASSUME NEW p, NEW q, NEW r, Calm(p, q), Quiet(q, r)
    PROVE  Quiet(p, r)
<1>1. CASE r = Cleared(q)
  BY <1>1 DEF Calm, SameTotals, Quiet, Cleared
<1>2. CASE Calm(q, r)
  BY <1>2 DEF Calm, Quiet, SameTotals, SamePending, Wrote
<1> QED
  BY <1>1, <1>2 DEF Quiet

\* A request of the handshake is written and nothing else.
LEMMA WriteOK ==
    ASSUME NEW p, Kept(p), NEW what \in {"login", "subscribe", "authorize", "work"},
           NEW id \in Nat, Asked(Request(what, id), dialect)
    PROVE  /\ Calm(p, pool_write(p, Request(what, id)))
           /\ pool_write(p, Request(what, id)).pending = p.pending
<1> DEFINE r == Request(what, id)
<1> DEFINE q == pool_write(p, r)
<1>1. r \in Requests /\ r.what = what /\ what # "share"
  BY DEF Request, Requests, Modes, SubmitMode
<1>2. p \in PoolConfig /\ p.socket = TRUE
  BY DEF Kept
<1>3. q = [p EXCEPT !.requests = @ \cup {r}, !.pending_submit_count = @]
  BY <1>1, <1>2 DEF pool_write
<1> HIDE DEF r, q
<1>4. /\ q \in PoolConfig /\ q.socket = TRUE
      /\ q.requests = p.requests \cup {r}
      /\ q.logged_in = p.logged_in /\ q.last_job = p.last_job /\ q.protocol = p.protocol
      /\ q.pending = p.pending /\ q.pending_job = p.pending_job
      /\ SamePending(p, q) /\ SameTotals(p, q)
  BY <1>1, <1>2, <1>3 DEF PoolConfig, SamePending, SameTotals
<1>5. Standing(q, dialect, granted)
  BY <1>4 DEF Kept, Standing
<1>6. Asked(r, dialect) /\ r.what # "share"
  BY <1>1 DEF r
<1> QED
  BY <1>4, <1>5, <1>6 DEF Calm, Kept, Wrote, q, r

\* A decoded job is stored, a malformed one closes the connection.
LEMMA JobOK ==
    ASSUME NEW p, Kept(p), granted, NEW job \in Jobs \cup {Malformed, NoJob},
           NEW mode \in Modes, Keeps(dialect) => mode = SubmitMode(dialect)
    PROVE  Quiet(p, handlePoolJob(p, job, mode))
<1> DEFINE q == [p EXCEPT !.last_job = [job |-> job, mode |-> mode]]
<1>1. CASE job = Malformed
  BY <1>1 DEF handlePoolJob, Quiet
<1>2. CASE job # Malformed
  <2>1. handlePoolJob(p, job, mode) = q
    BY <1>2 DEF handlePoolJob
  <2>2. p \in PoolConfig /\ p.socket = TRUE
    BY DEF Kept
  <2>3. /\ q \in PoolConfig /\ q.socket = TRUE
        /\ q.requests = p.requests
        /\ q.logged_in = p.logged_in /\ q.protocol = p.protocol
        /\ q.last_job = [job |-> job, mode |-> mode]
        /\ q.pending = p.pending /\ q.pending_job = p.pending_job
        /\ SamePending(p, q) /\ SameTotals(p, q)
    BY <1>2, <2>2 DEF PoolConfig, SamePending, SameTotals
  <2> HIDE DEF q
  <2>4. Standing(q, dialect, granted)
    BY <2>3 DEF Kept, Standing
  <2> QED
    BY <2>1, <2>3, <2>4 DEF Quiet, Calm, Kept, Wrote
<1> QED
  BY <1>1, <1>2

\* An announcement that does not decode changes nothing.
LEMMA TakeOK ==
    ASSUME NEW p, Kept(p), granted, NEW job \in Announced \cup {NoJob},
           NEW mode \in Modes, Keeps(dialect) => mode = SubmitMode(dialect)
    PROVE  Quiet(p, takeJob(p, job, mode))
<1>1. CASE job = Undecoded
  BY <1>1 DEF takeJob, Quiet, Calm, Wrote, SamePending, SameTotals
<1>2. CASE job # Undecoded
  <2>1. job \in Jobs \cup {Malformed, NoJob}
    BY <1>2 DEF Announced
  <2> QED
    BY <1>2, <2>1, JobOK DEF takeJob
<1> QED
  BY <1>1, <1>2

\* The record with the flags, the protocol and the waiting job that a handler
\* sets before it goes on.
LEMMA FlagsOK ==
    ASSUME NEW p, Kept(p), NEW q, q \in PoolConfig,
           q.socket = p.socket, q.requests = p.requests, q.last_job = p.last_job,
           SamePending(p, q), SameTotals(p, q),
           q.logged_in => p.logged_in \/ granted,
           q.pending \subseteq p.pending \cup {"work"},
           q.protocol = p.protocol \/ (dialect = "login" /\ q.protocol \in {dialect} \cup Families),
           \/ q.pending_job \in {NoJob, p.pending_job}
           \/ Keeps(dialect) => q.pending_job.mode = SubmitMode(dialect)
    PROVE  Calm(p, q)
<1>1. Standing(q, dialect, granted)
  BY DEF Kept, Standing
<1> QED
  BY <1>1 DEF Calm, Kept, Wrote

\* The waiting job is taken as if it came now.
LEMMA AcceptOK ==
    ASSUME NEW p, Kept(p), granted
    PROVE  Quiet(p, AcceptPending(p))
<1> DEFINE q == [p EXCEPT !.logged_in = TRUE, !.pending_job = NoJob]
<1>1. p \in PoolConfig
  BY DEF Kept
<1>2. /\ q \in PoolConfig /\ q.socket = p.socket /\ q.requests = p.requests
      /\ q.last_job = p.last_job /\ SamePending(p, q) /\ SameTotals(p, q)
      /\ q.pending = p.pending /\ q.protocol = p.protocol /\ q.pending_job = NoJob
  BY <1>1 DEF PoolConfig, SamePending, SameTotals
<1>3. AcceptPending(p) = IF p.pending_job = NoJob THEN q
                         ELSE takeJob(q, p.pending_job.job, p.pending_job.mode)
  BY DEF AcceptPending
<1> HIDE DEF q
<1>4. Calm(p, q)
  BY <1>2, FlagsOK
<1>5. CASE p.pending_job = NoJob
  BY <1>3, <1>4, <1>5 DEF Quiet
<1>6. CASE p.pending_job # NoJob
  <2>1. p.pending_job \in Messages
    BY <1>1, <1>6 DEF PoolConfig
  <2>2. p.pending_job.job \in Announced \cup {NoJob} /\ p.pending_job.mode \in Modes
    BY <2>1 DEF Messages
  <2>3. Keeps(dialect) => p.pending_job.mode = SubmitMode(dialect)
    BY <1>6 DEF Kept, Standing
  <2>4. Quiet(q, takeJob(q, p.pending_job.job, p.pending_job.mode))
    BY <1>4, <2>2, <2>3, TakeOK DEF Calm
  <2> QED
    BY <1>3, <1>4, <1>6, <2>4, Chain
<1> QED
  BY <1>5, <1>6

LEMMA FailedOK ==
    ASSUME NEW p, Kept(p)
    PROVE  Calm(p, loginFailed(p))
<1> DEFINE q == loginFailed(p)
<1>1. p \in PoolConfig
  BY DEF Kept
<1>2. /\ q \in PoolConfig /\ q.socket = p.socket /\ q.requests = p.requests
      /\ q.last_job = p.last_job /\ SamePending(p, q) /\ SameTotals(p, q)
      /\ q.pending = p.pending /\ q.protocol = p.protocol /\ q.pending_job = NoJob
      /\ q.logged_in = FALSE
  BY <1>1 DEF PoolConfig, SamePending, SameTotals, loginFailed
<1> HIDE DEF q
<1> QED
  BY <1>2, FlagsOK DEF q

\* An answer to a request drops its flag.
LEMMA DropOK ==
    ASSUME NEW p, Kept(p), NEW f
    PROVE  /\ Calm(p, [p EXCEPT !.pending = @ \ {f}])
           /\ [p EXCEPT !.pending = @ \ {f}].protocol = p.protocol
           /\ [p EXCEPT !.pending = @ \ {f}].pending = p.pending \ {f}
           /\ [p EXCEPT !.pending = @ \ {f}].logged_in = p.logged_in
           /\ [p EXCEPT !.pending = @ \ {f}].pending_job = p.pending_job
<1> DEFINE q == [p EXCEPT !.pending = @ \ {f}]
<1>1. p \in PoolConfig
  BY DEF Kept
<1>2. /\ q \in PoolConfig /\ q.socket = p.socket /\ q.requests = p.requests
      /\ q.last_job = p.last_job /\ SamePending(p, q) /\ SameTotals(p, q)
      /\ q.pending = p.pending \ {f} /\ q.protocol = p.protocol
      /\ q.pending_job = p.pending_job /\ q.logged_in = p.logged_in
  BY <1>1 DEF PoolConfig, SamePending, SameTotals
<1> HIDE DEF q
<1>3. Calm(p, q)
  BY <1>2, FlagsOK
<1> QED
  BY <1>2, <1>3 DEF q

\* Two harmless steps in a row.
LEMMA CalmChain ==
    ASSUME NEW p, NEW q, NEW r, Calm(p, q), Calm(q, r)
    PROVE  Calm(p, r)
BY DEF Calm, SameTotals, SamePending, Wrote

LEMMA LoginOK ==
    ASSUME NEW p, Kept(p), NEW m \in Messages, m.ok => granted,
           p.protocol = "cortex" => dialect = "cortex"
    PROVE  Calm(p, handleLoginResponse(p, m))
<1> DEFINE q == [p EXCEPT !.pending = @ \ {"login"}]
           a == [q EXCEPT !.logged_in = TRUE, !.pending = @ \cup {"work"}]
           b == [q EXCEPT !.logged_in = TRUE]
           r == Request("work", WorkId)
<1>1. m.ok \in BOOLEAN /\ WorkId \in Nat
  BY SessionAssumption DEF Messages
<1>2. handleLoginResponse(p, m) = CASE ~m.ok -> loginFailed(q)
                                    [] m.ok /\ p.protocol = "cortex" -> pool_write(a, r)
                                    [] OTHER -> b
  BY DEF handleLoginResponse
<1>3. Calm(p, q) /\ q.pending_job = p.pending_job /\ q.protocol = p.protocol
  BY DropOK
<1> HIDE DEF q
<1>4. q \in PoolConfig /\ Kept(q)
  BY <1>3 DEF Calm, Kept
<1>5. /\ a \in PoolConfig /\ a.socket = q.socket /\ a.requests = q.requests
      /\ a.last_job = q.last_job /\ SamePending(q, a) /\ SameTotals(q, a)
      /\ a.pending = q.pending \cup {"work"} /\ a.protocol = q.protocol
      /\ a.pending_job = q.pending_job
  BY <1>4 DEF PoolConfig, SamePending, SameTotals
<1>6. /\ b \in PoolConfig /\ b.socket = q.socket /\ b.requests = q.requests
      /\ b.last_job = q.last_job /\ SamePending(q, b) /\ SameTotals(q, b)
      /\ b.pending = q.pending /\ b.protocol = q.protocol
      /\ b.pending_job = q.pending_job
  BY <1>4 DEF PoolConfig, SamePending, SameTotals
<1> HIDE DEF a, b
<1>7. m.ok => Calm(q, a) /\ Calm(q, b)
  BY <1>4, <1>5, <1>6, FlagsOK
<1>8. CASE ~m.ok
  BY <1>2, <1>3, <1>4, <1>8, FailedOK, CalmChain
<1>9. CASE m.ok /\ p.protocol = "cortex"
  <2>1. Asked(Request("work", WorkId), dialect)
    BY <1>9 DEF Asked, Request
  <2>2. Calm(a, pool_write(a, r))
    BY <1>1, <1>7, <1>9, <2>1, WriteOK DEF Calm
  <2> QED
    BY <1>2, <1>3, <1>7, <1>9, <2>2, CalmChain
<1>10. CASE m.ok /\ p.protocol # "cortex"
  <2>1. handleLoginResponse(p, m) = b
    BY <1>2, <1>10
  <2> QED
    BY <1>3, <1>7, <1>10, <2>1, CalmChain
<1> QED
  BY <1>8, <1>9, <1>10

LEMMA SubscribeOK ==
    ASSUME NEW p, Kept(p), NEW m \in Messages, dialect \in {"subscribe", "pearlhash"}
    PROVE  Calm(p, handleSubscribeResponse(p, m))
<1> DEFINE q == [p EXCEPT !.pending = @ \ {"subscribe"}]
           a == [q EXCEPT !.pending = @ \cup {"authorize"}]
           b == [q EXCEPT !.pending_job = NoJob]
           r == Request("authorize", 2)
<1>1. m.ok \in BOOLEAN
  BY DEF Messages
<1>2. handleSubscribeResponse(p, m) = CASE ~m.ok -> b
                                        [] m.ok /\ q.logged_in -> q
                                        [] OTHER -> pool_write(a, r)
  BY DEF handleSubscribeResponse
<1>3. Calm(p, q) /\ q.pending_job = p.pending_job /\ q.protocol = p.protocol
  BY DropOK
<1> HIDE DEF q
<1>4. q \in PoolConfig /\ Kept(q)
  BY <1>3 DEF Calm, Kept
<1>5. /\ a \in PoolConfig /\ a.socket = q.socket /\ a.requests = q.requests
      /\ a.last_job = q.last_job /\ SamePending(q, a) /\ SameTotals(q, a)
      /\ a.pending = q.pending \cup {"authorize"} /\ a.protocol = q.protocol
      /\ a.pending_job = q.pending_job /\ a.logged_in = q.logged_in
  BY <1>4 DEF PoolConfig, SamePending, SameTotals
<1>6. /\ b \in PoolConfig /\ b.socket = q.socket /\ b.requests = q.requests
      /\ b.last_job = q.last_job /\ SamePending(q, b) /\ SameTotals(q, b)
      /\ b.pending = q.pending /\ b.protocol = q.protocol
      /\ b.pending_job = NoJob /\ b.logged_in = q.logged_in
  BY <1>4 DEF PoolConfig, SamePending, SameTotals
<1> HIDE DEF a, b
<1>7. Calm(q, b)
  BY <1>4, <1>6, FlagsOK
<1>8. Calm(q, a)
  <2>1. Standing(a, dialect, granted)
    BY <1>4, <1>5 DEF Kept, Standing
  <2> QED
    BY <1>4, <1>5, <2>1 DEF Calm, Kept, Wrote
<1>9. Asked(Request("authorize", 2), dialect)
  BY DEF Asked, Request
<1>10. Calm(a, pool_write(a, r))
  BY <1>8, <1>9, WriteOK DEF Calm
<1>11. Calm(q, pool_write(a, r))
  BY <1>8, <1>10, CalmChain
<1>12. handleSubscribeResponse(p, m) \in {b, q, pool_write(a, r)}
  BY <1>2
<1> QED
  BY <1>3, <1>7, <1>11, <1>12, CalmChain

LEMMA AuthorizeOK ==
    ASSUME NEW p, Kept(p), NEW m \in Messages, m.ok => granted
    PROVE  Quiet(p, handleAuthorizeResponse(p, m))
<1> DEFINE q == [p EXCEPT !.pending = @ \ {"authorize"}]
<1>1. Calm(p, q)
  BY DropOK
<1>2. handleAuthorizeResponse(p, m) = IF m.ok THEN AcceptPending(q) ELSE loginFailed(q)
  BY DEF handleAuthorizeResponse
<1> HIDE DEF q
<1>3. Kept(q) /\ m.ok \in BOOLEAN
  BY <1>1 DEF Calm, Messages
<1>4. CASE m.ok
  BY <1>1, <1>2, <1>3, <1>4, AcceptOK, Chain
<1>5. CASE ~m.ok
  BY <1>1, <1>2, <1>3, <1>5, FailedOK, CalmChain DEF Quiet
<1> QED
  BY <1>3, <1>4, <1>5

\* A handler settled a share: one that waits for an answer with id 3, the one
\* with the answer's Cortex id, or any share where answers have no ids.
Settled(p, q, m) ==
    /\ Kept(q) /\ Wrote(p, q) /\ OneMore(p, q)
    /\ \/ /\ m.id = SubmitId /\ p.pending_submit_count > 0
          /\ q.pending_submit_count = p.pending_submit_count - 1
          /\ q.pending_cortex_submit_ids = p.pending_cortex_submit_ids
       \/ /\ m.id \in p.pending_cortex_submit_ids \ {CortexLoginId, WorkId}
          /\ q.pending_submit_count = p.pending_submit_count
          /\ q.pending_cortex_submit_ids = p.pending_cortex_submit_ids \ {m.id}
       \/ p.protocol \in {"ironfish", "beam"} /\ SamePending(p, q)

Outcome(p, q, m) == Quiet(p, q) \/ Settled(p, q, m)

LEMMA ShareOK ==
    ASSUME NEW p, Kept(p), NEW m \in Messages
    PROVE  LET q == handleShareResponse(p, m)
           IN  Kept(q) /\ Wrote(p, q) /\ OneMore(p, q) /\ SamePending(p, q)
<1> DEFINE q == handleShareResponse(p, m)
<1>1. p \in PoolConfig /\ p.good_shares \in Nat /\ p.bad_shares \in Nat
  BY DEF Kept, PoolConfig
<1>2. /\ q \in PoolConfig /\ q.socket = p.socket /\ q.requests = p.requests
      /\ q.last_job = p.last_job /\ SamePending(p, q)
      /\ q.pending = p.pending /\ q.protocol = p.protocol
      /\ q.pending_job = p.pending_job /\ q.logged_in = p.logged_in
  BY <1>1 DEF PoolConfig, SamePending, handleShareResponse
<1>3. \/ q.good_shares = p.good_shares + 1 /\ q.bad_shares = p.bad_shares
      \/ q.good_shares = p.good_shares /\ q.bad_shares = p.bad_shares + 1
  BY <1>1 DEF handleShareResponse, PoolConfig
<1> HIDE DEF q
<1>4. OneMore(p, q)
  BY <1>1, <1>3 DEF OneMore
<1>5. Standing(q, dialect, granted)
  BY <1>2 DEF Kept, Standing
<1> QED
  BY <1>2, <1>4, <1>5 DEF Kept, Wrote, q

\* The answer to an id-3 share.
LEMMA CountShareOK ==
    ASSUME NEW p, Kept(p), NEW m \in Messages, m.id = SubmitId, AwaitsShare(p)
    PROVE  LET q == handleShareResponse([p EXCEPT !.pending_submit_count = @ - 1], m)
           IN  /\ Settled(p, q, m)
               /\ q.pending_submit_count = p.pending_submit_count - 1
               /\ q.pending_cortex_submit_ids = p.pending_cortex_submit_ids
<1> DEFINE a == [p EXCEPT !.pending_submit_count = @ - 1]
           q == handleShareResponse(a, m)
<1>1. p \in PoolConfig /\ p.pending_submit_count \in Int
  BY DEF Kept, PoolConfig
<1>2. p.pending_submit_count - 1 \in Int
  BY <1>1
<1>3. /\ a \in PoolConfig /\ a.socket = p.socket /\ a.requests = p.requests
      /\ a.last_job = p.last_job /\ a.pending_submit_count = p.pending_submit_count - 1
      /\ a.pending_cortex_submit_ids = p.pending_cortex_submit_ids
      /\ a.pending = p.pending /\ a.protocol = p.protocol
      /\ a.pending_job = p.pending_job /\ a.logged_in = p.logged_in /\ SameTotals(p, a)
  BY <1>1, <1>2 DEF PoolConfig, SameTotals
<1> HIDE DEF a
<1>4. Kept(a)
  BY <1>3 DEF Kept, Standing
<1>5. Kept(q) /\ Wrote(a, q) /\ OneMore(a, q) /\ SamePending(a, q)
  BY <1>4, ShareOK
<1> HIDE DEF q
<1>6. Settled(p, q, m)
  BY <1>3, <1>5 DEF Settled, Wrote, OneMore, SamePending, SameTotals, AwaitsShare
<1> QED
  BY <1>3, <1>5, <1>6 DEF SamePending, q, a

\* The answer to a share with a Cortex id.
LEMMA CortexShareOK ==
    ASSUME NEW p, Kept(p), NEW m \in Messages,
           m.id \in p.pending_cortex_submit_ids \ {CortexLoginId, WorkId}
    PROVE  LET q == handleShareResponse([p EXCEPT !.pending_cortex_submit_ids = @ \ {m.id}], m)
           IN  /\ Settled(p, q, m)
               /\ q.pending_submit_count = p.pending_submit_count
               /\ q.pending_cortex_submit_ids = p.pending_cortex_submit_ids \ {m.id}
<1> DEFINE a == [p EXCEPT !.pending_cortex_submit_ids = @ \ {m.id}]
           q == handleShareResponse(a, m)
<1>1. p \in PoolConfig
  BY DEF Kept
<1>2. /\ a \in PoolConfig /\ a.socket = p.socket /\ a.requests = p.requests
      /\ a.last_job = p.last_job /\ a.pending_submit_count = p.pending_submit_count
      /\ a.pending_cortex_submit_ids = p.pending_cortex_submit_ids \ {m.id}
      /\ a.pending = p.pending /\ a.protocol = p.protocol
      /\ a.pending_job = p.pending_job /\ a.logged_in = p.logged_in /\ SameTotals(p, a)
  BY <1>1 DEF PoolConfig, SameTotals
<1> HIDE DEF a
<1>3. Kept(a)
  BY <1>2 DEF Kept, Standing
<1>4. Kept(q) /\ Wrote(a, q) /\ OneMore(a, q) /\ SamePending(a, q)
  BY <1>3, ShareOK
<1> HIDE DEF q
<1>5. Settled(p, q, m)
  BY <1>2, <1>4 DEF Settled, Wrote, OneMore, SamePending, SameTotals
<1> QED
  BY <1>2, <1>4, <1>5 DEF SamePending, q, a

\* The ids of a handshake tell its requests apart.
LEMMA IdsTell ==
    ASSUME NEW m \in Messages, Asked(m, dialect), m.what # "notify"
    PROVE  /\ m.id = 1 /\ dialect \in {"login", "conflux"} => m.what = "login"
           /\ m.id = CortexLoginId /\ dialect = "cortex" => m.what = "login"
           /\ m.id = 2 /\ dialect \in {"subscribe", "pearlhash"} => m.what = "authorize"
           /\ m.id = SubmitId => m.what = "share"
<1>1. m.what \in {"login", "subscribe", "authorize", "work", "share"} /\ m.mode \in Modes
      /\ m.n \in Nat /\ WorkId \in Nat /\ WorkId > 4
  BY SessionAssumption DEF Messages
<1>2. m.what = "share" => /\ m.id # 1 /\ (m.id = 2 => m.mode = "ironfish")
                          /\ m.id # CortexLoginId
  BY <1>1 DEF Asked, ShareRequest, Modes, CortexLoginId, SubmitId
<1>3. Keeps(dialect) => m.mode = SubmitMode(dialect)
  BY DEF Asked
<1>4. dialect # "login" => Keeps(dialect)
  BY DEF Keeps
<1>5. dialect \in {"subscribe", "pearlhash"} => m.mode # "ironfish"
  BY <1>3, <1>4 DEF SubmitMode
<1>6. m.id = 1 /\ dialect \in {"login", "conflux"} => m.what = "login"
  BY <1>1, <1>2 DEF Asked
<1>7. m.id = CortexLoginId /\ dialect = "cortex" => m.what = "login"
  BY <1>1, <1>2 DEF Asked, CortexLoginId
<1>8. m.id = 2 /\ dialect \in {"subscribe", "pearlhash"} => m.what = "authorize"
  BY <1>1, <1>2, <1>5 DEF Asked
<1>9. m.id = SubmitId => m.what = "share"
  BY <1>1 DEF Asked, SubmitId, CortexLoginId
<1> QED
  BY <1>6, <1>7, <1>8, <1>9

LEMMA ResponseOK ==
    ASSUME NEW p, Kept(p), NEW m \in Messages, m.what # "notify", Sent(m, dialect, granted)
    PROVE  Outcome(p, poolResponseHandler(p, m), m)
<1> DEFINE q == poolResponseHandler(p, m)
<1> SUFFICES Outcome(p, q, m)
  OBVIOUS
<1>1. Asked(m, dialect) /\ (m.what \in {"login", "authorize"} => (m.ok => granted))
  BY DEF Sent
<1>2. Calm(p, p)
  BY DEF Calm, Wrote, SamePending, SameTotals
<1>3. CASE p.protocol = "cortex"
  <2>1. q = CASE m.id = CortexLoginId /\ "login" \in p.pending -> handleLoginResponse(p, m)
              [] m.id = WorkId /\ "work" \in p.pending -> [p EXCEPT !.pending = @ \ {"work"}]
              [] m.id \in p.pending_cortex_submit_ids \ {CortexLoginId, WorkId} ->
                    handleShareResponse([p EXCEPT !.pending_cortex_submit_ids = @ \ {m.id}], m)
              [] OTHER -> p
    BY <1>3 DEF poolResponseHandler
  <2>2. \/ m.id = CortexLoginId /\ "login" \in p.pending /\ q = handleLoginResponse(p, m)
        \/ q = [p EXCEPT !.pending = @ \ {"work"}]
        \/ /\ m.id \in p.pending_cortex_submit_ids \ {CortexLoginId, WorkId}
           /\ q = handleShareResponse([p EXCEPT !.pending_cortex_submit_ids = @ \ {m.id}], m)
        \/ q = p
    BY <2>1, Zenon
  <2> HIDE DEF q
  <2>3. CASE m.id = CortexLoginId /\ "login" \in p.pending /\ q = handleLoginResponse(p, m)
    <3>1. dialect = "cortex"
      BY <2>3 DEF Kept, Standing
    <3>2. m.ok => granted
      BY <1>1, <2>3, <3>1, IdsTell
    <3> QED
      BY <2>3, <3>1, <3>2, LoginOK DEF Outcome, Quiet
  <2>4. CASE q = [p EXCEPT !.pending = @ \ {"work"}]
    BY <2>4, DropOK DEF Outcome, Quiet
  <2>5. CASE /\ m.id \in p.pending_cortex_submit_ids \ {CortexLoginId, WorkId}
             /\ q = handleShareResponse([p EXCEPT !.pending_cortex_submit_ids = @ \ {m.id}], m)
    BY <2>5, CortexShareOK DEF Outcome
  <2>6. CASE q = p
    BY <1>2, <2>6 DEF Outcome, Quiet
  <2> QED
    BY <2>2, <2>3, <2>4, <2>5, <2>6
<1>4. CASE p.protocol = "ironfish"
  <2>1. q = p
    BY <1>4 DEF poolResponseHandler
  <2> QED
    BY <1>2, <2>1 DEF Outcome, Quiet
<1>5. CASE p.protocol \notin {"cortex", "ironfish"}
  <2>1. q = CASE m.id = 1 /\ dialect \in {"login", "conflux"} -> handleLoginResponse(p, m)
              [] m.id = 1 /\ "subscribe" \in p.pending -> handleSubscribeResponse(p, m)
              [] m.id = 2 /\ "authorize" \in p.pending -> handleAuthorizeResponse(p, m)
              [] m.id = SubmitId /\ AwaitsShare(p) ->
                    handleShareResponse([p EXCEPT !.pending_submit_count = @ - 1], m)
              [] OTHER -> p
    BY <1>5 DEF poolResponseHandler
  <2>2. \/ m.id = 1 /\ dialect \in {"login", "conflux"} /\ q = handleLoginResponse(p, m)
        \/ "subscribe" \in p.pending /\ q = handleSubscribeResponse(p, m)
        \/ m.id = 2 /\ "authorize" \in p.pending /\ q = handleAuthorizeResponse(p, m)
        \/ /\ m.id = SubmitId /\ AwaitsShare(p)
           /\ q = handleShareResponse([p EXCEPT !.pending_submit_count = @ - 1], m)
        \/ q = p
    BY <2>1, Zenon
  <2> HIDE DEF q
  <2>3. CASE m.id = 1 /\ dialect \in {"login", "conflux"} /\ q = handleLoginResponse(p, m)
    <3>1. m.ok => granted
      BY <1>1, <2>3, IdsTell
    <3> QED
      BY <1>5, <2>3, <3>1, LoginOK DEF Outcome, Quiet
  <2>4. CASE "subscribe" \in p.pending /\ q = handleSubscribeResponse(p, m)
    <3>1. dialect = "subscribe"
      BY <2>4 DEF Kept, Standing
    <3> QED
      BY <2>4, <3>1, SubscribeOK DEF Outcome, Quiet
  <2>5. CASE m.id = 2 /\ "authorize" \in p.pending /\ q = handleAuthorizeResponse(p, m)
    <3>1. dialect \in {"subscribe", "pearlhash"}
      BY <2>5 DEF Kept, Standing
    <3>2. m.ok => granted
      BY <1>1, <2>5, <3>1, IdsTell
    <3> QED
      BY <2>5, <3>2, AuthorizeOK DEF Outcome
  <2>6. CASE /\ m.id = SubmitId /\ AwaitsShare(p)
             /\ q = handleShareResponse([p EXCEPT !.pending_submit_count = @ - 1], m)
    BY <2>6, CountShareOK DEF Outcome
  <2>7. CASE q = p
    BY <1>2, <2>7 DEF Outcome, Quiet
  <2> QED
    BY <2>2, <2>3, <2>4, <2>5, <2>6, <2>7
<1> QED
  BY <1>3, <1>4, <1>5

\* The protocol an accepted object login assigns.
LEMMA PoolResponseOK ==
    ASSUME NEW p, Kept(p), NEW m \in Messages, m.what # "notify", Sent(m, dialect, granted)
    PROVE  Outcome(p, handlePoolResponse(p, m), m)
<1> DEFINE q == poolResponseHandler(p, m)
           r == [q EXCEPT !.protocol = m.family]
           Assigns == /\ m.what = "login" /\ m.ok /\ dialect = "login"
                      /\ p.protocol \notin {"cortex", "ironfish"}
<1>1. Outcome(p, q, m)
  BY ResponseOK
<1>2. handlePoolResponse(p, m) = IF Assigns THEN r ELSE q
  BY DEF handlePoolResponse
<1>3. ASSUME Assigns PROVE Calm(p, r)
  <2>1. m.id = 1 /\ granted /\ "subscribe" \notin p.pending /\ m.family \in {dialect} \cup Families
    BY <1>3 DEF Sent, Asked, Kept, Standing
  <2>2. q = CASE m.id = 1 /\ dialect \in {"login", "conflux"} -> handleLoginResponse(p, m)
              [] m.id = 1 /\ "subscribe" \in p.pending -> handleSubscribeResponse(p, m)
              [] m.id = 2 /\ "authorize" \in p.pending -> handleAuthorizeResponse(p, m)
              [] m.id = SubmitId /\ AwaitsShare(p) ->
                    handleShareResponse([p EXCEPT !.pending_submit_count = @ - 1], m)
              [] OTHER -> p
    BY <1>3 DEF poolResponseHandler
  <2>3. q = handleLoginResponse(p, m)
    BY <1>3, <2>1, <2>2 DEF SubmitId
  <2>4. Calm(p, q)
    BY <1>3, <2>1, <2>3, LoginOK
  <2> HIDE DEF q
  <2>5. q \in PoolConfig /\ m.family \in Protocols /\ Kept(q)
    BY <2>4 DEF Calm, Kept, Messages
  <2>6. /\ r \in PoolConfig /\ r.socket = q.socket /\ r.requests = q.requests
        /\ r.last_job = q.last_job /\ SamePending(q, r) /\ SameTotals(q, r)
        /\ r.pending = q.pending /\ r.protocol = m.family
        /\ r.pending_job = q.pending_job /\ r.logged_in = q.logged_in
    BY <2>5 DEF PoolConfig, SamePending, SameTotals
  <2> HIDE DEF r
  <2>7. Calm(q, r)
    BY <1>3, <2>1, <2>5, <2>6, FlagsOK
  <2> QED
    BY <2>4, <2>7, CalmChain
<1> QED
  BY <1>1, <1>2, <1>3 DEF Outcome, Quiet

\* Protocols whose answers have no ids count whatever comes as a share.
LEMMA NoIdShareOK ==
    ASSUME NEW p, Kept(p), NEW m \in Messages, p.protocol \in {"ironfish", "beam"}
    PROVE  Settled(p, handleShareResponse(p, m), m)
BY ShareOK DEF Settled

LEMMA IronfishOK ==
    ASSUME NEW p, Kept(p), NEW m \in Messages, Sent(m, dialect, granted),
           p.protocol = "ironfish"
    PROVE  Outcome(p, handleIronfishMessage(p, m), m)
<1> DEFINE q == handleIronfishMessage(p, m)
<1> SUFFICES Outcome(p, q, m)
  OBVIOUS
<1>1. m.what = "login" /\ m.ok => granted
  BY DEF Sent
<1>2. Calm(p, p)
  BY DEF Calm, Wrote, SamePending, SameTotals
<1>3. \/ m.what = "login" /\ m.ok /\ q = AcceptPending(p)
      \/ q = loginFailed(p)
      \/ q = handleShareResponse(p, m)
      \/ q = p
  BY DEF handleIronfishMessage
<1> HIDE DEF q
<1>4. CASE m.what = "login" /\ m.ok /\ q = AcceptPending(p)
  BY <1>1, <1>4, AcceptOK DEF Outcome
<1>5. CASE q = loginFailed(p)
  BY <1>5, FailedOK DEF Outcome, Quiet
<1>6. CASE q = handleShareResponse(p, m)
  BY <1>6, NoIdShareOK DEF Outcome
<1>7. CASE q = p
  BY <1>2, <1>7 DEF Outcome, Quiet
<1> QED
  BY <1>3, <1>4, <1>5, <1>6, <1>7

LEMMA BeamOK ==
    ASSUME NEW p, Kept(p), NEW m \in Messages, Sent(m, dialect, granted),
           p.protocol = "beam"
    PROVE  Outcome(p, handleBeamResult(p, m), m)
<1> DEFINE q == [p EXCEPT !.logged_in = m.ok]
<1>1. p \in PoolConfig /\ m.ok \in BOOLEAN
  BY DEF Kept, Messages
<1>2. /\ q \in PoolConfig /\ q.socket = p.socket /\ q.requests = p.requests
      /\ q.last_job = p.last_job /\ SamePending(p, q) /\ SameTotals(p, q)
      /\ q.pending = p.pending /\ q.protocol = p.protocol
      /\ q.pending_job = p.pending_job /\ q.logged_in = m.ok
  BY <1>1 DEF PoolConfig, SamePending, SameTotals
<1>3. handleBeamResult(p, m) = IF m.what = "login" THEN q ELSE handleShareResponse(p, m)
  BY DEF handleBeamResult
<1> HIDE DEF q
<1>4. CASE m.what = "login"
  <2>1. m.ok => granted
    BY <1>4 DEF Sent
  <2>2. Calm(p, q)
    BY <1>2, <2>1, FlagsOK
  <2> QED
    BY <1>3, <1>4, <2>2 DEF Outcome, Quiet
<1>5. CASE m.what # "login"
  BY <1>3, <1>5, NoIdShareOK DEF Outcome
<1> QED
  BY <1>4, <1>5

LEMMA AnswerOK ==
    ASSUME NEW p, Kept(p), NEW m \in Messages, m.what # "notify", Sent(m, dialect, granted)
    PROVE  Outcome(p, handlePoolAnswer(p, m), m)
<1> DEFINE q == handlePoolAnswer(p, m)
<1> SUFFICES Outcome(p, q, m)
  OBVIOUS
<1>1. Calm(p, p)
  BY DEF Calm, Wrote, SamePending, SameTotals
<1>2. \/ p.protocol = "beam" /\ q = handleBeamResult(p, m)
      \/ q = p
      \/ p.protocol = "ironfish" /\ q = handleIronfishMessage(p, m)
      \/ q = handlePoolResponse(p, m)
  BY Zenon DEF handlePoolAnswer
<1> HIDE DEF q
<1>3. CASE p.protocol = "beam" /\ q = handleBeamResult(p, m)
  BY <1>3, BeamOK
<1>4. CASE q = p
  BY <1>1, <1>4 DEF Outcome, Quiet
<1>5. CASE p.protocol = "ironfish" /\ q = handleIronfishMessage(p, m)
  BY <1>5, IronfishOK
<1>6. CASE q = handlePoolResponse(p, m)
  BY <1>6, PoolResponseOK
<1> QED
  BY <1>2, <1>3, <1>4, <1>5, <1>6

\* A job announcement is kept back, taken or ignored.
LEMMA AnnouncementOK ==
    ASSUME NEW p, Kept(p), NEW m \in Messages, Sent(m, dialect, granted)
    PROVE  Quiet(p, JobAnnouncement(rememberPoolProtocol(p, m), m))
<1> DEFINE a == rememberPoolProtocol(p, m)
           b == [a EXCEPT !.pending_job = m]
           q == JobAnnouncement(a, m)
<1>1. /\ m.mode \in Modes /\ m.job \in Announced \cup {NoJob} /\ m.family \in Protocols
      /\ p \in PoolConfig
  BY DEF Messages, Kept
<1>2. Calm(p, p)
  BY DEF Calm, Wrote, SamePending, SameTotals
<1>3. Calm(p, a)
  <2>1. CASE dialect = "login" /\ m.mode # "cortex"
    <3>1. a = [p EXCEPT !.protocol = m.family]
      BY <2>1 DEF rememberPoolProtocol
    <3>2. /\ a \in PoolConfig /\ a.socket = p.socket /\ a.requests = p.requests
          /\ a.last_job = p.last_job /\ SamePending(p, a) /\ SameTotals(p, a)
          /\ a.pending = p.pending /\ a.protocol = m.family
          /\ a.pending_job = p.pending_job /\ a.logged_in = p.logged_in
      BY <1>1, <3>1 DEF PoolConfig, SamePending, SameTotals
    <3>3. m.family \in {dialect} \cup Families
      BY DEF Sent
    <3> HIDE DEF a
    <3> QED
      BY <2>1, <3>2, <3>3, FlagsOK
  <2>2. CASE ~(dialect = "login" /\ m.mode # "cortex")
    BY <1>2, <2>2 DEF rememberPoolProtocol
  <2> QED
    BY <2>1, <2>2
<1> SUFFICES Quiet(a, q)
  BY <1>3, Chain
<1>4. \/ q = b
      \/ a.logged_in /\ q = takeJob(a, m.job, m.mode)
      \/ q = a
  BY Zenon DEF JobAnnouncement
<1> HIDE DEF a, q
<1>5. a \in PoolConfig /\ Kept(a)
  BY <1>3 DEF Calm, Kept
<1>6. Keeps(dialect) => m.mode = SubmitMode(dialect)
  BY DEF Sent, Asked
<1>7. CASE q = b
  <2>1. /\ b \in PoolConfig /\ b.socket = a.socket /\ b.requests = a.requests
        /\ b.last_job = a.last_job /\ SamePending(a, b) /\ SameTotals(a, b)
        /\ b.pending = a.pending /\ b.protocol = a.protocol
        /\ b.pending_job = m /\ b.logged_in = a.logged_in
    BY <1>5 DEF PoolConfig, SamePending, SameTotals
  <2> HIDE DEF b
  <2>2. Calm(a, b)
    BY <1>5, <1>6, <2>1, FlagsOK
  <2> QED
    BY <1>7, <2>2 DEF Quiet
<1>8. CASE a.logged_in /\ q = takeJob(a, m.job, m.mode)
  <2>1. granted
    BY <1>5, <1>8 DEF Kept, Standing
  <2> QED
    BY <1>1, <1>5, <1>6, <1>8, <2>1, TakeOK
<1>9. CASE q = a
  BY <1>5, <1>9 DEF Quiet, Calm, Wrote, SamePending, SameTotals
<1> QED
  BY <1>4, <1>7, <1>8, <1>9

\* Whatever is read.
LEMMA MessageOK ==
    ASSUME NEW p, Kept(p), NEW m \in Messages, Sent(m, dialect, granted)
    PROVE  /\ Outcome(p, pool_message(p, m), m)
           /\ m.what = "notify" => Quiet(p, pool_message(p, m))
<1> DEFINE q == pool_message(p, m)
           a == [p EXCEPT !.logged_in = TRUE, !.protocol = m.family]
           b == [p EXCEPT !.pending = @ \ {"work"}]
<1>1. /\ m.job \in Announced \cup {NoJob} /\ m.family \in Protocols
      /\ m.job # Undecoded => m.job \in Jobs \cup {Malformed, NoJob}
      /\ p \in PoolConfig /\ "id" \in Modes /\ "cortex" \in Modes
  BY DEF Messages, Announced, Kept, Modes
<1>2. CASE m.what = "notify"
  <2>1. q = JobAnnouncement(rememberPoolProtocol(p, m), m)
    BY <1>2 DEF pool_message
  <2> QED
    BY <2>1, AnnouncementOK DEF Outcome
<1>3. CASE m.what = "login" /\ m.job # NoJob
  <2>1. q = handlePoolJob(a, m.job, "id")
    BY <1>3 DEF pool_message
  <2>2. /\ granted /\ dialect = "login" /\ m.family \in {dialect} \cup Families
        /\ m.job # Undecoded
    BY <1>3 DEF Sent
  <2>3. /\ a \in PoolConfig /\ a.socket = p.socket /\ a.requests = p.requests
        /\ a.last_job = p.last_job /\ SamePending(p, a) /\ SameTotals(p, a)
        /\ a.pending = p.pending /\ a.protocol = m.family
        /\ a.pending_job = p.pending_job
    BY <1>1 DEF PoolConfig, SamePending, SameTotals
  <2> HIDE DEF a, q
  <2>4. Calm(p, a)
    BY <2>2, <2>3, FlagsOK
  <2>5. Keeps(dialect) => "id" = SubmitMode(dialect)
    BY <2>2 DEF SubmitMode
  <2>6. Quiet(a, q)
    BY <1>1, <2>1, <2>2, <2>4, <2>5, JobOK DEF Calm
  <2>7. Quiet(p, q)
    BY <2>4, <2>6, Chain
  <2> QED
    BY <2>7 DEF Outcome, q
<1>4. CASE m.what = "work" /\ m.ok /\ m.job # Undecoded /\ p.logged_in
  <2>1. q = IF "work" \in p.pending THEN handlePoolJob(b, m.job, "cortex") ELSE p
    BY <1>4 DEF pool_message
  <2>2. granted /\ dialect = "cortex"
    BY <1>4 DEF Sent, Asked, Kept, Standing
  <2>3. Calm(p, b) /\ Calm(p, p)
    BY DropOK DEF Calm, Wrote, SamePending, SameTotals
  <2> HIDE DEF b, q
  <2>4. Keeps(dialect) => "cortex" = SubmitMode(dialect)
    BY <2>2 DEF SubmitMode
  <2>5. Quiet(b, handlePoolJob(b, m.job, "cortex"))
    BY <1>1, <1>4, <2>2, <2>3, <2>4, JobOK DEF Calm
  <2>6. Quiet(p, q)
    BY <2>1, <2>3, <2>5, Chain DEF Quiet
  <2> QED
    BY <2>6 DEF Outcome, q
<1>5. CASE /\ m.what # "notify" /\ ~(m.what = "login" /\ m.job # NoJob)
           /\ ~(m.what = "work" /\ m.ok /\ m.job # Undecoded /\ p.logged_in)
  <2>1. q = handlePoolAnswer(p, m)
    BY <1>5, Zenon DEF pool_message
  <2> QED
    BY <1>5, <2>1, AnswerOK
<1> QED
  BY <1>2, <1>3, <1>4, <1>5

-----------------------------------------------------------------------------
(* What is in flight.                                                      *)

\* What the stream holds after a write.
LEMMA AppendRange ==
    ASSUME NEW S, NEW s \in Seq(S), NEW e \in S
    PROVE  /\ Append(s, e) \in Seq(S) /\ Len(s) \in Nat
           /\ DOMAIN s = 1 .. Len(s) /\ DOMAIN Append(s, e) = 1 .. (Len(s) + 1)
           /\ \A i \in DOMAIN s : Append(s, e)[i] = s[i]
           /\ Append(s, e)[Len(s) + 1] = e
           /\ Range(Append(s, e)) = Range(s) \cup {e}
<1>1. /\ Append(s, e) \in Seq(S) /\ Len(Append(s, e)) = Len(s) + 1 /\ Len(s) \in Nat
      /\ \A i \in 1 .. Len(s) : Append(s, e)[i] = s[i]
      /\ Append(s, e)[Len(s) + 1] = e
  BY AppendProperties, LenProperties
<1>2. DOMAIN Append(s, e) = 1 .. (Len(s) + 1) /\ DOMAIN s = 1 .. Len(s)
  BY <1>1, LenProperties
<1>3. \A i : i \in 1 .. (Len(s) + 1) <=> i \in 1 .. Len(s) \/ i = Len(s) + 1
  BY <1>1
<1>4. Range(Append(s, e)) = Range(s) \cup {e}
  BY <1>1, <1>2, <1>3 DEF Range
<1> QED
  BY <1>1, <1>2, <1>4

\* What it holds after a read.
LEMMA TailRange ==
    ASSUME NEW S, NEW s \in Seq(S), s # << >>
    PROVE  /\ Tail(s) \in Seq(S) /\ Head(s) \in S /\ Head(s) = s[1] /\ 1 \in DOMAIN s
           /\ \A i \in DOMAIN Tail(s) :
                 /\ i \in Nat /\ i >= 1
                 /\ i + 1 \in DOMAIN s /\ Tail(s)[i] = s[i + 1]
           /\ Range(s) = Range(Tail(s)) \cup {Head(s)}
<1>1. /\ Tail(s) \in Seq(S) /\ Head(s) \in S /\ Head(s) = s[1]
      /\ Len(s) \in Nat /\ Len(s) # 0 /\ Len(Tail(s)) = Len(s) - 1
      /\ \A i \in 1 .. Len(Tail(s)) : Tail(s)[i] = s[i + 1]
  BY HeadTailProperties, LenProperties, EmptySeq
<1>2. DOMAIN Tail(s) = 1 .. (Len(s) - 1) /\ DOMAIN s = 1 .. Len(s)
  BY <1>1, LenProperties
<1>3. /\ \A i \in 1 .. (Len(s) - 1) : i + 1 \in 1 .. Len(s) /\ i \in Nat /\ i >= 1
      /\ 1 \in 1 .. Len(s)
      /\ \A i \in 1 .. Len(s) : i = 1 \/ (i - 1 \in 1 .. (Len(s) - 1) /\ (i - 1) + 1 = i)
  BY <1>1
<1>4. Range(Tail(s)) \subseteq Range(s) /\ Head(s) \in Range(s)
  BY <1>1, <1>2, <1>3 DEF Range
<1>5. \A i \in 1 .. Len(s) : s[i] = Head(s) \/ s[i] \in Range(Tail(s))
  <2> SUFFICES ASSUME NEW i \in 1 .. Len(s), i # 1 PROVE s[i] \in Range(Tail(s))
    BY <1>1
  <2>1. i - 1 \in 1 .. (Len(s) - 1) /\ Tail(s)[i - 1] = s[(i - 1) + 1] /\ (i - 1) + 1 = i
    BY <1>1, <1>3
  <2> QED
    BY <1>2, <2>1 DEF Range
<1>6. Range(s) = Range(Tail(s)) \cup {Head(s)}
  BY <1>2, <1>4, <1>5 DEF Range
<1> QED
  BY <1>1, <1>2, <1>3, <1>6

\* Shares in flight stay unique when the pool sends e in place of a request.
LEMMA OnceAppend ==
    ASSUME NEW rs, NEW qs, NEW w \in Seq(Messages), NEW e \in Messages, Once(rs, w),
           qs \subseteq rs,
           e.what = "share" => \A x \in qs \cup Range(w) : x.what = "share" => x.n # e.n
    PROVE  Once(qs, Append(w, e))
<1> DEFINE v == Append(w, e)
<1>1. /\ Len(w) \in Nat /\ DOMAIN w = 1 .. Len(w) /\ DOMAIN v = 1 .. (Len(w) + 1)
      /\ \A i \in DOMAIN w : v[i] = w[i]
      /\ v[Len(w) + 1] = e
  BY AppendRange
<1> HIDE DEF v
<1>2. \A i \in DOMAIN v : i \in DOMAIN w \/ i = Len(w) + 1
  BY <1>1
<1>3. \A i \in DOMAIN w : w[i] \in Range(w)
  BY DEF Range
<1>4. ASSUME NEW i \in DOMAIN v, NEW j \in DOMAIN v,
             v[i].what = "share", v[j].what = "share", v[i].n = v[j].n
      PROVE  i = j
  <2>1. CASE i \in DOMAIN w /\ j \in DOMAIN w
    BY <1>1, <1>4, <2>1 DEF Once
  <2>2. CASE i \in DOMAIN w /\ j = Len(w) + 1
    <3>1. v[i] \in Range(w) /\ v[j] = e
      BY <1>1, <1>3, <2>2
    <3> QED
      BY <1>4, <3>1
  <2>3. CASE j \in DOMAIN w /\ i = Len(w) + 1
    <3>1. v[j] \in Range(w) /\ v[i] = e
      BY <1>1, <1>3, <2>3
    <3> QED
      BY <1>4, <3>1
  <2> QED
    BY <1>2, <2>1, <2>2, <2>3
<1>5. ASSUME NEW r \in qs, NEW i \in DOMAIN v, r.what = "share", v[i].what = "share"
      PROVE  r.n # v[i].n
  <2>1. CASE i \in DOMAIN w
    BY <1>1, <1>5, <2>1 DEF Once
  <2>2. CASE i = Len(w) + 1
    BY <1>1, <1>5, <2>2
  <2> QED
    BY <1>2, <2>1, <2>2
<1> QED
  BY <1>4, <1>5 DEF Once, v

\* They stay unique when a message is read, and the message read was the only
\* one about its share.
LEMMA OnceTail ==
    ASSUME NEW rs, NEW qs, NEW w \in Seq(Messages), w # << >>, Once(rs, w),
           \A r \in qs : r.what = "share" => r \in rs
    PROVE  /\ Once(qs, Tail(w))
           /\ Head(w).what = "share" =>
                 \A x \in qs \cup Range(Tail(w)) : x.what = "share" => x.n # Head(w).n
<1> DEFINE v == Tail(w)
<1>1. /\ Head(w) = w[1] /\ 1 \in DOMAIN w
      /\ \A i \in DOMAIN v : i \in Nat /\ i >= 1 /\ i + 1 \in DOMAIN w /\ v[i] = w[i + 1]
  BY TailRange
<1> HIDE DEF v
<1>2. ASSUME NEW i \in DOMAIN v, NEW j \in DOMAIN v,
             v[i].what = "share", v[j].what = "share", v[i].n = v[j].n
      PROVE  i = j
  <2>1. i + 1 = j + 1
    BY <1>1, <1>2 DEF Once
  <2>2. i \in Nat /\ j \in Nat
    BY <1>1
  <2> QED
    BY <2>1, <2>2
<1>3. ASSUME NEW r \in qs, NEW i \in DOMAIN v, r.what = "share", v[i].what = "share"
      PROVE  r.n # v[i].n
  BY <1>1, <1>3 DEF Once
<1>4. ASSUME Head(w).what = "share", NEW x \in qs \cup Range(v), x.what = "share"
      PROVE  x.n # Head(w).n
  <2>1. CASE x \in qs
    BY <1>1, <1>4, <2>1 DEF Once
  <2>2. CASE x \in Range(v)
    <3>1. PICK i \in DOMAIN v : x = v[i]
      BY <2>2 DEF Range
    <3>2. i + 1 \in DOMAIN w /\ x = w[i + 1]
      BY <1>1, <3>1
    <3>3. i + 1 # 1
      BY <1>1
    <3> QED
      BY <1>1, <1>4, <3>2, <3>3 DEF Once
  <2> QED
    BY <2>1, <2>2
<1> QED
  BY <1>2, <1>3, <1>4 DEF Once, v

\* What is unsettled depends on the shares only.
LEMMA UnsettledIs ==
    ASSUME NEW rs, NEW w, NEW mode
    PROVE  \A k : k \in Unsettled(rs, w, mode) <=>
               \E x \in rs \cup Range(w) : x.what = "share" /\ x.mode = mode /\ x.n = k
BY DEF Unsettled

LEMMA UnsettledSame ==
    ASSUME NEW rs, NEW w, NEW qs, NEW v, NEW mode,
           \A x \in rs \cup Range(w) : x.what = "share" => x \in qs \cup Range(v),
           \A x \in qs \cup Range(v) : x.what = "share" => x \in rs \cup Range(w)
    PROVE  Unsettled(qs, v, mode) = Unsettled(rs, w, mode)
<1>1. ASSUME NEW k PROVE k \in Unsettled(qs, v, mode) <=> k \in Unsettled(rs, w, mode)
  <2>1. /\ k \in Unsettled(qs, v, mode) <=>
             \E x \in qs \cup Range(v) : x.what = "share" /\ x.mode = mode /\ x.n = k
        /\ k \in Unsettled(rs, w, mode) <=>
             \E x \in rs \cup Range(w) : x.what = "share" /\ x.mode = mode /\ x.n = k
    BY UnsettledIs
  <2> QED
    BY <2>1
<1> QED
  BY <1>1

\* Nothing is in flight on a connection that was given up.
LEMMA UnsettledNone ==
    ASSUME NEW mode
    PROVE  Unsettled({}, << >>, mode) = {} /\ Once({}, << >>)
<1>1. Range(<< >>) = {}
  BY DEF Range
<1>2. DOMAIN << >> = {}
  OBVIOUS
<1> QED
  BY <1>1, <1>2 DEF Unsettled, Once

LEMMA KeepsIs ==
    ASSUME NEW p, NEW g, Standing(p, dialect, g), Keeps(dialect)
    PROVE  p.protocol = dialect
BY DEF Standing, Keeps

\* A share's answer reaches the share: where ids are 3, by the count.
LEMMA CountRouted ==
    ASSUME NEW p, Kept(p), NEW m \in Messages, Asked(m, dialect), m.what = "share",
           Keeps(dialect), SubmitMode(dialect) = "id", AwaitsShare(p)
    PROVE  /\ m.id = SubmitId
           /\ pool_message(p, m) =
                handleShareResponse([p EXCEPT !.pending_submit_count = @ - 1], m)
<1>1. p.protocol = dialect
  BY KeepsIs DEF Kept
<1>2. m.mode = "id" /\ m.id = SubmitId
  BY DEF Asked, ShareRequest
<1>3. dialect \notin {"cortex", "ironfish", "beam"}
  BY DEF SubmitMode
<1>4. pool_message(p, m) = handlePoolAnswer(p, m)
  BY DEF pool_message
<1>5. handlePoolAnswer(p, m) = handlePoolResponse(p, m)
  BY <1>1, <1>2, <1>3 DEF handlePoolAnswer
<1>6. handlePoolResponse(p, m) = poolResponseHandler(p, m)
  BY DEF handlePoolResponse
<1>7. poolResponseHandler(p, m) =
        handleShareResponse([p EXCEPT !.pending_submit_count = @ - 1], m)
  BY <1>1, <1>2, <1>3 DEF poolResponseHandler, SubmitId
<1> QED
  BY <1>2, <1>4, <1>5, <1>6, <1>7

\* Cortex: by the id that nextCortexSubmitId gave it and nothing else has.
LEMMA CortexRouted ==
    ASSUME NEW p, Kept(p), NEW m \in Messages, Asked(m, dialect), m.what = "share",
           dialect = "cortex", m.n \in p.pending_cortex_submit_ids
    PROVE  /\ m.id = m.n /\ m.id \in p.pending_cortex_submit_ids \ {CortexLoginId, WorkId}
           /\ pool_message(p, m) =
                handleShareResponse([p EXCEPT !.pending_cortex_submit_ids = @ \ {m.id}], m)
<1>1. p.protocol = "cortex" /\ Keeps(dialect)
  BY KeepsIs DEF Kept, Keeps
<1>2. m.mode = "cortex" /\ m.id = m.n /\ m.n > CortexLoginId /\ m.n # WorkId
  BY <1>1 DEF Asked, ShareRequest, SubmitMode
<1>3. m.n \in Nat
  BY DEF Messages
<1>4. m.n # CortexLoginId
  BY <1>2, <1>3 DEF CortexLoginId
<1>5. pool_message(p, m) = handlePoolAnswer(p, m)
  BY DEF pool_message
<1>6. handlePoolAnswer(p, m) = handlePoolResponse(p, m)
  BY <1>1, <1>2 DEF handlePoolAnswer
<1>7. handlePoolResponse(p, m) = poolResponseHandler(p, m)
  BY DEF handlePoolResponse
<1>8. poolResponseHandler(p, m) =
        handleShareResponse([p EXCEPT !.pending_cortex_submit_ids = @ \ {m.id}], m)
  BY <1>1, <1>2, <1>4 DEF poolResponseHandler
<1> QED
  BY <1>2, <1>4, <1>5, <1>6, <1>7, <1>8

\* The answer to another request settles no share.
LEMMA OthersQuiet ==
    ASSUME NEW p, Kept(p), NEW m \in Messages, Sent(m, dialect, granted),
           Keeps(dialect), m.what # "share",
           dialect = "cortex" \/ p.pending_cortex_submit_ids = {}
    PROVE  pool_message(p, m) = Cleared(p) \/ SamePending(p, pool_message(p, m))
<1> DEFINE q == pool_message(p, m)
<1>1. Outcome(p, q, m) /\ (m.what = "notify" => Quiet(p, q))
  BY MessageOK
<1>2. Asked(m, dialect) /\ m.what \in {"login", "subscribe", "authorize", "work", "notify"}
  BY DEF Sent, Messages
<1> HIDE DEF q
<1> SUFFICES ASSUME Settled(p, q, m), m.what # "notify" PROVE SamePending(p, q)
  BY <1>1 DEF Outcome, Quiet, Calm, q
<1>3. m.id # SubmitId
  BY <1>2, IdsTell
<1>4. m.id \notin p.pending_cortex_submit_ids \ {CortexLoginId, WorkId}
  BY <1>2 DEF Asked
<1> QED
  BY <1>3, <1>4 DEF Settled

\* Reading a message keeps the books.
LEMMA TracksRead ==
    ASSUME NEW p, Kept(p), NEW w \in Seq(Messages), w # << >>,
           \A x \in p.requests : Asked(x, dialect),
           \A x \in Range(w) : Sent(x, dialect, granted),
           Keeps(dialect), Tracks(p, w),
           NEW q, q = pool_message(p, Head(w)), q # Cleared(p), Kept(q), Wrote(p, q)
    PROVE  Tracks(q, Tail(w))
<1> DEFINE m == Head(w)
           v == Tail(w)
           U(mode) == Unsettled(p.requests, w, mode)
           V(mode) == Unsettled(q.requests, v, mode)
<1>1. m \in Messages /\ Range(w) = Range(v) \cup {m}
  BY TailRange
<1>2. Sent(m, dialect, granted) /\ Asked(m, dialect)
  BY <1>1 DEF Sent
<1>3. \A r \in q.requests : r.what = "share" => r \in p.requests
  BY DEF Wrote
<1>4. /\ Once(q.requests, v)
      /\ m.what = "share" =>
            \A x \in q.requests \cup Range(v) : x.what = "share" => x.n # m.n
  BY <1>3, OnceTail DEF Tracks
<1>5. \A x \in p.requests \cup Range(w) : Asked(x, dialect)
  BY DEF Sent
<1>6. \A x \in p.requests \cup Range(w) : x.mode = SubmitMode(dialect)
  BY <1>5 DEF Asked
<1> HIDE DEF m, v
<1>7. \A mode : mode # SubmitMode(dialect) => U(mode) = {} /\ V(mode) = {}
  <2>1. \A x \in q.requests \cup Range(v) : x.what = "share" => x \in p.requests \cup Range(w)
    BY <1>1, <1>3
  <2> QED
    BY <1>6, <2>1 DEF Unsettled
<1>8. CASE m.what # "share"
  <2>1. dialect = "cortex" \/ p.pending_cortex_submit_ids = {}
    BY <1>7 DEF Tracks, SubmitMode
  <2>2. SamePending(p, q)
    BY <1>1, <1>2, <1>8, <2>1, OthersQuiet DEF m
  <2>3. \A mode : V(mode) = U(mode)
    <3>1. \A x \in p.requests \cup Range(w) : x.what = "share" => x \in q.requests \cup Range(v)
      BY <1>1, <1>8 DEF Wrote
    <3>2. \A x \in q.requests \cup Range(v) : x.what = "share" => x \in p.requests \cup Range(w)
      BY <1>1, <1>3
    <3> QED
      BY <3>1, <3>2, UnsettledSame
  <2> QED
    BY <1>4, <2>2, <2>3 DEF Tracks, SamePending, v
<1>9. CASE m.what = "share"
  <2>1. ASSUME NEW k
        PROVE  k \in V(SubmitMode(dialect)) <=> k \in U(SubmitMode(dialect)) /\ k # m.n
    <3>1. /\ k \in V(SubmitMode(dialect)) <=>
               \E x \in q.requests \cup Range(v) :
                  x.what = "share" /\ x.mode = SubmitMode(dialect) /\ x.n = k
          /\ k \in U(SubmitMode(dialect)) <=>
               \E x \in p.requests \cup Range(w) :
                  x.what = "share" /\ x.mode = SubmitMode(dialect) /\ x.n = k
      BY UnsettledIs
    <3> QED
      BY <1>1, <1>3, <1>4, <1>9, <3>1 DEF Wrote
  <2>2. V(SubmitMode(dialect)) = U(SubmitMode(dialect)) \ {m.n}
    BY <2>1
  <2>3. m.n \in U(SubmitMode(dialect))
    BY <1>1, <1>6, <1>9, UnsettledIs
  <2>4. CASE SubmitMode(dialect) = "id"
    <3>1. U("cortex") = {} /\ V("cortex") = {}
      BY <1>7, <2>4
    <3>2. /\ IsFiniteSet(U("id")) /\ p.pending_submit_count = Cardinality(U("id"))
          /\ p.pending_cortex_submit_ids = {}
      BY <3>1 DEF Tracks
    <3>3. Cardinality(U("id")) \in Nat /\ Cardinality(U("id")) # 0
      BY <2>3, <2>4, <3>2, FS_CardinalityType, FS_EmptySet
    <3>4. AwaitsShare(p)
      BY <3>2, <3>3 DEF AwaitsShare
    <3>5. /\ q.pending_submit_count = p.pending_submit_count - 1
          /\ q.pending_cortex_submit_ids = p.pending_cortex_submit_ids
      BY <1>1, <1>2, <1>9, <2>4, <3>4, CountRouted, CountShareOK DEF m
    <3>6. IsFiniteSet(V("id")) /\ Cardinality(V("id")) = Cardinality(U("id")) - 1
      BY <2>2, <2>3, <2>4, <3>2, FS_RemoveElement
    <3> QED
      BY <1>4, <3>1, <3>2, <3>5, <3>6 DEF Tracks, v
  <2>5. CASE dialect = "cortex"
    <3>1. SubmitMode(dialect) = "cortex"
      BY <2>5 DEF SubmitMode
    <3>2. U("id") = {} /\ V("id") = {}
      BY <1>7, <3>1
    <3>3. p.pending_cortex_submit_ids = U("cortex") /\ p.pending_submit_count = Cardinality({})
      BY <3>2 DEF Tracks
    <3>4. /\ m.id = m.n /\ m.id \in p.pending_cortex_submit_ids \ {CortexLoginId, WorkId}
          /\ q = handleShareResponse([p EXCEPT !.pending_cortex_submit_ids = @ \ {m.id}], m)
      <4>1. m.n \in p.pending_cortex_submit_ids /\ q = pool_message(p, m)
        BY <2>3, <3>1, <3>3 DEF m
      <4> QED
        BY <1>1, <1>2, <1>9, <2>5, <4>1, CortexRouted
    <3>5. /\ q.pending_submit_count = p.pending_submit_count
          /\ q.pending_cortex_submit_ids = p.pending_cortex_submit_ids \ {m.id}
      BY <1>1, <3>4, CortexShareOK
    <3> QED
      BY <1>4, <2>2, <3>1, <3>2, <3>3, <3>4, <3>5, FS_EmptySet DEF Tracks, v
  <2>6. CASE SubmitMode(dialect) \notin {"id", "cortex"}
    <3>1. U("id") = {} /\ V("id") = {} /\ U("cortex") = {} /\ V("cortex") = {}
      BY <1>7, <2>6
    <3>2. p.pending_cortex_submit_ids = {} /\ p.pending_submit_count = 0
      BY <3>1, FS_EmptySet DEF Tracks
    <3>3. Outcome(p, q, m)
      BY <1>1, <1>2, MessageOK DEF m
    <3>4. SamePending(p, q)
      BY <3>2, <3>3 DEF Outcome, Quiet, Calm, Settled
    <3> QED
      BY <1>4, <3>1, <3>2, <3>4, FS_EmptySet DEF Tracks, SamePending, v
  <2> QED
    BY <2>4, <2>5, <2>6 DEF SubmitMode
<1> QED
  BY <1>8, <1>9

-----------------------------------------------------------------------------
(* The steps.                                                              *)

\* The open session and what is known of it.
LEMMA Opened ==
    ASSUME IInv, pool.socket
    PROVE  Kept(pool)
<1>1. pool \in PoolConfig
  BY DEF IInv, TypeOK
<1>2. pool.socket = TRUE
  BY <1>1 DEF PoolConfig
<1> QED
  BY <1>1, <1>2 DEF IInv, Kept

LEMMA InitOK == Init => IInv
<1> SUFFICES ASSUME Init PROVE IInv
  OBVIOUS
<1> DEFINE z == [good_shares |-> 0, bad_shares |-> 0]
<1>1. /\ pool \in PoolConfig /\ Standing(pool, dialect, granted) /\ Cleared(pool) = pool
      /\ pool.requests = {} /\ pool.pending_cortex_submit_ids = {}
      /\ pool.pending_submit_count = 0 /\ pool.socket = FALSE
      /\ pool.good_shares = 0 /\ pool.bad_shares = 0
  <2>1. z.good_shares = 0 /\ z.bad_shares = 0
    OBVIOUS
  <2>2. pool = Cleared(z) /\ dialect \in Dialects
    BY DEF Init
  <2> HIDE DEF z
  <2>3. z.good_shares \in Nat /\ z.bad_shares \in Nat
    BY <2>1
  <2>4. /\ Cleared(z) \in PoolConfig /\ Cleared(z).socket = FALSE
        /\ Standing(Cleared(z), dialect, granted)
        /\ Cleared(Cleared(z)) = Cleared(z)
        /\ SameTotals(z, Cleared(z))
        /\ Cleared(z).requests = {} /\ Cleared(z).pending_cortex_submit_ids = {}
        /\ Cleared(z).pending_submit_count = 0
    BY <2>2, <2>3, ClearedOK
  <2> QED
    BY <2>1, <2>2, <2>4 DEF SameTotals
<1>2. wire \in Seq(Messages) /\ Range(wire) = {} /\ wire = << >>
  BY DEF Init, Range
<1>3. TypeOK
  <2>1. {shares, announced, repeats, connections} \subseteq Nat /\ cortexId \in Nat
    BY DEF Init, CortexLoginId
  <2>2. /\ dialect \in Dialects /\ drain \in {"off", "waiting", "drained", "expired"}
        /\ granted \in BOOLEAN /\ latest \in Jobs \cup {Malformed, NoJob}
    BY DEF Init
  <2> QED
    BY <1>1, <1>2, <2>1, <2>2 DEF TypeOK
<1>4. Framed /\ Numbered
  BY <1>1, <1>2 DEF Init, Framed, Numbered, CortexLoginId
<1>5. Counted(pool, dialect, shares)
  <2>1. shares = 0 /\ Cardinality({}) = 0 /\ IsFiniteSet({})
    BY FS_EmptySet DEF Init
  <2>2. 0 + 0 + 0 + 0 <= 0
    OBVIOUS
  <2> QED
    BY <1>1, <2>1, <2>2 DEF Counted
<1>6. Tracked
  BY <1>1, <1>2, UnsettledNone, FS_EmptySet DEF Tracked, Tracks
<1> QED
  BY <1>1, <1>3, <1>4, <1>5, <1>6 DEF IInv

\* The connection is given up.
LEMMA GivenUp ==
    ASSUME IInv, pool' = Cleared(pool), wire' = << >>, granted' = FALSE, latest' = NoJob,
           UNCHANGED <<dialect, cortexId, drain, shares, announced, repeats, connections>>
    PROVE  IInv'
<1>1. /\ pool \in PoolConfig /\ dialect \in Dialects
      /\ pool.good_shares \in Nat /\ pool.bad_shares \in Nat /\ pool.pending_submit_count \in Nat
      /\ IsFiniteSet(pool.pending_cortex_submit_ids) /\ shares \in Nat
  BY DEF IInv, TypeOK, PoolConfig, Counted
<1>2. /\ pool' \in PoolConfig /\ Standing(pool', dialect', granted') /\ Cleared(pool') = pool'
      /\ pool'.requests = {} /\ pool'.pending_cortex_submit_ids = {}
      /\ pool'.pending_submit_count = 0 /\ pool'.socket = FALSE
      /\ SameTotals(pool, pool')
  BY <1>1, ClearedOK
<1>3. wire' \in Seq(Messages) /\ Range(wire') = {}
  BY DEF Range
<1>4. TypeOK'
  <2>1. Cleared(pool)' = Cleared(pool')
    BY DEF Cleared
  <2> QED
    BY <1>2, <1>3, <2>1 DEF IInv, TypeOK, PoolConfig, Messages, Requests, Protocols, Modes
<1>5. Framed' /\ Numbered'
  BY <1>2, <1>3 DEF IInv, Framed, Numbered
<1>6. Counted(pool', dialect', shares')
  <2>1. Cardinality(pool.pending_cortex_submit_ids) \in Nat
    BY <1>1, FS_CardinalityType
  <2>2. ({dialect} \cup Families) \cap {"ironfish", "beam"} = {}
          => pool.good_shares + pool.bad_shares <= shares
    BY <1>1, <2>1 DEF IInv, Counted
  <2>3. pool'.good_shares + pool'.bad_shares + 0 + Cardinality({})
           = pool.good_shares + pool.bad_shares
    BY <1>1, <1>2, FS_EmptySet DEF SameTotals
  <2> QED
    BY <1>2, <2>2, <2>3, FS_EmptySet DEF Counted
<1>7. Tracked'
  BY <1>2, UnsettledNone, FS_EmptySet DEF Tracked, Tracks
<1> QED
  BY <1>2, <1>4, <1>5, <1>6, <1>7 DEF IInv

LEMMA HandshakeOK ==
    ASSUME NEW p, Kept(p)
    PROVE  /\ Kept(Handshake(p)) /\ Wrote(p, Handshake(p))
           /\ SamePending(p, Handshake(p)) /\ SameTotals(p, Handshake(p))
<1>1. ASSUME NEW f \in {"login", "subscribe", "authorize"},
             f = "login" => dialect = "cortex",
             f = "subscribe" => dialect = "subscribe",
             f = "authorize" => dialect \in {"subscribe", "pearlhash"}
      PROVE  Calm(p, [p EXCEPT !.pending = {f}])
  <2> DEFINE a == [p EXCEPT !.pending = {f}]
  <2>1. p \in PoolConfig
    BY DEF Kept
  <2>2. /\ a \in PoolConfig /\ a.socket = p.socket /\ a.requests = p.requests
        /\ a.last_job = p.last_job /\ SamePending(p, a) /\ SameTotals(p, a)
        /\ a.pending = {f} /\ a.protocol = p.protocol
        /\ a.pending_job = p.pending_job /\ a.logged_in = p.logged_in
    BY <2>1 DEF PoolConfig, SamePending, SameTotals
  <2> HIDE DEF a
  <2>3. Standing(a, dialect, granted)
    BY <1>1, <2>2 DEF Kept, Standing
  <2>4. Calm(p, a)
    BY <2>2, <2>3 DEF Calm, Kept, Wrote
  <2> QED
    BY <2>4 DEF a
<1>2. CortexLoginId \in Nat
  BY DEF CortexLoginId
<1>3. CASE dialect = "cortex"
  <2> DEFINE a == [p EXCEPT !.pending = {"login"}]
  <2>1. Handshake(p) = pool_write(a, Request("login", CortexLoginId))
    BY <1>3 DEF Handshake
  <2>2. Calm(p, a)
    BY <1>1, <1>3
  <2> HIDE DEF a
  <2>3. Asked(Request("login", CortexLoginId), dialect)
    BY <1>3 DEF Asked, Request
  <2>4. Calm(a, pool_write(a, Request("login", CortexLoginId)))
    BY <1>2, <2>2, <2>3, WriteOK DEF Calm
  <2> QED
    BY <2>1, <2>2, <2>4, CalmChain DEF Calm
<1>4. CASE dialect = "subscribe"
  <2> DEFINE a == [p EXCEPT !.pending = {"subscribe"}]
  <2>1. Handshake(p) = pool_write(a, Request("subscribe", 1))
    BY <1>4 DEF Handshake
  <2>2. Calm(p, a)
    BY <1>1, <1>4
  <2> HIDE DEF a
  <2>3. Asked(Request("subscribe", 1), dialect)
    BY <1>4 DEF Asked, Request
  <2>4. Calm(a, pool_write(a, Request("subscribe", 1)))
    BY <2>2, <2>3, WriteOK DEF Calm
  <2> QED
    BY <2>1, <2>2, <2>4, CalmChain DEF Calm
<1>5. CASE dialect = "pearlhash"
  <2> DEFINE a == [p EXCEPT !.pending = {"authorize"}]
             b == pool_write(a, Request("subscribe", 1))
  <2>1. Handshake(p) = pool_write(b, Request("authorize", 2))
    BY <1>5 DEF Handshake
  <2>2. Calm(p, a)
    BY <1>1, <1>5
  <2>3. Asked(Request("subscribe", 1), dialect) /\ Asked(Request("authorize", 2), dialect)
    BY <1>5 DEF Asked, Request
  <2> HIDE DEF a
  <2>4. Calm(a, b)
    BY <2>2, <2>3, WriteOK DEF Calm
  <2> HIDE DEF b
  <2>5. Calm(b, pool_write(b, Request("authorize", 2)))
    BY <2>3, <2>4, WriteOK DEF Calm
  <2> QED
    BY <2>1, <2>2, <2>4, <2>5, CalmChain DEF Calm
<1>6. CASE dialect \notin {"cortex", "subscribe", "pearlhash"}
  <2>1. Handshake(p) = pool_write(p, Request("login", 1))
    BY <1>6 DEF Handshake
  <2>2. Asked(Request("login", 1), dialect)
    BY <1>6 DEF Asked, Request
  <2> QED
    BY <2>1, <2>2, WriteOK DEF Calm
<1> QED
  BY <1>3, <1>4, <1>5, <1>6

\* The handshake begins on a connection with nothing in flight.
LEMMA ConnectStep ==
    ASSUME IInv, handlePoolConnect
    PROVE  IInv'
<1> DEFINE a == [pool EXCEPT !.socket = TRUE]
<1>1. /\ pool \in PoolConfig /\ pool.socket = FALSE /\ pool = Cleared(pool) /\ wire = << >>
      /\ Standing(pool, dialect, granted)
  BY DEF IInv, TypeOK, handlePoolConnect, PoolConfig
<1>2. pool.requests = {} /\ pool.pending_submit_count = 0 /\ pool.pending_cortex_submit_ids = {}
  BY <1>1 DEF Cleared
<1>3. /\ a \in PoolConfig /\ a.socket = TRUE /\ a.requests = {}
      /\ a.last_job = pool.last_job /\ SamePending(pool, a) /\ SameTotals(pool, a)
      /\ a.pending = pool.pending /\ a.protocol = pool.protocol
      /\ a.pending_job = pool.pending_job /\ a.logged_in = pool.logged_in
  BY <1>1, <1>2 DEF PoolConfig, SamePending, SameTotals
<1>4. pool' = Handshake(a)
  BY DEF handlePoolConnect
<1> HIDE DEF a
<1>5. Kept(a)
  BY <1>1, <1>3 DEF Kept, Standing
<1>6. /\ Kept(pool') /\ Wrote(a, pool') /\ SamePending(a, pool') /\ SameTotals(a, pool')
  BY <1>4, <1>5, HandshakeOK
<1>7. UNCHANGED <<dialect, cortexId, drain, wire, shares, announced, repeats, granted, latest>>
      /\ connections' = connections + 1
  BY DEF handlePoolConnect, poolSide
<1>8. TypeOK'
  <2>1. {shares', announced', repeats', connections'} \subseteq Nat /\ cortexId' \in Nat
    BY <1>7 DEF IInv, TypeOK
  <2>2. /\ dialect' \in Dialects /\ drain' \in {"off", "waiting", "drained", "expired"}
        /\ wire' \in Seq(Messages) /\ granted' \in BOOLEAN
        /\ latest' \in Jobs \cup {Malformed, NoJob}
    BY <1>7 DEF IInv, TypeOK
  <2>3. pool' \in PoolConfig /\ pool'.socket = TRUE
    BY <1>6 DEF Kept
  <2> QED
    BY <2>1, <2>2, <2>3 DEF TypeOK, PoolConfig, Messages, Requests, Protocols, Modes
<1>9. \A r \in pool'.requests : Asked(r, dialect) /\ r.what # "share"
  BY <1>3, <1>6 DEF Wrote
<1>10. Framed' /\ Numbered'
  BY <1>7, <1>9 DEF IInv, Framed, Numbered, Below
<1>11. Standing(pool', dialect', granted')
  BY <1>6, <1>7 DEF Kept
<1>12. Counted(pool', dialect', shares')
  BY <1>2, <1>3, <1>6, <1>7 DEF IInv, Counted, SamePending, SameTotals
<1>13. Tracked'
  <2>1. Range(wire') = {} /\ DOMAIN wire' = {}
    BY <1>1, <1>7 DEF Range
  <2>2. Unsettled(pool'.requests, wire', "id") = {} /\ Unsettled(pool'.requests, wire', "cortex") = {}
    BY <1>9, <2>1 DEF Unsettled
  <2>3. Once(pool'.requests, wire')
    BY <2>1 DEF Once
  <2> QED
    BY <1>2, <1>3, <1>6, <2>2, <2>3, FS_EmptySet DEF Tracked, Tracks, SamePending
<1> QED
  BY <1>8, <1>10, <1>11, <1>12, <1>13 DEF IInv

\* Disconnect.
LEMMA DisconnectStep ==
    ASSUME IInv, Disconnect
    PROVE  IInv'
BY GivenUp DEF Disconnect

\* A share is written, and its id kept if it is a Cortex one.
LEMMA ShareWriteOK ==
    ASSUME NEW p, Kept(p), NEW mode \in Modes, NEW n \in Nat,
           NEW ids \in SUBSET Nat, NEW r, r = ShareRequest(mode, n),
           NEW q, q = pool_write([p EXCEPT !.pending_cortex_submit_ids = ids], r)
    PROVE  /\ Kept(q) /\ q.requests = p.requests \cup {r}
           /\ r \in Requests /\ r.what = "share" /\ r.mode = mode /\ r.n = n
           /\ q.pending_submit_count =
                 (IF mode = "id" THEN p.pending_submit_count + 1 ELSE p.pending_submit_count)
           /\ q.pending_cortex_submit_ids = ids /\ SameTotals(p, q)
<1> DEFINE a == [p EXCEPT !.pending_cortex_submit_ids = ids]
           k == IF mode = "id" THEN p.pending_submit_count + 1 ELSE p.pending_submit_count
<1>1. r \in Requests /\ r.what = "share" /\ r.mode = mode /\ r.n = n
  BY DEF ShareRequest, Requests, SubmitId, Modes
<1>2. p \in PoolConfig /\ p.socket = TRUE
  BY DEF Kept
<1>3. /\ a \in PoolConfig /\ a.socket = TRUE /\ a.requests = p.requests
      /\ a.logged_in = p.logged_in /\ a.last_job = p.last_job /\ a.protocol = p.protocol
      /\ a.pending = p.pending /\ a.pending_job = p.pending_job
      /\ a.pending_submit_count = p.pending_submit_count
      /\ a.pending_cortex_submit_ids = ids /\ SameTotals(p, a)
  BY <1>2 DEF PoolConfig, SameTotals
<1>4. q = [a EXCEPT !.requests = @ \cup {r}, !.pending_submit_count = k]
  BY <1>1, <1>3 DEF pool_write
<1>5. k \in Int
  BY <1>2 DEF PoolConfig
<1> HIDE DEF k, a
<1>6. /\ q \in PoolConfig /\ q.socket = TRUE
      /\ q.requests = p.requests \cup {r}
      /\ q.logged_in = p.logged_in /\ q.last_job = p.last_job /\ q.protocol = p.protocol
      /\ q.pending = p.pending /\ q.pending_job = p.pending_job
      /\ q.pending_submit_count = k /\ q.pending_cortex_submit_ids = ids /\ SameTotals(p, q)
  <2>1. a.requests \cup {r} \in SUBSET Requests
    BY <1>1, <1>3 DEF PoolConfig
  <2>2. q \in PoolConfig
    BY <1>3, <1>4, <1>5, <2>1 DEF PoolConfig
  <2>3. /\ q.requests = a.requests \cup {r} /\ q.pending_submit_count = k
        /\ q.socket = a.socket /\ q.logged_in = a.logged_in /\ q.last_job = a.last_job
        /\ q.protocol = a.protocol /\ q.pending = a.pending /\ q.pending_job = a.pending_job
        /\ q.pending_cortex_submit_ids = a.pending_cortex_submit_ids /\ SameTotals(a, q)
    BY <1>3, <1>4 DEF PoolConfig, SameTotals
  <2> QED
    BY <1>3, <2>2, <2>3 DEF SameTotals
<1>7. Standing(q, dialect, granted)
  BY <1>6 DEF Kept, Standing
<1> QED
  BY <1>1, <1>6, <1>7 DEF Kept, k

\* A share that no other share in flight is numbered like.
LEMMA TracksShare ==
    ASSUME NEW p, NEW q, NEW w, NEW r, Tracks(p, w),
           q.requests = p.requests \cup {r}, r.what = "share",
           \A x \in p.requests \cup Range(w) : x.what = "share" => x.n # r.n,
           r.mode = "id" => /\ q.pending_submit_count = p.pending_submit_count + 1
                            /\ q.pending_cortex_submit_ids = p.pending_cortex_submit_ids,
           r.mode = "cortex" =>
               /\ q.pending_submit_count = p.pending_submit_count
               /\ q.pending_cortex_submit_ids = p.pending_cortex_submit_ids \cup {r.n},
           r.mode \notin {"id", "cortex"} => SamePending(p, q)
    PROVE  Tracks(q, w)
<1> DEFINE U(mode) == Unsettled(p.requests, w, mode)
           V(mode) == Unsettled(q.requests, w, mode)
<1>1. Once(q.requests, w)
  <2>1. \A i \in DOMAIN w : w[i] \in Range(w)
    BY DEF Range
  <2> QED
    BY <2>1 DEF Once, Tracks
<1>2. ASSUME NEW mode PROVE V(mode) = IF mode = r.mode THEN U(mode) \cup {r.n} ELSE U(mode)
  <2>1. ASSUME NEW k
        PROVE  k \in V(mode) <=> k \in U(mode) \/ (mode = r.mode /\ k = r.n)
    <3>1. /\ k \in V(mode) <=>
               \E x \in q.requests \cup Range(w) : x.what = "share" /\ x.mode = mode /\ x.n = k
          /\ k \in U(mode) <=>
               \E x \in p.requests \cup Range(w) : x.what = "share" /\ x.mode = mode /\ x.n = k
      BY UnsettledIs
    <3> QED
      BY <3>1
  <2> QED
    BY <2>1
<1>3. r.n \notin U("id")
  BY UnsettledIs
<1>4. IsFiniteSet(U("id")) /\ p.pending_submit_count = Cardinality(U("id"))
      /\ p.pending_cortex_submit_ids = U("cortex")
  BY DEF Tracks
<1>5. IsFiniteSet(U("id") \cup {r.n}) /\ Cardinality(U("id") \cup {r.n}) = Cardinality(U("id")) + 1
  BY <1>3, <1>4, FS_AddElement
<1>6. V("id") = (IF r.mode = "id" THEN U("id") \cup {r.n} ELSE U("id"))
      /\ V("cortex") = (IF r.mode = "cortex" THEN U("cortex") \cup {r.n} ELSE U("cortex"))
  BY <1>2
<1> HIDE DEF U
<1>7. CASE r.mode = "id"
  BY <1>1, <1>4, <1>5, <1>6, <1>7 DEF Tracks
<1>8. CASE r.mode = "cortex"
  BY <1>1, <1>4, <1>6, <1>8 DEF Tracks
<1>9. CASE r.mode \notin {"id", "cortex"}
  BY <1>1, <1>4, <1>6, <1>9 DEF Tracks, SamePending
<1> QED
  BY <1>7, <1>8, <1>9

\* One share more, in the totals as in what is pending.
LEMMA CountedShare ==
    ASSUME NEW p, NEW q, NEW d, NEW k \in Nat, NEW c, Counted(p, d, k), SameTotals(p, q),
           p.good_shares \in Nat, p.bad_shares \in Nat,
           \/ /\ q.pending_submit_count = p.pending_submit_count + 1
              /\ q.pending_cortex_submit_ids = p.pending_cortex_submit_ids
           \/ /\ q.pending_submit_count = p.pending_submit_count
              /\ q.pending_cortex_submit_ids \in
                    {p.pending_cortex_submit_ids, p.pending_cortex_submit_ids \cup {c}}
    PROVE  Counted(q, d, k + 1)
<1> DEFINE S == p.pending_cortex_submit_ids
           T == q.pending_cortex_submit_ids
           n == p.pending_submit_count
           l == q.pending_submit_count
           g == p.good_shares
           b == p.bad_shares
<1>1. IsFiniteSet(S) /\ n \in Nat /\ Cardinality(S) \in Nat
  BY FS_CardinalityType DEF Counted
<1>2. /\ IsFiniteSet(S \cup {c})
      /\ Cardinality(S \cup {c}) = Cardinality(S) \/ Cardinality(S \cup {c}) = Cardinality(S) + 1
  BY <1>1, FS_AddElement
<1>3. /\ IsFiniteSet(T) /\ l \in Nat
      /\ \/ l = n + 1 /\ Cardinality(T) = Cardinality(S)
         \/ l = n /\ Cardinality(T) = Cardinality(S)
         \/ l = n /\ Cardinality(T) = Cardinality(S) + 1
  <2>1. n + 1 \in Nat
    BY <1>1
  <2>2. CASE l = n + 1 /\ T = S
    BY <1>1, <2>1, <2>2
  <2>3. CASE l = n /\ T \in {S, S \cup {c}}
    BY <1>1, <1>2, <2>3
  <2> QED
    BY <2>2, <2>3
<1>4. g + b + n + Cardinality(S) <= k => g + b + l + Cardinality(T) <= k + 1
  <2> HIDE DEF S, T, n, l, g, b
  <2>1. g \in Nat /\ b \in Nat
    BY DEF g, b
  <2> QED
    BY <1>1, <1>3, <2>1
<1> QED
  BY <1>3, <1>4 DEF Counted, SameTotals

LEMMA ResultStep ==
    ASSUME IInv, handleResult
    PROVE  IInv'
<1> DEFINE mode == pool.last_job.mode
           n == IF mode = "cortex" THEN cortexId' ELSE shares + 1
           r == ShareRequest(mode, n)
           ids == IF mode = "cortex" THEN pool.pending_cortex_submit_ids \cup {cortexId'}
                  ELSE pool.pending_cortex_submit_ids
<1>1. /\ pool \in PoolConfig /\ pool.last_job.job # NoJob /\ mode \in Modes
      /\ pool.pending_cortex_submit_ids \in SUBSET Nat
      /\ cortexId \in Nat /\ shares \in Nat /\ WorkId \in Nat
      /\ pool.good_shares \in Nat /\ pool.bad_shares \in Nat
  BY SessionAssumption DEF IInv, TypeOK, PoolConfig, handleResult
<1>2. pool.socket
  <2>1. pool.last_job # Idle
    BY <1>1 DEF Idle
  <2>2. pool # Cleared(pool)
    BY <2>1 DEF Cleared
  <2> QED
    BY <2>2 DEF IInv, TypeOK
<1>3. Kept(pool)
  BY <1>2, Opened
<1>4. /\ cortexId' \in Nat /\ cortexId' >= cortexId
      /\ mode = "cortex" => cortexId' > cortexId /\ cortexId' # WorkId
  <2>1. mode = "cortex" => cortexId' = nextCortexSubmitId(cortexId)
    BY DEF handleResult
  <2>2. mode # "cortex" => cortexId' = cortexId
    BY DEF handleResult
  <2>3. LET c == nextCortexSubmitId(cortexId) IN c \in Nat /\ c > cortexId /\ c # WorkId
    BY <1>1 DEF nextCortexSubmitId
  <2> QED
    BY <1>1, <2>1, <2>2, <2>3
<1>5. n \in Nat /\ ids \in SUBSET Nat
  BY <1>1, <1>4
<1>6. pool' = pool_write([pool EXCEPT !.pending_cortex_submit_ids = ids], r)
  <2>1. CASE mode = "cortex"
    BY <2>1 DEF handleResult
  <2>2. CASE mode # "cortex"
    <3>1. [pool EXCEPT !.pending_cortex_submit_ids = pool.pending_cortex_submit_ids] = pool
      BY <1>1 DEF PoolConfig
    <3> QED
      BY <2>2, <3>1 DEF handleResult
  <2> QED
    BY <2>1, <2>2
<1>7. UNCHANGED <<dialect, drain, wire, connections, announced, repeats, granted, latest>>
      /\ shares' = shares + 1
  BY DEF handleResult, poolSide
<1>r. r = ShareRequest(mode, n)
  OBVIOUS
<1> HIDE DEF mode, n, ids, r
<1>8. /\ Kept(pool') /\ pool'.requests = pool.requests \cup {r}
      /\ r \in Requests /\ r.what = "share" /\ r.mode = mode /\ r.n = n
      /\ pool'.pending_submit_count =
            (IF mode = "id" THEN pool.pending_submit_count + 1 ELSE pool.pending_submit_count)
      /\ pool'.pending_cortex_submit_ids = ids /\ SameTotals(pool, pool')
  BY <1>1, <1>3, <1>5, <1>6, <1>r, ShareWriteOK
<1>9. TypeOK'
  <2>1. {shares', announced', repeats', connections'} \subseteq Nat
    BY <1>1, <1>7 DEF IInv, TypeOK
  <2> QED
    BY <1>4, <1>7, <1>8, <2>1 DEF IInv, TypeOK, Kept, PoolConfig, Messages, Requests,
       Protocols, Modes
<1>10. Keeps(dialect) => mode = SubmitMode(dialect)
  BY <1>1 DEF IInv, Standing, mode
<1>11. cortexId >= CortexLoginId
  BY DEF IInv, Numbered
<1>12. Asked(r, dialect)
  <2>1. r.id = ShareRequest(r.mode, r.n).id
    BY <1>8, <1>r
  <2>2. mode = "cortex" => n > CortexLoginId /\ n # WorkId
    BY <1>1, <1>4, <1>11 DEF n, CortexLoginId
  <2> QED
    BY <1>8, <1>10, <2>1, <2>2 DEF Asked
<1>13. Framed'
  BY <1>7, <1>8, <1>12 DEF IInv, Framed
<1>14. Standing(pool', dialect', granted')
  BY <1>7, <1>8 DEF Kept
<1>15. Counted(pool', dialect', shares')
  <2>1. Counted(pool, dialect, shares)
    BY DEF IInv
  <2>2. \/ /\ pool'.pending_submit_count = pool.pending_submit_count + 1
           /\ pool'.pending_cortex_submit_ids = pool.pending_cortex_submit_ids
        \/ /\ pool'.pending_submit_count = pool.pending_submit_count
           /\ pool'.pending_cortex_submit_ids \in
                 {pool.pending_cortex_submit_ids, pool.pending_cortex_submit_ids \cup {cortexId'}}
    BY <1>8 DEF ids
  <2>3. Counted(pool', dialect, shares + 1)
    BY <1>1, <1>8, <2>1, <2>2, CountedShare
  <2> QED
    BY <1>7, <2>3
<1>16. /\ \A x \in pool.requests : x.n \in Nat /\ Below(x, cortexId, shares)
       /\ \A x \in Range(wire) : x.n \in Nat /\ Below(x, cortexId, shares)
  <2>1. \A x \in Range(wire) : x \in Messages
    BY DEF IInv, TypeOK, Range
  <2>2. \A x \in pool.requests : x \in Requests
    BY <1>1 DEF PoolConfig
  <2> QED
    BY <2>1, <2>2 DEF IInv, Numbered, Messages, Requests
<1>17. Numbered'
  <2>1. ASSUME NEW x, x.n \in Nat, Below(x, cortexId, shares)
        PROVE  Below(x, cortexId', shares + 1)
    BY <1>1, <1>4, <2>1 DEF Below
  <2>2. Below(r, cortexId', shares + 1)
    BY <1>1, <1>4, <1>8 DEF Below, n
  <2>3. cortexId' >= CortexLoginId
    BY <1>1, <1>4, <1>11 DEF CortexLoginId
  <2> QED
    BY <1>7, <1>8, <1>16, <2>1, <2>2, <2>3 DEF Numbered
<1>18. Tracked'
  <2> SUFFICES ASSUME Keeps(dialect), repeats = 0 PROVE Tracks(pool', wire)
    BY <1>7 DEF Tracked
  <2>1. Tracks(pool, wire)
    BY DEF IInv, Tracked
  <2>2. \A x \in pool.requests \cup Range(wire) : x.mode = mode
    BY <1>10 DEF IInv, Framed, Sent, Asked
  <2>3. \A x \in pool.requests \cup Range(wire) : x.what = "share" => x.n # r.n
    BY <1>1, <1>4, <1>8, <1>16, <2>2 DEF Below, n
  <2> QED
    BY <1>8, <2>1, <2>3, TracksShare DEF SamePending, ids, n
<1> QED
  BY <1>9, <1>13, <1>14, <1>15, <1>17, <1>18 DEF IInv

\* A message about no share changes nothing of the books.
LEMMA TracksNotify ==
    ASSUME NEW p, NEW w \in Seq(Messages), NEW e \in Messages, Tracks(p, w), e.what # "share"
    PROVE  Tracks(p, Append(w, e))
<1>1. Range(Append(w, e)) = Range(w) \cup {e}
  BY AppendRange
<1>2. Once(p.requests, Append(w, e))
  BY OnceAppend DEF Tracks
<1>3. ASSUME NEW mode
      PROVE  Unsettled(p.requests, Append(w, e), mode) = Unsettled(p.requests, w, mode)
  BY <1>1, UnsettledSame
<1> QED
  BY <1>2, <1>3 DEF Tracks

\* Neither does the answer e that takes the place of its request r.
LEMMA TracksAnswer ==
    ASSUME NEW p, NEW q, NEW w \in Seq(Messages), NEW e \in Messages, Tracks(p, w),
           NEW r \in p.requests, q.requests = p.requests \ {r}, SamePending(p, q),
           e.what = r.what, e.mode = r.mode, e.n = r.n,
           \A x \in p.requests : x.what = "share" /\ r.what = "share" /\ x.n = r.n => x = r
    PROVE  Tracks(q, Append(w, e))
<1> DEFINE v == Append(w, e)
<1>1. Range(v) = Range(w) \cup {e}
  BY AppendRange
<1>2. \A x \in q.requests \cup Range(w) : x.what = "share" /\ e.what = "share" => x.n # e.n
  <2>1. ASSUME NEW x \in Range(w), x.what = "share", e.what = "share" PROVE x.n # e.n
    <3>1. PICK i \in DOMAIN w : x = w[i]
      BY <2>1 DEF Range
    <3> QED
      BY <2>1, <3>1 DEF Tracks, Once
  <2> QED
    BY <2>1
<1>3. Once(q.requests, v)
  BY <1>2, OnceAppend DEF Tracks
<1> HIDE DEF v
<1>4. ASSUME NEW mode
      PROVE  Unsettled(q.requests, v, mode) = Unsettled(p.requests, w, mode)
  <2>1. ASSUME NEW k
        PROVE  k \in Unsettled(q.requests, v, mode) <=> k \in Unsettled(p.requests, w, mode)
    <3>1. /\ k \in Unsettled(q.requests, v, mode) <=>
               \E x \in q.requests \cup Range(v) : x.what = "share" /\ x.mode = mode /\ x.n = k
          /\ k \in Unsettled(p.requests, w, mode) <=>
               \E x \in p.requests \cup Range(w) : x.what = "share" /\ x.mode = mode /\ x.n = k
      BY UnsettledIs
    <3>2. /\ r \in p.requests \cup Range(w) /\ e \in q.requests \cup Range(v)
          /\ \A x \in q.requests \cup Range(v) : x \in p.requests \cup Range(w) \/ x = e
          /\ \A x \in p.requests \cup Range(w) : x \in q.requests \cup Range(v) \/ x = r
      BY <1>1
    <3> QED
      BY <3>1, <3>2
  <2> QED
    BY <2>1
<1> QED
  BY <1>3, <1>4 DEF Tracks, SamePending, v

\* More answers may be accepted, fewer not.
LEMMA GrantedLater ==
    ASSUME NEW g, NEW h, g => h
    PROVE  /\ \A m : Sent(m, dialect, g) => Sent(m, dialect, h)
           /\ \A p : Standing(p, dialect, g) => Standing(p, dialect, h)
BY DEF Sent, Standing

LEMMA AnswerStep ==
    ASSUME IInv, NEW r \in pool.requests, NEW ok \in BOOLEAN,
           NEW job \in Announced \cup {NoJob}, NEW family \in Families \cup {dialect},
           NEW again \in BOOLEAN, Answer(r, ok, job, family, again)
    PROVE  IInv'
<1> DEFINE e == [what |-> r.what, mode |-> r.mode, id |-> r.id, n |-> r.n,
                 ok |-> ok, job |-> job, family |-> family]
           rs == IF again THEN pool.requests ELSE pool.requests \ {r}
<1>1. /\ pool \in PoolConfig /\ pool.socket = TRUE /\ r \in Requests /\ wire \in Seq(Messages)
      /\ dialect \in Dialects /\ repeats \in Nat /\ granted \in BOOLEAN
  BY DEF IInv, TypeOK, PoolConfig, Answer
<1>2. family \in Protocols
  BY <1>1 DEF Protocols
<1>3. e \in Messages /\ e.what = r.what /\ e.mode = r.mode /\ e.n = r.n /\ e.id = r.id
      /\ e.ok = ok /\ e.job = job /\ e.family = family
  BY <1>1, <1>2 DEF Messages, Requests
<1>4. /\ pool' = [pool EXCEPT !.requests = rs]
      /\ wire' = Append(wire, e)
      /\ granted' = (granted \/ (ok /\ r.what \in {"login", "authorize"}))
      /\ latest' = (IF job \in {NoJob, Undecoded} THEN latest ELSE job)
      /\ repeats' = repeats + (IF again THEN 1 ELSE 0)
      /\ UNCHANGED <<dialect, cortexId, drain, shares, announced, connections>>
  BY <1>1 DEF Answer, PoolConfig
<1>5. /\ job # NoJob => ok /\ (r.what = "work" \/ (r.what = "login" /\ dialect = "login"))
      /\ job = Undecoded => r.what = "work"
      /\ family = dialect \/ (r.what = "login" /\ dialect = "login")
  BY DEF Answer
<1> HIDE DEF e
<1>6. rs \in SUBSET Requests /\ rs \subseteq pool.requests
  BY <1>1 DEF PoolConfig
<1> HIDE DEF rs
<1>7. /\ pool' \in PoolConfig /\ pool'.socket = TRUE /\ pool'.requests = rs
      /\ pool'.logged_in = pool.logged_in /\ pool'.last_job = pool.last_job
      /\ pool'.protocol = pool.protocol /\ pool'.pending = pool.pending
      /\ pool'.pending_job = pool.pending_job
      /\ SamePending(pool, pool') /\ SameTotals(pool, pool')
  BY <1>1, <1>4, <1>6 DEF PoolConfig, SamePending, SameTotals
<1>8. wire' \in Seq(Messages) /\ Range(wire') = Range(wire) \cup {e}
  BY <1>1, <1>3, <1>4, AppendRange
<1>9. repeats' \in Nat /\ (repeats' = 0 => repeats = 0 /\ ~again)
  BY <1>1, <1>4
<1>10. granted' \in BOOLEAN /\ (granted => granted')
  BY <1>1, <1>4
<1>11. TypeOK'
  <2>1. latest' \in Jobs \cup {Malformed, NoJob}
    BY <1>4 DEF IInv, TypeOK, Announced
  <2> QED
    <3>1. {shares', announced', repeats', connections'} \subseteq Nat /\ cortexId' \in Nat
      BY <1>4, <1>9 DEF IInv, TypeOK
    <3>2. dialect' \in Dialects /\ drain' \in {"off", "waiting", "drained", "expired"}
      BY <1>4 DEF IInv, TypeOK
    <3> QED
      BY <1>7, <1>8, <1>10, <2>1, <3>1, <3>2 DEF TypeOK, PoolConfig, Messages, Requests,
         Protocols, Modes
<1>12. Asked(r, dialect) /\ Below(r, cortexId, shares)
  BY DEF IInv, Framed, Numbered
<1>13. Sent(e, dialect, granted')
  <2>1. Asked(e, dialect)
    BY <1>3, <1>12 DEF Asked
  <2>2. e.what \in {"login", "authorize"} /\ e.ok => granted'
    BY <1>3, <1>4
  <2> QED
    BY <1>1, <1>3, <1>5, <2>1, <2>2 DEF Sent, Asked
<1>14. Framed'
  BY <1>4, <1>6, <1>7, <1>8, <1>10, <1>13, GrantedLater DEF IInv, Framed
<1>15. Standing(pool', dialect', granted')
  <2>1. Standing(pool, dialect, granted')
    BY <1>10, GrantedLater DEF IInv
  <2> QED
    BY <1>4, <1>7, <2>1 DEF Standing
<1>16. Counted(pool', dialect', shares')
  BY <1>4, <1>7 DEF IInv, Counted, SamePending, SameTotals
<1>17. Numbered'
  <2>1. Below(e, cortexId, shares)
    BY <1>3, <1>12 DEF Below
  <2> QED
    BY <1>4, <1>6, <1>7, <1>8, <2>1 DEF IInv, Numbered
<1>18. Tracked'
  <2> SUFFICES ASSUME Keeps(dialect), repeats' = 0 PROVE Tracks(pool', wire')
    BY <1>4 DEF Tracked
  <2>1. Tracks(pool, wire) /\ pool'.requests = pool.requests \ {r}
    BY <1>7, <1>9 DEF IInv, Tracked, rs
  <2>2. ASSUME NEW x \in pool.requests, x.what = "share", r.what = "share", x.n = r.n
        PROVE  x = r
    <3>1. Asked(x, dialect) /\ x \in Requests
      BY <1>1 DEF IInv, Framed, PoolConfig
    <3>2. x.mode = r.mode
      BY <1>12, <3>1 DEF Asked
    <3>3. x.id = r.id
      BY <1>12, <2>2, <3>1, <3>2 DEF Asked
    <3> QED
      BY <1>1, <2>2, <3>1, <3>2, <3>3 DEF Requests
  <2> QED
    BY <1>1, <1>3, <1>4, <1>7, <2>1, <2>2, TracksAnswer
<1> QED
  BY <1>11, <1>14, <1>15, <1>16, <1>17, <1>18 DEF IInv

LEMMA AnnounceStep ==
    ASSUME IInv, NEW job \in Announced, NEW family \in Families \cup {dialect},
           NEW generic \in BOOLEAN, Announce(job, family, generic)
    PROVE  IInv'
<1> DEFINE mode == IF generic THEN "id" ELSE SubmitMode(family)
           e == [what |-> "notify", id |-> 0, n |-> 0, ok |-> TRUE,
                 mode |-> mode, job |-> job, family |-> family]
<1>1. /\ pool \in PoolConfig /\ pool.socket = TRUE /\ wire \in Seq(Messages)
      /\ dialect \in Dialects /\ announced \in Nat
  BY DEF IInv, TypeOK, PoolConfig, Announce
<1>2. family \in Protocols /\ mode \in Modes
  BY <1>1 DEF Protocols, Modes, SubmitMode
<1>3. /\ wire' = Append(wire, e)
      /\ latest' \in {job, latest, NoJob} /\ (job = Undecoded => latest' \in {latest, NoJob})
      /\ announced' = announced + 1
      /\ UNCHANGED <<dialect, pool, cortexId, drain, shares, repeats, granted, connections>>
  BY SessionAssumption DEF Announce
<1>4. /\ family = dialect \/ (dialect = "login" /\ family \in Families)
      /\ generic => dialect = "login"
  BY DEF Announce
<1>5. Keeps(dialect) => mode = SubmitMode(dialect)
  BY <1>4 DEF Keeps, SubmitMode
<1> HIDE DEF mode
<1>6. e \in Messages /\ e.what = "notify" /\ e.mode = mode /\ e.family = family
  BY <1>2 DEF Messages
<1> HIDE DEF e
<1>7. wire' \in Seq(Messages) /\ Range(wire') = Range(wire) \cup {e}
  BY <1>1, <1>3, <1>6, AppendRange
<1>8. TypeOK'
  <2>1. announced' \in Nat /\ latest' \in Jobs \cup {Malformed, NoJob}
    BY <1>1, <1>3 DEF IInv, TypeOK, Announced
  <2> QED
    BY <1>1, <1>3, <1>7, <2>1 DEF IInv, TypeOK, PoolConfig, Messages, Requests, Protocols, Modes
<1>9. Sent(e, dialect, granted)
  BY <1>4, <1>5, <1>6 DEF Sent, Asked
<1>10. Framed'
  BY <1>3, <1>7, <1>9 DEF IInv, Framed
<1>11. Standing(pool', dialect', granted') /\ Counted(pool', dialect', shares')
  BY <1>3 DEF IInv
<1>12. Numbered'
  BY <1>3, <1>6, <1>7 DEF IInv, Numbered, Below
<1>13. Tracked'
  BY <1>1, <1>3, <1>6, TracksNotify DEF IInv, Tracked
<1> QED
  BY <1>8, <1>10, <1>11, <1>12, <1>13 DEF IInv

\* The totals grow by what was pending.
LEMMA CountedRead ==
    ASSUME NEW p, Kept(p), NEW q, NEW m, NEW k \in Nat, Counted(p, dialect, k),
           q # Cleared(p), Outcome(p, q, m)
    PROVE  Counted(q, dialect, k)
<1> DEFINE S == p.pending_cortex_submit_ids
           n == p.pending_submit_count
           t == p.good_shares + p.bad_shares
<1>1. IsFiniteSet(S) /\ n \in Nat /\ Cardinality(S) \in Nat
  BY FS_CardinalityType DEF Counted
<1>2. p.good_shares \in Nat /\ p.bad_shares \in Nat /\ t \in Nat
  BY DEF Kept, PoolConfig
<1>3. CASE Calm(p, q)
  BY <1>3 DEF Calm, SamePending, SameTotals, Counted
<1>4. CASE Settled(p, q, m)
  <2>1. q.good_shares + q.bad_shares = t + 1
    BY <1>4 DEF Settled, OneMore
  <2>2. CASE /\ n > 0 /\ q.pending_submit_count = n - 1
             /\ q.pending_cortex_submit_ids = S
    <3>1. n - 1 \in Nat
      BY <1>1, <2>2
    <3>2. (t + 1) + (n - 1) + Cardinality(S) = t + n + Cardinality(S)
      BY <1>1, <1>2, <3>1
    <3> QED
      BY <1>1, <2>1, <2>2, <3>1, <3>2 DEF Counted
  <2>3. CASE /\ m.id \in S /\ q.pending_submit_count = n
             /\ q.pending_cortex_submit_ids = S \ {m.id}
    <3>1. IsFiniteSet(S \ {m.id}) /\ Cardinality(S \ {m.id}) = Cardinality(S) - 1
      BY <1>1, <2>3, FS_RemoveElement
    <3>2. (t + 1) + n + (Cardinality(S) - 1) = t + n + Cardinality(S)
      BY <1>1, <1>2
    <3> QED
      BY <1>1, <2>1, <2>3, <3>1, <3>2 DEF Counted
  <2>4. CASE p.protocol \in {"ironfish", "beam"} /\ SamePending(p, q)
    <3>1. ({dialect} \cup Families) \cap {"ironfish", "beam"} # {}
      BY <2>4 DEF Kept, Standing
    <3> QED
      BY <1>1, <2>4, <3>1 DEF Counted, SamePending
  <2> QED
    BY <1>4, <2>2, <2>3, <2>4 DEF Settled
<1> QED
  BY <1>3, <1>4 DEF Outcome, Quiet

LEMMA ReadStep ==
    ASSUME IInv, Read
    PROVE  IInv'
<1> DEFINE m == Head(wire)
<1>1. wire # << >> /\ wire \in Seq(Messages) /\ shares \in Nat /\ dialect \in Dialects
      /\ pool \in PoolConfig
  BY DEF IInv, TypeOK, Read
<1>2. Kept(pool)
  BY <1>1, Opened DEF IInv, TypeOK
<1>3. m \in Messages /\ Tail(wire) \in Seq(Messages) /\ Range(wire) = Range(Tail(wire)) \cup {m}
  BY <1>1, TailRange
<1>4. Sent(m, dialect, granted)
  BY <1>3 DEF IInv, Framed
<1>5. Outcome(pool, pool', m) /\ pool' = pool_message(pool, m)
  BY <1>2, <1>3, <1>4, MessageOK DEF Read
<1>6. UNCHANGED <<dialect, cortexId, drain, shares, announced, repeats, connections>>
  BY DEF Read
<1>7. CASE pool' = Cleared(pool)
  <2>1. pool'.socket = FALSE
    BY <1>7 DEF Cleared
  <2>2. wire' = << >> /\ granted' = FALSE /\ latest' = NoJob
    BY <2>1 DEF Read
  <2> QED
    BY <1>6, <1>7, <2>2, GivenUp
<1>8. CASE pool' # Cleared(pool)
  <2>1. Kept(pool') /\ Wrote(pool, pool')
    BY <1>5, <1>8 DEF Outcome, Quiet, Calm, Settled
  <2>2. pool'.socket = TRUE /\ pool' \in PoolConfig
    BY <2>1 DEF Kept
  <2>3. wire' = Tail(wire) /\ latest' = latest
    BY <2>2 DEF Read
  <2>4. granted' = granted
    <3>1. granted \in BOOLEAN
      BY DEF IInv, TypeOK
    <3> QED
      BY <2>2, <3>1 DEF Read
  <2>5. TypeOK'
    BY <1>3, <1>6, <2>2, <2>3, <2>4 DEF IInv, TypeOK, PoolConfig, Messages, Requests,
       Protocols, Modes
  <2>6. Framed'
    BY <1>3, <1>6, <2>1, <2>3, <2>4 DEF IInv, Framed, Wrote
  <2>7. Standing(pool', dialect', granted')
    BY <1>6, <2>1, <2>4 DEF Kept
  <2>8. Counted(pool', dialect', shares')
    BY <1>1, <1>2, <1>5, <1>6, <1>8, CountedRead DEF IInv
  <2>9. Numbered'
    BY <1>3, <1>6, <2>1, <2>3 DEF IInv, Numbered, Wrote, Below
  <2>10. Tracked'
    <3> SUFFICES ASSUME Keeps(dialect), repeats = 0 PROVE Tracks(pool', Tail(wire))
      BY <1>6, <2>3 DEF Tracked
    <3> QED
      BY <1>1, <1>2, <1>5, <1>8, <2>1, TracksRead DEF IInv, Framed, Tracked
  <2> QED
    BY <2>5, <2>6, <2>7, <2>8, <2>9, <2>10 DEF IInv
<1> QED
  BY <1>7, <1>8

\* The drain looks at the session and leaves it alone.
LEMMA DrainStep ==
    ASSUME IInv, BeginDrain \/ waitForPendingShares \/ DrainDeadline \/ UNCHANGED vars
    PROVE  IInv'
<1>1. /\ UNCHANGED <<dialect, pool, cortexId, wire, shares, connections, announced, repeats,
                     granted, latest>>
      /\ drain' \in {"off", "waiting", "drained", "expired"}
  BY DEF IInv, TypeOK, BeginDrain, waitForPendingShares, DrainDeadline, vars, poolSide
<1>2. TypeOK'
  <2>1. Cleared(pool)' = Cleared(pool)
    BY <1>1 DEF Cleared
  <2> QED
    BY <1>1, <2>1 DEF IInv, TypeOK, PoolConfig, Messages, Requests, Protocols, Modes
<1>3. Framed' /\ Numbered' /\ Tracked'
  BY <1>1 DEF IInv, Framed, Numbered, Tracked
<1>4. Standing(pool', dialect', granted') /\ Counted(pool', dialect', shares')
  BY <1>1 DEF IInv
<1> QED
  BY <1>2, <1>3, <1>4 DEF IInv

LEMMA Inductive == IInv /\ [Next]_vars => IInv'
<1> SUFFICES ASSUME IInv, [Next]_vars PROVE IInv'
  OBVIOUS
<1>1. CASE PoolStep
  <2>1. CASE \E r \in pool.requests, ok \in BOOLEAN, job \in Announced \cup {NoJob},
                family \in Families \cup {dialect}, again \in BOOLEAN :
                   Answer(r, ok, job, family, again)
    BY <2>1, AnswerStep
  <2>2. CASE \E job \in Announced, family \in Families \cup {dialect},
                generic \in BOOLEAN : Announce(job, family, generic)
    BY <2>2, AnnounceStep
  <2> QED
    BY <1>1, <2>1, <2>2 DEF PoolStep
<1> QED
  BY <1>1, ConnectStep, ResultStep, ReadStep, DisconnectStep, DrainStep DEF Next

-----------------------------------------------------------------------------
(* The theorems.                                                           *)

\* Requests, answers and what is pending agree in every reachable state.
THEOREM Invariance == Spec => []IInv
BY InitOK, Inductive, PTL DEF Spec

\* The state has its types in every reachable state: a handler that throws
\* leaves the record clear_pool_connection does, and no job that did not decode
\* is stored.
THEOREM TypeCorrect == Spec => []TypeOK
<1>1. IInv => TypeOK
  BY DEF IInv
<1> QED
  BY <1>1, Invariance, PTL

\* Nothing is mined before the pool has accepted the login, in any dialect,
\* whatever it announces and in whatever order it answers: the ids of a
\* handshake tell its answers apart, so logged_in is set by an accepting one.
THEOREM MinesWithLogin == Spec => []MinesOnlyWhenGranted
<1>1. IInv => MinesOnlyWhenGranted
  BY DEF IInv, Standing, MinesOnlyWhenGranted
<1> QED
  BY <1>1, Invariance, PTL

\* The share totals never exceed the shares written, however often the pool
\* answers, where answers have ids.
THEOREM TotalsBounded == Spec => []SharesCountedOnce
<1>1. IInv => SharesCountedOnce
  <2> SUFFICES ASSUME IInv, ({dialect} \cup Families) \cap {"ironfish", "beam"} = {}
               PROVE  pool.good_shares + pool.bad_shares <= shares
    BY DEF SharesCountedOnce
  <2>1. /\ pool.good_shares \in Nat /\ pool.bad_shares \in Nat /\ shares \in Nat
        /\ pool.pending_submit_count \in Nat
        /\ Cardinality(pool.pending_cortex_submit_ids) \in Nat
    BY FS_CardinalityType DEF IInv, TypeOK, PoolConfig, Counted
  <2>2. pool.good_shares + pool.bad_shares + pool.pending_submit_count
           + Cardinality(pool.pending_cortex_submit_ids) <= shares
    BY DEF IInv, Counted
  <2> QED
    BY <2>1, <2>2
<1> QED
  BY <1>1, Invariance, PTL

LEMMA UnansweredIs ==
    ASSUME NEW mode
    PROVE  Unanswered(mode) = Unsettled(pool.requests, wire, mode)
BY DEF Unanswered, Unsettled, InFlight

\* What the pool does leaves the configuration and the drain alone.
LEMMA PoolStepKeeps == PoolStep => dialect' = dialect /\ drain' = drain
<1>1. ASSUME NEW r, NEW ok, NEW job, NEW family, NEW again, Answer(r, ok, job, family, again)
      PROVE  dialect' = dialect /\ drain' = drain
  BY <1>1 DEF Answer
<1>2. ASSUME NEW job, NEW family, NEW generic, Announce(job, family, generic)
      PROVE  dialect' = dialect /\ drain' = drain
  BY <1>2 DEF Announce
<1> QED
  BY <1>1, <1>2 DEF PoolStep

\* The configuration chooses the handshake once.
LEMMA KeepsStays == Keeps(dialect) /\ [Next]_vars => Keeps(dialect)'
<1>1. PoolStep => dialect' = dialect
  BY PoolStepKeeps
<1>2. handlePoolConnect \/ handleResult \/ Read \/ Disconnect => dialect' = dialect
  BY DEF handlePoolConnect, handleResult, Read, Disconnect
<1>3. BeginDrain \/ waitForPendingShares \/ DrainDeadline \/ UNCHANGED vars
         => dialect' = dialect
  BY DEF BeginDrain, waitForPendingShares, DrainDeadline, vars
<1> QED
  BY <1>1, <1>2, <1>3 DEF Next, Keeps

\* A session that keeps the protocol of its handshake has pending exactly what
\* the pool has not answered, as long as the pool answers once: poolResponseHandler
\* takes no answer for another and drops none, and nextCortexSubmitId never
\* gives a share the id of ctxc_getWork.
THEOREM PendingExact == Spec /\ Keeps(dialect) => []PendingIsUnanswered
<1>1. IInv /\ Keeps(dialect) => PendingIsUnanswered
  BY UnansweredIs DEF IInv, Tracked, Tracks, PendingIsUnanswered
<1> QED
  BY <1>1, Invariance, KeepsStays, PTL DEF Spec

\* A session that keeps its protocol ends the drain before the deadline only
\* when every share that was counted has been answered: what waitForPendingShares
\* looks at is what is in flight.
THEOREM DrainIsHeard == Spec /\ Keeps(dialect) => DrainHearsCounted
<1>1. IInv /\ Keeps(dialect) /\ [Next]_vars =>
        [drain = "waiting" /\ drain' = "drained" /\ pool.socket /\ repeats = 0
           => Unanswered("id") \cup Unanswered("cortex") = {}]_vars
  <2> SUFFICES ASSUME IInv, Keeps(dialect), [Next]_vars, drain = "waiting",
                      drain' = "drained", pool.socket, repeats = 0
               PROVE  Unanswered("id") \cup Unanswered("cortex") = {}
    OBVIOUS
  <2>1. waitForPendingShares
    <3>1. PoolStep => drain' = drain
      BY PoolStepKeeps
    <3>2. handlePoolConnect \/ handleResult \/ Read \/ Disconnect => drain' = drain
      BY DEF handlePoolConnect, handleResult, Read, Disconnect
    <3>3. BeginDrain \/ DrainDeadline \/ UNCHANGED vars => drain' # "drained" \/ drain' = drain
      BY DEF BeginDrain, DrainDeadline, vars
    <3> QED
      BY <3>1, <3>2, <3>3 DEF Next
  <2>2. Tracks(pool, wire)
    BY DEF IInv, Tracked
  <2>3. ~(pool.pending_submit_count > 0) /\ pool.pending_cortex_submit_ids = {}
    BY <2>1 DEF waitForPendingShares, SharesPending
  <2>4. Cardinality(Unsettled(pool.requests, wire, "id")) = 0
    <3>1. Cardinality(Unsettled(pool.requests, wire, "id")) \in Nat
      BY <2>2, FS_CardinalityType DEF Tracks
    <3> QED
      BY <2>2, <2>3, <3>1 DEF Tracks
  <2> QED
    BY <2>2, <2>3, <2>4, FS_EmptySet, UnansweredIs DEF Tracks
<1> QED
  BY <1>1, Invariance, KeepsStays, PTL DEF Spec, DrainHearsCounted
=============================================================================
