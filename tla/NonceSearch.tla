---------------------------- MODULE NonceSearch ----------------------------
(***************************************************************************)
(* How the workers share out the nonces of one pool job, what happens when *)
(* the range ends, and where the job is resumed after its pool was in the  *)
(* background (Core::set_job and the dispatch loop of native/, the nonce   *)
(* arithmetic of native/job-boundary.h and native/core.h, handleLastNonce  *)
(* and addNonceFields of miner/).                                          *)
(*                                                                         *)
(* Every worker computes its own part of the range from the job's nonce,   *)
(* its thread_id and thread_num: nobody hands nonces out.  Five layouts    *)
(* exist, and differ in their strides and in their checks:                 *)
(*   lanes    CPU, cn/gpu and c29: the lanes of a batch are interleaved    *)
(*   block    GPU kernels that search `B' nonces from the one in the blob  *)
(*   counter  c30: one nonce at a time, kept outside the blob              *)
(*   seed     pearlhash: a seed in the slot a proxy assigned               *)
(*   rx       RandomX: every thread of every worker searches by itself     *)
(*                                                                         *)
(* A searcher is a worker, or a RandomX thread.  Nonces are 0..Space-1 in  *)
(* place of the 32 or 64 bits.  A job with a target is modelled, so every  *)
(* range check is on.                                                      *)
(***************************************************************************)
EXTENDS Integers, FiniteSets

CONSTANTS
    N,          \* thread_num
    B,          \* m_batch
    Bits,       \* width of a nonce
    Jobs,       \* the jobs a pool may send, see JobType
    MaxRounds   \* bound: times the job is given to the workers

Space == 2 ^ Bits
NoNonce == -1            \* job.nonce is undefined in the controller

\* nonce:  the first nonce the job was sent with;
\* span:   nonces with the same leading bits under nicehash_mask (Space when
\*         no leading bits are protected);
\* unit:   distance of two counter values: 256 (here any power of two) when
\*         nicehash_mask protects the last byte, nonce_stride of a seed, or 1;
\* blob:   the protected leading bits the blob carries at the nonce offset;
\* xn:     the leading bits are the pool's extranonce.
JobType == [layout : {"lanes", "block", "counter", "seed", "rx"},
            nonce : 0 .. Space - 1, span : 1 .. Space, unit : 1 .. Space,
            blob : 0 .. Space - 1, xn : BOOLEAN]

\* The last byte is protected, or seeds have a stride, only in these layouts, and
\* then no leading bits are; a seed has none.
ASSUME SearchAssumption ==
    /\ {N, B, MaxRounds} \subseteq Nat \ {0}
    /\ Bits \in Nat /\ Space \in Nat \ {0}
    /\ Jobs \subseteq JobType
    /\ \A j \in Jobs : /\ j.unit > 1 => /\ j.layout \in {"lanes", "rx", "seed"}
                                       /\ j.span = Space
                       /\ j.layout = "seed" => j.span = Space

VARIABLES
    job,       \* the job searched
    start,     \* the nonce it was sent with this time
    phase,     \* searcher -> "idle", "search", "spent", "failed" or "away"
    first,     \* first nonce of the batch each searcher dispatches next
    next,      \* m_nonce32 / m_nonce64: first nonce of the batch after it
    full,      \* m_nonce_exhausted
    searched,  \* searcher -> the nonces it hashed since `start' was sent
    before,    \* nonces hashed in earlier rounds
    resume,    \* the controller's job.nonce, or NoNonce
    ended,     \* some searcher reached the end of its range, ever
    crossed,   \* some searcher began outside the protected leading bits, ever
    rounds

vars == <<job, start, phase, first, next, full, searched, before, resume,
          ended, crossed, rounds>>

Searchers(j) == 0 .. (IF j.layout = "rx" THEN N * B ELSE N) - 1

\* Nonces per dispatch, and their distance.
Count(j) == IF j.layout \in {"lanes", "block"} THEN B ELSE 1
Lane(j) == IF j.layout = "block" THEN 1 ELSE N * j.unit

\* Mutant: a batch is skipped.
Stride_Twice(j) == 2 * N * B * j.unit

\* Distance of two batches of one searcher: m_nonce_step times the lanes.
Stride(j) == IF j.layout \in {"counter", "seed"} THEN N * j.unit
             ELSE N * B * j.unit

\* Mutant: blocks begin one nonce apart.
Offset_Single(j, s) == s * j.unit

\* Where searcher s begins, before any check.
Offset(j, s) == s * (IF j.layout = "block" THEN B ELSE j.unit)

Batch(j, n) == {n + i * Lane(j) : i \in 0 .. Count(j) - 1}
LastLane(j, n) == n + (Count(j) - 1) * Lane(j)

SamePrefix(j, m, n) == m \div j.span = n \div j.span

\* Mutant: the mask is not checked.
Fits_NoMask(j, n, offset) == n + offset < Space

\* nonce_with_offset with the job's mask: the sum neither leaves the width nor
\* changes a protected bit.
Fits(j, n, offset) == n + offset < Space /\ SamePrefix(j, n, n + offset)

\* m | n, counted in numbers: bit i is worth those from 2^i to 2^(i+1) - 1.
BitOr(m, n) ==
    LET bit(k, i) == (k \div 2 ^ i) % 2
    IN  Cardinality({x \in 1 .. Space - 1 : \E i \in 0 .. Bits - 1 :
                        /\ 2 ^ i <= x /\ x < 2 ^ (i + 1)
                        /\ bit(m, i) + bit(n, i) > 0})

-----------------------------------------------------------------------------
(* The batch after the one that begins at n.                               *)

\* Mutant: only the first nonce of the next batch is checked.
HasNextBatch_First(j, n) == Fits(j, n, Stride(j))

\* next_nonce_batch: both the next batch's first and its last nonce fit.
HasNextBatch(j, n) ==
    /\ Fits(j, n, Stride(j))
    /\ Fits(j, n + Stride(j), (Count(j) - 1) * Lane(j))

\* next_nonce_after_batch: the last nonce of this batch when there is no next.
AfterBatch(j, n) == IF HasNextBatch(j, n) THEN n + Stride(j) ELSE LastLane(j, n)

\* The batch that begins at n is in the blobs, and the counter behind it.
Prepared(j, n) ==
    [first |-> n, next |-> AfterBatch(j, n), full |-> ~ HasNextBatch(j, n)]

\* c30, pearlhash and RandomX hash the counter itself.
AtCounter(n) == [first |-> n, next |-> n, full |-> FALSE]

Idle == [first |-> 0, next |-> 0, full |-> FALSE]

\* s becomes p, searching nonces c.
Search(s, p, c) ==
    /\ phase' = [phase EXCEPT ![s] = p]
    /\ first' = [first EXCEPT ![s] = c.first]
    /\ next' = [next EXCEPT ![s] = c.next]
    /\ full' = [full EXCEPT ![s] = c.full]

Init ==
    /\ job \in Jobs
    /\ start = job.nonce
    /\ phase = [s \in Searchers(job) |-> "idle"]
    /\ first = [s \in Searchers(job) |-> 0]
    /\ next = [s \in Searchers(job) |-> 0]
    /\ full = [s \in Searchers(job) |-> FALSE]
    /\ searched = [s \in Searchers(job) |-> {}]
    /\ before = {}
    /\ resume = NoNonce
    /\ ended = FALSE
    /\ crossed = FALSE
    /\ rounds = 1

-----------------------------------------------------------------------------
(* Core::set_job computes where a searcher begins, or throws.              *)

\* Every layout but block and counter leaves the mask out of this check.
BeginFits(s) ==
    CASE job.layout \in {"block", "counter"} -> Fits(job, start, Offset(job, s))
      [] job.layout = "rx" ->   \* all threads of the worker of thread s
            start + Offset(job, (s \div B) * B + B - 1) < Space
      [] OTHER -> start + Offset(job, s) < Space

\* Under a mask lanes and rx put the protected bits of the blob back: the leading
\* ones here, for the nonce has the last byte of the blob already.
Restored(n) ==
    IF job.layout \in {"lanes", "rx"} /\ job.span # Space
    THEN BitOr(n \div job.span, job.blob \div job.span) * job.span + (n % job.span)
    ELSE n

Begin(s) == Restored(start + Offset(job, s))

\* The protected leading bits of the job are those of this nonce.
Home == Restored(job.nonce)

Crosses(s) == BeginFits(s) /\ ~ SamePrefix(job, Begin(s), Home)

SetJob(s) ==
    /\ phase[s] = "idle"
    /\ BeginFits(s)
    /\ Fits(job, Begin(s), (Count(job) - 1) * Lane(job))
    /\ Search(s, "search", IF job.layout \in {"lanes", "block"}
                           THEN Prepared(job, Begin(s)) ELSE AtCounter(Begin(s)))
    /\ crossed' = (crossed \/ Crosses(s))
    /\ UNCHANGED <<job, start, searched, before, resume, ended, rounds>>

\* set_job throws; the counter is left as the layout's code had set it.
SetJobThrows(s) ==
    /\ phase[s] = "idle"
    /\ ~ (BeginFits(s) /\ Fits(job, Begin(s), (Count(job) - 1) * Lane(job)))
    /\ Search(s, "failed",
              CASE job.layout \in {"block", "seed", "rx"} -> Idle
                [] job.layout = "lanes" /\ BeginFits(s) -> AtCounter(Begin(s))
                [] OTHER -> AtCounter((start + Offset(job, s)) % Space))
    /\ crossed' = (crossed \/ Crosses(s))
    /\ UNCHANGED <<job, start, searched, before, resume, ended, rounds>>

-----------------------------------------------------------------------------
(* One pass of the dispatch loop, or of a RandomX thread's loop.           *)

\* Mutant: the latest report replaces an earlier one.
Newer_Latest(n) == IF job.xn => SamePrefix(job, n, job.nonce) THEN n ELSE resume

\* handleLastNonce: a position reported for a job in the background is kept
\* when it is greater than the one known and carries the pool's extranonce.
Newer(n) ==
    IF /\ job.xn => SamePrefix(job, n, job.nonce)
       /\ resume = NoNonce \/ resume < n
    THEN n ELSE resume

Hash(s) ==
    /\ phase[s] = "search"
    /\ searched' = [searched EXCEPT ![s] = @ \cup Batch(job, first[s])]
    /\ UNCHANGED <<job, start, before, crossed, rounds>>

Dispatch(s) ==
    /\ Hash(s)
    /\ UNCHANGED <<resume, ended>>
    /\ \/ /\ job.layout \in {"lanes", "block"}
          /\ ~ full[s]
          /\ Search(s, "search", Prepared(job, next[s]))
       \/ /\ job.layout \in {"counter", "rx"}
          /\ Fits(job, first[s], Stride(job))
          /\ Search(s, "search", AtCounter(first[s] + Stride(job)))
       \/ /\ job.layout = "seed"            \* pearl_seed_next
          /\ first[s] + Stride(job) < Space
          /\ Search(s, "search", AtCounter(first[s] + Stride(job)))

\* The last batch: the loop goes idle.  block, counter and seed report the last
\* nonce at once, which the controller drops unless the pool is already in the
\* background; lanes and rx report an error.
DispatchLast(s) ==
    /\ Hash(s)
    /\ ended' = TRUE
    /\ \/ /\ job.layout \in {"lanes", "block"}
          /\ full[s]
          /\ Search(s, "spent", [first |-> first[s], next |-> next[s], full |-> TRUE])
       \/ /\ job.layout = "counter"         \* the counter has moved on already
          /\ ~ Fits(job, first[s], Stride(job))
          /\ Search(s, "spent", AtCounter((first[s] + Stride(job)) % Space))
       \/ /\ job.layout = "rx"
          /\ ~ Fits(job, first[s], Stride(job))
          /\ Search(s, "spent", Idle)
       \/ /\ job.layout = "seed"
          /\ first[s] + Stride(job) >= Space
          /\ Search(s, "spent", AtCounter(first[s]))
    /\ resume' \in {resume} \cup
          (IF job.layout \in {"lanes", "rx"} THEN {}
           ELSE {Newer(LastLane(job, first[s]))})

-----------------------------------------------------------------------------
(* The job's pool goes to the background and returns.                      *)

\* The next command of the worker is another pool's job: last_nonce() is sent
\* unless it is 0.  A RandomX thread reports for itself, unless its range ended.
Silent(s) == IF job.layout = "rx" THEN phase[s] # "search" ELSE next[s] = 0

Leave(s) ==
    /\ phase[s] \in {"search", "spent", "failed"}
    /\ Search(s, "away", Idle)
    /\ resume' = IF Silent(s) THEN resume ELSE Newer(next[s])
    /\ UNCHANGED <<job, start, searched, before, ended, crossed, rounds>>

\* The nonces set_job may send the resumed job with.  The reported seed is
\* printed with 16 digits; reusablePearlSeed takes at most 8, so a seed is drawn
\* anew from the slot.  With the last byte protected set_job takes it from the
\* blob.
Resumed ==
    CASE job.layout = "seed" ->
            {n \in 0 .. Space - 1 : /\ n % job.unit = job.nonce % job.unit
                                    /\ n + (N - 1) * job.unit < Space}
      [] job.layout # "seed" /\ resume = NoNonce -> {job.nonce}
      [] OTHER -> {((resume \div job.unit) * job.unit) + (job.nonce % job.unit)}

Resume ==
    /\ rounds < MaxRounds
    /\ \A s \in Searchers(job) : phase[s] = "away"
    /\ start' \in Resumed
    /\ phase' = [s \in Searchers(job) |-> "idle"]
    /\ before' = before \cup UNION {searched[s] : s \in Searchers(job)}
    /\ searched' = [s \in Searchers(job) |-> {}]
    /\ rounds' = rounds + 1
    /\ UNCHANGED <<job, first, next, full, resume, ended, crossed>>

Next ==
    \/ \E s \in Searchers(job) :
          SetJob(s) \/ SetJobThrows(s) \/ Dispatch(s) \/ DispatchLast(s) \/ Leave(s)
    \/ Resume

Spec == Init /\ [][Next]_vars

-----------------------------------------------------------------------------
(* Properties.                                                             *)

Nonces == 0 .. Space - 1
Hashed == UNION {searched[s] : s \in Searchers(job)}

TypeOK ==
    /\ job \in Jobs
    /\ start \in Nonces
    /\ phase \in [Searchers(job) -> {"idle", "search", "spent", "failed", "away"}]
    /\ first \in [Searchers(job) -> Nonces]
    /\ next \in [Searchers(job) -> Nonces]
    /\ full \in [Searchers(job) -> BOOLEAN]
    /\ searched \in [Searchers(job) -> SUBSET Nonces]
    /\ before \subseteq Nonces
    /\ resume \in Nonces \cup {NoNonce}
    /\ {ended, crossed} \subseteq BOOLEAN
    /\ rounds \in 1 .. MaxRounds

\* No nonce of a job is hashed twice, whatever the relative speed of the workers:
\* the parts set_job computes from thread_id and thread_num do not meet, and a
\* searcher's counter neither wraps nor falls back, not even when the range ends
\* within a batch.
NoNonceTwice ==
    /\ \A s, t \in Searchers(job) : s # t => searched[s] \cap searched[t] = {}
    /\ \A s \in Searchers(job) :
          phase[s] = "search" => \A n \in searched[s] : n < first[s]

\* A job that comes back from the background is resumed past everything any
\* worker hashed of it, because the position kept is the greatest one reported.
\* When a range had ended, lanes and blocks report a nonce that was hashed, and
\* the resumed job hashes that one nonce again, and no other.
ResumeIsFresh ==
    /\ (~ ended /\ ~ crossed /\ job.layout # "seed") => Hashed \cap before = {}
    /\ (job.layout \in {"lanes", "block"} /\ ~ crossed) =>
          Hashed \cap before \subseteq {start}

\* The two ways a searcher may begin outside the protected leading bits.  lanes
\* and rx leave the mask out when they add the worker's offset to the nonce they
\* are sent; and when the bits are not an extranonce, handleLastNonce takes a
\* position outside them: that of a lane that had left, or of a c30 counter,
\* which has moved on when its range ends or set_job throws.
MayLeave(s) ==
    \/ /\ job.layout \in {"lanes", "rx"}
       /\ ~ SamePrefix(job, start, start + Offset(job, s))
    \/ /\ job.layout \in {"lanes", "rx", "counter"}
       /\ ~ job.xn
       /\ rounds > 1

\* Every nonce hashed carries the bits the pool protects, the NiceHash byte, the
\* extranonce or the seed slot: no lane, batch or range end carries into them.
\* The leading bits can be wrong from the beginning only, as MayLeave says.
PrefixKept ==
    \A s \in Searchers(job) : \A n \in searched[s] :
        /\ n % job.unit = job.nonce % job.unit
        /\ SamePrefix(job, n, Begin(s))
        /\ MayLeave(s) \/ SamePrefix(job, n, Home)

\* Nothing is skipped: once every searcher has reached the end, each nonce of the
\* job from the first on was hashed, but for at most one stride at the end.
WholeRangeSearched ==
    (\A s \in Searchers(job) : phase[s] = "spent") =>
        \A n \in Restored(start) .. Space - 1 :
            /\ n % job.unit = start % job.unit
            /\ SamePrefix(job, n, Restored(start))
            /\ Fits(job, n, Stride(job))
            => n \in Hashed
=============================================================================
