-------------------------- MODULE JobResumeProofs --------------------------
(***************************************************************************)
(* A share is written to a pool twice only if its job was sent again, or   *)
(* its workers retired, while a position of it was unknown (JobRelay's     *)
(* DuplicateOnlyIfEarly), for any pools, algorithms, number of workers and *)
(* bounds, and in any order of commands, reports and switches.             *)
(*                                                                         *)
(* The argument is made for one content at a time.  While its workers are  *)
(* on it or have yet to take it they stay in their lanes, which begin at   *)
(* the one position it was dispatched with, and are past what they found.  *)
(* When it is left, some position past each share found on it stays known: *)
(* in the pool's job, in a core that is on it, in a core that is sure to   *)
(* take it, or in a report.                                                *)
(***************************************************************************)
EXTENDS JobRelayProofs

-----------------------------------------------------------------------------
(* The inductive invariant.                                                *)

\* A worker that is at x will come to n.
Ahead(x, n) == \E k \in 0 .. n : n = x + k * N

\* The command x has a core take a job with content c; the core's job k has it.
Feeds(x, c) == x.type = "job" /\ x.content = c /\ x.sound
On(k, c) == k # NoWork /\ k.content = c

\* A worker with the commands q and the job k is on c or has yet to take it.
Fed(q, c) == \E i \in DOMAIN q : Feeds(q[i], c)
Busy(q, k, c) == On(k, c) \/ Fed(q, c)

\* The commands that feed c follow each other, and the core's job if it is on c:
\* what a worker has left it does not take again.
Steady(q, k, c) ==
    /\ On(k, c) => \A i, j \in DOMAIN q : i < j /\ Feeds(q[j], c) => Feeds(q[i], c)
    /\ \A h, i, j \in DOMAIN q :
          h < i /\ i < j /\ Feeds(q[h], c) /\ Feeds(q[j], c) => Feeds(q[i], c)

\* RandomX is fed once.
Single(q, k, c) ==
    /\ On(k, c) => ~Fed(q, c)
    /\ \A i, j \in DOMAIN q : Feeds(q[i], c) /\ Feeds(q[j], c) => i = j

\* The commands, the job and the flag of a worker whose lane on the content c, of
\* algorithm a, begins at x, b being the position of the dispatch.
Lane(q, k, r, c, a, b, x) ==
    /\ \A i \in DOMAIN q : Feeds(q[i], c) => q[i].nonce = b /\ q[i].algo = a
    /\ On(k, c) => k.algo = a /\ Ahead(x, k.cur)
    /\ On(k, c) /\ Fed(q, c) => r
    /\ Steady(q, k, c)
    /\ a \in RandomX => Single(q, k, c)

\* Where it is in its lane.
At(k, c, x) == IF On(k, c) THEN k.cur ELSE x

\* All workers with work for c are of the generation g, in lanes that begin at b,
\* and come to none of the nonces F.
Lanes(D, W, R, g, F, c, a, b) ==
    \A w \in Workers :
        /\ Lane(D[w], W[w], R[w], c, a, b, b + w[2])
        /\ Busy(D[w], W[w], c) =>
              w[1] = g /\ \A f \in F : ~Ahead(At(W[w], c, b + w[2]), f)

\* A worker's last word on c is the dispatch of the job that p holds in h.
Fresh(q, k, c, p, h) ==
    /\ \A i \in DOMAIN q : Feeds(q[i], c) =>
          \E j \in DOMAIN q : j >= i /\ Feeds(q[j], c) /\ ForHeld(q[j], p, h)
    /\ On(k, c) /\ ~Fed(q, c) => ForHeld(k, p, h)

\* Nothing else follows c; a worker on it runs.
Staying(q, k, r, c) ==
    /\ On(k, c) => r /\ \A i \in DOMAIN q : Feeds(q[i], c)
    /\ \A i, j \in DOMAIN q : i < j /\ Feeds(q[i], c) => Feeds(q[j], c)

\* The result m will be written to p, which holds the job with token t.
Mine(m, p, t) == m.type = "result" /\ m.pool = p /\ m.token = t

\* The nonces of the shares on c that were written, and that will be.
Submitted(s, c) == {s[i].nonce : i \in {j \in DOMAIN s : s[j].content = c}}
Coming(u, p, t) == {m.nonce : m \in {x \in UNION {Range(u[w]) : w \in Workers} : Mine(x, p, t)}}
Found(s, u, p, h) == Submitted(s, h[p].content) \cup Coming(u, p, h[p].token)

\* These are different nonces.
Apart(u, p, t) ==
    \A w \in Workers : \A v \in Workers : \A i \in DOMAIN u[w] : \A j \in DOMAIN u[v] :
        Mine(u[w][i], p, t) /\ Mine(u[v][j], p, t) /\ u[w][i].nonce = u[v][j].nonce
        => w = v /\ i = j

Distinct(s, u, c, p, t) == Submitted(s, c) \cap Coming(u, p, t) = {} /\ Apart(u, p, t)

\* A position past f is known for content c: in the pool's job j, in a core that
\* will report it, or in a command that a core is sure to take.
Reporting(k, r, c, f) == On(k, c) /\ (k.algo \in RandomX => r) /\ f < k.cur
Taking(q, k, c, f) ==
    k # NoWork /\ \E i \in DOMAIN q : Feeds(q[i], c) /\ q[i].algo \notin RandomX /\ f < q[i].nonce

Known(D, W, R, j, f) ==
    \/ f < j.nonce
    \/ \E w \in Workers : Reporting(W[w], R[w], j.content, f) \/ Taking(D[w], W[w], j.content, f)

\* Or in a report.
Reported(u, g, p, h, f) ==
    \E w \in Workers : \E m \in Range(u[w]) :
        w[1] = g /\ m.type = "last_nonce" /\ ForHeld(m, p, h) /\ f < m.nonce

\* The active pool's job is mined from the position last dispatched, and no worker
\* in use would come to a share that was found, if it began its lane now.
Mined(p) ==
    LET c == held[p].content
        b == lastJob.nonce
        F == Found(sent, up, p, held)
    IN  /\ held[p].nonce \in {Unset, b}
        /\ Lanes(down, work, running, generation, F, c, held[p].algo, b)
        /\ \A w \in Workers : Staying(down[w], work[w], running[w], c)
        /\ \A w \in Workers : w[1] = generation =>
              \A f \in F : ~Ahead(At(work[w], c, b + w[2]), f)
        /\ \A f \in F : Known(down, work, running, held[p], f)

\* The position of a job in the background can be told.
Told(p) ==
    \A f \in Found(sent, up, p, held) :
        Known(down, work, running, held[p], f) \/ Reported(up, generation, p, held, f)

\* What is sure of the job that p holds, if it is none of the exceptions.
Sure(p) ==
    LET c == held[p].content IN
    /\ Distinct(sent, up, c, p, held[p].token)
    /\ \E b \in Nat :
          Lanes(down, work, running, generation, Found(sent, up, p, held), c, held[p].algo, b)
    /\ ~exiting =>
          /\ \A w \in Workers : Fresh(down[w], work[w], c, p, held)
          /\ p = active => Mined(p)
          /\ p \notin {active, Donate} => Told(p)

\* The job last dispatched is the active pool's.
LastDispatched ==
    ~exiting /\ held[active] # NoJob =>
        /\ lastJob # NoJob /\ lastJob.pool = active
        /\ lastJob.content = held[active].content /\ lastJob.algo = held[active].algo

\* Contents are numbered as they come, and no two pools hold the same.
Numbered ==
    /\ \A p \in Pools : held[p] # NoJob => held[p].content <= contents
    /\ \A p, q \in Pools : held[p] # NoJob /\ held[q] # NoJob /\ p # q =>
          held[p].content # held[q].content
    /\ \A w \in Workers : work[w] # NoWork => work[w].content <= contents
    /\ \A w \in Workers : \A c \in Range(down[w]) : c.type = "job" => c.content <= contents
    /\ \A i \in DOMAIN sent : sent[i].content <= contents

RInv ==
    /\ DuplicateOnlyIfEarly /\ Numbered /\ LastDispatched
    /\ \A p \in Pools : held[p] # NoJob /\ held[p].content \notin early => Sure(p)

-----------------------------------------------------------------------------
(* Nonces ahead of a worker.                                               *)

\* A worker comes to where it is and to nothing behind it.
LEMMA AheadIsLater ==
    ASSUME NEW x \in Nat, NEW n \in Nat
    PROVE  Ahead(x, x) /\ (Ahead(x, n) => x <= n)
<1>1. N \in Nat
  BY RelayAssumption
<1>2. Ahead(x, x)
  <2>1. 0 \in 0 .. x /\ x = x + 0 * N
    BY <1>1
  <2> QED
    BY <2>1 DEF Ahead
<1>3. ASSUME NEW k \in Nat, n = x + k * N PROVE x <= n
  <2>1. k * N \in Nat
    BY <1>1
  <2> QED
    BY <1>3, <2>1
<1> QED
  BY <1>2, <1>3 DEF Ahead

\* The number of batches to a nonce is no greater than the nonce.
LEMMA AheadIs ==
    ASSUME NEW x \in Nat, NEW n \in Nat, NEW k \in Nat, n = x + k * N
    PROVE  Ahead(x, n)
<1>1. N \in Nat /\ N >= 1
  BY RelayAssumption
<1>2. k * N = k + k * (N - 1) /\ k * (N - 1) \in Nat
  <2>1. N - 1 \in Nat
    BY <1>1
  <2>2. k * (N - 1) \in Nat
    BY <2>1
  <2>3. k * N = k * (N - 1) + k
    BY <1>1
  <2> QED
    BY <2>2, <2>3
<1>3. k \in 0 .. n
  BY <1>2
<1> QED
  BY <1>3 DEF Ahead

\* One batch: what is ahead of the next nonce is ahead of this one, which is
\* passed; and who comes to this nonce comes to the next.
LEMMA AheadNext ==
    ASSUME NEW x \in Nat, NEW n \in Nat
    PROVE  /\ Ahead(x + N, n) => Ahead(x, n)
           /\ ~Ahead(x + N, x)
           /\ Ahead(n, x) => Ahead(n, x + N)
<1>1. N \in Nat /\ N > 0
  BY RelayAssumption
<1>2. ASSUME NEW k \in 0 .. n, n = (x + N) + k * N PROVE Ahead(x, n)
  <2>1. k + 1 \in Nat /\ (k + 1) * N = k * N + N /\ k * N \in Nat
    BY <1>1
  <2>2. n = x + (k + 1) * N
    BY <1>1, <1>2, <2>1
  <2> QED
    BY <2>1, <2>2, AheadIs
<1>3. ~Ahead(x + N, x)
  <2>1. x + N \in Nat /\ ~(x + N <= x)
    BY <1>1
  <2> QED
    BY <2>1, AheadIsLater
<1>4. ASSUME NEW k \in 0 .. x, x = n + k * N PROVE Ahead(n, x + N)
  <2>1. k + 1 \in Nat /\ (k + 1) * N = k * N + N /\ k * N \in Nat
    BY <1>1
  <2>2. x + N = n + (k + 1) * N /\ x + N \in Nat
    BY <1>1, <1>4, <2>1
  <2> QED
    BY <2>1, <2>2, AheadIs
<1> QED
  BY <1>2, <1>3, <1>4 DEF Ahead

\* What is ahead of a nonce ahead is ahead.
LEMMA AheadTransitive ==
    ASSUME NEW x \in Nat, NEW y \in Nat, NEW n \in Nat, Ahead(x, y), Ahead(y, n)
    PROVE  Ahead(x, n)
<1>1. N \in Nat
  BY RelayAssumption
<1>2. PICK j \in 0 .. y : y = x + j * N
  BY DEF Ahead
<1>3. PICK k \in 0 .. n : n = y + k * N
  BY DEF Ahead
<1>4. j + k \in Nat /\ (j + k) * N = j * N + k * N /\ j * N \in Nat /\ k * N \in Nat
  BY <1>1
<1>5. n = x + (j + k) * N
  BY <1>2, <1>3, <1>4
<1> QED
  BY <1>4, <1>5, AheadIs

\* Workers that start from one position stay in their lanes.
LEMMA OwnLane ==
    ASSUME NEW b \in Nat, NEW i \in Threads, NEW j \in Threads, NEW n \in Nat,
           Ahead(b + i, n), Ahead(b + j, n)
    PROVE  i = j
<1>1. N \in Nat /\ N > 0 /\ i \in Nat /\ j \in Nat /\ i < N /\ j < N
  BY RelayAssumption DEF Threads
<1>2. PICK k \in 0 .. n : n = (b + i) + k * N
  BY DEF Ahead
<1>3. PICK m \in 0 .. n : n = (b + j) + m * N
  BY DEF Ahead
<1>4. k * N \in Nat /\ m * N \in Nat /\ k \in Nat /\ m \in Nat
  BY <1>1
<1>5. i + k * N = j + m * N
  BY <1>1, <1>2, <1>3, <1>4
<1>6. ASSUME NEW x \in Nat, NEW y \in Nat, x < y PROVE y * N >= x * N + N
  <2>1. y - x - 1 \in Nat
    BY <1>6
  <2>2. (y - x - 1) * N \in Nat
    BY <1>1, <2>1
  <2>3. y * N = x * N + N + (y - x - 1) * N
    BY <1>1
  <2>4. x * N \in Nat /\ y * N \in Nat
    BY <1>1
  <2> QED
    BY <1>1, <2>2, <2>3, <2>4
<1>7. CASE k < m
  BY <1>1, <1>4, <1>5, <1>6, <1>7
<1>8. CASE m < k
  BY <1>1, <1>4, <1>5, <1>6, <1>8
<1>9. CASE k = m
  BY <1>1, <1>4, <1>5, <1>9
<1> QED
  BY <1>4, <1>7, <1>8, <1>9

-----------------------------------------------------------------------------
(* Pipes, by index.                                                        *)

\* A pipe after a write, by index.
LEMMA PipeWritten ==
    ASSUME NEW S, NEW q \in Seq(S), NEW e \in S
    PROVE  /\ Append(q, e) \in Seq(S) /\ Len(q) \in Nat
           /\ \A i \in DOMAIN q : i \in DOMAIN Append(q, e) /\ Append(q, e)[i] = q[i] /\ i # Len(q) + 1
           /\ \A i \in DOMAIN Append(q, e) : i \in DOMAIN q \/ i = Len(q) + 1
           /\ Append(q, e)[Len(q) + 1] = e /\ Len(q) + 1 \in DOMAIN Append(q, e)
<1>1. Len(q) \in Nat /\ DOMAIN q = 1 .. Len(q) /\ DOMAIN Append(q, e) = 1 .. (Len(q) + 1)
  OBVIOUS
<1>2. Append(q, e)[Len(q) + 1] = e /\ \A i \in 1 .. Len(q) : Append(q, e)[i] = q[i]
  OBVIOUS
<1>3. Append(q, e) \in Seq(S)
  OBVIOUS
<1> QED
  BY <1>1, <1>2, <1>3

\* A pipe after a read, by index.
LEMMA PipeRead ==
    ASSUME NEW S, NEW q \in Seq(S), q # << >>
    PROVE  /\ Tail(q) \in Seq(S) /\ Head(q) \in S /\ Head(q) = q[1] /\ 1 \in DOMAIN q
           /\ \A i \in DOMAIN Tail(q) : i + 1 \in DOMAIN q /\ Tail(q)[i] = q[i + 1]
                                        /\ i \in Nat /\ i # 0
           /\ \A i \in DOMAIN q : i \in Nat /\ (i = 1 \/ i - 1 \in DOMAIN Tail(q))
<1>1. /\ Len(q) \in Nat /\ Len(q) > 0 /\ DOMAIN q = 1 .. Len(q) /\ Head(q) = q[1]
      /\ Head(q) \in S
  OBVIOUS
<1>2. Tail(q) \in Seq(S) /\ DOMAIN Tail(q) = 1 .. (Len(q) - 1)
  OBVIOUS
<1>3. \A i \in 1 .. (Len(q) - 1) : Tail(q)[i] = q[i + 1]
  OBVIOUS
<1> QED
  BY <1>1, <1>2, <1>3

-----------------------------------------------------------------------------
(* One worker and the content c.                                           *)

\* The core of thread t, with the job k and the flag r, meets the command x and
\* then has k2 and r2; e says that it wrote a report.
Turn(x, k, r, t, k2, r2, e) ==
    \/ /\ x.type = "job" /\ x.sound
       /\ k2 # NoWork /\ r2
       /\ k2.content = x.content /\ k2.algo = x.algo
       /\ k2.pool = x.pool /\ k2.token = x.token /\ k2.id = x.id
       /\ k2.cur = IF r /\ k.content = x.content /\ x.algo \notin RandomX
                   THEN k.cur ELSE x.nonce + t
       /\ k # NoWork /\ (k.algo \in RandomX => r) => e
    \/ /\ ~(x.type = "job" /\ x.sound)
       /\ k2 = k
       /\ r2 => r
       /\ k # NoWork /\ k.algo \in RandomX /\ r /\ ~r2 => e
    \/ /\ x.type = "job" /\ x.sound
       /\ k # NoWork => x.algo \in RandomX /\ k.content # x.content
       /\ k2 = k /\ ~r2
       /\ k # NoWork /\ k.algo \in RandomX /\ r => e

\* What a turn does to a worker in its lane, which begins at y: it comes to c, or
\* goes on with it; c is skipped; it leaves c; or it has no word on it.
Outcome(x, k, r, c, a, y, k2, r2, e) ==
    \/ /\ Feeds(x, c) /\ On(k2, c) /\ r2 /\ k2.algo = a
       /\ k2.pool = x.pool /\ k2.token = x.token /\ k2.id = x.id
       /\ \/ On(k, c) /\ k2.cur = k.cur /\ a \notin RandomX /\ r
          \/ ~On(k, c) /\ k2.cur = y
    \/ Feeds(x, c) /\ ~On(k, c) /\ k2 = k /\ (k = NoWork \/ a \in RandomX)
    \/ /\ ~Feeds(x, c) /\ ~On(k2, c)
       /\ On(k, c) /\ (k.algo \in RandomX => r) => e
    \/ /\ ~Feeds(x, c) /\ k2 = k
       /\ On(k, c) /\ k.algo \in RandomX /\ r /\ ~r2 => e

\* A turn of a worker in its lane has one of these outcomes.
LEMMA TurnCases ==
    ASSUME NEW q \in Seq(Commands), q # << >>, NEW k, NEW r, NEW c, NEW a, NEW b, NEW t,
           NEW k2, NEW r2, NEW e, Turn(q[1], k, r, t, k2, r2, e),
           r => k # NoWork, Lane(q, k, r, c, a, b, b + t)
    PROVE  Outcome(q[1], k, r, c, a, b + t, k2, r2, e)
<1>0. 1 \in DOMAIN q
  BY PipeRead
<1>1. CASE Feeds(q[1], c)
  <2>1. q[1].type = "job" /\ q[1].sound /\ q[1].content = c
    BY <1>1 DEF Feeds
  <2>2. q[1].nonce = b /\ q[1].algo = a
    BY <1>0, <1>1 DEF Lane
  <2>3. Fed(q, c)
    BY <1>0, <1>1 DEF Fed
  <2>4. On(k, c) => r /\ a \notin RandomX
    BY <2>3 DEF Lane, Single
  <2>5. r /\ k.content = c => On(k, c)
    BY DEF On
  <2>6. On(k, c) => k # NoWork /\ k.content = c
    BY DEF On
  <2>7. CASE k # NoWork => q[1].algo \in RandomX /\ k.content # q[1].content
    <3>1. CASE k2 = k
      BY <1>1, <2>1, <2>2, <2>6, <2>7, <3>1 DEF Outcome, On
    <3>2. CASE k2 # k
      BY <1>1, <2>1, <2>2, <2>4, <2>5, <2>6, <3>2 DEF Turn, On, Outcome
    <3> QED
      BY <3>1, <3>2
  <2>8. CASE ~(k # NoWork => q[1].algo \in RandomX /\ k.content # q[1].content)
    BY <1>1, <2>1, <2>2, <2>4, <2>5, <2>6, <2>8 DEF Turn, On, Outcome
  <2> QED
    BY <2>7, <2>8
<1>2. CASE ~Feeds(q[1], c)
  <2>1. ~(q[1].type = "job" /\ q[1].sound /\ q[1].content = c)
    BY <1>2 DEF Feeds
  <2> QED
    BY <1>2, <2>1 DEF Turn, On, Outcome
<1> QED
  BY <1>1, <1>2

\* What a read leaves of the commands that feed c.
LEMMA FedRead ==
    ASSUME NEW q \in Seq(Commands), q # << >>, NEW c
    PROVE  /\ Fed(Tail(q), c) => Fed(q, c)
           /\ Fed(q, c) => Feeds(q[1], c) \/ Fed(Tail(q), c)
<1>1. /\ \A i \in DOMAIN Tail(q) : i + 1 \in DOMAIN q /\ Tail(q)[i] = q[i + 1]
      /\ \A i \in DOMAIN q : i = 1 \/ (i - 1 \in DOMAIN Tail(q) /\ (i - 1) + 1 = i)
  <2>1. \A i \in DOMAIN q : i \in Nat /\ (i = 1 \/ i - 1 \in DOMAIN Tail(q))
    BY PipeRead
  <2>2. \A i \in Nat : (i - 1) + 1 = i
    OBVIOUS
  <2> QED
    BY <2>1, <2>2, PipeRead
<1> QED
  BY <1>1 DEF Fed

\* A worker that is on c and meets another command has no more of c to come.
LEMMA LastOfC ==
    ASSUME NEW q \in Seq(Commands), q # << >>, NEW k, NEW c, Steady(q, k, c),
           On(k, c), ~Feeds(q[1], c)
    PROVE  ~Fed(q, c)
<1>1. 1 \in DOMAIN q /\ \A i \in DOMAIN q : i \in Nat /\ (i = 1 \/ i - 1 \in DOMAIN Tail(q))
  BY PipeRead
<1>2. \A i \in DOMAIN q : i = 1 \/ 1 < i
  <2>1. \A i \in DOMAIN Tail(q) : i \in Nat /\ i # 0
    BY PipeRead
  <2>2. \A i \in Nat : i - 1 \in Nat /\ i - 1 # 0 => 1 < i
    OBVIOUS
  <2> QED
    BY <1>1, <2>1, <2>2
<1> QED
  BY <1>1, <1>2 DEF Steady, Fed

\* A worker that has q2 and k2 after q and k has no new work for c, and is where
\* it was in its lane if it has any.
SamePlace(k, k2, c, x) == At(k2, c, x) = At(k, c, x)
Follows(q, k, q2, k2, c, x) == Busy(q2, k2, c) => Busy(q, k, c) /\ SamePlace(k, k2, c, x)

\* A turn keeps a worker in its lane.
LEMMA TurnLane ==
    ASSUME NEW q \in Seq(Commands), q # << >>, NEW k, NEW r, NEW c, NEW a, NEW b \in Nat,
           NEW t \in Nat, NEW k2, NEW r2, NEW e, Turn(q[1], k, r, t, k2, r2, e),
           r => k # NoWork, NEW x, x = b + t, Lane(q, k, r, c, a, b, x)
    PROVE  /\ Lane(Tail(q), k2, r2, c, a, b, x)
           /\ Follows(q, k, Tail(q), k2, c, x)
<1> DEFINE q2 == Tail(q)
<1>0. /\ 1 \in DOMAIN q
      /\ \A i \in DOMAIN q2 : i + 1 \in DOMAIN q /\ q2[i] = q[i + 1] /\ i \in Nat /\ i # 0
  BY PipeRead
<1>1. /\ Fed(q2, c) => Fed(q, c)
      /\ Fed(q, c) => Feeds(q[1], c) \/ Fed(q2, c)
      /\ On(k, c) /\ ~Feeds(q[1], c) => ~Fed(q, c)
  BY FedRead, LastOfC DEF Lane
<1>2. Feeds(q[1], c) => Fed(q, c)
  BY <1>0 DEF Fed
<1> HIDE DEF q2
<1>3. \A i, j \in DOMAIN q2 : i < j => 1 < i + 1 /\ i + 1 < j + 1
  BY <1>0
<1>4. \A i \in DOMAIN q2 : 1 < i + 1 /\ i + 1 # 1
  BY <1>0
<1>5. \A i \in DOMAIN q2 : Feeds(q2[i], c) => q2[i].nonce = b /\ q2[i].algo = a
  BY <1>0 DEF Lane
<1>6. \A h, i, j \in DOMAIN q2 :
          h < i /\ i < j /\ Feeds(q2[h], c) /\ Feeds(q2[j], c) => Feeds(q2[i], c)
  <2> SUFFICES ASSUME NEW h \in DOMAIN q2, NEW i \in DOMAIN q2, NEW j \in DOMAIN q2,
                      h < i, i < j, Feeds(q2[h], c), Feeds(q2[j], c)
               PROVE  Feeds(q2[i], c)
    OBVIOUS
  <2>1. /\ h + 1 \in DOMAIN q /\ i + 1 \in DOMAIN q /\ j + 1 \in DOMAIN q
        /\ q2[h] = q[h + 1] /\ q2[i] = q[i + 1] /\ q2[j] = q[j + 1]
        /\ h + 1 < i + 1 /\ i + 1 < j + 1
    BY <1>0, <1>3
  <2> QED
    BY <2>1 DEF Lane, Steady
<1>7. a \in RandomX => \A i, j \in DOMAIN q2 : Feeds(q2[i], c) /\ Feeds(q2[j], c) => i = j
  <2> SUFFICES ASSUME a \in RandomX, NEW i \in DOMAIN q2, NEW j \in DOMAIN q2,
                      Feeds(q2[i], c), Feeds(q2[j], c)
               PROVE  i = j
    OBVIOUS
  <2>1. i + 1 = j + 1
    BY <1>0 DEF Lane, Single
  <2> QED
    BY <1>0, <2>1
<1>8. Ahead(b + t, b + t)
  <2>1. b + t \in Nat
    OBVIOUS
  <2> QED
    BY <2>1, AheadIsLater
<1>9. CASE /\ Feeds(q[1], c) /\ On(k2, c) /\ r2 /\ k2.algo = a
           /\ \/ On(k, c) /\ k2.cur = k.cur /\ a \notin RandomX /\ r
              \/ ~On(k, c) /\ k2.cur = b + t
  <2>1. \A i, j \in DOMAIN q2 : i < j /\ Feeds(q2[j], c) => Feeds(q2[i], c)
    <3> SUFFICES ASSUME NEW i \in DOMAIN q2, NEW j \in DOMAIN q2, i < j, Feeds(q2[j], c)
                 PROVE  Feeds(q2[i], c)
      OBVIOUS
    <3>1. /\ i + 1 \in DOMAIN q /\ j + 1 \in DOMAIN q /\ 1 < i + 1 /\ i + 1 < j + 1
          /\ q2[i] = q[i + 1] /\ q2[j] = q[j + 1]
      BY <1>0, <1>3
    <3> QED
      BY <1>0, <1>9, <3>1 DEF Lane, Steady
  <2>2. a \in RandomX => ~Fed(q2, c)
    BY <1>0, <1>4, <1>9 DEF Lane, Single, Fed
  <2>3. Ahead(b + t, k2.cur) /\ Busy(q, k, c) /\ At(k2, c, b + t) = At(k, c, b + t)
    BY <1>2, <1>8, <1>9 DEF Lane, Busy, At
  <2> QED
    BY <1>5, <1>6, <1>7, <1>9, <2>1, <2>2, <2>3 DEF Lane, Steady, Single, q2, Follows, SamePlace
<1>10. CASE k2 = k /\ (~Feeds(q[1], c) \/ ~On(k, c))
  <2>1. On(k, c) => ~Fed(q2, c)
    BY <1>1, <1>10
  <2>2. On(k, c) => \A i, j \in DOMAIN q2 : i < j /\ Feeds(q2[j], c) => Feeds(q2[i], c)
    BY <2>1 DEF Fed
  <2>3. Busy(q2, k2, c) => Busy(q, k, c) /\ At(k2, c, b + t) = At(k, c, b + t)
    BY <1>1, <1>10 DEF Busy, At
  <2>4. On(k2, c) => k2.algo = a /\ Ahead(b + t, k2.cur)
    BY <1>10 DEF Lane
  <2> QED
    BY <1>5, <1>6, <1>7, <1>10, <2>1, <2>2, <2>3, <2>4 DEF Lane, Steady, Single, q2, Follows, SamePlace
<1>11. CASE ~Feeds(q[1], c) /\ ~On(k2, c)
  <2>1. Busy(q2, k2, c) => ~On(k, c) /\ Fed(q, c)
    BY <1>1, <1>11 DEF Busy
  <2>2. Busy(q2, k2, c) => Busy(q, k, c) /\ At(k2, c, b + t) = At(k, c, b + t)
    BY <1>11, <2>1 DEF Busy, At
  <2> QED
    BY <1>5, <1>6, <1>7, <1>11, <2>2 DEF Lane, Steady, Single, q2, Follows, SamePlace
<1>12. \/ /\ Feeds(q[1], c) /\ On(k2, c) /\ r2 /\ k2.algo = a
          /\ \/ On(k, c) /\ k2.cur = k.cur /\ a \notin RandomX /\ r
             \/ ~On(k, c) /\ k2.cur = b + t
       \/ k2 = k /\ (~Feeds(q[1], c) \/ ~On(k, c))
       \/ ~Feeds(q[1], c) /\ ~On(k2, c)
  <2>1. Outcome(q[1], k, r, c, a, b + t, k2, r2, e)
    BY TurnCases
  <2> QED
    BY <2>1 DEF Outcome
<1> QED
  BY <1>9, <1>10, <1>11, <1>12

\* A worker that nothing else awaits stays with c, and where it is.
Stays(q2, k2, r2, c, k, x) == Staying(q2, k2, r2, c) /\ SamePlace(k, k2, c, x)

\* A worker that stays with c stays with it after a turn, in its place.
LEMMA TurnStaying ==
    ASSUME NEW q \in Seq(Commands), q # << >>, NEW k, NEW r, NEW c, NEW a, NEW b \in Nat,
           NEW t \in Nat, NEW k2, NEW r2, NEW e, Turn(q[1], k, r, t, k2, r2, e),
           r => k # NoWork, NEW x, x = b + t, Lane(q, k, r, c, a, b, x),
           Staying(q, k, r, c)
    PROVE  Stays(Tail(q), k2, r2, c, k, x)
<1> DEFINE q2 == Tail(q)
<1>0. /\ 1 \in DOMAIN q
      /\ \A i \in DOMAIN q2 : i + 1 \in DOMAIN q /\ q2[i] = q[i + 1] /\ i \in Nat /\ i # 0
  BY PipeRead
<1> HIDE DEF q2
<1>1. /\ \A i, j \in DOMAIN q2 : i < j => i + 1 < j + 1
      /\ \A i \in DOMAIN q2 : 1 < i + 1
  BY <1>0
<1>2. \A i, j \in DOMAIN q2 : i < j /\ Feeds(q2[i], c) => Feeds(q2[j], c)
  BY <1>0, <1>1 DEF Staying
<1>3. Feeds(q[1], c) => \A i \in DOMAIN q2 : Feeds(q2[i], c)
  BY <1>0, <1>1 DEF Staying
<1>4. On(k, c) => Feeds(q[1], c)
  BY <1>0 DEF Staying
<1>5. \/ /\ Feeds(q[1], c) /\ On(k2, c) /\ r2
         /\ (On(k, c) /\ k2.cur = k.cur) \/ (~On(k, c) /\ k2.cur = b + t)
      \/ ~On(k, c) /\ ~On(k2, c)
  <2>1. \/ /\ Feeds(q[1], c) /\ On(k2, c) /\ r2 /\ k2.algo = a
           /\ \/ On(k, c) /\ k2.cur = k.cur /\ a \notin RandomX /\ r
              \/ ~On(k, c) /\ k2.cur = b + t
        \/ Feeds(q[1], c) /\ ~On(k, c) /\ k2 = k
        \/ ~Feeds(q[1], c) /\ ~On(k2, c)
        \/ ~Feeds(q[1], c) /\ k2 = k
    <3>1. Outcome(q[1], k, r, c, a, b + t, k2, r2, e)
      BY TurnCases
    <3> QED
      BY <3>1 DEF Outcome
  <2> QED
    BY <1>4, <2>1
<1> QED
  BY <1>2, <1>3, <1>5 DEF Stays, Staying, At, q2, SamePlace

\* The last word on c stays the held job's.
LEMMA TurnFresh ==
    ASSUME NEW q \in Seq(Commands), q # << >>, NEW k, NEW r, NEW c, NEW a, NEW b \in Nat,
           NEW t \in Nat, NEW k2, NEW r2, NEW e, Turn(q[1], k, r, t, k2, r2, e),
           r => k # NoWork, Lane(q, k, r, c, a, b, b + t), NEW p, NEW h, Fresh(q, k, c, p, h)
    PROVE  Fresh(Tail(q), k2, c, p, h)
<1> DEFINE q2 == Tail(q)
<1>0. /\ 1 \in DOMAIN q
      /\ \A i \in DOMAIN q2 : i + 1 \in DOMAIN q /\ q2[i] = q[i + 1] /\ i \in Nat /\ i # 0
      /\ \A i \in DOMAIN q : i \in Nat /\ (i = 1 \/ i - 1 \in DOMAIN q2)
  BY PipeRead
<1>1. /\ Fed(q, c) => Feeds(q[1], c) \/ Fed(q2, c)
      /\ On(k, c) /\ ~Feeds(q[1], c) => ~Fed(q, c)
  BY FedRead, LastOfC DEF Lane
<1> HIDE DEF q2
<1>2. ASSUME NEW i \in DOMAIN q2, Feeds(q2[i], c)
      PROVE  \E j \in DOMAIN q2 : j >= i /\ Feeds(q2[j], c) /\ ForHeld(q2[j], p, h)
  <2>1. i + 1 \in DOMAIN q /\ Feeds(q[i + 1], c) /\ i \in Nat /\ i # 0
    BY <1>0, <1>2
  <2>2. PICK j \in DOMAIN q : j >= i + 1 /\ Feeds(q[j], c) /\ ForHeld(q[j], p, h)
    BY <2>1 DEF Fresh
  <2>3. j \in Nat /\ j # 1
    BY <1>0, <2>1, <2>2
  <2>4. j - 1 \in DOMAIN q2 /\ q2[j - 1] = q[(j - 1) + 1]
    BY <1>0, <2>3
  <2>5. (j - 1) + 1 = j /\ j - 1 >= i
    BY <2>1, <2>2, <2>3
  <2> QED
    BY <2>2, <2>4, <2>5
<1>3. ASSUME Feeds(q[1], c), ~Fed(q2, c) PROVE ForHeld(q[1], p, h)
  <2>1. PICK j \in DOMAIN q : Feeds(q[j], c) /\ ForHeld(q[j], p, h)
    BY <1>0, <1>3 DEF Fresh
  <2>2. j = 1
    <3> SUFFICES ASSUME j # 1 PROVE FALSE
      OBVIOUS
    <3>1. j - 1 \in DOMAIN q2 /\ (j - 1) + 1 = j
      BY <1>0
    <3>2. Feeds(q2[j - 1], c)
      BY <1>0, <2>1, <3>1
    <3> QED
      BY <1>3, <3>1, <3>2 DEF Fed
  <2> QED
    BY <2>1, <2>2
<1>4. On(k2, c) /\ ~Fed(q2, c) => ForHeld(k2, p, h)
  <2>1. CASE /\ Feeds(q[1], c)
             /\ k2.pool = q[1].pool /\ k2.token = q[1].token /\ k2.id = q[1].id
    BY <1>3, <2>1 DEF ForHeld
  <2>2. CASE k2 = k /\ ~Feeds(q[1], c)
    BY <1>1, <2>2 DEF Fresh
  <2>3. CASE ~On(k2, c)
    BY <2>3
  <2>4. \/ Feeds(q[1], c) /\ k2.pool = q[1].pool /\ k2.token = q[1].token /\ k2.id = q[1].id
        \/ ~On(k, c) /\ k2 = k
        \/ ~On(k2, c)
        \/ ~Feeds(q[1], c) /\ k2 = k
    <3>1. Outcome(q[1], k, r, c, a, b + t, k2, r2, e)
      BY TurnCases
    <3> QED
      BY <3>1 DEF Outcome
  <2> QED
    BY <2>1, <2>2, <2>3, <2>4
<1> QED
  BY <1>2, <1>4 DEF Fresh, q2

\* The core leaves c for the command x and reports a position past f.
Parting(x, k, c, p, h, f, e) ==
    e /\ On(k, c) /\ ~Feeds(x, c) /\ ForHeld(k, p, h) /\ f < k.cur

\* A position that is known stays known: the core goes on, takes the command that
\* has it, or reports it as it leaves c for another command.
LEMMA TurnKnown ==
    ASSUME NEW q \in Seq(Commands), q # << >>, NEW k, NEW r, NEW c, NEW a, NEW b \in Nat,
           NEW t \in Nat, NEW k2, NEW r2, NEW e, Turn(q[1], k, r, t, k2, r2, e),
           r => k # NoWork, Lane(q, k, r, c, a, b, b + t), k # NoWork => k.cur \in Nat,
           NEW p, NEW h, Fresh(q, k, c, p, h),
           NEW f \in Nat, Reporting(k, r, c, f) \/ Taking(q, k, c, f)
    PROVE  \/ Reporting(k2, r2, c, f) \/ Taking(Tail(q), k2, c, f)
           \/ Parting(q[1], k, c, p, h, f, e)
<1> DEFINE q2 == Tail(q)
<1>0. /\ 1 \in DOMAIN q
      /\ \A i \in DOMAIN q2 : i + 1 \in DOMAIN q /\ q2[i] = q[i + 1] /\ i \in Nat /\ i # 0
      /\ \A i \in DOMAIN q : i \in Nat /\ (i = 1 \/ i - 1 \in DOMAIN q2)
  BY PipeRead
<1>1. On(k, c) /\ ~Feeds(q[1], c) => ~Fed(q, c) /\ ForHeld(k, p, h)
  BY LastOfC DEF Lane, Fresh
<1>2. On(k, c) => k.algo = a /\ k.cur >= b /\ k # NoWork /\ k.cur \in Nat
  <2>1. On(k, c) => k.algo = a /\ k.cur \in Nat /\ Ahead(b + t, k.cur) /\ k # NoWork
    BY DEF Lane, On
  <2>2. b + t \in Nat /\ b + t >= b
    OBVIOUS
  <2>3. On(k, c) => b + t <= k.cur
    BY <2>1, <2>2, AheadIsLater
  <2> QED
    BY <2>1, <2>2, <2>3
<1>3. \A i \in DOMAIN q : Feeds(q[i], c) => q[i].nonce = b /\ q[i].algo = a
  BY DEF Lane
<1>4. \/ /\ Feeds(q[1], c) /\ On(k2, c) /\ r2 /\ k2.algo = a
         /\ \/ On(k, c) /\ k2.cur = k.cur /\ a \notin RandomX /\ r
            \/ ~On(k, c) /\ k2.cur = b + t
      \/ Feeds(q[1], c) /\ ~On(k, c) /\ k2 = k /\ (k = NoWork \/ a \in RandomX)
      \/ /\ ~Feeds(q[1], c) /\ ~On(k2, c)
         /\ On(k, c) /\ (k.algo \in RandomX => r) => e
      \/ /\ ~Feeds(q[1], c) /\ k2 = k
         /\ On(k, c) /\ k.algo \in RandomX /\ r /\ ~r2 => e
  <2>1. Outcome(q[1], k, r, c, a, b + t, k2, r2, e)
    BY TurnCases
  <2> QED
    BY <2>1 DEF Outcome
<1>5. k # NoWork => k2 # NoWork
  <2>1. k2 = k \/ k2 # NoWork
    BY DEF Turn
  <2> QED
    BY <2>1
<1> HIDE DEF q2
<1>6. CASE Reporting(k, r, c, f)
  <2>1. On(k, c) /\ (k.algo \in RandomX => r) /\ f < k.cur
    BY <1>6 DEF Reporting
  <2>2. CASE Feeds(q[1], c) /\ On(k2, c) /\ r2 /\ On(k, c) /\ k2.cur = k.cur
    BY <2>1, <2>2 DEF Reporting
  <2>3. CASE ~Feeds(q[1], c) /\ e
    BY <1>1, <2>1, <2>3 DEF Parting
  <2>4. CASE ~Feeds(q[1], c) /\ k2 = k /\ ~(k.algo \in RandomX /\ r /\ ~r2)
    BY <2>1, <2>4 DEF Reporting
  <2> QED
    BY <1>4, <2>1, <2>2, <2>3, <2>4
<1>7. CASE Taking(q, k, c, f)
  <2>1. PICK i \in DOMAIN q : Feeds(q[i], c) /\ q[i].algo \notin RandomX /\ f < q[i].nonce
    BY <1>7 DEF Taking
  <2>2. f < b /\ a \notin RandomX /\ k # NoWork
    BY <1>3, <1>7, <2>1 DEF Taking
  <2>3. CASE i = 1
    <3>1. f < b + t
      BY <2>2
    <3>2. On(k, c) => f < k.cur
      BY <1>2, <2>2
    <3>3. Feeds(q[1], c) /\ On(k2, c) /\ k2.algo = a /\ k2.cur \in {k.cur, b + t}
          /\ (On(k, c) \/ k2.cur = b + t)
      BY <1>4, <2>1, <2>2, <2>3
    <3>4. f < k2.cur
      BY <3>1, <3>2, <3>3
    <3> QED
      BY <2>2, <3>3, <3>4 DEF Reporting
  <2>4. CASE i # 1
    <3>1. i - 1 \in DOMAIN q2 /\ (i - 1) + 1 = i
      BY <1>0, <2>4
    <3>2. q2[i - 1] = q[i]
      BY <1>0, <3>1
    <3> QED
      BY <1>5, <2>1, <2>2, <3>1, <3>2 DEF Taking, q2
  <2> QED
    BY <2>3, <2>4
<1> QED
  BY <1>6, <1>7 DEF q2

\* What a write adds to the commands that feed c.
LEMMA FedWritten ==
    ASSUME NEW q \in Seq(Commands), NEW y \in Commands, NEW c
    PROVE  /\ Fed(q, c) => Fed(Append(q, y), c)
           /\ Fed(Append(q, y), c) => Fed(q, c) \/ Feeds(y, c)
           /\ Feeds(y, c) => Fed(Append(q, y), c)
<1>1. /\ \A i \in DOMAIN q : i \in DOMAIN Append(q, y) /\ Append(q, y)[i] = q[i]
      /\ \A i \in DOMAIN Append(q, y) : i \in DOMAIN q \/ i = Len(q) + 1
      /\ Append(q, y)[Len(q) + 1] = y /\ Len(q) + 1 \in DOMAIN Append(q, y)
  BY PipeWritten
<1> QED
  BY <1>1 DEF Fed

\* Who has nothing to do with c is in any lane.
LEMMA IdleLane ==
    ASSUME NEW q, NEW k, NEW r, NEW c, ~Busy(q, k, c), NEW a, NEW b, NEW x, NEW p, NEW h
    PROVE  /\ Lane(q, k, r, c, a, b, x)
           /\ Fresh(q, k, c, p, h)
           /\ Staying(q, k, r, c)
<1>1. ~On(k, c) /\ ~Fed(q, c)
  BY DEF Busy
<1>2. \A i \in DOMAIN q : ~Feeds(q[i], c)
  BY <1>1 DEF Fed
<1> QED
  BY <1>1, <1>2 DEF Lane, Fresh, Staying, Steady, Single

\* A command that does not feed c.
LEMMA OtherWritten ==
    ASSUME NEW q \in Seq(Commands), NEW y \in Commands, NEW c, ~Feeds(y, c),
           NEW k, NEW r, NEW a, NEW b, NEW x
    PROVE  /\ Busy(Append(q, y), k, c) <=> Busy(q, k, c)
           /\ Lane(q, k, r, c, a, b, x) => Lane(Append(q, y), k, r, c, a, b, x)
           /\ \A p, h : Fresh(q, k, c, p, h) => Fresh(Append(q, y), k, c, p, h)
           /\ \A f : Taking(q, k, c, f) => Taking(Append(q, y), k, c, f)
<1> DEFINE q2 == Append(q, y)
<1>1. /\ \A i \in DOMAIN q : i \in DOMAIN q2 /\ q2[i] = q[i]
      /\ \A i \in DOMAIN q2 : i \in DOMAIN q \/ i = Len(q) + 1
      /\ q2[Len(q) + 1] = y
  BY PipeWritten
<1>2. Len(q) \in Nat /\ DOMAIN q = 1 .. Len(q) /\ DOMAIN q2 = 1 .. (Len(q) + 1)
  OBVIOUS
<1> HIDE DEF q2
<1>3. \A i \in DOMAIN q2 : Feeds(q2[i], c) => i \in DOMAIN q /\ q2[i] = q[i]
  BY <1>1
<1>4. \A i \in DOMAIN q2, j \in DOMAIN q : i < j => i \in DOMAIN q
  BY <1>2
<1>5. Fed(q2, c) <=> Fed(q, c)
  BY <1>1, <1>3 DEF Fed
<1>6. Busy(q2, k, c) <=> Busy(q, k, c)
  BY <1>5 DEF Busy
<1>7. ASSUME Lane(q, k, r, c, a, b, x) PROVE Lane(q2, k, r, c, a, b, x)
  <2>1. Steady(q2, k, c)
    <3>1. ASSUME On(k, c), NEW i \in DOMAIN q2, NEW j \in DOMAIN q2, i < j, Feeds(q2[j], c)
          PROVE  Feeds(q2[i], c)
      <4>1. i \in DOMAIN q /\ j \in DOMAIN q /\ q2[i] = q[i] /\ q2[j] = q[j]
        BY <1>1, <1>3, <1>4, <3>1
      <4> QED
        BY <1>7, <3>1, <4>1 DEF Lane, Steady
    <3>2. ASSUME NEW h \in DOMAIN q2, NEW i \in DOMAIN q2, NEW j \in DOMAIN q2,
                 h < i, i < j, Feeds(q2[h], c), Feeds(q2[j], c)
          PROVE  Feeds(q2[i], c)
      <4>1. /\ h \in DOMAIN q /\ i \in DOMAIN q /\ j \in DOMAIN q
            /\ q2[h] = q[h] /\ q2[i] = q[i] /\ q2[j] = q[j]
        BY <1>1, <1>3, <1>4, <3>2
      <4> QED
        BY <1>7, <3>2, <4>1 DEF Lane, Steady
    <3> QED
      BY <3>1, <3>2 DEF Steady
  <2>2. a \in RandomX => Single(q2, k, c)
    BY <1>3, <1>5, <1>7 DEF Lane, Single
  <2>3. \A i \in DOMAIN q2 : Feeds(q2[i], c) => q2[i].nonce = b /\ q2[i].algo = a
    BY <1>3, <1>7 DEF Lane
  <2> QED
    BY <1>5, <1>7, <2>1, <2>2, <2>3 DEF Lane
<1>8. ASSUME NEW p, NEW h, Fresh(q, k, c, p, h) PROVE Fresh(q2, k, c, p, h)
  BY <1>1, <1>3, <1>5, <1>8 DEF Fresh
<1>9. ASSUME NEW f, Taking(q, k, c, f) PROVE Taking(q2, k, c, f)
  BY <1>1, <1>9 DEF Taking
<1> QED
  BY <1>6, <1>7, <1>8, <1>9 DEF q2

\* The same job again, for a worker that nothing else awaits.
LEMMA AgainWritten ==
    ASSUME NEW q \in Seq(Commands), NEW y \in Commands, NEW c, Feeds(y, c),
           NEW k, NEW r, NEW a, a \notin RandomX, NEW b, NEW x, y.nonce = b, y.algo = a,
           Lane(q, k, r, c, a, b, x), Staying(q, k, r, c)
    PROVE  /\ Lane(Append(q, y), k, r, c, a, b, x)
           /\ Staying(Append(q, y), k, r, c)
           /\ \A f : Taking(q, k, c, f) => Taking(Append(q, y), k, c, f)
<1> DEFINE q2 == Append(q, y)
<1>1. /\ \A i \in DOMAIN q : i \in DOMAIN q2 /\ q2[i] = q[i]
      /\ \A i \in DOMAIN q2 : i \in DOMAIN q \/ (i = Len(q) + 1 /\ q2[i] = y)
  BY PipeWritten
<1>2. Len(q) \in Nat /\ DOMAIN q = 1 .. Len(q) /\ DOMAIN q2 = 1 .. (Len(q) + 1)
  OBVIOUS
<1> HIDE DEF q2
<1>3. \A i, j \in DOMAIN q2 : i < j => i \in DOMAIN q
  BY <1>2
<1>4. \A i \in DOMAIN q2 : (i \in DOMAIN q /\ q2[i] = q[i]) \/ Feeds(q2[i], c)
  BY <1>1
<1>5. Steady(q2, k, c)
  <2>1. ASSUME On(k, c), NEW i \in DOMAIN q2 PROVE Feeds(q2[i], c)
    BY <1>4, <2>1 DEF Staying
  <2>2. ASSUME NEW h \in DOMAIN q2, NEW i \in DOMAIN q2, NEW j \in DOMAIN q2,
               h < i, i < j, Feeds(q2[h], c), Feeds(q2[j], c)
        PROVE  Feeds(q2[i], c)
    <3>1. h \in DOMAIN q /\ i \in DOMAIN q /\ q2[h] = q[h] /\ q2[i] = q[i]
      BY <1>1, <1>3, <2>2
    <3> QED
      BY <2>2, <3>1 DEF Staying
  <2> QED
    BY <2>1, <2>2 DEF Steady
<1>6. Staying(q2, k, r, c)
  <2>1. ASSUME NEW i \in DOMAIN q2, NEW j \in DOMAIN q2, i < j, Feeds(q2[i], c)
        PROVE  Feeds(q2[j], c)
    <3>1. i \in DOMAIN q /\ q2[i] = q[i]
      BY <1>1, <1>3, <2>1
    <3> QED
      BY <1>4, <2>1, <3>1 DEF Staying
  <2>2. On(k, c) => r /\ \A i \in DOMAIN q2 : Feeds(q2[i], c)
    BY <1>4 DEF Staying
  <2> QED
    BY <2>1, <2>2 DEF Staying
<1>7. \A i \in DOMAIN q2 : Feeds(q2[i], c) => q2[i].nonce = b /\ q2[i].algo = a
  BY <1>1 DEF Lane
<1>8. Lane(q2, k, r, c, a, b, x)
  BY <1>5, <1>7 DEF Lane, Staying
<1>9. ASSUME NEW f, Taking(q, k, c, f) PROVE Taking(q2, k, c, f)
  BY <1>1, <1>9 DEF Taking
<1> QED
  BY <1>6, <1>8, <1>9 DEF q2

\* A job for a worker that has nothing to do with it begins a lane.
LEMMA FirstWritten ==
    ASSUME NEW q \in Seq(Commands), NEW y \in Commands, NEW c, NEW k, NEW r, ~Busy(q, k, c),
           NEW a, NEW b, NEW x, Feeds(y, c) => y.nonce = b /\ y.algo = a
    PROVE  /\ Lane(Append(q, y), k, r, c, a, b, x)
           /\ Staying(Append(q, y), k, r, c)
           /\ At(k, c, x) = x
<1> DEFINE q2 == Append(q, y)
<1>0. ~On(k, c) /\ ~Fed(q, c)
  BY DEF Busy
<1>1. \A i \in DOMAIN q : ~Feeds(q[i], c)
  BY <1>0 DEF Fed
<1>2. \A i \in DOMAIN q2 : (i \in DOMAIN q /\ q2[i] = q[i]) \/ (i = Len(q) + 1 /\ q2[i] = y)
  BY PipeWritten
<1>3. \A i \in DOMAIN q2 : i <= Len(q) + 1
  <2>1. Len(q) \in Nat /\ DOMAIN q2 = 1 .. (Len(q) + 1)
    OBVIOUS
  <2> QED
    BY <2>1
<1>4. Len(q) + 1 \in Int /\ \A i \in DOMAIN q2 : i \in Int
  <2>1. Len(q) \in Nat /\ DOMAIN q2 = 1 .. (Len(q) + 1)
    OBVIOUS
  <2> QED
    BY <2>1
<1> HIDE DEF q2
<1>5. \A i \in DOMAIN q2 : Feeds(q2[i], c) => i = Len(q) + 1 /\ q2[i] = y
  BY <1>1, <1>2
<1>6. \A i, j \in DOMAIN q2 : ~(i < j /\ Feeds(q2[i], c))
  BY <1>3, <1>4, <1>5
<1>7. Lane(q2, k, r, c, a, b, x)
  BY <1>0, <1>5, <1>6 DEF Lane, Steady, Single
<1>8. Staying(q2, k, r, c)
  BY <1>0, <1>6 DEF Staying
<1> QED
  BY <1>0, <1>7, <1>8 DEF At, q2

\* The dispatch is the last word.
LEMMA LastWritten ==
    ASSUME NEW q \in Seq(Commands), NEW y \in Commands, NEW c, Feeds(y, c), NEW k, NEW p, NEW h,
           ForHeld(y, p, h)
    PROVE  Fresh(Append(q, y), k, c, p, h)
<1>1. /\ Append(q, y)[Len(q) + 1] = y /\ Len(q) + 1 \in DOMAIN Append(q, y)
      /\ \A i \in DOMAIN Append(q, y) : Len(q) + 1 >= i
  <2>1. Len(q) \in Nat /\ DOMAIN Append(q, y) = 1 .. (Len(q) + 1)
    OBVIOUS
  <2> QED
    BY <2>1, PipeWritten
<1>2. Fed(Append(q, y), c)
  BY <1>1 DEF Fed
<1> QED
  BY <1>1, <1>2 DEF Fresh

-----------------------------------------------------------------------------
(* Shares found.                                                           *)

Messages == ResultMessages \cup PositionMessages
Shares == [pool : Pools, id : Ids, content : 1 .. MaxContent, nonce : Nat]

\* The results on their way, by index.
Comes(u, p, t, n) ==
    \E w \in Workers : \E i \in DOMAIN u[w] : Mine(u[w][i], p, t) /\ u[w][i].nonce = n

\* A nonce is coming if some pipe holds a result with it; nonces are numbers.
LEMMA ComingIs ==
    ASSUME NEW u \in [Workers -> Seq(Messages)], NEW p, NEW t
    PROVE  /\ \A n : n \in Coming(u, p, t) <=> Comes(u, p, t, n)
           /\ Coming(u, p, t) \subseteq Nat
<1>1. \A n : n \in Coming(u, p, t) <=> Comes(u, p, t, n)
  BY DEF Coming, Range, Comes
<1>2. \A w \in Workers : \A i \in DOMAIN u[w] : u[w][i].nonce \in Nat
  <2>1. \A w \in Workers : \A i \in DOMAIN u[w] : u[w][i] \in Messages
    BY ElementOfSeq, LenProperties
  <2>2. \A m \in Messages : m.nonce \in Nat
    BY DEF Messages, ResultMessages, PositionMessages
  <2> QED
    BY <2>1, <2>2
<1> QED
  BY <1>1, <1>2 DEF Comes

\* The nonces of shares.
LEMMA FoundTyped ==
    ASSUME NEW s \in Seq(Shares), NEW u \in [Workers -> Seq(Messages)], NEW p, NEW h
    PROVE  Found(s, u, p, h) \subseteq Nat
<1>1. \A i \in DOMAIN s : s[i].nonce \in Nat
  <2>1. \A i \in DOMAIN s : s[i] \in Shares
    BY ElementOfSeq, LenProperties
  <2> QED
    BY <2>1 DEF Shares
<1> QED
  BY <1>1, ComingIs DEF Found, Submitted

\* The pipe of w is changed to q, the others not.
Changed(u, u2, w, q) ==
    u2 \in [Workers -> Seq(Messages)] /\ u2[w] = q /\ \A v \in Workers \ {w} : u2[v] = u[v]

\* The message e is no share that was found before.
New(e, s, u, c, p, t) ==
    Mine(e, p, t) => e.nonce \notin Submitted(s, c) \cup Coming(u, p, t)

\* A message that is no share of the held job, or one that is a new one.
LEMMA DistinctWritten ==
    ASSUME NEW s, NEW u \in [Workers -> Seq(Messages)], NEW c, NEW p, NEW t,
           Distinct(s, u, c, p, t), NEW w \in Workers, NEW e \in Messages,
           New(e, s, u, c, p, t),
           NEW u2, Changed(u, u2, w, Append(u[w], e))
    PROVE  /\ Distinct(s, u2, c, p, t)
           /\ Coming(u2, p, t) \subseteq Coming(u, p, t) \cup {e.nonce}
           /\ ~Mine(e, p, t) => Coming(u2, p, t) \subseteq Coming(u, p, t)
<1> USE DEF Changed, New
<1>1. u[w] \in Seq(Messages)
  OBVIOUS
<1>2. /\ Append(u[w], e) \in Seq(Messages)
      /\ \A i \in DOMAIN u[w] : Append(u[w], e)[i] = u[w][i]
      /\ \A i \in DOMAIN Append(u[w], e) : i \in DOMAIN u[w] \/ i = Len(u[w]) + 1
      /\ Append(u[w], e)[Len(u[w]) + 1] = e
  BY <1>1, PipeWritten
<1>4. \A v \in Workers : \A i \in DOMAIN u2[v] :
         \/ i \in DOMAIN u[v] /\ u2[v][i] = u[v][i]
         \/ v = w /\ i = Len(u[w]) + 1 /\ u2[v][i] = e
  <2> SUFFICES ASSUME NEW v \in Workers, NEW i \in DOMAIN u2[v]
               PROVE  \/ i \in DOMAIN u[v] /\ u2[v][i] = u[v][i]
                      \/ v = w /\ i = Len(u[w]) + 1 /\ u2[v][i] = e
    OBVIOUS
  <2>1. CASE v # w
    BY <2>1
  <2>2. CASE v = w
    BY <1>2, <2>2
  <2> QED
    BY <2>1, <2>2
<1>5. /\ \A n : n \in Coming(u, p, t) <=> Comes(u, p, t, n)
      /\ \A n : n \in Coming(u2, p, t) <=> Comes(u2, p, t, n)
  BY ComingIs
<1>6. /\ Coming(u2, p, t) \subseteq Coming(u, p, t) \cup {e.nonce}
      /\ ~Mine(e, p, t) => Coming(u2, p, t) \subseteq Coming(u, p, t)
  <2>1. ASSUME NEW n, Comes(u2, p, t, n)
        PROVE  Comes(u, p, t, n) \/ (n = e.nonce /\ Mine(e, p, t))
    BY <1>4, <2>1 DEF Comes
  <2> QED
    BY <1>5, <2>1
<1>7. ASSUME NEW v \in Workers, NEW x \in Workers, NEW i \in DOMAIN u2[v], NEW j \in DOMAIN u2[x],
             Mine(u2[v][i], p, t), Mine(u2[x][j], p, t), u2[v][i].nonce = u2[x][j].nonce
      PROVE  v = x /\ i = j
  <2>1. CASE /\ i \in DOMAIN u[v] /\ u2[v][i] = u[v][i]
             /\ j \in DOMAIN u[x] /\ u2[x][j] = u[x][j]
    BY <1>7, <2>1 DEF Distinct, Apart
  <2>2. CASE i \in DOMAIN u[v] /\ u2[v][i] = u[v][i] /\ u2[x][j] = e
    BY <1>5, <1>7, <2>2 DEF Comes
  <2>3. CASE u2[v][i] = e /\ j \in DOMAIN u[x] /\ u2[x][j] = u[x][j]
    BY <1>5, <1>7, <2>3 DEF Comes
  <2>4. CASE v = w /\ i = Len(u[w]) + 1 /\ x = w /\ j = Len(u[w]) + 1
    BY <2>4
  <2> QED
    BY <1>4, <2>1, <2>2, <2>3, <2>4
<1>8. Submitted(s, c) \cap Coming(u2, p, t) = {}
  BY <1>6 DEF Distinct
<1>9. Apart(u2, p, t)
  <2> SUFFICES ASSUME NEW v \in Workers, NEW x \in Workers, NEW i \in DOMAIN u2[v],
                      NEW j \in DOMAIN u2[x], Mine(u2[v][i], p, t), Mine(u2[x][j], p, t),
                      u2[v][i].nonce = u2[x][j].nonce
               PROVE  v = x /\ i = j
    BY DEF Apart
  <2> QED
    BY <1>7
<1> QED
  BY <1>6, <1>8, <1>9 DEF Distinct

\* A message read is one less on its way.
Less(s, u, u2, c, p, t, m) ==
    /\ Distinct(s, u2, c, p, t) /\ Coming(u2, p, t) \subseteq Coming(u, p, t)
    /\ Mine(m, p, t) => m.nonce \in Coming(u, p, t) /\ m.nonce \notin Coming(u2, p, t)

\* Reading a pipe leaves the nonces distinct.
LEMMA DistinctRead ==
    ASSUME NEW s, NEW u \in [Workers -> Seq(Messages)], NEW c, NEW p, NEW t,
           Distinct(s, u, c, p, t), NEW w \in Workers, u[w] # << >>,
           NEW u2, Changed(u, u2, w, Tail(u[w]))
    PROVE  Less(s, u, u2, c, p, t, Head(u[w]))
<1> DEFINE m == Head(u[w])
<1> USE DEF Changed
<1>1. u[w] \in Seq(Messages)
  OBVIOUS
<1>2. /\ Tail(u[w]) \in Seq(Messages) /\ m = u[w][1] /\ 1 \in DOMAIN u[w]
      /\ \A i \in DOMAIN Tail(u[w]) : i + 1 \in DOMAIN u[w] /\ Tail(u[w])[i] = u[w][i + 1]
                                       /\ i \in Nat /\ i # 0
  BY <1>1, PipeRead
<1>4. /\ \A n : n \in Coming(u, p, t) <=> Comes(u, p, t, n)
      /\ \A n : n \in Coming(u2, p, t) <=> Comes(u2, p, t, n)
  BY ComingIs
<1> HIDE DEF m
<1> DEFINE old(v, i) == IF v = w THEN i + 1 ELSE i
<1>5. ASSUME NEW v \in Workers, NEW i \in DOMAIN u2[v]
      PROVE  old(v, i) \in DOMAIN u[v] /\ u2[v][i] = u[v][old(v, i)]
             /\ (v = w => i \in Nat /\ i # 0)
  <2>1. CASE v # w
    BY <2>1
  <2>2. CASE v = w
    BY <1>2, <2>2
  <2> QED
    BY <2>1, <2>2
<1>6. ASSUME NEW v \in Workers, NEW i \in DOMAIN u2[v], NEW j \in DOMAIN u2[v],
             old(v, i) = old(v, j)
      PROVE  i = j
  <2>1. CASE v = w
    <3>1. i \in Nat /\ j \in Nat /\ i + 1 = j + 1
      BY <1>5, <1>6, <2>1
    <3> QED
      BY <3>1
  <2>2. CASE v # w
    BY <1>6, <2>2
  <2> QED
    BY <2>1, <2>2
<1>7. \A i \in DOMAIN u2[w] : old(w, i) # 1
  <2>1. \A i \in DOMAIN u2[w] : i \in Nat /\ i # 0
    BY <1>5
  <2> QED
    BY <2>1
<1> HIDE DEF old
<1>8. Coming(u2, p, t) \subseteq Coming(u, p, t)
  <2>1. ASSUME NEW n, Comes(u2, p, t, n) PROVE Comes(u, p, t, n)
    BY <1>5, <2>1 DEF Comes
  <2> QED
    BY <1>4, <2>1
<1>9. ASSUME NEW v \in Workers, NEW x \in Workers, NEW i \in DOMAIN u2[v], NEW j \in DOMAIN u2[x],
             Mine(u2[v][i], p, t), Mine(u2[x][j], p, t), u2[v][i].nonce = u2[x][j].nonce
      PROVE  v = x /\ i = j
  <2>1. v = x /\ old(v, i) = old(x, j)
    BY <1>5, <1>9 DEF Distinct, Apart
  <2> QED
    BY <1>6, <2>1
<1>10. Distinct(s, u2, c, p, t)
  <2>1. Apart(u2, p, t)
    <3> SUFFICES ASSUME NEW v \in Workers, NEW x \in Workers, NEW i \in DOMAIN u2[v],
                        NEW j \in DOMAIN u2[x], Mine(u2[v][i], p, t), Mine(u2[x][j], p, t),
                        u2[v][i].nonce = u2[x][j].nonce
                 PROVE  v = x /\ i = j
      BY DEF Apart
    <3> QED
      BY <1>9
  <2> QED
    BY <1>8, <2>1 DEF Distinct
<1>11. ASSUME Mine(m, p, t)
       PROVE  m.nonce \in Coming(u, p, t) /\ m.nonce \notin Coming(u2, p, t)
  <2>1. m.nonce \in Coming(u, p, t)
    BY <1>2, <1>4, <1>11 DEF Comes
  <2>2. ASSUME NEW v \in Workers, NEW i \in DOMAIN u2[v], Mine(u2[v][i], p, t),
               u2[v][i].nonce = m.nonce
        PROVE  FALSE
    <3>1. old(v, i) \in DOMAIN u[v] /\ u2[v][i] = u[v][old(v, i)]
      BY <1>5
    <3>2. v = w /\ old(v, i) = 1
      BY <1>2, <1>11, <2>2, <3>1 DEF Distinct, Apart
    <3> QED
      BY <1>7, <3>2
  <2> QED
    <3>1. ~Comes(u2, p, t, m.nonce)
      BY <2>2 DEF Comes
    <3> QED
      BY <1>4, <2>1, <3>1
<1> QED
  BY <1>8, <1>10, <1>11 DEF m, Less

\* A share is written.
LEMMA SubmittedWritten ==
    ASSUME NEW s \in Seq(Shares), NEW e \in Shares, NEW c
    PROVE  /\ Submitted(Append(s, e), c) \subseteq Submitted(s, c) \cup {e.nonce}
           /\ e.content # c => Submitted(Append(s, e), c) \subseteq Submitted(s, c)
           /\ \A i, j \in DOMAIN Append(s, e) :
                 /\ i # j
                 /\ Append(s, e)[i].content = Append(s, e)[j].content
                 /\ Append(s, e)[i].nonce = Append(s, e)[j].nonce
                 => \/ /\ i \in DOMAIN s /\ j \in DOMAIN s
                       /\ Append(s, e)[i] = s[i] /\ Append(s, e)[j] = s[j]
                    \/ /\ e.nonce \in Submitted(s, e.content)
                       /\ Append(s, e)[i].content = e.content
<1> DEFINE z == Append(s, e)
<1>1. \A i \in DOMAIN z : (i \in DOMAIN s /\ z[i] = s[i]) \/ (i = Len(s) + 1 /\ z[i] = e)
  BY PipeWritten
<1> HIDE DEF z
<1>2. /\ Submitted(z, c) \subseteq Submitted(s, c) \cup {e.nonce}
      /\ e.content # c => Submitted(z, c) \subseteq Submitted(s, c)
  BY <1>1 DEF Submitted
<1>3. ASSUME NEW i \in DOMAIN z, NEW j \in DOMAIN z, i # j, z[i].content = z[j].content,
             z[i].nonce = z[j].nonce
      PROVE  \/ i \in DOMAIN s /\ j \in DOMAIN s /\ z[i] = s[i] /\ z[j] = s[j]
             \/ e.nonce \in Submitted(s, e.content) /\ z[i].content = e.content
  BY <1>1, <1>3 DEF Submitted
<1> QED
  BY <1>2, <1>3 DEF z

\* Nothing is on its way under a token that no message has.
LEMMA NothingComing ==
    ASSUME NEW s, NEW u \in [Workers -> Seq(Messages)], NEW c, NEW p, NEW t,
           \A w \in Workers : \A m \in Range(u[w]) : m.type = "result" => m.token # t
    PROVE  Distinct(s, u, c, p, t) /\ Coming(u, p, t) = {}
<1>1. \A w \in Workers : \A i \in DOMAIN u[w] : ~Mine(u[w][i], p, t)
  BY DEF Mine, Range
<1>2. Coming(u, p, t) = {}
  BY <1>1, ComingIs DEF Comes
<1> QED
  BY <1>1, <1>2 DEF Distinct, Apart

-----------------------------------------------------------------------------
(* The workers' steps.                                                     *)

\* The types the lemmas above ask for.
LEMMA Typing ==
    ASSUME TypeOK, ChannelsTyped
    PROVE  /\ up \in [Workers -> Seq(Messages)] /\ sent \in Seq(Shares)
           /\ held \in [Pools -> Jobs \cup {NoJob}] /\ generation \in Nat
           /\ \A w \in Workers :
                /\ down[w] \in Seq(Commands) /\ w[1] \in Nat /\ w[2] \in Nat /\ w[2] \in Threads
                /\ running[w] => work[w] # NoWork
                /\ work[w] # NoWork => work[w].cur \in Nat
           /\ \A p, h : Found(sent, up, p, h) \subseteq Nat
<1>1. up \in [Workers -> Seq(Messages)] /\ sent \in Seq(Shares)
  BY DEF ChannelsTyped, Messages, Shares
<1>2. \A w \in Workers : down[w] \in Seq(Commands) /\ (work[w] # NoWork => work[w].cur \in Nat)
  BY DEF ChannelsTyped, Works
<1>3. \A w \in Workers : running[w] => work[w] # NoWork
  BY DEF TypeOK
<1>4. held \in [Pools -> Jobs \cup {NoJob}] /\ generation \in Nat
  BY RelayAssumption DEF TypeOK
<1>5. \A w \in Workers : w[2] \in Threads
  BY DEF Workers
<1> QED
  BY <1>1, <1>2, <1>3, <1>4, <1>5, WorkerNames, FoundTyped

\* The worker w writes a report as it meets its next command.
Leaves(w) == work[w] # NoWork /\ up'[w] = Append(up[w], LastNonce(work[w]))

\* Process is a turn of the worker.
LEMMA ProcessTurn ==
    ASSUME TypeOK, ChannelsTyped, NEW w \in Workers, Process(w)
    PROVE  /\ Turn(down[w][1], work[w], running[w], w[2], work'[w], running'[w], Leaves(w))
           /\ down[w] # << >> /\ down'[w] = Tail(down[w])
           /\ Leaves(w) \/ up'[w] = up[w]
           /\ \A v \in Workers \ {w} : /\ down'[v] = down[v] /\ work'[v] = work[v]
                                       /\ running'[v] = running[v] /\ up'[v] = up[v]
<1> DEFINE x == down[w][1]
<1>0. /\ down \in [Workers -> Seq(Commands)] /\ work \in [Workers -> Works \cup {NoWork}]
      /\ running \in [Workers -> BOOLEAN] /\ up \in [Workers -> Seq(Messages)]
  BY Typing DEF ChannelsTyped, TypeOK
<1>1. Head(down[w]) = x /\ down[w] # << >>
  BY <1>0, PipeRead DEF Process
<1>2. down' = [down EXCEPT ![w] = Tail(@)]
  BY DEF Process
<1>3. down'[w] = Tail(down[w]) /\ \A v \in Workers \ {w} : down'[v] = down[v]
  BY <1>0, <1>2
<1> DEFINE rep == work[w] # NoWork /\ (work[w].algo \in RandomX => running[w])
<1>4. /\ rep => Reports(w) = Append(up[w], LastNonce(work[w]))
      /\ ~rep => Reports(w) = up[w]
  BY DEF Reports
<1>5. CASE /\ x.type = "job" /\ x.sound
           /\ work' = [work EXCEPT ![w] = Take(w, x)]
           /\ running' = [running EXCEPT ![w] = TRUE]
           /\ up' = [up EXCEPT ![w] = Reports(w)]
  <2>1. /\ work'[w] = Take(w, x) /\ running'[w] /\ up'[w] = Reports(w)
        /\ \A v \in Workers \ {w} : work'[v] = work[v] /\ running'[v] = running[v] /\ up'[v] = up[v]
    BY <1>0, <1>5
  <2>2. x \in JobCommands
    <3>1. x \in Commands
      BY <1>0, <1>1, PipeRead
    <3> QED
      BY <1>5, <3>1 DEF Commands
  <2>3. work'[w] # NoWork
    BY <2>1, <2>2, TakeTyped
  <2>4. /\ work'[w].content = x.content /\ work'[w].algo = x.algo
        /\ work'[w].pool = x.pool /\ work'[w].token = x.token /\ work'[w].id = x.id
        /\ work'[w].cur = IF running[w] /\ work[w].content = x.content /\ x.algo \notin RandomX
                          THEN work[w].cur ELSE x.nonce + w[2]
    BY <2>1 DEF Take
  <2>5. rep => Leaves(w)
    BY <1>4, <2>1 DEF Leaves
  <2>6. Leaves(w) \/ up'[w] = up[w]
    BY <1>4, <2>1, <2>5
  <2> QED
    BY <1>1, <1>3, <1>5, <2>1, <2>3, <2>4, <2>5, <2>6 DEF Turn
<1>6. CASE x.type = "job" /\ ~x.sound /\ UNCHANGED <<work, running, up>>
  BY <1>1, <1>3, <1>6 DEF Turn
<1>7. ASSUME (x.type = "job" /\ x.sound /\ Allocates(w, x)) \/ x.type = "pause", Stops(w)
      PROVE  /\ Turn(x, work[w], running[w], w[2], work'[w], running'[w], Leaves(w))
             /\ Leaves(w) \/ up'[w] = up[w]
             /\ \A v \in Workers \ {w} : work'[v] = work[v] /\ running'[v] = running[v] /\ up'[v] = up[v]
  <2>1. /\ running' = [running EXCEPT ![w] = FALSE] /\ work' = work
        /\ up' = [up EXCEPT ![w] = IF work[w] # NoWork /\ work[w].algo \in RandomX
                                   THEN Reports(w) ELSE up[w]]
    BY <1>7 DEF Stops
  <2>2. /\ work'[w] = work[w] /\ ~running'[w]
        /\ up'[w] = IF work[w] # NoWork /\ work[w].algo \in RandomX THEN Reports(w) ELSE up[w]
        /\ \A v \in Workers \ {w} : work'[v] = work[v] /\ running'[v] = running[v] /\ up'[v] = up[v]
    BY <1>0, <2>1
  <2>3. work[w] # NoWork /\ work[w].algo \in RandomX /\ running[w] => Leaves(w)
    BY <1>4, <2>2 DEF Leaves
  <2>4. Leaves(w) \/ up'[w] = up[w]
    BY <1>4, <2>2 DEF Leaves
  <2> QED
    BY <1>7, <2>2, <2>3, <2>4 DEF Turn, Allocates
<1>8. CASE /\ x.type = "close" /\ work' = work
           /\ running' = [running EXCEPT ![w] = FALSE]
           /\ up' = [up EXCEPT ![w] = Reports(w)]
  <2>1. /\ work'[w] = work[w] /\ ~running'[w] /\ up'[w] = Reports(w)
        /\ \A v \in Workers \ {w} : work'[v] = work[v] /\ running'[v] = running[v] /\ up'[v] = up[v]
    BY <1>0, <1>8
  <2>2. rep => Leaves(w)
    BY <1>4, <2>1 DEF Leaves
  <2>3. Leaves(w) \/ up'[w] = up[w]
    BY <1>4, <2>1, <2>2
  <2> QED
    BY <1>1, <1>3, <1>8, <2>1, <2>2, <2>3 DEF Turn
<1>9. \/ /\ x.type = "job" /\ x.sound
         /\ work' = [work EXCEPT ![w] = Take(w, x)]
         /\ running' = [running EXCEPT ![w] = TRUE]
         /\ up' = [up EXCEPT ![w] = Reports(w)]
      \/ x.type = "job" /\ ~x.sound /\ UNCHANGED <<work, running, up>>
      \/ ((x.type = "job" /\ x.sound /\ Allocates(w, x)) \/ x.type = "pause") /\ Stops(w)
      \/ /\ x.type = "close" /\ work' = work
         /\ running' = [running EXCEPT ![w] = FALSE]
         /\ up' = [up EXCEPT ![w] = Reports(w)]
  BY <1>1 DEF Process
<1> QED
  BY <1>1, <1>3, <1>5, <1>6, <1>7, <1>8, <1>9

\* Fewer shares are found.
LEMMA LanesShrink ==
    ASSUME NEW D, NEW W, NEW R, NEW g, NEW F, NEW G, G \subseteq F, NEW c, NEW a, NEW b,
           Lanes(D, W, R, g, F, c, a, b)
    PROVE  Lanes(D, W, R, g, G, c, a, b)
  BY DEF Lanes

\* A report of the core's job is past where the core is.
LEMMA ReportIs ==
    ASSUME TypeOK, ChannelsTyped, NEW w \in Workers, work[w] # NoWork
    PROVE  /\ LastNonce(work[w]) \in Messages /\ LastNonce(work[w]).type = "last_nonce"
           /\ LastNonce(work[w]).nonce >= work[w].cur
           /\ \A p, h : ForHeld(work[w], p, h) => ForHeld(LastNonce(work[w]), p, h)
<1>1. work[w] \in Works
  BY DEF TypeOK
<1>2. Position(work[w]) \in Nat /\ Position(work[w]) >= work[w].cur
  BY <1>1, RelayAssumption DEF Position, Works
<1>3. LastNonce(work[w]) \in PositionMessages
  BY <1>1, <1>2 DEF LastNonce, PositionMessages, Works
<1> QED
  BY <1>2, <1>3 DEF LastNonce, Messages, ForHeld

\* A turn of a worker.
LEMMA ProcessSure ==
    ASSUME TypeOK, ChannelsTyped, ChannelsTyped', NEW w \in Workers, Process(w),
           LastDispatched, NEW p \in Pools, held[p] # NoJob, Sure(p)
    PROVE  Sure(p)'
<1> DEFINE c == held[p].content
           a == held[p].algo
           F == Found(sent, up, p, held)
           G == Found(sent, up', p, held)
<1>1. /\ Turn(down[w][1], work[w], running[w], w[2], work'[w], running'[w], Leaves(w))
      /\ down[w] # << >> /\ down'[w] = Tail(down[w])
      /\ Leaves(w) \/ up'[w] = up[w]
      /\ \A v \in Workers \ {w} : /\ down'[v] = down[v] /\ work'[v] = work[v]
                                  /\ running'[v] = running[v] /\ up'[v] = up[v]
  BY ProcessTurn
<1>2. UNCHANGED <<active, held, lastJob, generation, exiting, sent>>
  BY DEF Process, ctrlVars
<1>3. PICK e \in BOOLEAN : e <=> Leaves(w)
  OBVIOUS
<1>4. Turn(down[w][1], work[w], running[w], w[2], work'[w], running'[w], e)
  BY <1>1, <1>3 DEF Turn
<1>5. /\ up \in [Workers -> Seq(Messages)] /\ up' \in [Workers -> Seq(Messages)]
      /\ down[w] \in Seq(Commands) /\ w[2] \in Nat
      /\ running[w] => work[w] # NoWork
      /\ work[w] # NoWork => work[w].cur \in Nat
      /\ F \subseteq Nat
  BY Typing DEF ChannelsTyped, Messages
<1>6. Distinct(sent, up', c, p, held[p].token) /\ G \subseteq F
  <2>0. Distinct(sent, up, c, p, held[p].token)
    BY DEF Sure
  <2>1. CASE Leaves(w)
    <3> DEFINE m == LastNonce(work[w])
    <3>1. m \in Messages /\ m.type = "last_nonce"
      BY <2>1, ReportIs DEF Leaves
    <3>2. ~Mine(m, p, held[p].token)
      BY <3>1 DEF Mine
    <3>3. up'[w] = Append(up[w], m)
      BY <2>1 DEF Leaves
    <3> HIDE DEF m
    <3>4. /\ Distinct(sent, up', c, p, held[p].token)
          /\ Coming(up', p, held[p].token) \subseteq Coming(up, p, held[p].token)
      <4> DEFINE u2 == up'
                 t == held[p].token
      <4>1. Changed(up, u2, w, Append(up[w], m))
        BY <1>1, <1>5, <3>3 DEF Changed
      <4>2. ~Mine(m, p, t) /\ Distinct(sent, up, c, p, t) /\ New(m, sent, up, c, p, t)
        BY <2>0, <3>2 DEF New
      <4> HIDE DEF c, u2, t
      <4>3. Distinct(sent, u2, c, p, t)
        BY <1>5, <3>1, <4>1, <4>2, DistinctWritten
      <4>4. Coming(u2, p, t) \subseteq Coming(up, p, t)
        BY <1>5, <3>1, <4>1, <4>2, DistinctWritten
      <4> QED
        BY <4>3, <4>4 DEF c, u2, t
    <3> QED
      BY <3>4 DEF Found
  <2>2. CASE up'[w] = up[w]
    <3>1. up' = up
      BY <1>1, <1>5, <2>2
    <3> QED
      BY <2>0, <3>1
  <2> QED
    BY <1>1, <2>1, <2>2
<1>7. ASSUME NEW b \in Nat, Lanes(down, work, running, generation, F, c, a, b)
      PROVE  Lanes(down', work', running', generation, G, c, a, b)
  <2> SUFFICES ASSUME NEW v \in Workers
               PROVE  /\ Lane(down'[v], work'[v], running'[v], c, a, b, b + v[2])
                      /\ Busy(down'[v], work'[v], c) =>
                            /\ v[1] = generation
                            /\ \A f \in G : ~Ahead(At(work'[v], c, b + v[2]), f)
    BY DEF Lanes
  <2>1. /\ Lane(down[v], work[v], running[v], c, a, b, b + v[2])
        /\ Busy(down[v], work[v], c) =>
              v[1] = generation /\ \A f \in F : ~Ahead(At(work[v], c, b + v[2]), f)
    BY <1>7 DEF Lanes
  <2>2. CASE v # w
    <3>1. down'[v] = down[v] /\ work'[v] = work[v] /\ running'[v] = running[v]
      BY <1>1, <2>2
    <3> QED
      BY <1>6, <2>1, <3>1
  <2>3. CASE v = w
    <3>1. /\ Lane(Tail(down[w]), work'[w], running'[w], c, a, b, b + w[2])
          /\ Busy(Tail(down[w]), work'[w], c) =>
                Busy(down[w], work[w], c) /\ At(work'[w], c, b + w[2]) = At(work[w], c, b + w[2])
      <4>1. Lane(down[w], work[w], running[w], c, a, b, b + w[2])
        BY <2>1, <2>3
      <4> DEFINE y == b + w[2]
      <4>2. y = b + w[2] /\ Lane(down[w], work[w], running[w], c, a, b, y)
        BY <4>1
      <4> HIDE DEF c, a, y
      <4>3. Lane(Tail(down[w]), work'[w], running'[w], c, a, b, y)
        BY <1>1, <1>4, <1>5, <4>2, TurnLane
      <4>4. Follows(down[w], work[w], Tail(down[w]), work'[w], c, y)
        BY <1>1, <1>4, <1>5, <4>2, TurnLane
      <4> QED
        BY <4>3, <4>4 DEF y, Follows, SamePlace
    <3> QED
      BY <1>1, <1>6, <2>1, <2>3, <3>1
  <2> QED
    BY <2>2, <2>3
<1>8. PICK b \in Nat : Lanes(down, work, running, generation, F, c, a, b)
  BY DEF Sure
<1>9. Lane(down[w], work[w], running[w], c, a, b, b + w[2])
  BY <1>8 DEF Lanes
<1>10. ASSUME ~exiting
       PROVE  \A v \in Workers : Fresh(down'[v], work'[v], c, p, held)
  <2>1. \A v \in Workers : Fresh(down[v], work[v], c, p, held)
    BY <1>10 DEF Sure
  <2>2. Fresh(Tail(down[w]), work'[w], c, p, held)
    BY <1>1, <1>4, <1>5, <1>9, <2>1, TurnFresh
  <2> QED
    BY <1>1, <2>1, <2>2
<1>11. ASSUME ~exiting, NEW f \in Nat, Known(down, work, running, held[p], f)
       PROVE  \/ Known(down', work', running', held[p], f)
              \/ /\ e /\ On(work[w], c) /\ ~Feeds(down[w][1], c)
                 /\ ForHeld(work[w], p, held) /\ f < work[w].cur
  <2>1. CASE f < held[p].nonce
    BY <2>1 DEF Known
  <2>2. ASSUME NEW v \in Workers, Reporting(work[v], running[v], c, f) \/ Taking(down[v], work[v], c, f)
        PROVE  \/ Known(down', work', running', held[p], f)
               \/ /\ e /\ On(work[w], c) /\ ~Feeds(down[w][1], c)
                  /\ ForHeld(work[w], p, held) /\ f < work[w].cur
    <3>1. CASE v # w
      <4>1. down'[v] = down[v] /\ work'[v] = work[v] /\ running'[v] = running[v]
        BY <1>1, <3>1
      <4> QED
        BY <2>2, <4>1 DEF Known
    <3>2. CASE v = w
      <4>1. Fresh(down[w], work[w], c, p, held)
        BY <1>11 DEF Sure
      <4>2. Reporting(work[w], running[w], c, f) \/ Taking(down[w], work[w], c, f)
        BY <2>2, <3>2
      <4>3. \/ Reporting(work'[w], running'[w], c, f) \/ Taking(Tail(down[w]), work'[w], c, f)
            \/ /\ e /\ On(work[w], c) /\ ~Feeds(down[w][1], c)
               /\ ForHeld(work[w], p, held) /\ f < work[w].cur
        <5> HIDE DEF c, a
        <5>1. \/ Reporting(work'[w], running'[w], c, f) \/ Taking(Tail(down[w]), work'[w], c, f)
              \/ Parting(down[w][1], work[w], c, p, held, f, e)
          BY <1>1, <1>4, <1>5, <1>9, <4>1, <4>2, TurnKnown
        <5> QED
          BY <5>1 DEF Parting
      <4> QED
        BY <1>1, <4>3 DEF Known
    <3> QED
      BY <3>1, <3>2
  <2> QED
    BY <1>11, <2>1, <2>2 DEF Known
<1>12. ASSUME ~exiting, p = active, Mined(p) PROVE Mined(p)'
  <2> DEFINE d == lastJob.nonce
  <2>0. d \in Nat
    <3>1. lastJob # NoJob
      BY <1>12 DEF LastDispatched
    <3> QED
      BY <3>1 DEF ChannelsTyped
  <2>1. /\ held[p].nonce \in {Unset, d}
        /\ Lanes(down, work, running, generation, F, c, a, d)
        /\ \A v \in Workers : Staying(down[v], work[v], running[v], c)
        /\ \A v \in Workers : v[1] = generation => \A f \in F : ~Ahead(At(work[v], c, d + v[2]), f)
        /\ \A f \in F : Known(down, work, running, held[p], f)
    BY <1>12 DEF Mined
  <2>2. Lanes(down', work', running', generation, G, c, a, d)
    BY <1>7, <2>0, <2>1
  <2>3. /\ Staying(Tail(down[w]), work'[w], running'[w], c)
        /\ At(work'[w], c, d + w[2]) = At(work[w], c, d + w[2])
    <3>1. Lane(down[w], work[w], running[w], c, a, d, d + w[2]) /\ Staying(down[w], work[w], running[w], c)
      BY <2>1 DEF Lanes
    <3> DEFINE y == d + w[2]
    <3>2. y = d + w[2] /\ Lane(down[w], work[w], running[w], c, a, d, y)
      BY <3>1
    <3> HIDE DEF c, a, d, y
    <3>3. Stays(Tail(down[w]), work'[w], running'[w], c, work[w], y)
      BY <1>1, <1>4, <1>5, <2>0, <3>1, <3>2, TurnStaying
    <3> QED
      BY <3>3 DEF y, Stays, SamePlace
  <2>4. \A v \in Workers : Staying(down'[v], work'[v], running'[v], c)
    BY <1>1, <2>1, <2>3
  <2>5. \A v \in Workers : v[1] = generation => \A f \in G : ~Ahead(At(work'[v], c, d + v[2]), f)
    BY <1>1, <1>6, <2>1, <2>3
  <2>6. ~(On(work[w], c) /\ ~Feeds(down[w][1], c))
    <3>1. 1 \in DOMAIN down[w]
      BY <1>1, <1>5, PipeRead
    <3> QED
      BY <2>1, <3>1 DEF Staying
  <2>7. \A f \in G : Known(down', work', running', held[p], f)
    <3> SUFFICES ASSUME NEW f \in G PROVE Known(down', work', running', held[p], f)
      OBVIOUS
    <3>1. f \in Nat /\ Known(down, work, running, held[p], f)
      BY <1>5, <1>6, <2>1
    <3> QED
      BY <1>11, <1>12, <2>6, <3>1
  <2> QED
    BY <1>2, <2>1, <2>2, <2>4, <2>5, <2>7 DEF Mined
<1>13. ASSUME ~exiting, Told(p) PROVE Told(p)'
  <2> SUFFICES ASSUME NEW f \in G
               PROVE  Known(down', work', running', held[p], f) \/ Reported(up', generation, p, held, f)
    BY <1>2 DEF Told
  <2>1. f \in Nat /\ (Known(down, work, running, held[p], f) \/ Reported(up, generation, p, held, f))
    BY <1>5, <1>6, <1>13 DEF Told
  <2>2. \A v \in Workers : Range(up[v]) \subseteq Range(up'[v])
    <3>1. CASE Leaves(w)
      <4>1. LastNonce(work[w]) \in Messages /\ up[w] \in Seq(Messages)
        BY <1>5, <3>1, ReportIs DEF Leaves
      <4>2. Range(Append(up[w], LastNonce(work[w]))) = Range(up[w]) \cup {LastNonce(work[w])}
        BY <4>1, AppendRange
      <4> QED
        BY <1>1, <3>1, <4>2 DEF Leaves
    <3>2. CASE up'[w] = up[w]
      BY <1>1, <3>2
    <3> QED
      BY <1>1, <3>1, <3>2
  <2>3. CASE Reported(up, generation, p, held, f)
    BY <2>2, <2>3 DEF Reported
  <2>4. CASE /\ e /\ On(work[w], c)
             /\ ForHeld(work[w], p, held) /\ f < work[w].cur
    <3> DEFINE m == LastNonce(work[w])
    <3>1. /\ m \in Messages /\ m.type = "last_nonce" /\ m.nonce >= work[w].cur
          /\ ForHeld(m, p, held) /\ work[w].cur \in Nat /\ up[w] \in Seq(Messages)
      BY <1>3, <1>5, <2>4, ReportIs DEF Leaves
    <3>2. m.nonce \in Nat
      BY <3>1 DEF Messages, ResultMessages, PositionMessages
    <3>3. up'[w] = Append(up[w], m)
      BY <1>3, <2>4 DEF Leaves
    <3> HIDE DEF m
    <3>4. m \in Range(up'[w])
      BY <3>1, <3>3, AppendRange
    <3>5. w[1] = generation
      BY <1>8, <2>4 DEF Lanes, Busy
    <3>6. f < m.nonce
      BY <2>1, <2>4, <3>1, <3>2
    <3> QED
      BY <3>1, <3>4, <3>5, <3>6 DEF Reported
  <2> QED
    BY <1>11, <1>13, <2>1, <2>3, <2>4
<1>14. \E d \in Nat : Lanes(down', work', running', generation, G, c, a, d)
  BY <1>7, <1>8
<1>15. ~exiting => (p = active => Mined(p)) /\ (p \notin {active, Donate} => Told(p))
  BY DEF Sure
<1> QED
  BY <1>2, <1>6, <1>10, <1>12, <1>13, <1>14, <1>15 DEF Sure

\* Workers in different lanes do not meet.
LEMMA LanesApart ==
    ASSUME NEW v \in Workers, NEW w \in Workers, v # w, v[1] = w[1], NEW b \in Nat,
           NEW q, NEW k, NEW r, NEW c, NEW a, Lane(q, k, r, c, a, b, b + v[2]),
           k # NoWork => k.cur \in Nat, NEW n \in Nat, Ahead(b + w[2], n)
    PROVE  ~Ahead(At(k, c, b + v[2]), n)
<1>1. v[2] \in Threads /\ w[2] \in Threads /\ v[2] # w[2]
  <2>1. v = <<v[1], v[2]>> /\ w = <<w[1], w[2]>> /\ v[2] \in Threads /\ w[2] \in Threads
    BY DEF Workers
  <2> QED
    BY <2>1
<1>2. b + v[2] \in Nat
  <2>1. v[2] \in Nat
    BY WorkerNames
  <2> QED
    BY <2>1
<1>3. SUFFICES ASSUME Ahead(At(k, c, b + v[2]), n) PROVE FALSE
  OBVIOUS
<1>4. Ahead(b + v[2], n)
  <2>1. CASE On(k, c)
    <3>1. k.cur \in Nat /\ Ahead(b + v[2], k.cur) /\ Ahead(k.cur, n)
      BY <1>3, <2>1 DEF Lane, At, On
    <3> QED
      BY <1>2, <3>1, AheadTransitive
  <2>2. CASE ~On(k, c)
    BY <1>3, <2>2 DEF At
  <2> QED
    BY <2>1, <2>2
<1> QED
  BY <1>1, <1>4, OwnLane

\* What a batch does.
LEMMA HashIs ==
    ASSUME TypeOK, ChannelsTyped, ChannelsTyped', NEW w \in Workers, Hash(w)
    PROVE  /\ running[w] /\ work[w] # NoWork /\ work[w].cur \in Nat
           /\ work'[w] # NoWork /\ work'[w].cur = work[w].cur + N
           /\ work'[w].pool = work[w].pool /\ work'[w].token = work[w].token
           /\ work'[w].id = work[w].id /\ work'[w].content = work[w].content
           /\ work'[w].algo = work[w].algo
           /\ \A v \in Workers \ {w} : work'[v] = work[v]
           /\ UNCHANGED <<active, held, lastJob, generation, exiting, down, running, sent>>
           /\ up' = up \/ \E m \in Messages :
                 /\ Changed(up, up', w, Append(up[w], m))
                 /\ m.pool = work[w].pool /\ m.token = work[w].token /\ m.nonce = work[w].cur
<1>1. /\ running[w] /\ work' = [work EXCEPT ![w].cur = @ + N]
      /\ UNCHANGED <<active, held, lastJob, generation, exiting, down, running, sent>>
  BY DEF Hash, ctrlVars
<1>2. work[w] \in Works /\ work \in [Workers -> Works \cup {NoWork}]
  BY <1>1 DEF TypeOK, ChannelsTyped
<1>3. /\ work'[w] = [work[w] EXCEPT !.cur = work[w].cur + N]
      /\ \A v \in Workers \ {w} : work'[v] = work[v]
  BY <1>1, <1>2
<1>4. work[w].cur \in Nat /\ work[w] # NoWork
  <2>1. work[w].token \in 1 .. MaxToken /\ NoWork.token = 0
    BY <1>2 DEF Works, NoWork
  <2> QED
    BY <1>2, <2>1 DEF Works
<1>5. /\ work'[w].cur = work[w].cur + N
      /\ work'[w].pool = work[w].pool /\ work'[w].token = work[w].token
      /\ work'[w].id = work[w].id /\ work'[w].content = work[w].content
      /\ work'[w].algo = work[w].algo
  BY <1>2, <1>3 DEF Works
<1>6. work'[w] # NoWork
  <2>1. work'[w].token \in 1 .. MaxToken /\ NoWork.token = 0
    BY <1>2, <1>5 DEF Works, NoWork
  <2> QED
    BY <2>1
<1> DEFINE m == [type |-> "result", pool |-> work[w].pool, id |-> work[w].id,
                 token |-> work[w].token, content |-> work[w].content, nonce |-> work[w].cur]
<1>7. m \in Messages
  BY <1>2 DEF Works, ResultMessages, Messages
<1>8. up' = up \/ up' = [up EXCEPT ![w] = Append(up[w], m)]
  BY DEF Hash
<1>9. m.pool = work[w].pool /\ m.token = work[w].token /\ m.nonce = work[w].cur
  OBVIOUS
<1> HIDE DEF m
<1>10. up' # up => Changed(up, up', w, Append(up[w], m))
  <2>1. up \in [Workers -> Seq(Messages)] /\ up' \in [Workers -> Seq(Messages)]
    BY DEF ChannelsTyped, Messages
  <2> QED
    BY <1>8, <2>1 DEF Changed
<1> QED
  BY <1>1, <1>3, <1>4, <1>5, <1>6, <1>7, <1>9, <1>10

\* A batch of a worker.
LEMMA HashSure ==
    ASSUME TypeOK, ChannelsTyped, ChannelsTyped', TokensTell, LastDispatched,
           NEW w \in Workers, Hash(w), NEW p \in Pools, held[p] # NoJob, Sure(p)
    PROVE  Sure(p)'
<1> DEFINE c == held[p].content
           a == held[p].algo
           F == Found(sent, up, p, held)
           G == Found(sent, up', p, held)
           n == work[w].cur
<1>1. /\ running[w] /\ work[w] # NoWork /\ n \in Nat
      /\ work'[w] # NoWork /\ work'[w].cur = n + N
      /\ work'[w].pool = work[w].pool /\ work'[w].token = work[w].token
      /\ work'[w].id = work[w].id /\ work'[w].content = work[w].content
      /\ work'[w].algo = work[w].algo
      /\ \A v \in Workers \ {w} : work'[v] = work[v]
      /\ UNCHANGED <<active, held, lastJob, generation, exiting, down, running, sent>>
  BY HashIs
<1>2. up' = up \/ \E m \in Messages :
                    /\ Changed(up, up', w, Append(up[w], m))
                    /\ m.pool = work[w].pool /\ m.token = work[w].token /\ m.nonce = n
  BY HashIs
<1>3. /\ up \in [Workers -> Seq(Messages)] /\ F \subseteq Nat
      /\ \A v \in Workers : v[2] \in Nat /\ (work[v] # NoWork => work[v].cur \in Nat)
  BY Typing
<1>4. \A v \in Workers : On(work'[v], c) <=> On(work[v], c)
  BY <1>1 DEF On
<1>5. \A v \in Workers : Busy(down[v], work'[v], c) <=> Busy(down[v], work[v], c)
  BY <1>4 DEF Busy
<1>6. PICK b \in Nat : Lanes(down, work, running, generation, F, c, a, b)
  BY DEF Sure
<1>7. On(work[w], c) => n \notin F
  <2>1. On(work[w], c) => \A f \in F : ~Ahead(n, f)
    BY <1>6 DEF Lanes, Busy, At
  <2> QED
    BY <1>1, <2>1, AheadIsLater
<1>8. /\ Distinct(sent, up', c, p, held[p].token)
      /\ \A f \in G : f \in F \/ (f = n /\ On(work[w], c))
      /\ \A v \in Workers : Range(up[v]) \subseteq Range(up'[v])
  <2>0. Distinct(sent, up, c, p, held[p].token)
    BY DEF Sure
  <2>1. CASE up' = up
    BY <2>0, <2>1
  <2>2. ASSUME NEW m \in Messages, Changed(up, up', w, Append(up[w], m)),
               m.pool = work[w].pool, m.token = work[w].token, m.nonce = n
        PROVE  /\ Distinct(sent, up', c, p, held[p].token)
               /\ \A f \in G : f \in F \/ (f = n /\ On(work[w], c))
               /\ \A v \in Workers : Range(up[v]) \subseteq Range(up'[v])
    <3> DEFINE u2 == up'
               t == held[p].token
    <3>1. Mine(m, p, t) => On(work[w], c)
      <4>1. Stamped(work[w], liveToken, held)
        BY <1>1 DEF TokensTell
      <4> QED
        BY <1>1, <2>2, <4>1 DEF Mine, Stamped, On
    <3>2. New(m, sent, up, c, p, t) /\ Distinct(sent, up, c, p, t) /\ Changed(up, u2, w, Append(up[w], m))
      BY <1>7, <2>0, <2>2, <3>1 DEF New, Found
    <3>3. up[w] \in Seq(Messages) /\ u2[w] = Append(up[w], m) /\ \A v \in Workers \ {w} : u2[v] = up[v]
      BY <1>3, <3>2 DEF Changed
    <3>4. Range(Append(up[w], m)) = Range(up[w]) \cup {m}
      BY <3>3, AppendRange
    <3>5. \A v \in Workers : Range(up[v]) \subseteq Range(u2[v])
      BY <3>3, <3>4
    <3> HIDE DEF c, u2, t
    <3>6. Distinct(sent, u2, c, p, t)
      BY <1>3, <3>2, DistinctWritten
    <3>7. Coming(u2, p, t) \subseteq Coming(up, p, t) \cup {m.nonce}
      BY <1>3, <3>2, DistinctWritten
    <3>8. ~Mine(m, p, t) => Coming(u2, p, t) \subseteq Coming(up, p, t)
      BY <1>3, <3>2, DistinctWritten
    <3>9. \A f \in G : f \in F \/ (f = n /\ On(work[w], c))
      BY <2>2, <3>1, <3>7, <3>8 DEF Found, c, u2, t
    <3> QED
      BY <3>5, <3>6, <3>9 DEF c, u2, t
  <2> QED
    BY <1>2, <2>1, <2>2
<1> HIDE DEF n
<1>9. ASSUME NEW d \in Nat, Lanes(down, work, running, generation, F, c, a, d)
      PROVE  /\ \A v \in Workers : Lane(down[v], work'[v], running[v], c, a, d, d + v[2])
             /\ \A v \in Workers :
                   /\ v[1] = generation
                   /\ \A f \in F : ~Ahead(At(work[v], c, d + v[2]), f)
                   => \A f \in G : ~Ahead(At(work'[v], c, d + v[2]), f)
             /\ Lanes(down, work', running, generation, G, c, a, d)
  <2>1. /\ \A v \in Workers : Lane(down[v], work[v], running[v], c, a, d, d + v[2])
        /\ \A v \in Workers : Busy(down[v], work[v], c) =>
              v[1] = generation /\ \A f \in F : ~Ahead(At(work[v], c, d + v[2]), f)
    BY <1>9 DEF Lanes
  <2>2. On(work[w], c) => Ahead(d + w[2], n) /\ w[1] = generation
    BY <2>1 DEF Lane, Busy, n
  <2>3. Lane(down[w], work'[w], running[w], c, a, d, d + w[2])
    <3>1. Lane(down[w], work[w], running[w], c, a, d, d + w[2])
      BY <2>1
    <3>2. On(work[w], c) => Ahead(d + w[2], work'[w].cur)
      <4>1. d + w[2] \in Nat
        BY <1>3
      <4> QED
        BY <1>1, <2>2, <4>1, AheadNext
    <3>3. Steady(down[w], work'[w], c) <=> Steady(down[w], work[w], c)
      BY <1>4 DEF Steady
    <3>4. Single(down[w], work'[w], c) <=> Single(down[w], work[w], c)
      BY <1>4 DEF Single
    <3> QED
      BY <1>1, <1>4, <3>1, <3>2, <3>3, <3>4 DEF Lane
  <2>4. \A v \in Workers : Lane(down[v], work'[v], running[v], c, a, d, d + v[2])
    BY <1>1, <2>1, <2>3
  <2>5. ASSUME NEW v \in Workers, v[1] = generation,
               \A f \in F : ~Ahead(At(work[v], c, d + v[2]), f), NEW f \in G
        PROVE  ~Ahead(At(work'[v], c, d + v[2]), f)
    <3>1. CASE v = w /\ On(work[w], c)
      <4>1. At(work'[v], c, d + v[2]) = n + N /\ At(work[v], c, d + v[2]) = n
        BY <1>1, <1>4, <3>1 DEF At, n
      <4>2. CASE f \in F
        <5>1. ~Ahead(n, f) /\ f \in Nat
          BY <1>3, <2>5, <4>1, <4>2
        <5>2. ~Ahead(n + N, f)
          BY <1>1, <5>1, AheadNext
        <5> QED
          BY <4>1, <5>2
      <4>3. CASE f = n
        <5>1. ~Ahead(n + N, n)
          BY <1>1, AheadNext
        <5> QED
          BY <4>1, <4>3, <5>1
      <4> QED
        BY <1>8, <4>2, <4>3
    <3>2. CASE ~On(work[w], c)
      <4>1. f \in F
        BY <1>8, <3>2
      <4>2. At(work'[v], c, d + v[2]) = At(work[v], c, d + v[2])
        BY <1>1, <1>4, <3>2 DEF At
      <4> QED
        BY <2>5, <4>1, <4>2
    <3>3. CASE v # w
      <4>1. work'[v] = work[v]
        BY <1>1, <3>3
      <4>2. CASE f \in F
        BY <2>5, <4>1, <4>2
      <4>3. CASE f = n /\ On(work[w], c)
        <5>1. Lane(down[v], work[v], running[v], c, a, d, d + v[2]) /\ v[1] = w[1]
              /\ Ahead(d + w[2], n) /\ (work[v] # NoWork => work[v].cur \in Nat)
          BY <1>3, <2>1, <2>2, <2>5, <4>3
        <5> HIDE DEF c, a
        <5>2. ~Ahead(At(work[v], c, d + v[2]), n)
          BY <1>1, <3>3, <5>1, LanesApart
        <5> QED
          BY <4>1, <4>3, <5>2
      <4> QED
        BY <1>8, <4>2, <4>3
    <3> QED
      BY <3>1, <3>2, <3>3
  <2>6. Lanes(down, work', running, generation, G, c, a, d)
    BY <1>5, <2>1, <2>4, <2>5 DEF Lanes
  <2> QED
    BY <2>4, <2>5, <2>6
<1>10. ASSUME ~exiting
       PROVE  \A v \in Workers : Fresh(down[v], work'[v], c, p, held)
  <2>1. \A v \in Workers : Fresh(down[v], work[v], c, p, held)
    BY <1>10 DEF Sure
  <2>2. ForHeld(work[w], p, held) => ForHeld(work'[w], p, held)
    BY <1>1 DEF ForHeld
  <2>3. Fresh(down[w], work'[w], c, p, held)
    BY <1>4, <2>1, <2>2 DEF Fresh
  <2> QED
    BY <1>1, <2>1, <2>3
<1>11. ASSUME NEW f \in Nat, Known(down, work, running, held[p], f)
       PROVE  Known(down, work', running, held[p], f)
  <2>1. CASE f < held[p].nonce
    BY <2>1 DEF Known
  <2>2. ASSUME NEW v \in Workers, Reporting(work[v], running[v], c, f)
        PROVE  Reporting(work'[v], running[v], c, f)
    <3>1. CASE v = w
      <4>1. On(work[w], c) /\ (work[w].algo \in RandomX => running[w]) /\ f < n
        BY <2>2, <3>1 DEF Reporting, n
      <4>2. f < n + N
        BY <1>1, <4>1, RelayAssumption
      <4> QED
        BY <1>1, <1>4, <3>1, <4>1, <4>2 DEF Reporting
    <3>2. CASE v # w
      BY <1>1, <2>2, <3>2
    <3> QED
      BY <3>1, <3>2
  <2>3. ASSUME NEW v \in Workers, Taking(down[v], work[v], c, f)
        PROVE  Taking(down[v], work'[v], c, f)
    <3>1. work[v] # NoWork => work'[v] # NoWork
      BY <1>1
    <3> QED
      BY <2>3, <3>1 DEF Taking
  <2> QED
    BY <1>11, <2>1, <2>2, <2>3 DEF Known
<1>12. On(work[w], c) => Known(down, work', running, held[p], n)
  <2>1. n < n + N
    BY <1>1, RelayAssumption
  <2> QED
    BY <1>1, <1>4, <2>1 DEF Known, Reporting
<1>13. ASSUME ~exiting, p = active, Mined(p) PROVE Mined(p)'
  <2> DEFINE d == lastJob.nonce
  <2>0. d \in Nat
    <3>1. lastJob # NoJob
      BY <1>13 DEF LastDispatched
    <3> QED
      BY <3>1 DEF ChannelsTyped
  <2>1. /\ held[p].nonce \in {Unset, d}
        /\ Lanes(down, work, running, generation, F, c, a, d)
        /\ \A v \in Workers : Staying(down[v], work[v], running[v], c)
        /\ \A v \in Workers : v[1] = generation => \A f \in F : ~Ahead(At(work[v], c, d + v[2]), f)
        /\ \A f \in F : Known(down, work, running, held[p], f)
    BY <1>13 DEF Mined
  <2>2. /\ Lanes(down, work', running, generation, G, c, a, d)
        /\ \A v \in Workers : v[1] = generation => \A f \in G : ~Ahead(At(work'[v], c, d + v[2]), f)
    BY <1>9, <2>0, <2>1
  <2>3. \A v \in Workers : Staying(down[v], work'[v], running[v], c)
    BY <1>4, <2>1 DEF Staying
  <2>4. \A f \in G : Known(down, work', running, held[p], f)
    BY <1>3, <1>8, <1>11, <1>12, <2>1
  <2> QED
    BY <1>1, <2>1, <2>2, <2>3, <2>4 DEF Mined
<1>14. ASSUME Told(p) PROVE Told(p)'
  <2> SUFFICES ASSUME NEW f \in G
               PROVE  Known(down, work', running, held[p], f) \/ Reported(up', generation, p, held, f)
    BY <1>1 DEF Told
  <2>1. CASE f = n /\ On(work[w], c)
    BY <1>12, <2>1
  <2>2. CASE f \in F
    <3>1. f \in Nat /\ (Known(down, work, running, held[p], f) \/ Reported(up, generation, p, held, f))
      BY <1>3, <1>14, <2>2 DEF Told
    <3>2. Reported(up, generation, p, held, f) => Reported(up', generation, p, held, f)
      BY <1>8 DEF Reported
    <3> QED
      BY <1>11, <3>1, <3>2
  <2> QED
    BY <1>8, <2>1, <2>2
<1>15. \E d \in Nat : Lanes(down, work', running, generation, G, c, a, d)
  BY <1>6, <1>9
<1>16. ~exiting => (p = active => Mined(p)) /\ (p \notin {active, Donate} => Told(p))
  BY DEF Sure
<1> QED
  BY <1>1, <1>8, <1>10, <1>13, <1>14, <1>15, <1>16 DEF Sure

-----------------------------------------------------------------------------
(* The controller's messages.                                              *)

\* The jobs j and j2 differ in the resume position at most, which only grows.
Later(j, j2) ==
    /\ j2.content = j.content /\ j2.token = j.token /\ j2.id = j.id /\ j2.algo = j.algo
    /\ j2.nonce >= j.nonce

\* What a message does.
LEMMA DeliverIs ==
    ASSUME TypeOK, ChannelsTyped, ChannelsTyped', NEW w \in Workers, Deliver(w)
    PROVE  /\ up[w] # << >> /\ Changed(up, up', w, Tail(up[w]))
           /\ UNCHANGED <<active, lastJob, generation, exiting, contents, down, work, running, early>>
           /\ Head(up[w]) \in Messages
           /\ \/ sent' = sent
              \/ /\ Mine(Head(up[w]), Head(up[w]).pool, held[Head(up[w]).pool].token)
                 /\ held[Head(up[w]).pool] # NoJob
                 /\ \E s \in Shares : /\ sent' = Append(sent, s) /\ s.nonce = Head(up[w]).nonce
                                      /\ s.content = Head(up[w]).content
           /\ \A p \in Pools : (held'[p] = NoJob) <=> (held[p] = NoJob)
           /\ \A p \in Pools : held[p] # NoJob => Later(held[p], held'[p])
           /\ held'[active] = held[active]
           /\ \A p \in Pools :
                 /\ held[p] # NoJob /\ p # active /\ w[1] = generation
                 /\ Head(up[w]).type = "last_nonce" /\ ForHeld(Head(up[w]), p, held)
                 => held'[p].nonce >= Head(up[w]).nonce
<1> DEFINE m == Head(up[w])
<1>1. /\ up[w] # << >> /\ up' = [up EXCEPT ![w] = Tail(up[w])]
      /\ UNCHANGED <<active, lastJob, generation, exiting, contents, down, work, running, early>>
      /\ \/ w[1] = generation /\ (handleResult(m) \/ handleLastNonce(m))
         \/ w[1] # generation /\ UNCHANGED <<held, sent>>
  BY DEF Deliver, coreVars
<1>2. up \in [Workers -> Seq(Messages)] /\ up' \in [Workers -> Seq(Messages)]
  BY DEF ChannelsTyped, Messages
<1>3. Changed(up, up', w, Tail(up[w])) /\ m \in Messages
  <2>1. m \in Messages
    BY <1>1, <1>2, TailRange
  <2> QED
    BY <1>1, <1>2, <2>1 DEF Changed
<1>4. m.pool \in Pools /\ m.nonce \in Nat
  BY <1>3 DEF Messages, ResultMessages, PositionMessages
<1>5. held \in [Pools -> Jobs \cup {NoJob}]
  BY DEF TypeOK
<1>6. \A p \in Pools : held[p] # NoJob => held[p] \in Jobs /\ held[p].nonce \in Int
  BY <1>5 DEF Jobs, Unset
<1>7. \A p \in Pools : held[p] # NoJob => Later(held[p], held[p])
  BY <1>6 DEF Later
<1>8. m.type = "result" => m \in ResultMessages
  BY <1>3 DEF Messages, PositionMessages
<1> HIDE DEF m
<1>9. CASE w[1] # generation /\ UNCHANGED <<held, sent>>
  BY <1>1, <1>3, <1>7, <1>9 DEF m
<1>10. CASE w[1] = generation /\ handleResult(m)
  <2>1. /\ m.type = "result" /\ held' = held
        /\ sent' = IF matchingPoolJob(m)
                   THEN Append(sent, [pool |-> m.pool, id |-> m.id, content |-> m.content,
                                      nonce |-> m.nonce])
                   ELSE sent
    BY <1>10 DEF handleResult
  <2>2. CASE matchingPoolJob(m)
    <3> DEFINE s == [pool |-> m.pool, id |-> m.id, content |-> m.content, nonce |-> m.nonce]
    <3>1. s \in Shares /\ s.nonce = m.nonce /\ s.content = m.content
      BY <1>8, <2>1 DEF ResultMessages, Shares
    <3>2. sent' = Append(sent, s)
      BY <2>1, <2>2
    <3>3. Mine(m, m.pool, held[m.pool].token) /\ held[m.pool] # NoJob
      BY <2>1, <2>2 DEF Mine, matchingPoolJob
    <3> HIDE DEF s
    <3> QED
      BY <1>1, <1>3, <1>7, <2>1, <3>1, <3>2, <3>3 DEF m
  <2>3. CASE ~matchingPoolJob(m)
    BY <1>1, <1>3, <1>7, <2>1, <2>3 DEF m
  <2> QED
    BY <2>2, <2>3
<1>11. CASE w[1] = generation /\ handleLastNonce(m)
  <2>1. /\ m.type = "last_nonce" /\ sent' = sent
        /\ held' = IF m.pool # active /\ matchingPoolJob(m) /\ held[m.pool].nonce < m.nonce
                   THEN [held EXCEPT ![m.pool].nonce = m.nonce] ELSE held
    BY <1>11 DEF handleLastNonce
  <2>2. CASE m.pool # active /\ matchingPoolJob(m) /\ held[m.pool].nonce < m.nonce
    <3>1. held[m.pool] # NoJob /\ held[m.pool] \in Jobs
      BY <1>4, <1>6, <2>2 DEF matchingPoolJob
    <3>2. /\ held'[m.pool] = [held[m.pool] EXCEPT !.nonce = m.nonce]
          /\ \A q \in Pools \ {m.pool} : held'[q] = held[q]
      BY <1>4, <1>5, <2>1, <2>2
    <3>3. held'[m.pool].nonce = m.nonce /\ Later(held[m.pool], held'[m.pool])
      <4>1. /\ held'[m.pool].nonce = m.nonce /\ held'[m.pool].content = held[m.pool].content
            /\ held'[m.pool].token = held[m.pool].token /\ held'[m.pool].id = held[m.pool].id
            /\ held'[m.pool].algo = held[m.pool].algo
        BY <3>1, <3>2 DEF Jobs
      <4>2. m.nonce >= held[m.pool].nonce
        BY <1>4, <1>6, <2>2, <3>1
      <4> QED
        BY <4>1, <4>2 DEF Later
    <3>4. held'[m.pool] # NoJob
      <4>1. held'[m.pool] \in Jobs
        BY <1>4, <3>1, <3>2 DEF Jobs
      <4>2. \A j \in Jobs : j.content \in 1 .. MaxContent /\ NoJob.content = 0
        BY DEF Jobs, NoJob
      <4>3. held'[m.pool].content # 0
        BY <4>1, <4>2
      <4> QED
        BY <4>2, <4>3 DEF NoJob
    <3>5. \A p \in Pools : held[p] # NoJob => Later(held[p], held'[p])
      BY <1>7, <3>2, <3>3
    <3>6. \A p \in Pools : (held'[p] = NoJob) <=> (held[p] = NoJob)
      BY <3>1, <3>2, <3>4
    <3>7. held'[active] = held[active]
      <4>1. active \in Pools
        BY DEF TypeOK
      <4> QED
        BY <2>2, <3>2, <4>1
    <3>8. \A p \in Pools : ForHeld(m, p, held) => held'[p].nonce >= m.nonce
      BY <1>4, <3>3 DEF ForHeld
    <3> QED
      BY <1>1, <1>3, <2>1, <3>5, <3>6, <3>7, <3>8 DEF m
  <2>3. CASE ~(m.pool # active /\ matchingPoolJob(m) /\ held[m.pool].nonce < m.nonce)
    <3>1. held' = held
      BY <2>1, <2>3
    <3>2. \A p \in Pools : /\ held[p] # NoJob /\ p # active /\ ForHeld(m, p, held)
                           => held'[p].nonce >= m.nonce
      <4> SUFFICES ASSUME NEW p \in Pools, held[p] # NoJob, p # active, ForHeld(m, p, held)
                   PROVE  held[p].nonce >= m.nonce
        BY <3>1
      <4>1. ~(held[p].nonce < m.nonce)
        BY <2>3 DEF ForHeld, matchingPoolJob
      <4> QED
        BY <1>4, <1>6, <4>1
    <3> QED
      BY <1>1, <1>3, <1>7, <2>1, <3>1, <3>2 DEF m
  <2> QED
    BY <2>2, <2>3
<1> QED
  BY <1>1, <1>9, <1>10, <1>11

\* The message that is read and the share of it keep the shares different: those
\* found are the ones found before.
LEMMA DeliverFound ==
    ASSUME TypeOK, ChannelsTyped, ChannelsTyped', TokensTell, Numbered,
           NEW w \in Workers, Deliver(w), NEW p \in Pools, held[p] # NoJob,
           Distinct(sent, up, held[p].content, p, held[p].token)
    PROVE  /\ Distinct(sent', up', held'[p].content, p, held'[p].token)
           /\ Found(sent', up', p, held') \subseteq Found(sent, up, p, held)
<1> DEFINE c == held[p].content
           t == held[p].token
           m == Head(up[w])
           u2 == up'
<1>1. /\ up[w] # << >> /\ Changed(up, u2, w, Tail(up[w])) /\ m \in Messages
      /\ held'[p].content = c /\ held'[p].token = t
  BY DeliverIs DEF Later
<1>2. \/ sent' = sent
      \/ /\ Mine(m, m.pool, held[m.pool].token) /\ held[m.pool] # NoJob
         /\ \E s \in Shares : sent' = Append(sent, s) /\ s.nonce = m.nonce /\ s.content = m.content
  BY DeliverIs
<1>3. up \in [Workers -> Seq(Messages)] /\ sent \in Seq(Shares) /\ Distinct(sent, up, c, p, t)
  BY Typing
<1>4. m \in Range(up[w])
  BY <1>1, <1>3, TailRange
<1>5. m.pool \in Pools
  BY <1>1 DEF Messages, ResultMessages, PositionMessages
<1>6. Mine(m, m.pool, held[m.pool].token) /\ held[m.pool] # NoJob /\ m.content = c => Mine(m, p, t)
  <2> SUFFICES ASSUME Mine(m, m.pool, held[m.pool].token), held[m.pool] # NoJob, m.content = c
               PROVE  Mine(m, p, t)
    OBVIOUS
  <2>1. Stamped(m, liveToken, held)
    BY <1>4 DEF TokensTell, Mine
  <2>2. m.content = held[m.pool].content
    BY <2>1 DEF Stamped, Mine
  <2>3. m.pool = p
    BY <1>5, <2>2 DEF Numbered
  <2> QED
    BY <2>3 DEF Mine
<1> HIDE DEF c, t, u2
<1>7. Less(sent, up, u2, c, p, t, Head(up[w]))
  <2>1. up[w] # << >> /\ Changed(up, u2, w, Tail(up[w]))
    BY <1>1
  <2> QED
    BY <1>3, <2>1, DistinctRead
<1>8. /\ Distinct(sent, u2, c, p, t)
      /\ Coming(u2, p, t) \subseteq Coming(up, p, t)
      /\ Mine(m, p, t) => m.nonce \in Coming(up, p, t) /\ m.nonce \notin Coming(u2, p, t)
  BY <1>7 DEF Less
<1> HIDE DEF m
<1>10. CASE sent' = sent
  BY <1>1, <1>8, <1>10 DEF Found, c, t, u2
<1>11. ASSUME Mine(m, m.pool, held[m.pool].token), held[m.pool] # NoJob,
              NEW s \in Shares, sent' = Append(sent, s), s.nonce = m.nonce, s.content = m.content
       PROVE  /\ Distinct(sent', u2, c, p, t)
              /\ Submitted(sent', c) \subseteq Submitted(sent, c) \cup Coming(up, p, t)
  <2>1. /\ Submitted(sent', c) \subseteq Submitted(sent, c) \cup {m.nonce}
        /\ m.content # c => Submitted(sent', c) \subseteq Submitted(sent, c)
    BY <1>3, <1>11, SubmittedWritten
  <2>2. CASE m.content = c
    <3>1. Mine(m, p, t)
      BY <1>6, <1>11, <2>2
    <3> QED
      BY <1>8, <2>1, <3>1 DEF Distinct
  <2>3. CASE m.content # c
    BY <1>8, <2>1, <2>3 DEF Distinct
  <2> QED
    BY <2>2, <2>3
<1> QED
  BY <1>1, <1>2, <1>8, <1>10, <1>11 DEF Found, c, t, u2

\* No share is written twice.
LEMMA DeliverOnce ==
    ASSUME TypeOK, ChannelsTyped, ChannelsTyped', TokensTell, RInv, NEW w \in Workers, Deliver(w)
    PROVE  DuplicateOnlyIfEarly'
<1> DEFINE m == Head(up[w])
<1>1. /\ up[w] # << >> /\ Changed(up, up', w, Tail(up[w])) /\ early' = early
      /\ m \in Messages
  BY DeliverIs
<1>2. \/ sent' = sent
      \/ /\ Mine(m, m.pool, held[m.pool].token) /\ held[m.pool] # NoJob
         /\ \E s \in Shares : sent' = Append(sent, s) /\ s.nonce = m.nonce /\ s.content = m.content
  BY DeliverIs
<1>3. up \in [Workers -> Seq(Messages)] /\ sent \in Seq(Shares)
  BY Typing
<1>4. m \in Range(up[w])
  BY <1>1, <1>3, TailRange
<1>5. m.pool \in Pools
  BY <1>1 DEF Messages, ResultMessages, PositionMessages
<1>6. CASE sent' = sent
  BY <1>1, <1>6 DEF RInv, DuplicateOnlyIfEarly
<1>7. ASSUME Mine(m, m.pool, held[m.pool].token), held[m.pool] # NoJob,
             NEW s \in Shares, sent' = Append(sent, s), s.nonce = m.nonce, s.content = m.content
      PROVE  DuplicateOnlyIfEarly'
  <2> DEFINE p == m.pool
             t == held[p].token
             c == held[p].content
  <2>1. m.content = c
    <3>1. Stamped(m, liveToken, held)
      BY <1>4, <1>7 DEF TokensTell, Mine
    <3> QED
      BY <1>7, <3>1 DEF Stamped, Mine
  <2>2. c \notin early => m.nonce \notin Submitted(sent, c)
    <3> SUFFICES ASSUME c \notin early PROVE m.nonce \notin Submitted(sent, c)
      OBVIOUS
    <3>1. Distinct(sent, up, c, p, t)
      BY <1>5, <1>7 DEF RInv, Sure
    <3>2. Comes(up, p, t, m.nonce)
      BY <1>4, <1>7 DEF Comes, Range
    <3>3. m.nonce \in Coming(up, p, t)
      BY <1>3, <3>2, ComingIs
    <3> QED
      BY <3>1, <3>3 DEF Distinct
  <2> HIDE DEF m, c
  <2>3. ASSUME NEW i \in DOMAIN sent', NEW j \in DOMAIN sent', i # j,
               sent'[i].content = sent'[j].content, sent'[i].nonce = sent'[j].nonce
        PROVE  sent'[i].content \in early
    <3>1. \/ /\ i \in DOMAIN sent /\ j \in DOMAIN sent
             /\ sent'[i] = sent[i] /\ sent'[j] = sent[j]
          \/ s.nonce \in Submitted(sent, s.content) /\ sent'[i].content = s.content
      BY <1>3, <1>7, <2>3, SubmittedWritten
    <3>2. CASE /\ i \in DOMAIN sent /\ j \in DOMAIN sent
               /\ sent'[i] = sent[i] /\ sent'[j] = sent[j]
      BY <2>3, <3>2 DEF RInv, DuplicateOnlyIfEarly
    <3>3. CASE s.nonce \in Submitted(sent, s.content) /\ sent'[i].content = s.content
      BY <1>7, <2>1, <2>2, <3>3
    <3> QED
      BY <3>1, <3>2, <3>3
  <2> QED
    BY <1>1, <2>3 DEF DuplicateOnlyIfEarly
<1> QED
  BY <1>2, <1>6, <1>7

\* A message.
LEMMA DeliverSure ==
    ASSUME TypeOK, ChannelsTyped, ChannelsTyped', TokensTell, Numbered,
           NEW w \in Workers, Deliver(w), NEW p \in Pools, held[p] # NoJob, Sure(p)
    PROVE  Sure(p)'
<1> DEFINE c == held[p].content
           a == held[p].algo
           F == Found(sent, up, p, held)
           G == Found(sent', up', p, held')
           m == Head(up[w])
<1>1. /\ up[w] # << >> /\ Changed(up, up', w, Tail(up[w]))
      /\ UNCHANGED <<active, lastJob, generation, exiting, contents, down, work, running, early>>
      /\ Later(held[p], held'[p]) /\ (p = active => held'[p] = held[p])
      /\ p # active /\ w[1] = generation /\ m.type = "last_nonce" /\ ForHeld(m, p, held)
           => held'[p].nonce >= m.nonce
      /\ m \in Messages
  BY DeliverIs
<1>2. /\ held'[p].content = c /\ held'[p].token = held[p].token /\ held'[p].id = held[p].id
      /\ held'[p].algo = a /\ held'[p].nonce >= held[p].nonce
  BY <1>1 DEF Later
<1>3. up \in [Workers -> Seq(Messages)] /\ F \subseteq Nat /\ held[p] \in Jobs
  BY Typing
<1>4. held[p].nonce \in Int /\ held'[p].nonce \in Int
  <2>1. held[p].nonce \in Int
    BY <1>3 DEF Jobs, Unset
  <2>2. held'[p].nonce = held[p].nonce \/ held'[p].nonce \in Nat
    <3>1. held' = held \/ (held[m.pool] # NoJob /\ m.nonce \in Nat /\ held' = [held EXCEPT ![m.pool].nonce = m.nonce])
      <4>1. m.nonce \in Nat
        BY <1>1 DEF Messages, ResultMessages, PositionMessages
      <4> QED
        BY <4>1 DEF Deliver, handleResult, handleLastNonce, matchingPoolJob
    <3>2. held \in [Pools -> Jobs \cup {NoJob}]
      BY DEF TypeOK
    <3> HIDE DEF m
    <3>3. CASE held' = [held EXCEPT ![m.pool].nonce = m.nonce] /\ m.pool = p /\ m.nonce \in Nat
      <4>1. held'[p] = [held[p] EXCEPT !.nonce = m.nonce]
        BY <3>2, <3>3
      <4> QED
        BY <1>3, <3>3, <4>1 DEF Jobs
    <3>4. CASE held' = [held EXCEPT ![m.pool].nonce = m.nonce] /\ m.pool # p
      BY <3>2, <3>4
    <3> QED
      BY <3>1, <3>3, <3>4
  <2> QED
    BY <2>1, <2>2
<1>5. /\ Distinct(sent', up', held'[p].content, p, held'[p].token)
      /\ G \subseteq F
  BY DeliverFound DEF Sure
<1>6. \A x : ForHeld(x, p, held) <=> ForHeld(x, p, held')
  BY <1>2 DEF ForHeld
<1>7. \A f \in Nat : Known(down, work, running, held[p], f) => Known(down, work, running, held'[p], f)
  <2>1. \A f \in Nat : f < held[p].nonce => f < held'[p].nonce
    BY <1>2, <1>4
  <2> QED
    BY <1>2, <2>1 DEF Known
<1>8. ASSUME NEW d, Lanes(down, work, running, generation, F, c, a, d)
      PROVE  Lanes(down, work, running, generation, G, c, a, d)
  BY <1>5, <1>8 DEF Lanes
<1>9. ASSUME ~exiting PROVE \A v \in Workers : Fresh(down[v], work[v], c, p, held')
  <2>1. \A v \in Workers : Fresh(down[v], work[v], c, p, held)
    BY <1>9 DEF Sure
  <2> QED
    BY <1>6, <2>1 DEF Fresh
<1>10. ASSUME p = active, Mined(p) PROVE Mined(p)'
  <2>1. held'[p] = held[p]
    BY <1>1, <1>10
  <2> QED
    BY <1>1, <1>5, <1>8, <1>10, <2>1 DEF Mined
<1>11. ASSUME p # active, Told(p) PROVE Told(p)'
  <2> SUFFICES ASSUME NEW f \in G
               PROVE  \/ Known(down, work, running, held'[p], f)
                      \/ Reported(up', generation, p, held', f)
    BY <1>1 DEF Told
  <2>1. f \in Nat /\ (Known(down, work, running, held[p], f) \/ Reported(up, generation, p, held, f))
    BY <1>3, <1>5, <1>11 DEF Told
  <2>2. CASE Reported(up, generation, p, held, f)
    <3>1. PICK v \in Workers : \E x \in Range(up[v]) :
             v[1] = generation /\ x.type = "last_nonce" /\ ForHeld(x, p, held) /\ f < x.nonce
      BY <2>2 DEF Reported
    <3>2. PICK x \in Range(up[v]) :
             v[1] = generation /\ x.type = "last_nonce" /\ ForHeld(x, p, held) /\ f < x.nonce
      BY <3>1
    <3>3. CASE x \in Range(up'[v])
      BY <1>6, <3>2, <3>3 DEF Reported
    <3>4. CASE x \notin Range(up'[v])
      <4>1. v = w /\ x = m
        <5>1. up'[w] = Tail(up[w]) /\ \A y \in Workers \ {w} : up'[y] = up[y]
          BY <1>1 DEF Changed
        <5>2. Range(up[w]) = Range(Tail(up[w])) \cup {m}
          BY <1>1, <1>3, TailRange
        <5> QED
          BY <3>2, <3>4, <5>1, <5>2
      <4>2. held'[p].nonce >= x.nonce
        BY <1>1, <1>11, <3>2, <4>1
      <4>3. x.nonce \in Nat
        BY <1>1, <4>1 DEF Messages, ResultMessages, PositionMessages
      <4>4. f < held'[p].nonce
        BY <1>4, <2>1, <3>2, <4>2, <4>3
      <4> QED
        BY <4>4 DEF Known
    <3> QED
      BY <3>3, <3>4
  <2> QED
    BY <1>7, <2>1, <2>2
<1>12. \E d \in Nat : Lanes(down, work, running, generation, G, c, a, d)
  BY <1>8 DEF Sure
<1>13. ~exiting => (p = active => Mined(p)) /\ (p \notin {active, Donate} => Told(p))
  BY DEF Sure
<1> QED
  BY <1>1, <1>2, <1>5, <1>9, <1>10, <1>11, <1>12, <1>13 DEF Sure

-----------------------------------------------------------------------------
(* The controller's commands, and one content.                             *)

\* The workers in use get y; others get nothing or are told to close.
Wrote(y) ==
    \A w \in Workers :
        \/ w[1] = generation' /\ down'[w] = Append(down[w], y)
        \/ w[1] # generation' /\ down'[w] \in {down[w], Append(down[w], [type |-> "close"])}

\* Both ways to dispatch are a write to the workers in use.
LEMMA WrittenIs ==
    ASSUME TypeOK, NEW y, Written(y)
    PROVE  Wrote(y)
<1>1. CASE /\ generation' = generation
           /\ \A w \in Workers : down'[w] =
                 IF w[1] = generation THEN Append(down[w], y) ELSE down[w]
  BY <1>1 DEF Wrote
<1>2. CASE /\ generation' = generation + 1
           /\ \A w \in Workers : down'[w] =
                 IF w[1] = generation + 1 THEN <<y>>
                 ELSE IF w[1] = generation THEN Append(down[w], [type |-> "close"])
                 ELSE down[w]
  <2> SUFFICES ASSUME NEW w \in Workers
               PROVE  \/ w[1] = generation' /\ down'[w] = Append(down[w], y)
                      \/ /\ w[1] # generation'
                         /\ down'[w] \in {down[w], Append(down[w], [type |-> "close"])}
    BY DEF Wrote
  <2>1. CASE w[1] = generation + 1
    <3>1. w[1] > generation
      BY <2>1, RelayAssumption DEF TypeOK
    <3>2. down[w] = << >>
      BY <3>1 DEF TypeOK
    <3>3. Append(<< >>, y) = <<y>>
      OBVIOUS
    <3> QED
      BY <1>2, <2>1, <3>2, <3>3
  <2>2. CASE w[1] # generation + 1
    BY <1>2, <2>2
  <2> QED
    BY <2>1, <2>2
<1> QED
  BY <1>1, <1>2 DEF Written

\* No worker gets anything that feeds c.
Spares(c) ==
    \A w \in Workers :
        down'[w] = down[w] \/ \E y \in Commands : ~Feeds(y, c) /\ down'[w] = Append(down[w], y)

\* A job that is reported is on no worker and in no command, and its position is
\* in the pool's job.
LEMMA ReportedIdle ==
    ASSUME TypeOK, ChannelsTyped, NEW p \in Pools, ~Unreported(held[p].token),
           \A w \in Workers : Fresh(down[w], work[w], held[p].content, p, held)
    PROVE  /\ \A w \in Workers : ~Busy(down[w], work[w], held[p].content)
           /\ \A f : Known(down, work, running, held[p], f) \/ Reported(up, generation, p, held, f)
                     => f < held[p].nonce
<1> DEFINE c == held[p].content
<1>1. ASSUME NEW w \in Workers PROVE ~On(work[w], c) /\ ~Fed(down[w], c)
  <2>1. \A i \in DOMAIN down[w] : ~(Feeds(down[w][i], c) /\ ForHeld(down[w][i], p, held))
    BY DEF Unreported, Feeds, ForHeld, Range
  <2>2. ~Fed(down[w], c)
    BY <2>1 DEF Fresh, Fed
  <2>3. ~On(work[w], c)
    BY <2>2 DEF Fresh, On, Unreported, ForHeld
  <2> QED
    BY <2>2, <2>3
<1>2. \A w \in Workers : \A f : /\ ~Reporting(work[w], running[w], c, f)
                                /\ ~Taking(down[w], work[w], c, f)
  BY <1>1 DEF Reporting, Taking, Fed
<1>3. \A f : ~Reported(up, generation, p, held, f)
  BY DEF Unreported, Reported, ForHeld
<1> QED
  BY <1>1, <1>2, <1>3 DEF Busy, Known

\* A job that stays as it is while the controller does something else.
LEMMA BystanderSure ==
    ASSUME TypeOK, ChannelsTyped, NEW p \in Pools, Sure(p), held'[p] = held[p],
           UNCHANGED <<up, work, running, sent>>, exiting => exiting', Spares(held[p].content),
           ~exiting' /\ p = active' => UNCHANGED <<active, lastJob, down, generation>>,
           generation' # generation => ~exiting /\ ~Unreported(held[p].token)
    PROVE  Sure(p)'
<1> DEFINE c == held[p].content
           a == held[p].algo
           F == Found(sent, up, p, held)
<1>1. Found(sent', up', p, held') = F
  BY DEF Found
<1>2. \A w \in Workers : down[w] \in Seq(Commands)
  BY Typing
<1>3. \A x : ForHeld(x, p, held) <=> ForHeld(x, p, held')
  BY DEF ForHeld
<1>4. ASSUME NEW w \in Workers
      PROVE  /\ Busy(down'[w], work[w], c) <=> Busy(down[w], work[w], c)
             /\ \A d, x : Lane(down[w], work[w], running[w], c, a, d, x) =>
                             Lane(down'[w], work[w], running[w], c, a, d, x)
             /\ Fresh(down[w], work[w], c, p, held) => Fresh(down'[w], work[w], c, p, held)
             /\ \A f : Taking(down[w], work[w], c, f) => Taking(down'[w], work[w], c, f)
  <2>1. CASE down'[w] = down[w]
    BY <2>1
  <2>2. ASSUME NEW y \in Commands, ~Feeds(y, c), down'[w] = Append(down[w], y)
        PROVE  /\ Busy(down'[w], work[w], c) <=> Busy(down[w], work[w], c)
               /\ \A d, x : Lane(down[w], work[w], running[w], c, a, d, x) =>
                               Lane(down'[w], work[w], running[w], c, a, d, x)
               /\ Fresh(down[w], work[w], c, p, held) => Fresh(down'[w], work[w], c, p, held)
               /\ \A f : Taking(down[w], work[w], c, f) => Taking(down'[w], work[w], c, f)
    <3> HIDE DEF c, a
    <3>1. Busy(Append(down[w], y), work[w], c) <=> Busy(down[w], work[w], c)
      BY <1>2, <2>2, OtherWritten
    <3>2. ASSUME NEW d, NEW x, Lane(down[w], work[w], running[w], c, a, d, x)
          PROVE  Lane(Append(down[w], y), work[w], running[w], c, a, d, x)
      BY <1>2, <2>2, <3>2, OtherWritten
    <3>3. Fresh(down[w], work[w], c, p, held) => Fresh(Append(down[w], y), work[w], c, p, held)
      BY <1>2, <2>2, OtherWritten
    <3>4. \A f : Taking(down[w], work[w], c, f) => Taking(Append(down[w], y), work[w], c, f)
      BY <1>2, <2>2, OtherWritten
    <3> QED
      BY <2>2, <3>1, <3>2, <3>3, <3>4
  <2> QED
    BY <2>1, <2>2 DEF Spares
<1>5. Distinct(sent', up', c, p, held'[p].token)
  BY DEF Sure
<1>6. ~exiting => \A w \in Workers : Fresh(down'[w], work[w], c, p, held')
  <2>1. ~exiting => \A w \in Workers : Fresh(down[w], work[w], c, p, held)
    BY DEF Sure
  <2>2. ~exiting => \A w \in Workers : Fresh(down'[w], work[w], c, p, held)
    BY <1>4, <2>1
  <2> QED
    BY <1>3, <2>2 DEF Fresh
<1>7. ASSUME NEW f, Known(down, work, running, held[p], f)
      PROVE  Known(down', work, running, held[p], f)
  BY <1>4, <1>7 DEF Known
<1>8. CASE generation' = generation
  <2>1. PICK d \in Nat : Lanes(down, work, running, generation, F, c, a, d)
    BY DEF Sure
  <2>2. Lanes(down', work, running, generation, F, c, a, d)
    BY <1>4, <2>1 DEF Lanes
  <2>3. ~exiting' /\ p = active' => Mined(p)'
    <3> SUFFICES ASSUME ~exiting', p = active' PROVE Mined(p)'
      OBVIOUS
    <3>1. Mined(p) /\ UNCHANGED <<active, lastJob, down, generation>>
      BY DEF Sure
    <3> QED
      BY <1>1, <3>1 DEF Mined
  <2>4. ~exiting' /\ p \notin {active', Donate} => Told(p)'
    <3> SUFFICES ASSUME ~exiting, p # Donate
                 PROVE  Told(p)'
      OBVIOUS
    <3>1. \A f \in F : Known(down, work, running, held[p], f) \/ Reported(up, generation, p, held, f)
      BY DEF Sure, Mined, Told
    <3>2. \A f : Reported(up, generation, p, held, f) => Reported(up, generation, p, held', f)
      BY <1>3 DEF Reported
    <3> QED
      BY <1>1, <1>7, <1>8, <3>1, <3>2 DEF Told
  <2> QED
    BY <1>1, <1>5, <1>6, <1>8, <2>2, <2>3, <2>4 DEF Sure
<1>9. CASE generation' # generation
  <2>1. ~exiting /\ ~Unreported(held[p].token)
        /\ \A w \in Workers : Fresh(down[w], work[w], c, p, held)
    BY <1>9 DEF Sure
  <2>2. /\ \A w \in Workers : ~Busy(down[w], work[w], c)
        /\ \A f : Known(down, work, running, held[p], f) \/ Reported(up, generation, p, held, f)
                  => f < held[p].nonce
    BY <2>1, ReportedIdle
  <2>3. \A w \in Workers : ~Busy(down'[w], work[w], c)
    BY <1>4, <2>2
  <2>4. Lanes(down', work, running, generation', F, c, a, 0)
    BY <2>3, IdleLane DEF Lanes
  <2>5. ~(~exiting' /\ p = active')
    BY <1>9
  <2>6. p # Donate => Told(p)'
    <3> SUFFICES ASSUME p # Donate PROVE Told(p)'
      OBVIOUS
    <3>1. \A f \in F : Known(down, work, running, held[p], f) \/ Reported(up, generation, p, held, f)
      BY <2>1 DEF Sure, Mined, Told
    <3>2. \A f \in F : Known(down', work, running, held[p], f)
      BY <2>2, <3>1 DEF Known
    <3> QED
      BY <1>1, <3>2 DEF Told
  <2> QED
    BY <1>1, <1>5, <1>6, <2>1, <2>4, <2>5, <2>6 DEF Sure
<1> QED
  BY <1>8, <1>9

\* A job that is new to all workers is dispatched past all shares found on it.
LEMMA StartSure ==
    ASSUME TypeOK, ChannelsTyped, NEW p \in Pools, active' = p, NEW c, c = held'[p].content,
           UNCHANGED <<up, work, running, sent>>,
           \A w \in Workers : ~Busy(down[w], work[w], c),
           Distinct(sent, up, c, p, held'[p].token),
           \A f \in Found(sent, up, p, held') : f < held'[p].nonce,
           lastJob'.nonce \in Nat, held'[p].nonce \in {Unset, lastJob'.nonce},
           NEW y \in Commands, Feeds(y, c) => y.nonce = lastJob'.nonce /\ y.algo = held'[p].algo,
           ForHeld(y, p, held'), Wrote(y)
    PROVE  Sure(p)'
<1> DEFINE a == held'[p].algo
           b == lastJob'.nonce
           F == Found(sent, up, p, held')
           g == generation'
<1>1. /\ \A w \in Workers : down[w] \in Seq(Commands) /\ w[2] \in Nat
      /\ F \subseteq Nat
  BY Typing
<1>2. [type |-> "close"] \in Commands /\ ~Feeds([type |-> "close"], c)
  BY DEF Commands, Feeds
<1>3. ASSUME NEW w \in Workers, w[1] = g
      PROVE  /\ Lane(down'[w], work[w], running[w], c, a, b, b + w[2])
             /\ Staying(down'[w], work[w], running[w], c)
             /\ Fresh(down'[w], work[w], c, p, held')
             /\ At(work[w], c, b + w[2]) = b + w[2]
  <2>1. down'[w] = Append(down[w], y) /\ down[w] \in Seq(Commands) /\ ~Busy(down[w], work[w], c)
    BY <1>1, <1>3 DEF Wrote
  <2> DEFINE x == b + w[2]
             h2 == held'
             q2 == Append(down[w], y)
  <2>2. Feeds(y, c) => y.nonce = b /\ y.algo = a
    OBVIOUS
  <2>3. ForHeld(y, p, h2)
    OBVIOUS
  <2> HIDE DEF x, a, b, h2
  <2>4. Lane(q2, work[w], running[w], c, a, b, x)
    BY <2>1, <2>2, FirstWritten
  <2>5. Staying(q2, work[w], running[w], c)
    BY <2>1, <2>2, FirstWritten
  <2>6. Fresh(q2, work[w], c, p, h2)
    <3>1. CASE Feeds(y, c)
      BY <2>1, <2>3, <3>1, LastWritten
    <3>2. CASE ~Feeds(y, c)
      <4>1. ~Busy(q2, work[w], c)
        BY <2>1, <3>2, OtherWritten
      <4> HIDE DEF q2
      <4> QED
        BY <4>1, IdleLane
    <3> QED
      BY <3>1, <3>2
  <2>7. At(work[w], c, x) = x
    BY <2>1 DEF Busy, At
  <2> QED
    BY <2>1, <2>4, <2>5, <2>6, <2>7 DEF x, h2
<1>4. ASSUME NEW w \in Workers, w[1] # g
      PROVE  /\ Lane(down'[w], work[w], running[w], c, a, b, b + w[2])
             /\ Staying(down'[w], work[w], running[w], c)
             /\ Fresh(down'[w], work[w], c, p, held')
             /\ ~Busy(down'[w], work[w], c)
  <2>1. down'[w] \in {down[w], Append(down[w], [type |-> "close"])}
    BY <1>4 DEF Wrote
  <2>2. ~Busy(Append(down[w], [type |-> "close"]), work[w], c)
    BY <1>1, <1>2, OtherWritten
  <2>3. ~Busy(down'[w], work[w], c)
    BY <2>1, <2>2
  <2> DEFINE q2 == down'[w]
             x == b + w[2]
             h2 == held'
  <2>4. ~Busy(q2, work[w], c)
    BY <2>3
  <2> HIDE DEF q2, x, a, b, h2
  <2>5. /\ Lane(q2, work[w], running[w], c, a, b, x)
        /\ Fresh(q2, work[w], c, p, h2)
        /\ Staying(q2, work[w], running[w], c)
    BY <2>4, IdleLane
  <2> QED
    BY <2>3, <2>5 DEF q2, x, h2
<1>5. \A w \in Workers : w[1] = g => \A f \in F : ~Ahead(At(work[w], c, b + w[2]), f)
  <2> SUFFICES ASSUME NEW w \in Workers, w[1] = g, NEW f \in F PROVE ~Ahead(b + w[2], f)
    BY <1>3
  <2>1. f \in Nat /\ w[2] \in Nat /\ b \in Nat /\ f < held'[p].nonce
    BY <1>1
  <2>2. held'[p].nonce = b
    <3>1. held'[p].nonce # Unset
      BY <2>1 DEF Unset
    <3> QED
      BY <3>1
  <2>3. b + w[2] \in Nat /\ ~(b + w[2] <= f)
    BY <2>1, <2>2
  <2> QED
    BY <2>1, <2>3, AheadIsLater
<1>6. Lanes(down', work, running, g, F, c, a, b)
  BY <1>3, <1>4, <1>5 DEF Lanes
<1>7. \A w \in Workers : Fresh(down'[w], work[w], c, p, held') /\ Staying(down'[w], work[w], running[w], c)
  BY <1>3, <1>4
<1>8. Found(sent', up', p, held') = F
  OBVIOUS
<1>9. \A f \in F : Known(down', work, running, held'[p], f)
  BY DEF Known
<1>10. Mined(p)'
  BY <1>5, <1>6, <1>7, <1>8, <1>9 DEF Mined
<1> QED
  BY <1>6, <1>7, <1>8, <1>10 DEF Sure

\* A new job that is only stored.
LEMMA StoredSure ==
    ASSUME TypeOK, ChannelsTyped, NEW p \in Pools, NEW c, c = held'[p].content,
           UNCHANGED <<up, work, running, sent, down>>,
           \A w \in Workers : ~Busy(down[w], work[w], c),
           Distinct(sent, up, c, p, held'[p].token), Found(sent, up, p, held') = {},
           exiting' \/ p # active'
    PROVE  Sure(p)'
<1> DEFINE h2 == held'
<1>1. \A w \in Workers : \A r, a, b, x :
         Lane(down[w], work[w], r, c, a, b, x) /\ Fresh(down[w], work[w], c, p, h2)
  BY IdleLane
<1>2. Lanes(down', work', running', generation', Found(sent', up', p, held'), c, held'[p].algo, 0)
  BY <1>1 DEF Lanes
<1>3. Told(p)'
  BY DEF Told
<1> QED
  BY <1>1, <1>2, <1>3 DEF Sure

\* While the controller is exiting, a job only gets another token.
LEMMA ExitingSure ==
    ASSUME NEW p \in Pools, Sure(p), exiting',
           UNCHANGED <<up, work, running, sent, down, generation>>,
           held'[p].content = held[p].content, held'[p].algo = held[p].algo,
           Distinct(sent, up, held[p].content, p, held'[p].token),
           Found(sent, up, p, held') \subseteq Found(sent, up, p, held)
    PROVE  Sure(p)'
<1>1. PICK d \in Nat : Lanes(down, work, running, generation, Found(sent, up, p, held),
                             held[p].content, held[p].algo, d)
  BY DEF Sure
<1>2. Lanes(down', work', running', generation', Found(sent', up', p, held'),
            held'[p].content, held'[p].algo, d)
  BY <1>1 DEF Lanes
<1> QED
  BY <1>2 DEF Sure

\* The active pool's job is sent again, and goes on where it was.
LEMMA AgainSure ==
    ASSUME TypeOK, ChannelsTyped, NEW p \in Pools, p = active, active' = p, Sure(p),
           UNCHANGED <<up, work, running, sent, generation, exiting>>, ~exiting,
           lastJob.nonce \in Nat, lastJob'.nonce = lastJob.nonce,
           held'[p].content = held[p].content, held'[p].algo = held[p].algo,
           held'[p].nonce = Unset, held[p].algo \notin RandomX, ~PositionDropped(p),
           Distinct(sent, up, held[p].content, p, held'[p].token),
           Found(sent, up, p, held') \subseteq Found(sent, up, p, held),
           NEW y \in Commands, Feeds(y, held[p].content), y.nonce = lastJob.nonce,
           y.algo = held[p].algo, ForHeld(y, p, held'), Wrote(y)
    PROVE  Sure(p)'
<1> DEFINE c == held[p].content
           a == held[p].algo
           b == lastJob.nonce
           F == Found(sent, up, p, held)
           G == Found(sent, up, p, held')
           h2 == held'
<1>1. /\ \A w \in Workers : down[w] \in Seq(Commands) /\ w[2] \in Nat
      /\ F \subseteq Nat
  BY Typing
<1>2. /\ held[p].nonce \in {Unset, b}
      /\ Lanes(down, work, running, generation, F, c, a, b)
      /\ \A w \in Workers : Staying(down[w], work[w], running[w], c)
      /\ \A w \in Workers : w[1] = generation => \A f \in F : ~Ahead(At(work[w], c, b + w[2]), f)
      /\ \A f \in F : Known(down, work, running, held[p], f)
  BY DEF Sure, Mined
<1>3. [type |-> "close"] \in Commands /\ ~Feeds([type |-> "close"], c)
  BY DEF Commands, Feeds
<1>4. ASSUME NEW w \in Workers, w[1] = generation
      PROVE  /\ Lane(down'[w], work[w], running[w], c, a, b, b + w[2])
             /\ Staying(down'[w], work[w], running[w], c)
             /\ Fresh(down'[w], work[w], c, p, held')
             /\ \A f : Taking(down[w], work[w], c, f) => Taking(down'[w], work[w], c, f)
  <2>1. /\ down'[w] = Append(down[w], y) /\ down[w] \in Seq(Commands)
        /\ Staying(down[w], work[w], running[w], c)
    BY <1>1, <1>2, <1>4 DEF Wrote
  <2> DEFINE x == b + w[2]
             q2 == Append(down[w], y)
  <2>2. Lane(down[w], work[w], running[w], c, a, b, x)
    BY <1>2 DEF Lanes
  <2>3. Feeds(y, c) /\ y.nonce = b /\ y.algo = a /\ a \notin RandomX /\ ForHeld(y, p, h2)
    OBVIOUS
  <2> HIDE DEF x, a, b, c, h2
  <2>4. Lane(q2, work[w], running[w], c, a, b, x)
    BY <2>1, <2>2, <2>3, AgainWritten
  <2>5. Staying(q2, work[w], running[w], c)
    BY <2>1, <2>2, <2>3, AgainWritten
  <2>6. \A f : Taking(down[w], work[w], c, f) => Taking(q2, work[w], c, f)
    BY <2>1, <2>2, <2>3, AgainWritten
  <2>7. Fresh(q2, work[w], c, p, h2)
    BY <2>1, <2>3, LastWritten
  <2> QED
    BY <2>1, <2>4, <2>5, <2>6, <2>7 DEF x, h2
<1>5. ASSUME NEW w \in Workers, w[1] # generation
      PROVE  /\ Lane(down'[w], work[w], running[w], c, a, b, b + w[2])
             /\ Staying(down'[w], work[w], running[w], c)
             /\ Fresh(down'[w], work[w], c, p, held')
             /\ ~Busy(down[w], work[w], c) /\ ~Busy(down'[w], work[w], c)
  <2>0. ~Busy(down[w], work[w], c)
    BY <1>2, <1>5 DEF Lanes
  <2>1. down'[w] \in {down[w], Append(down[w], [type |-> "close"])}
    BY <1>5 DEF Wrote
  <2>2. ~Busy(Append(down[w], [type |-> "close"]), work[w], c)
    <3> HIDE DEF c
    <3> QED
      BY <1>1, <1>3, <2>0, OtherWritten
  <2> DEFINE q2 == down'[w]
             x == b + w[2]
  <2>3. ~Busy(q2, work[w], c)
    BY <2>0, <2>1, <2>2
  <2> HIDE DEF q2, x, a, b, c, h2
  <2>4. /\ Lane(q2, work[w], running[w], c, a, b, x)
        /\ Fresh(q2, work[w], c, p, h2)
        /\ Staying(q2, work[w], running[w], c)
    BY <2>3, IdleLane
  <2> QED
    BY <2>0, <2>3, <2>4 DEF q2, x, h2
<1>6. Lanes(down', work, running, generation, G, c, a, b)
  BY <1>2, <1>4, <1>5 DEF Lanes
<1>7. /\ \A w \in Workers : Fresh(down'[w], work[w], c, p, held')
      /\ \A w \in Workers : Staying(down'[w], work[w], running[w], c)
  BY <1>4, <1>5
<1>8. ASSUME NEW f \in G PROVE Known(down', work, running, held'[p], f)
  <2>1. f \in Nat /\ Known(down, work, running, held[p], f)
    BY <1>1, <1>2, <1>8
  <2>2. CASE f < held[p].nonce
    <3>1. held[p].nonce = b /\ held[p].nonce # Unset
      BY <1>2, <2>1, <2>2 DEF Unset
    <3>2. PICK w \in Workers : w[1] = generation /\ work[w] # NoWork
      BY <3>1 DEF PositionDropped, Current
    <3>3. down'[w] = Append(down[w], y) /\ down[w] \in Seq(Commands)
      BY <1>1, <3>2 DEF Wrote
    <3>4. Len(down[w]) + 1 \in DOMAIN down'[w] /\ down'[w][Len(down[w]) + 1] = y
      BY <3>3, PipeWritten
    <3>5. Taking(down'[w], work[w], c, f)
      BY <2>2, <3>1, <3>2, <3>4 DEF Taking
    <3> QED
      BY <3>5 DEF Known
  <2>3. ASSUME NEW w \in Workers, Reporting(work[w], running[w], c, f)
        PROVE  Known(down', work, running, held'[p], f)
    BY <2>3 DEF Known
  <2>4. ASSUME NEW w \in Workers, Taking(down[w], work[w], c, f)
        PROVE  Known(down', work, running, held'[p], f)
    <3>1. w[1] = generation
      BY <1>5, <2>4 DEF Busy, Fed, Taking
    <3>2. Taking(down'[w], work[w], c, f)
      BY <1>4, <2>4, <3>1
    <3> QED
      BY <3>2 DEF Known
  <2> QED
    BY <2>1, <2>2, <2>3, <2>4 DEF Known
<1>9. \A w \in Workers : w[1] = generation => \A f \in G : ~Ahead(At(work[w], c, b + w[2]), f)
  BY <1>2
<1>10. Mined(p)'
  BY <1>6, <1>7, <1>8, <1>9 DEF Mined
<1> QED
  BY <1>6, <1>7, <1>10 DEF Sure

-----------------------------------------------------------------------------
(* The controller's moves.                                                 *)

\* set_job on the job of p in h, by what it does.
SetJob(p, h) ==
    /\ held'[p] = [h[p] EXCEPT !.token = liveToken + 1]
    /\ \A q \in Pools \ {p} : held'[q] = h[q]
    /\ \/ exiting /\ UNCHANGED <<lastJob, generation, down>>
       \/ /\ ~exiting
          /\ lastJob' # NoJob /\ lastJob'.content = h[p].content /\ lastJob'.algo = h[p].algo
          /\ lastJob'.pool = p /\ lastJob'.nonce \in Nat
          /\ h[p].nonce # Unset => lastJob'.nonce = h[p].nonce
          /\ h[p].nonce = Unset /\ lastJob # NoJob /\ lastJob.pool = p /\ lastJob.algo = h[p].algo
               => lastJob'.nonce = lastJob.nonce /\ generation' = generation
          /\ \E y \in Commands :
                /\ y.type = "job" /\ y.content = h[p].content /\ y.algo = h[p].algo
                /\ y.sound = h[p].sound /\ y.nonce = lastJob'.nonce
                /\ ForHeld(y, p, held') /\ Wrote(y)

\* set_job does no more than this.
LEMMA SetJobIs ==
    ASSUME TypeOK, ChannelsTyped, NEW p \in Pools, NEW h \in [Pools -> Jobs \cup {NoJob}],
           h[p] \in Jobs, set_job(p, h)
    PROVE  SetJob(p, h)
<1> DEFINE job == [h[p] EXCEPT !.token = liveToken + 1]
           start == addNonceFields(p, job)
           cmd == [type |-> "job", algo |-> job.algo, pool |-> p, id |-> job.id,
                   token |-> job.token, sound |-> job.sound, content |-> job.content,
                   nonce |-> start]
<1>1. /\ liveToken < MaxToken
      /\ held' = [h EXCEPT ![p] = job]
      /\ \/ exiting /\ UNCHANGED <<lastJob, generation, down>>
         \/ /\ ~exiting
            /\ lastJob' = [content |-> job.content, algo |-> job.algo, pool |-> p, nonce |-> start]
            /\ Dispatch(job.algo, cmd)
  BY DEF set_job
<1>2. liveToken + 1 \in 1 .. MaxToken
  <2>1. liveToken \in 0 .. MaxToken /\ MaxToken \in Nat
    BY RelayAssumption DEF TypeOK
  <2> QED
    BY <1>1, <2>1
<1>3. /\ job.token = liveToken + 1 /\ job.content = h[p].content /\ job.algo = h[p].algo
      /\ job.id = h[p].id /\ job.sound = h[p].sound /\ job.nonce = h[p].nonce
  BY DEF Jobs
<1>4. /\ held'[p] = job /\ \A q \in Pools \ {p} : held'[q] = h[q]
  BY <1>1
<1>5. /\ h[p].content \in 1 .. MaxContent /\ h[p].id \in Ids /\ h[p].algo \in Algos
      /\ h[p].nonce \in Nat \cup {Unset} /\ h[p].sound \in BOOLEAN
  BY DEF Jobs
<1>6. held'[p] = [h[p] EXCEPT !.token = liveToken + 1]
  BY <1>4
<1> HIDE DEF job
<1>7. /\ start \in Nat
      /\ h[p].nonce # Unset => start = h[p].nonce
      /\ h[p].nonce = Unset /\ lastJob # NoJob /\ lastJob.pool = p /\ lastJob.algo = h[p].algo
           => start = lastJob.nonce
  BY <1>3, <1>5 DEF addNonceFields, ChannelsTyped
<1> HIDE DEF start
<1>8. /\ cmd \in Commands /\ cmd.type = "job" /\ cmd.content = h[p].content /\ cmd.algo = h[p].algo
      /\ cmd.sound = h[p].sound /\ cmd.nonce = start
      /\ cmd.pool = p /\ cmd.token = job.token /\ cmd.id = job.id
  <2>1. cmd \in JobCommands
    BY <1>2, <1>3, <1>5, <1>7 DEF JobCommands
  <2> QED
    BY <1>3, <2>1 DEF Commands
<1> HIDE DEF cmd
<1>9. CASE exiting /\ UNCHANGED <<lastJob, generation, down>>
  BY <1>4, <1>6, <1>9 DEF SetJob
<1>10. CASE /\ ~exiting
            /\ lastJob' = [content |-> job.content, algo |-> job.algo, pool |-> p, nonce |-> start]
            /\ Dispatch(job.algo, cmd)
  <2>1. Wrote(cmd)
    BY <1>8, <1>10, DispatchCases, WrittenIs
  <2>2. ForHeld(cmd, p, held')
    BY <1>4, <1>8 DEF ForHeld
  <2>3. /\ lastJob'.content = h[p].content /\ lastJob'.algo = h[p].algo
        /\ lastJob'.pool = p /\ lastJob'.nonce = start
    BY <1>3, <1>10
  <2>4. lastJob' # NoJob
    <3>1. h[p].content # 0 /\ NoJob.content = 0
      BY <1>5 DEF NoJob
    <3> QED
      BY <2>3, <3>1
  <2>5. lastJob # NoJob /\ lastJob.algo = h[p].algo => generation' = generation
    BY <1>3, <1>10 DEF Dispatch, WorkersFit
  <2> QED
    BY <1>4, <1>6, <1>7, <1>8, <1>10, <2>1, <2>2, <2>3, <2>4, <2>5 DEF SetJob
<1> QED
  BY <1>1, <1>9, <1>10

\* A generation is retired only if all jobs in h but the exceptions are reported.
Remembers(h) ==
    generation' # generation =>
        \A q \in Pools : h[q] # NoJob /\ h[q].content \notin early' => ~Unreported(h[q].token)

\* The job j that p dispatches is new, is the active pool's job again, or is
\* the job of a pool that was in the background.
Created(j) == j.content = contents + 1 /\ contents' = contents + 1 /\ j.nonce = Unset

Again(p, j) ==
    /\ p = active /\ held[p] # NoJob /\ contents' = contents
    /\ j.content = held[p].content /\ j.algo = held[p].algo /\ j.nonce = Unset
    /\ j.content \notin early' => j.sound /\ j.algo \notin RandomX /\ ~PositionDropped(p)

Resumed(p, j) ==
    /\ p # active /\ p # Donate /\ held[p] # NoJob /\ contents' = contents /\ j = held[p]
    /\ j.content \notin early' => ~Unreported(j.token)

\* A move of the controller that dispatches the job of p in h.
Sends(p, h) ==
    /\ h \in [Pools -> Jobs \cup {NoJob}] /\ h[p] \in Jobs
    /\ \A q \in Pools \ {p} : h[q] \in {held[q], NoJob}
    /\ active' = p /\ SetJob(p, h) /\ Remembers(h) /\ early \subseteq early'
    /\ UNCHANGED <<exiting, up, work, running, sent>>
    /\ Created(h[p]) \/ Again(p, h[p]) \/ Resumed(p, h[p])

\* A move that dispatches nothing, and after which p may have a new job.
Keeps(p) ==
    /\ \A q \in Pools \ {p} : held'[q] \in {held[q], NoJob}
    /\ \/ held'[p] \in {held[p], NoJob} /\ contents' = contents
       \/ held'[p] \in Jobs /\ Created(held'[p]) /\ held'[p].token = 0 /\ p # active' /\ down' = down
    /\ \/ active' = active /\ held'[active] = held[active] /\ down' = down
       \/ /\ held'[active'] = NoJob
          /\ \A w \in Workers : down'[w] \in {down[w], Append(down[w], [type |-> "pause"])}
    /\ UNCHANGED <<exiting, up, work, running, sent, lastJob, generation, early>>

\* Forgotten names the jobs that a retired generation does not report.
LEMMA ForgottenIs ==
    ASSUME TypeOK, NEW h \in [Pools -> Jobs \cup {NoJob}], Forgotten(h) \subseteq early'
    PROVE  Remembers(h)
<1> SUFFICES ASSUME generation' # generation, NEW q \in Pools, h[q] # NoJob,
                    h[q].content \notin early', Unreported(h[q].token)
             PROVE  FALSE
  BY DEF Remembers
<1>1. h[q].content \in 1 .. MaxContent
  BY DEF Jobs
<1>2. h[q].content \in Forgotten(h)
  BY <1>1 DEF Forgotten
<1> QED
  BY <1>2

\* switchPool resumes a job or dispatches nothing.
LEMMA SwitchMoves ==
    ASSUME TypeOK, ChannelsTyped, NEW h \in [Pools -> Jobs \cup {NoJob}],
           \A q \in Pools : h[q] \in {held[q], NoJob}, switchPool(active, h)
    PROVE  \E q \in Pools : Sends(q, h) \/ Keeps(q)
<1>0. UNCHANGED <<exiting, contents, up, work, running, sent>> /\ active \in Pools
  BY DEF switchPool, coreVars, TypeOK
<1>1. ASSUME NEW q \in Alive(active, h), active' = q, set_job(q, h),
             early' = early \cup Forgotten(h) \cup {c \in {h[q].content} : Unreported(h[q].token)}
      PROVE  Sends(q, h) /\ q \in Pools
  <2>1. q \in Pools /\ q # active /\ q # Donate /\ h[q] # NoJob
    BY <1>1 DEF Alive
  <2>2. h[q] \in Jobs /\ h[q] = held[q]
    BY <2>1
  <2>3. SetJob(q, h)
    BY <1>1, <2>1, <2>2, SetJobIs
  <2>4. Remembers(h)
    BY <1>1, ForgottenIs
  <2>5. Resumed(q, h[q])
    BY <1>0, <1>1, <2>1, <2>2 DEF Resumed
  <2> QED
    BY <1>0, <1>1, <2>1, <2>2, <2>3, <2>4, <2>5 DEF Sends
<1>2. ASSUME active' \in {q \in Pools \ {Donate} : h[q] = NoJob}, held' = h,
             down' = IF active = Donate THEN messageWorkers([type |-> "pause"]) ELSE down,
             UNCHANGED <<lastJob, generation, early>>
      PROVE  Keeps(active)
  <2>1. \A w \in Workers : down'[w] \in {down[w], Append(down[w], [type |-> "pause"])}
    <3>1. [type |-> "pause"] \in Commands
      BY DEF Commands
    <3> QED
      BY <1>2, <3>1, MessagesWritten
  <2>2. held'[active'] = NoJob /\ \A q \in Pools : held'[q] \in {held[q], NoJob}
    BY <1>2
  <2> QED
    BY <1>0, <1>2, <2>1, <2>2 DEF Keeps
<1> QED
  BY <1>0, <1>1, <1>2 DEF switchPool

\* A new or resent job, a lost connection and the end of a donation window are such
\* moves.
LEMMA ControllerMoves ==
    ASSUME TypeOK, ChannelsTyped, LastDispatched, NEW p \in Pools,
           PoolJob(p) \/ Retargets(p) \/ Disconnect(p) \/ WindowEnds
    PROVE  \E q \in Pools : Keeps(q) \/ \E h : Sends(q, h)
<1>0. held \in [Pools -> Jobs \cup {NoJob}] /\ contents \in 0 .. MaxContent /\ active \in Pools
  BY DEF TypeOK
<1>1. CASE PoolJob(p)
  <2>1. PICK id \in Ids, algo \in Algos, sound \in BOOLEAN :
          LET j == [content |-> contents + 1, id |-> id, algo |-> algo, sound |-> sound,
                    token |-> 0, nonce |-> Unset]
              h == [held EXCEPT ![p] = j]
          IN  \/ active' = p /\ set_job(p, h) /\ early' = early \cup Forgotten(h)
              \/ /\ p # active /\ held' = h
                 /\ UNCHANGED <<active, lastJob, generation, down, early>>
    BY <1>1 DEF PoolJob
  <2>2. /\ contents + 1 \in 1 .. MaxContent /\ contents' = contents + 1
        /\ UNCHANGED <<exiting, up, work, running, sent>>
    <3>1. contents < MaxContent /\ contents' = contents + 1
          /\ UNCHANGED <<exiting, up, work, running, sent>>
      BY <1>1 DEF PoolJob, coreVars
    <3>2. contents \in 0 .. MaxContent /\ MaxContent \in Nat
      BY <1>0, RelayAssumption
    <3> QED
      BY <3>1, <3>2
  <2> DEFINE j == [content |-> contents + 1, id |-> id, algo |-> algo, sound |-> sound,
                   token |-> 0, nonce |-> Unset]
             h == [held EXCEPT ![p] = j]
  <2>3. j \in Jobs
    <3>1. 0 \in 0 .. MaxToken /\ Unset \in Nat \cup {Unset}
      BY RelayAssumption
    <3> QED
      BY <2>2, <3>1 DEF Jobs
  <2>4. /\ h \in [Pools -> Jobs \cup {NoJob}] /\ h[p] = j
        /\ \A q \in Pools \ {p} : h[q] = held[q]
    BY <1>0, <2>3
  <2>5. j.token = 0 /\ Created(j)
    BY <2>2 DEF Created
  <2> HIDE DEF j
  <2>6. CASE active' = p /\ set_job(p, h) /\ early' = early \cup Forgotten(h)
    <3>1. SetJob(p, h)
      BY <2>3, <2>4, <2>6, SetJobIs
    <3>2. Remembers(h)
      BY <2>4, <2>6, ForgottenIs
    <3>3. Sends(p, h)
      BY <2>2, <2>3, <2>4, <2>5, <2>6, <3>1, <3>2 DEF Sends
    <3> QED
      BY <3>3
  <2>7. CASE p # active /\ held' = h /\ UNCHANGED <<active, lastJob, generation, down, early>>
    <3>1. Keeps(p)
      BY <1>0, <2>2, <2>3, <2>4, <2>5, <2>7 DEF Keeps
    <3> QED
      BY <3>1
  <2> QED
    BY <2>1, <2>6, <2>7 DEF j
<1>2. CASE Retargets(p)
  <2>1. PICK id \in Ids, sound \in BOOLEAN :
          /\ set_job(p, [held EXCEPT ![p].id = id, ![p].sound = sound, ![p].nonce = Unset])
          /\ early' = IF sound /\ held[p].algo \notin RandomX /\ ~PositionDropped(p)
                      THEN early ELSE early \cup {held[p].content}
    BY <1>2 DEF Retargets
  <2>2. /\ p = active /\ held[p] # NoJob
        /\ UNCHANGED <<active, exiting, contents, up, work, running, sent>>
    BY <1>2 DEF Retargets, coreVars
  <2>3. held[p] \in Jobs
    BY <1>0, <2>2
  <2> DEFINE h == [held EXCEPT ![p].id = id, ![p].sound = sound, ![p].nonce = Unset]
  <2>4. /\ h \in [Pools -> Jobs \cup {NoJob}] /\ h[p] \in Jobs
        /\ \A q \in Pools \ {p} : h[q] = held[q]
        /\ h[p].content = held[p].content /\ h[p].algo = held[p].algo
        /\ h[p].nonce = Unset /\ h[p].sound = sound
    BY <1>0, <2>3 DEF Jobs
  <2>5. set_job(p, h)
    BY <2>1
  <2> HIDE DEF h
  <2>6. SetJob(p, h)
    BY <2>4, <2>5, SetJobIs
  <2>7. Again(p, h[p])
    BY <2>1, <2>2, <2>4 DEF Again
  <2>8. generation' = generation
    BY <2>2, <2>4, <2>6 DEF SetJob, LastDispatched
  <2>9. Remembers(h)
    BY <2>8 DEF Remembers
  <2>10. early \subseteq early'
    BY <2>1
  <2> QED
    BY <2>2, <2>4, <2>6, <2>7, <2>9, <2>10 DEF Sends
<1>3. CASE WindowEnds
  <2>1. switchPool(active, held)
    BY <1>3 DEF WindowEnds
  <2> QED
    BY <1>0, <2>1, SwitchMoves
<1>4. CASE Disconnect(p)
  <2> DEFINE h == [held EXCEPT ![p] = NoJob]
  <2>1. /\ h \in [Pools -> Jobs \cup {NoJob}]
        /\ \A q \in Pools : h[q] \in {held[q], NoJob}
        /\ \A q \in Pools \ {p} : h[q] = held[q]
    BY <1>0
  <2>2. \/ p = active /\ switchPool(p, h)
        \/ p # active /\ held' = h
           /\ UNCHANGED <<active, lastJob, generation, exiting, contents, down, up,
                          work, running, sent, early>>
    BY <1>4 DEF Disconnect, coreVars
  <2> HIDE DEF h
  <2>3. CASE p = active /\ switchPool(p, h)
    BY <1>0, <2>1, <2>3, SwitchMoves
  <2>4. CASE p # active /\ held' = h
           /\ UNCHANGED <<active, lastJob, generation, exiting, contents, down, up,
                          work, running, sent, early>>
    <3>1. Keeps(p)
      BY <1>0, <2>1, <2>4 DEF Keeps
    <3> QED
      BY <3>1
  <2> QED
    BY <2>2, <2>3, <2>4
<1> QED
  BY <1>1, <1>2, <1>3, <1>4

\* No result is coming for a token that no message has.
LEMMA NewToken ==
    ASSUME TypeOK, ChannelsTyped, TokensTell, NEW t, t = liveToken + 1 \/ t = 0, NEW p, NEW c
    PROVE  Distinct(sent, up, c, p, t) /\ Coming(up, p, t) = {}
<1>1. up \in [Workers -> Seq(Messages)]
  BY Typing
<1>2. ASSUME NEW w \in Workers, NEW m \in Range(up[w]), m.type = "result" PROVE m.token # t
  <2>1. m.token <= liveToken /\ liveToken \in Nat
    BY <1>2, RelayAssumption DEF TokensTell, Stamped, TypeOK
  <2>2. up[w] \in Seq(ResultMessages \cup PositionMessages)
    BY DEF ChannelsTyped
  <2>3. m \in ResultMessages \cup PositionMessages
    <3>1. PICK i \in DOMAIN up[w] : m = up[w][i]
      BY <1>2 DEF Range
    <3> QED
      BY <2>2, <3>1, ElementOfSeq, LenProperties
  <2>4. m.token \in 1 .. MaxToken
    BY <2>3 DEF ResultMessages, PositionMessages
  <2> QED
    BY <2>1, <2>4, RelayAssumption
<1> QED
  BY <1>1, <1>2, NothingComing

\* Nobody has to do with a content before it is created.
LEMMA NewContent ==
    ASSUME TypeOK, ChannelsTyped, Numbered, NEW c, c = contents + 1
    PROVE  Submitted(sent, c) = {} /\ \A w \in Workers : ~Busy(down[w], work[w], c)
<1>1. contents \in Nat
  BY RelayAssumption DEF TypeOK
<1>2. \A i \in DOMAIN sent : sent[i] \in Shares
  BY Typing, ElementOfSeq, LenProperties
<1>3. \A i \in DOMAIN sent : sent[i].content # c
  BY <1>1, <1>2, RelayAssumption DEF Numbered, Shares
<1>4. ASSUME NEW w \in Workers PROVE ~On(work[w], c)
  BY <1>1, RelayAssumption DEF On, Numbered, TypeOK, Works
<1>5. ASSUME NEW w \in Workers, NEW i \in DOMAIN down[w] PROVE ~Feeds(down[w][i], c)
  <2>1. down[w] \in Seq(Commands)
    BY Typing
  <2>2. down[w][i] \in Commands
    BY <2>1, ElementOfSeq, LenProperties
  <2>3. down[w][i].type = "job" => down[w][i] \in JobCommands
    BY <2>2 DEF Commands
  <2>4. down[w][i].type = "job" => down[w][i].content <= contents
    BY DEF Numbered, Range
  <2> QED
    BY <1>1, <2>3, <2>4, RelayAssumption DEF Feeds, JobCommands
<1> QED
  BY <1>3, <1>4, <1>5 DEF Submitted, Busy, Fed

\* A dispatch leaves what is sure of the other pools' jobs.
LEMMA SendsOthers ==
    ASSUME TypeOK, ChannelsTyped, Numbered, NEW p \in Pools, NEW h, Sends(p, h),
           NEW z \in Pools \ {p}, held'[z] # NoJob, held'[z].content \notin early', Sure(z)
    PROVE  Sure(z)'
<1>1. /\ h[p] \in Jobs /\ h[z] = held[z] /\ held'[z] = held[z] /\ held[z] # NoJob
  BY DEF Sends, SetJob
<1>2. UNCHANGED <<exiting, up, work, running, sent>> /\ active' # z
  BY DEF Sends
<1>3. h[p].content # held[z].content
  <2>1. held[z].content <= contents /\ held[z].content \in Nat /\ contents \in Nat
    BY <1>1, RelayAssumption DEF Numbered, TypeOK, Jobs
  <2>2. CASE Created(h[p])
    BY <2>1, <2>2 DEF Created
  <2>3. CASE Again(p, h[p]) \/ Resumed(p, h[p])
    BY <1>1, <2>3 DEF Again, Resumed, Numbered
  <2> QED
    BY <2>2, <2>3 DEF Sends
<1>4. Spares(held[z].content)
  <2>1. CASE exiting
    BY <2>1 DEF Sends, SetJob, Spares
  <2>2. CASE ~exiting
    <3>1. PICK y \in Commands : y.content = h[p].content /\ Wrote(y)
      BY <2>2 DEF Sends, SetJob
    <3>2. ~Feeds(y, held[z].content)
      BY <1>3, <3>1 DEF Feeds
    <3>3. [type |-> "close"] \in Commands /\ ~Feeds([type |-> "close"], held[z].content)
      BY DEF Commands, Feeds
    <3> QED
      BY <3>1, <3>2, <3>3 DEF Wrote, Spares
  <2> QED
    BY <2>1, <2>2
<1>5. generation' # generation => ~exiting /\ ~Unreported(held[z].token)
  BY <1>1 DEF Sends, SetJob, Remembers
<1> QED
  BY <1>1, <1>2, <1>4, <1>5, BystanderSure

\* What is sure of the job that is dispatched.
LEMMA SendsSure ==
    ASSUME TypeOK, ChannelsTyped, TokensTell, Numbered, LastDispatched, NEW p \in Pools, NEW h,
           Sends(p, h), held'[p].content \notin early',
           held[p] # NoJob /\ held[p].content \notin early => Sure(p)
    PROVE  Sure(p)'
<1> DEFINE c == h[p].content
           t == liveToken + 1
<1>1. /\ h[p] \in Jobs /\ active' = p /\ UNCHANGED <<exiting, up, work, running, sent>>
      /\ SetJob(p, h) /\ early \subseteq early'
  BY DEF Sends
<1>2. /\ held'[p].content = c /\ held'[p].algo = h[p].algo /\ held'[p].nonce = h[p].nonce
      /\ held'[p].token = t
  BY <1>1 DEF SetJob, Jobs
<1>3. Distinct(sent, up, c, p, t) /\ Coming(up, p, t) = {}
  BY NewToken
<1>4. Found(sent, up, p, held') = Submitted(sent, c)
  BY <1>2, <1>3 DEF Found
<1>5. held[p] # NoJob /\ held[p].content = c =>
        Found(sent, up, p, held') \subseteq Found(sent, up, p, held)
  BY <1>4 DEF Found
<1>6. ASSUME ~exiting
      PROVE  /\ lastJob'.nonce \in Nat
             /\ \E y \in Commands :
                  /\ y.type = "job" /\ y.content = c /\ y.algo = h[p].algo
                  /\ y.sound = h[p].sound /\ y.nonce = lastJob'.nonce
                  /\ ForHeld(y, p, held') /\ Wrote(y)
  BY <1>1, <1>6 DEF SetJob
<1>7. CASE Created(h[p])
  <2>1. Submitted(sent, c) = {} /\ \A w \in Workers : ~Busy(down[w], work[w], c)
    BY <1>7, NewContent DEF Created
  <2>2. held'[p].nonce = Unset
    BY <1>2, <1>7 DEF Created
  <2>3. CASE exiting
    <3>1. UNCHANGED <<up, work, running, sent, down>> /\ exiting'
      BY <1>1, <2>3 DEF SetJob
    <3>2. Found(sent, up, p, held') = {}
      BY <1>4, <2>1
    <3>3. c = held'[p].content /\ Distinct(sent, up, c, p, held'[p].token)
      BY <1>2, <1>3
    <3> HIDE DEF c
    <3> QED
      BY <2>1, <3>1, <3>2, <3>3, StoredSure
  <2>4. CASE ~exiting
    <3>1. PICK y \in Commands :
             /\ y.algo = h[p].algo /\ y.nonce = lastJob'.nonce
             /\ ForHeld(y, p, held') /\ Wrote(y)
      BY <1>6, <2>4
    <3>2. \A f \in Found(sent, up, p, held') : f < held'[p].nonce
      BY <1>4, <2>1
    <3>3. c = held'[p].content /\ Distinct(sent, up, c, p, held'[p].token)
      BY <1>2, <1>3
    <3>4. lastJob'.nonce \in Nat /\ held'[p].nonce \in {Unset, lastJob'.nonce}
      BY <1>6, <2>2, <2>4
    <3>5. Feeds(y, c) => y.nonce = lastJob'.nonce /\ y.algo = held'[p].algo
      BY <1>2, <3>1
    <3> HIDE DEF c
    <3> QED
      BY <1>1, <2>1, <3>1, <3>2, <3>3, <3>4, <3>5, StartSure
  <2> QED
    BY <2>3, <2>4
<1>8. CASE Again(p, h[p])
  <2>1. /\ p = active /\ held[p] # NoJob /\ c = held[p].content /\ h[p].algo = held[p].algo
        /\ h[p].nonce = Unset /\ h[p].sound /\ h[p].algo \notin RandomX /\ ~PositionDropped(p)
    BY <1>2, <1>8 DEF Again
  <2>2. Sure(p)
    BY <1>1, <1>2, <2>1
  <2>3. CASE exiting
    <3>1. UNCHANGED <<up, work, running, sent, down, generation>> /\ exiting'
      BY <1>1, <2>3 DEF SetJob
    <3>2. /\ Found(sent, up, p, held') \subseteq Found(sent, up, p, held)
          /\ Distinct(sent, up, held[p].content, p, held'[p].token)
          /\ held'[p].content = held[p].content /\ held'[p].algo = held[p].algo
      BY <1>2, <1>3, <1>5, <2>1
    <3> QED
      BY <2>2, <3>1, <3>2, ExitingSure
  <2>4. CASE ~exiting
    <3>1. lastJob # NoJob /\ lastJob.pool = p /\ lastJob.algo = h[p].algo
      BY <2>1, <2>4 DEF LastDispatched
    <3>2. lastJob'.nonce = lastJob.nonce /\ generation' = generation
      BY <1>1, <2>1, <2>4, <3>1 DEF SetJob
    <3>3. PICK y \in Commands :
             /\ y.type = "job" /\ y.content = c /\ y.algo = h[p].algo /\ y.sound
             /\ y.nonce = lastJob.nonce /\ ForHeld(y, p, held') /\ Wrote(y)
      BY <1>6, <2>1, <2>4, <3>2
    <3>4. Feeds(y, held[p].content) /\ y.algo = held[p].algo
      BY <2>1, <3>3 DEF Feeds
    <3>5. lastJob.nonce \in Nat
      BY <1>6, <2>4, <3>2
    <3>6. /\ Found(sent, up, p, held') \subseteq Found(sent, up, p, held)
          /\ Distinct(sent, up, held[p].content, p, held'[p].token)
          /\ held'[p].content = held[p].content /\ held'[p].algo = held[p].algo
          /\ held'[p].nonce = Unset /\ held[p].algo \notin RandomX
      BY <1>2, <1>3, <1>5, <2>1
    <3>7. UNCHANGED <<up, work, running, sent, generation, exiting>>
      BY <1>1, <3>2
    <3> QED
      BY <1>1, <2>1, <2>2, <2>4, <3>2, <3>3, <3>4, <3>5, <3>6, <3>7, AgainSure
  <2> QED
    BY <2>3, <2>4
<1>9. CASE Resumed(p, h[p])
  <2>1. /\ p # active /\ p # Donate /\ held[p] # NoJob /\ h[p] = held[p]
        /\ ~Unreported(held[p].token)
    BY <1>2, <1>9 DEF Resumed
  <2>2. Sure(p)
    BY <1>1, <1>2, <2>1
  <2>3. CASE exiting
    <3>1. UNCHANGED <<up, work, running, sent, down, generation>> /\ exiting'
      BY <1>1, <2>3 DEF SetJob
    <3>2. /\ Found(sent, up, p, held') \subseteq Found(sent, up, p, held)
          /\ Distinct(sent, up, held[p].content, p, held'[p].token)
          /\ held'[p].content = held[p].content /\ held'[p].algo = held[p].algo
      BY <1>2, <1>3, <1>5, <2>1
    <3> QED
      BY <2>2, <3>1, <3>2, ExitingSure
  <2>4. CASE ~exiting
    <3>1. Told(p) /\ \A w \in Workers : Fresh(down[w], work[w], held[p].content, p, held)
      BY <2>1, <2>2, <2>4 DEF Sure
    <3>2. /\ \A w \in Workers : ~Busy(down[w], work[w], held[p].content)
          /\ \A f : Known(down, work, running, held[p], f) \/ Reported(up, generation, p, held, f)
                    => f < held[p].nonce
      BY <2>1, <3>1, ReportedIdle
    <3>3. \A f \in Found(sent, up, p, held') : f < held'[p].nonce
      <4>1. \A f \in Found(sent, up, p, held) : f < held[p].nonce
        BY <3>1, <3>2 DEF Told
      <4> QED
        BY <1>2, <1>5, <2>1, <4>1
    <3>4. PICK y \in Commands :
             /\ y.algo = h[p].algo /\ y.nonce = lastJob'.nonce
             /\ ForHeld(y, p, held') /\ Wrote(y)
      BY <1>6, <2>4
    <3>5. c = held'[p].content /\ Distinct(sent, up, c, p, held'[p].token)
      BY <1>2, <1>3
    <3>6. lastJob'.nonce \in Nat /\ held'[p].nonce \in {Unset, lastJob'.nonce}
      BY <1>1, <1>2, <2>4 DEF SetJob
    <3>7. Feeds(y, c) => y.nonce = lastJob'.nonce /\ y.algo = held'[p].algo
      BY <1>2, <3>4
    <3>8. \A w \in Workers : ~Busy(down[w], work[w], c)
      BY <2>1, <3>2
    <3> HIDE DEF c
    <3> QED
      BY <1>1, <3>3, <3>4, <3>5, <3>6, <3>7, <3>8, StartSure
  <2> QED
    BY <2>3, <2>4
<1> QED
  BY <1>7, <1>8, <1>9 DEF Sends

\* What is sure of all jobs when nothing is dispatched.
LEMMA KeepsSure ==
    ASSUME TypeOK, ChannelsTyped, TokensTell, Numbered, NEW p \in Pools, Keeps(p),
           NEW z \in Pools, held'[z] # NoJob, held'[z].content \notin early',
           held[z] # NoJob /\ held[z].content \notin early => Sure(z)
    PROVE  Sure(z)'
<1>1. UNCHANGED <<exiting, up, work, running, sent, lastJob, generation, early>>
  BY DEF Keeps
<1>2. CASE held'[z] = held[z]
  <2>1. Sure(z)
    BY <1>1, <1>2
  <2>2. Spares(held[z].content)
    <3>1. [type |-> "pause"] \in Commands /\ ~Feeds([type |-> "pause"], held[z].content)
      BY DEF Commands, Feeds
    <3> QED
      BY <3>1 DEF Keeps, Spares
  <2>3. z = active' => UNCHANGED <<active, lastJob, down, generation>>
    BY <1>1 DEF Keeps
  <2> QED
    BY <1>1, <1>2, <2>1, <2>2, <2>3, BystanderSure
<1>3. CASE held'[z] # held[z]
  <2>1. /\ Created(held'[z]) /\ held'[z].token = 0 /\ z # active' /\ down' = down
    BY <1>3 DEF Keeps
  <2> DEFINE c == held'[z].content
  <2>2. Submitted(sent, c) = {} /\ \A w \in Workers : ~Busy(down[w], work[w], c)
    BY <2>1, NewContent DEF Created
  <2>3. Distinct(sent, up, c, z, held'[z].token) /\ Coming(up, z, held'[z].token) = {}
    BY <2>1, NewToken
  <2>4. Found(sent, up, z, held') = {}
    BY <2>2, <2>3 DEF Found
  <2>5. c = held'[z].content
    OBVIOUS
  <2> HIDE DEF c
  <2> QED
    BY <1>1, <2>1, <2>2, <2>3, <2>4, <2>5, StoredSure
<1> QED
  BY <1>2, <1>3

\* What is sure of all jobs when the controller exits.
LEMMA ExitSure ==
    ASSUME TypeOK, ChannelsTyped, NEW z \in Pools, Exit, Sure(z)
    PROVE  Sure(z)'
<1>1. /\ exiting' /\ down' = messageWorkers([type |-> "close"])
      /\ UNCHANGED <<held, generation, up, work, running, sent>>
  BY DEF Exit, coreVars
<1>2. [type |-> "close"] \in Commands /\ ~Feeds([type |-> "close"], held[z].content)
  BY DEF Commands, Feeds
<1>3. Spares(held[z].content)
  BY <1>1, <1>2, MessagesWritten DEF Spares
<1> QED
  BY <1>1, <1>3, BystanderSure

-----------------------------------------------------------------------------
(* The rest of the invariant, and the theorem.                             *)

\* The pools' part of Numbered, and the part of what was made from their jobs.
HeldNumbered(h, n) ==
    /\ \A p \in Pools : h[p] # NoJob => h[p].content <= n
    /\ \A p, q \in Pools : h[p] # NoJob /\ h[q] # NoJob /\ p # q => h[p].content # h[q].content

MadeNumbered(D, W, s, n) ==
    /\ \A w \in Workers : W[w] # NoWork => W[w].content <= n
    /\ \A w \in Workers : \A c \in Range(D[w]) : c.type = "job" => c.content <= n
    /\ \A i \in DOMAIN s : s[i].content <= n

\* The two parts make up Numbered.
LEMMA NumberedIs ==
    Numbered <=> HeldNumbered(held, contents) /\ MadeNumbered(down, work, sent, contents)
  BY DEF Numbered, HeldNumbered, MadeNumbered

\* Old numbers stay below a larger bound.
LEMMA MadeBefore ==
    ASSUME TypeOK, ChannelsTyped, MadeNumbered(down, work, sent, contents),
           contents' \in Nat, contents' >= contents
    PROVE  MadeNumbered(down, work, sent, contents')
<1>1. contents \in Nat
  BY RelayAssumption DEF TypeOK
<1>2. \A w \in Workers : work[w] # NoWork => work[w].content \in Nat
  BY RelayAssumption DEF TypeOK, Works
<1>3. ASSUME NEW w \in Workers, NEW c \in Range(down[w]), c.type = "job" PROVE c.content \in Nat
  <2>1. PICK i \in DOMAIN down[w] : c = down[w][i]
    BY <1>3 DEF Range
  <2>2. down[w] \in Seq(Commands)
    BY Typing
  <2>3. c \in Commands
    BY <2>1, <2>2, ElementOfSeq, LenProperties
  <2>4. c \in JobCommands
    BY <1>3, <2>3 DEF Commands
  <2> QED
    BY <2>4, RelayAssumption DEF JobCommands
<1>4. \A i \in DOMAIN sent : sent[i] \in Shares
  BY Typing, ElementOfSeq, LenProperties
<1>5. \A i \in DOMAIN sent : sent[i].content \in Nat
  BY <1>4, RelayAssumption DEF Shares
<1> QED
  BY <1>1, <1>2, <1>3, <1>5 DEF MadeNumbered

\* Commands with numbered contents are written.
LEMMA MadeWritten ==
    ASSUME TypeOK, ChannelsTyped, NEW n, MadeNumbered(down, work, sent, n),
           UNCHANGED <<work, sent>>,
           \A w \in Workers : \/ down'[w] = down[w]
                              \/ \E y \in Commands : /\ down'[w] = Append(down[w], y)
                                                     /\ y.type = "job" => y.content <= n
    PROVE  MadeNumbered(down', work', sent', n)
<1> SUFFICES ASSUME NEW w \in Workers, NEW c \in Range(down'[w]), c.type = "job"
             PROVE  c.content <= n
  BY DEF MadeNumbered
<1>1. CASE down'[w] = down[w]
  BY <1>1 DEF MadeNumbered
<1>2. ASSUME NEW y \in Commands, down'[w] = Append(down[w], y), y.type = "job" => y.content <= n
      PROVE  c.content <= n
  <2>1. down[w] \in Seq(Commands)
    BY Typing
  <2>2. Range(Append(down[w], y)) = Range(down[w]) \cup {y}
    BY <1>2, <2>1, AppendRange
  <2> QED
    BY <1>2, <2>2 DEF MadeNumbered
<1> QED
  BY <1>1, <1>2

\* A dispatch numbers its content and is the last dispatched job.
LEMMA SendsNumbered ==
    ASSUME TypeOK, ChannelsTyped, Numbered, LastDispatched, NEW p \in Pools, NEW h, Sends(p, h)
    PROVE  Numbered' /\ LastDispatched'
<1>1. /\ h[p] \in Jobs /\ active' = p /\ UNCHANGED <<exiting, up, work, running, sent>>
      /\ SetJob(p, h)
      /\ \A q \in Pools \ {p} : h[q] \in {held[q], NoJob}
  BY DEF Sends
<1>2. /\ held'[p].content = h[p].content /\ held'[p].algo = h[p].algo
      /\ h[p].content \in Nat /\ contents \in Nat
      /\ \A q \in Pools : held[q] # NoJob => held[q].content \in Nat
  BY <1>1, RelayAssumption DEF SetJob, Jobs, TypeOK
<1>3. LastDispatched'
  BY <1>1, <1>2 DEF SetJob, LastDispatched
<1>4. HeldNumbered(held, contents) /\ MadeNumbered(down, work, sent, contents)
  BY NumberedIs
<1>5. /\ contents' \in Nat /\ contents' >= contents /\ h[p].content <= contents'
      /\ \A q \in Pools \ {p} : held[q] # NoJob => held[q].content # h[p].content
  <2>1. CASE Created(h[p])
    BY <1>2, <1>4, <2>1 DEF Created, HeldNumbered
  <2>2. CASE Again(p, h[p]) \/ Resumed(p, h[p])
    BY <1>2, <1>4, <2>2 DEF Again, Resumed, HeldNumbered
  <2> QED
    BY <2>1, <2>2 DEF Sends
<1>6. HeldNumbered(held', contents')
  <2>1. \A q \in Pools \ {p} : held'[q] \in {held[q], NoJob}
    BY <1>1 DEF SetJob
  <2>2. \A q \in Pools : held'[q] # NoJob => held'[q].content <= contents'
    BY <1>2, <1>4, <1>5, <2>1 DEF HeldNumbered
  <2>3. \A q, z \in Pools : held'[q] # NoJob /\ held'[z] # NoJob /\ q # z =>
                               held'[q].content # held'[z].content
    BY <1>2, <1>4, <1>5, <2>1 DEF HeldNumbered
  <2> QED
    BY <2>2, <2>3 DEF HeldNumbered
<1>7. MadeNumbered(down, work, sent, contents')
  BY <1>4, <1>5, MadeBefore
<1>8. \A w \in Workers : \/ down'[w] = down[w]
                         \/ \E y \in Commands : /\ down'[w] = Append(down[w], y)
                                                /\ y.type = "job" => y.content <= contents'
  <2>1. CASE exiting
    BY <1>1, <2>1 DEF SetJob
  <2>2. CASE ~exiting
    <3>1. PICK y \in Commands : y.content = h[p].content /\ Wrote(y)
      BY <1>1, <2>2 DEF SetJob
    <3>2. [type |-> "close"] \in Commands /\ [type |-> "close"].type # "job"
      BY DEF Commands
    <3> QED
      BY <1>5, <3>1, <3>2 DEF Wrote
  <2> QED
    BY <2>1, <2>2
<1> DEFINE n == contents'
<1>9. MadeNumbered(down', work', sent', n)
  <2>1. MadeNumbered(down, work, sent, n) /\ UNCHANGED <<work, sent>>
    BY <1>1, <1>7
  <2>2. \A w \in Workers : \/ down'[w] = down[w]
                           \/ \E y \in Commands : /\ down'[w] = Append(down[w], y)
                                                  /\ y.type = "job" => y.content <= n
    BY <1>8
  <2> HIDE DEF n
  <2> QED
    BY <2>1, <2>2, MadeWritten
<1> QED
  BY <1>3, <1>6, <1>9 DEF Numbered, HeldNumbered, MadeNumbered

\* A stored job has a number of its own.
LEMMA KeepsNumbered ==
    ASSUME TypeOK, ChannelsTyped, Numbered, LastDispatched, NEW p \in Pools, Keeps(p)
    PROVE  Numbered' /\ LastDispatched'
<1>1. UNCHANGED <<exiting, up, work, running, sent, lastJob, generation, early>>
  BY DEF Keeps
<1>2. /\ contents \in Nat
      /\ \A q \in Pools : held[q] # NoJob => held[q].content \in Nat
  BY RelayAssumption DEF Jobs, TypeOK
<1>3. LastDispatched'
  BY <1>1 DEF Keeps, LastDispatched
<1>4. HeldNumbered(held, contents) /\ MadeNumbered(down, work, sent, contents)
  BY NumberedIs
<1>5. contents' \in Nat /\ contents' >= contents
  BY <1>2 DEF Keeps, Created
<1>6. HeldNumbered(held', contents')
  <2>1. CASE held'[p] \in {held[p], NoJob} /\ contents' = contents
    BY <1>4, <2>1 DEF Keeps, HeldNumbered
  <2>2. CASE Created(held'[p])
    <3>1. \A q \in Pools \ {p} : held'[q] \in {held[q], NoJob}
      BY DEF Keeps
    <3>2. held'[p].content = contents + 1 /\ contents' = contents + 1
      BY <2>2 DEF Created
    <3>3. \A q \in Pools \ {p} : held'[q] # NoJob =>
             held'[q].content <= contents' /\ held'[q].content # held'[p].content
      BY <1>2, <1>4, <3>1, <3>2 DEF HeldNumbered
    <3> QED
      BY <1>2, <1>4, <3>1, <3>2, <3>3 DEF HeldNumbered
  <2> QED
    BY <2>1, <2>2 DEF Keeps
<1>7. MadeNumbered(down, work, sent, contents')
  BY <1>4, <1>5, MadeBefore
<1>8. \A w \in Workers : \/ down'[w] = down[w]
                         \/ \E y \in Commands : /\ down'[w] = Append(down[w], y)
                                                /\ y.type = "job" => y.content <= contents'
  <2>1. [type |-> "pause"] \in Commands /\ [type |-> "pause"].type # "job"
    BY DEF Commands
  <2> QED
    BY <2>1 DEF Keeps
<1> DEFINE n == contents'
<1>9. MadeNumbered(down', work', sent', n)
  <2>1. MadeNumbered(down, work, sent, n) /\ UNCHANGED <<work, sent>>
    BY <1>1, <1>7
  <2>2. \A w \in Workers : \/ down'[w] = down[w]
                           \/ \E y \in Commands : /\ down'[w] = Append(down[w], y)
                                                  /\ y.type = "job" => y.content <= n
    BY <1>8
  <2> HIDE DEF n
  <2> QED
    BY <2>1, <2>2, MadeWritten
<1> QED
  BY <1>3, <1>6, <1>9 DEF Numbered, HeldNumbered, MadeNumbered

\* exit writes no job.
LEMMA ExitNumbered ==
    ASSUME TypeOK, ChannelsTyped, Numbered, Exit
    PROVE  Numbered' /\ LastDispatched'
<1>1. /\ exiting' /\ down' = messageWorkers([type |-> "close"])
      /\ UNCHANGED <<held, contents, work, sent>>
  BY DEF Exit, coreVars
<1>2. [type |-> "close"] \in Commands /\ [type |-> "close"].type # "job"
  BY DEF Commands
<1>3. \A w \in Workers : down'[w] \in {down[w], Append(down[w], [type |-> "close"])}
  BY <1>1, <1>2, MessagesWritten
<1>4. HeldNumbered(held, contents) /\ MadeNumbered(down, work, sent, contents)
  BY NumberedIs
<1>5. MadeNumbered(down', work', sent', contents)
  BY <1>1, <1>2, <1>3, <1>4, MadeWritten
<1> QED
  BY <1>1, <1>4, <1>5 DEF Numbered, HeldNumbered, MadeNumbered, LastDispatched

\* A core takes a content that was numbered when it was written.
LEMMA ProcessNumbered ==
    ASSUME TypeOK, ChannelsTyped, Numbered, LastDispatched, NEW w \in Workers, Process(w)
    PROVE  Numbered' /\ LastDispatched'
<1>1. /\ Turn(down[w][1], work[w], running[w], w[2], work'[w], running'[w], Leaves(w))
      /\ down[w] # << >> /\ down'[w] = Tail(down[w])
      /\ \A v \in Workers \ {w} : down'[v] = down[v] /\ work'[v] = work[v]
  BY ProcessTurn
<1>2. UNCHANGED <<active, held, lastJob, exiting, contents, sent>>
  BY DEF Process, ctrlVars
<1>3. down[w] \in Seq(Commands)
  BY Typing
<1>4. Range(down[w]) = Range(Tail(down[w])) \cup {Head(down[w])} /\ Head(down[w]) = down[w][1]
  BY <1>1, <1>3, TailRange, HeadTailProperties
<1>5. MadeNumbered(down, work, sent, contents) /\ HeldNumbered(held, contents)
  BY NumberedIs
<1>6. work'[w] # NoWork => work'[w].content <= contents
  BY <1>1, <1>4, <1>5 DEF Turn, MadeNumbered
<1>7. \A v \in Workers : work'[v] # NoWork => work'[v].content <= contents
  BY <1>1, <1>5, <1>6 DEF MadeNumbered
<1>8. \A v \in Workers : \A c \in Range(down'[v]) : c.type = "job" => c.content <= contents
  BY <1>1, <1>4, <1>5 DEF MadeNumbered
<1>9. MadeNumbered(down', work', sent, contents)
  BY <1>5, <1>7, <1>8 DEF MadeNumbered
<1> QED
  BY <1>2, <1>5, <1>9 DEF Numbered, HeldNumbered, MadeNumbered, LastDispatched

\* A batch keeps the content.
LEMMA HashNumbered ==
    ASSUME TypeOK, ChannelsTyped, Numbered, LastDispatched, NEW w \in Workers, Hash(w)
    PROVE  Numbered' /\ LastDispatched'
<1>1. /\ UNCHANGED <<active, held, lastJob, exiting, contents, sent, down>>
      /\ work[w] \in Works /\ work'[w].content = work[w].content
      /\ \A v \in Workers \ {w} : work'[v] = work[v]
  BY HashCases DEF ctrlVars
<1>2. work[w] # NoWork
  BY <1>1 DEF Works, NoWork
<1>3. \A v \in Workers : work'[v] # NoWork => work'[v].content <= contents
  BY <1>1, <1>2 DEF Numbered
<1> QED
  BY <1>1, <1>3 DEF Numbered, LastDispatched

\* A share that is written has the content of the job its pool holds.
LEMMA DeliverNumbered ==
    ASSUME TypeOK, ChannelsTyped, ChannelsTyped', TokensTell, Numbered, LastDispatched,
           NEW w \in Workers, Deliver(w)
    PROVE  Numbered' /\ LastDispatched'
<1> DEFINE m == Head(up[w])
<1>1. /\ UNCHANGED <<active, lastJob, generation, exiting, contents, down, work>>
      /\ up[w] # << >> /\ m \in Messages
      /\ \A p \in Pools : (held'[p] = NoJob) <=> (held[p] = NoJob)
      /\ \A p \in Pools : held[p] # NoJob => Later(held[p], held'[p])
      /\ held'[active] = held[active]
  BY DeliverIs
<1>2. \/ sent' = sent
      \/ /\ Mine(m, m.pool, held[m.pool].token) /\ held[m.pool] # NoJob
         /\ \E s \in Shares : sent' = Append(sent, s) /\ s.content = m.content
  BY DeliverIs
<1>3. LastDispatched'
  BY <1>1 DEF LastDispatched
<1>4. \A p \in Pools : held'[p] # NoJob => held[p] # NoJob /\ held'[p].content = held[p].content
  BY <1>1 DEF Later
<1>5. HeldNumbered(held', contents)
  BY <1>4 DEF Numbered, HeldNumbered
<1>6. \A i \in DOMAIN sent' : sent'[i].content <= contents
  <2>1. CASE sent' = sent
    BY <2>1 DEF Numbered
  <2>2. ASSUME NEW s \in Shares, Mine(m, m.pool, held[m.pool].token), held[m.pool] # NoJob,
               sent' = Append(sent, s), s.content = m.content
        PROVE  \A i \in DOMAIN sent' : sent'[i].content <= contents
    <3>1. up[w] \in Seq(Messages) /\ sent \in Seq(Shares)
      BY Typing
    <3>2. m \in Range(up[w])
      BY <1>1, <3>1, TailRange
    <3>3. Stamped(m, liveToken, held)
      BY <2>2, <3>2 DEF TokensTell, Mine
    <3>4. m.pool \in Pools
      BY <1>1 DEF Messages, ResultMessages, PositionMessages
    <3>5. s.content <= contents
      BY <2>2, <3>3, <3>4 DEF Stamped, Mine, Numbered
    <3>6. /\ \A i \in DOMAIN Append(sent, s) : i \in DOMAIN sent \/ i = Len(sent) + 1
          /\ \A i \in DOMAIN sent : Append(sent, s)[i] = sent[i]
          /\ Append(sent, s)[Len(sent) + 1] = s
      BY <3>1
    <3>7. \A i \in DOMAIN sent : sent[i].content <= contents
      BY DEF Numbered
    <3>8. ASSUME NEW i \in DOMAIN Append(sent, s) PROVE Append(sent, s)[i].content <= contents
      BY <3>5, <3>6, <3>7, <3>8
    <3> QED
      BY <2>2, <3>8
  <2> QED
    BY <1>2, <2>1, <2>2
<1> QED
  BY <1>1, <1>3, <1>5, <1>6 DEF Numbered, HeldNumbered

\* No share is written, and no exception is forgotten.
LEMMA OnceKept ==
    ASSUME DuplicateOnlyIfEarly, sent' = sent, early \subseteq early'
    PROVE  DuplicateOnlyIfEarly'
  BY DEF DuplicateOnlyIfEarly

\* Every step keeps the invariant.
LEMMA RelayStep ==
    ASSUME IInv, IInv', RInv, [Next]_vars
    PROVE  RInv'
<1>0. /\ TypeOK /\ ChannelsTyped /\ ChannelsTyped' /\ TokensTell
      /\ DuplicateOnlyIfEarly /\ Numbered /\ LastDispatched
      /\ \A p \in Pools : held[p] # NoJob /\ held[p].content \notin early => Sure(p)
  BY DEF IInv, RInv
<1>1. ASSUME NEW p \in Pools, NEW h, Sends(p, h) PROVE RInv'
  <2>1. sent' = sent /\ early \subseteq early'
    BY <1>1 DEF Sends
  <2>2. DuplicateOnlyIfEarly'
    BY <1>0, <2>1, OnceKept
  <2>3. Numbered' /\ LastDispatched'
    BY <1>0, <1>1, SendsNumbered
  <2>4. ASSUME NEW z \in Pools, held'[z] # NoJob, held'[z].content \notin early' PROVE Sure(z)'
    <3>1. CASE z = p
      BY <1>0, <1>1, <2>4, <3>1, SendsSure
    <3>2. CASE z # p
      <4>1. held'[z] = held[z]
        BY <1>1, <2>4, <3>2 DEF Sends, SetJob
      <4>2. Sure(z)
        BY <1>0, <2>1, <2>4, <4>1
      <4> QED
        BY <1>0, <1>1, <2>4, <3>2, <4>2, SendsOthers
    <3> QED
      BY <3>1, <3>2
  <2> QED
    BY <2>2, <2>3, <2>4 DEF RInv
<1>2. ASSUME NEW p \in Pools, Keeps(p) PROVE RInv'
  <2>1. sent' = sent /\ early' = early
    BY <1>2 DEF Keeps
  <2>2. DuplicateOnlyIfEarly'
    BY <1>0, <2>1, OnceKept
  <2>3. Numbered' /\ LastDispatched'
    BY <1>0, <1>2, KeepsNumbered
  <2>4. ASSUME NEW z \in Pools, held'[z] # NoJob, held'[z].content \notin early' PROVE Sure(z)'
    BY <1>0, <1>2, <2>4, KeepsSure
  <2> QED
    BY <2>2, <2>3, <2>4 DEF RInv
<1>3. ASSUME NEW p \in Pools, PoolJob(p) \/ Retargets(p) \/ Disconnect(p) \/ WindowEnds
      PROVE  RInv'
  <2>1. PICK q \in Pools : Keeps(q) \/ \E h : Sends(q, h)
    BY <1>0, <1>3, ControllerMoves
  <2> QED
    BY <1>1, <1>2, <2>1
<1>4. CASE Exit
  <2>1. UNCHANGED <<held, sent, early>>
    BY <1>4 DEF Exit
  <2>2. DuplicateOnlyIfEarly'
    BY <1>0, <2>1, OnceKept
  <2>3. Numbered' /\ LastDispatched'
    BY <1>0, <1>4, ExitNumbered
  <2>4. ASSUME NEW z \in Pools, held'[z] # NoJob, held'[z].content \notin early' PROVE Sure(z)'
    BY <1>0, <1>4, <2>1, <2>4, ExitSure
  <2> QED
    BY <2>2, <2>3, <2>4 DEF RInv
<1>5. ASSUME NEW w \in Workers, Process(w) PROVE RInv'
  <2>1. UNCHANGED <<held, sent, early>>
    BY <1>5 DEF Process, ctrlVars
  <2>2. DuplicateOnlyIfEarly'
    BY <1>0, <2>1, OnceKept
  <2>3. Numbered' /\ LastDispatched'
    BY <1>0, <1>5, ProcessNumbered
  <2>4. ASSUME NEW z \in Pools, held'[z] # NoJob, held'[z].content \notin early' PROVE Sure(z)'
    BY <1>0, <1>5, <2>1, <2>4, ProcessSure
  <2> QED
    BY <2>2, <2>3, <2>4 DEF RInv
<1>6. ASSUME NEW w \in Workers, Hash(w) PROVE RInv'
  <2>1. UNCHANGED <<held, sent, early>>
    BY <1>6 DEF Hash, ctrlVars
  <2>2. DuplicateOnlyIfEarly'
    BY <1>0, <2>1, OnceKept
  <2>3. Numbered' /\ LastDispatched'
    BY <1>0, <1>6, HashNumbered
  <2>4. ASSUME NEW z \in Pools, held'[z] # NoJob, held'[z].content \notin early' PROVE Sure(z)'
    BY <1>0, <1>6, <2>1, <2>4, HashSure
  <2> QED
    BY <2>2, <2>3, <2>4 DEF RInv
<1>7. ASSUME NEW w \in Workers, Deliver(w) PROVE RInv'
  <2>1. DuplicateOnlyIfEarly'
    BY <1>0, <1>7, DeliverOnce
  <2>2. Numbered' /\ LastDispatched'
    BY <1>0, <1>7, DeliverNumbered
  <2>3. ASSUME NEW z \in Pools, held'[z] # NoJob, held'[z].content \notin early' PROVE Sure(z)'
    <3>1. early' = early /\ held[z] # NoJob /\ held'[z].content = held[z].content
      BY <1>0, <1>7, <2>3, DeliverIs DEF Later
    <3>2. Sure(z)
      BY <1>0, <2>3, <3>1
    <3> QED
      BY <1>0, <1>7, <3>1, <3>2, DeliverSure
  <2> QED
    BY <2>1, <2>2, <2>3 DEF RInv
<1>8. CASE UNCHANGED vars
  <2>1. UNCHANGED <<active, held, lastJob, generation, exiting, contents, down, up, work, running,
                    sent, early>>
    BY <1>8 DEF vars, ctrlVars, coreVars
  <2>2. Numbered' /\ LastDispatched' /\ DuplicateOnlyIfEarly'
    BY <1>0, <2>1 DEF Numbered, LastDispatched, DuplicateOnlyIfEarly
  <2>3. \A p \in Pools : Sure(p) => Sure(p)'
    BY <2>1 DEF Sure, Mined, Told
  <2> QED
    BY <1>0, <2>1, <2>2, <2>3 DEF RInv
<1>9. CASE WindowEnds
  <2>1. Primary \in Pools
    BY RelayAssumption
  <2> QED
    BY <1>3, <1>9, <2>1
<1> QED
  BY <1>3, <1>4, <1>5, <1>6, <1>7, <1>8, <1>9 DEF Next

\* A share is written to a pool twice only if its job was sent again, or its
\* workers were retired, while a position of it was unknown: the lanes of one
\* dispatch are apart, and the next dispatch begins past what was reported.
THEOREM NoShareTwice == Spec => []DuplicateOnlyIfEarly
<1>1. Init => RInv
  <2> SUFFICES ASSUME Init PROVE RInv
    OBVIOUS
  <2>1. \A p \in Pools : held[p] = NoJob
    BY DEF Init
  <2>2. Numbered
    BY <2>1, ShortRange DEF Init, Numbered
  <2>3. LastDispatched
    BY <2>1, RelayAssumption DEF Init, LastDispatched
  <2>4. DuplicateOnlyIfEarly
    BY DEF Init, DuplicateOnlyIfEarly
  <2> QED
    BY <2>1, <2>2, <2>3, <2>4 DEF RInv
<1>2. IInv /\ IInv' /\ RInv /\ [Next]_vars => RInv'
  BY RelayStep
<1>3. RInv => DuplicateOnlyIfEarly
  BY DEF RInv
<1> QED
  BY <1>1, <1>2, <1>3, Invariance, PTL DEF Spec

=============================================================================
