------------------------- MODULE NonceSearchProofs -------------------------
(***************************************************************************)
(* The safety properties of NonceSearch, for any number of workers, any    *)
(* batch, any width of the nonce and any number of rounds.                 *)
(*                                                                         *)
(* Nobody hands nonces out: that two searchers do not meet is arithmetic   *)
(* on their offsets and strides, and that a resumed job is fresh is that   *)
(* every searcher reports a position past all it hashed.                   *)
(*                                                                         *)
(* A searcher begins at the nonce it computes, except that under a mask,   *)
(* lanes and rx put bits of the blob back.  That the protected bits are    *)
(* kept is proved for all jobs; the other theorems are about the jobs in   *)
(* which nothing is put back, and leave the masked lanes and rx to TLC.    *)
(***************************************************************************)
EXTENDS NonceSearch, FiniteSetTheorems, TLAPS

-----------------------------------------------------------------------------
(* The inductive invariant.                                                *)

\* A searcher of such a job begins at the nonce it computes: no mask applies to it.
Plain(j) == j.layout \in {"lanes", "rx"} => j.span = Space /\ j.unit = 1

\* Only a counter whose protected bits are no extranonce is resumed outside them.
Tied(j) == j.layout = "counter" => j.xn

\* The first nonce of batch k of searcher s, from the start of the job.
Ahead(j, s, k) == Offset(j, s) + k * Stride(j)

\* How far the last nonce of a batch is from its first.
Spread(j) == (Count(j) - 1) * Lane(j)

\* A searcher of job j that began at b is about to hash f, with counter n.
Placed(j, b, s, f, n, e) ==
    /\ \E k \in Nat : f = b + Ahead(j, s, k)
    /\ f + Spread(j) < Space
    /\ SamePrefix(j, b, f + Spread(j))
    /\ IF j.layout \in {"lanes", "block"}
       THEN e = ~ HasNextBatch(j, f) /\ n = AfterBatch(j, f)
       ELSE e = FALSE /\ n = f

\* Nonces H of searcher s are its own: no other searcher reaches one.
Owns(j, b, s, H) ==
    \A n \in H : \E k \in Nat, a \in 0 .. Count(j) - 1 : n = b + Ahead(j, s, k) + a * Lane(j)

\* H has every batch of s that begins before f.
Covers(j, b, s, H, f) ==
    \A k \in Nat, a \in 0 .. Count(j) - 1 :
        b + Ahead(j, s, k) < f => b + Ahead(j, s, k) + a * Lane(j) \in H

\* The batch of searcher s at k fits into the range.
Room(j, b, s, k) ==
    /\ b + Ahead(j, s, k) + Spread(j) < Space
    /\ SamePrefix(j, b, b + Ahead(j, s, k) + Spread(j))

\* What a searcher has hashed, in each of its phases.
Progress(s) ==
    /\ Owns(job, start, s, searched[s])
    /\ \A n \in searched[s] : SamePrefix(job, start, n)
    /\ phase[s] = "search" =>
         /\ Placed(job, start, s, first[s], next[s], full[s])
         /\ \A n \in searched[s] : n < first[s]
         /\ Covers(job, start, s, searched[s], first[s])
    /\ phase[s] = "spent" =>
         \A k \in Nat, a \in 0 .. Count(job) - 1 :
             Room(job, start, s, k) => start + Ahead(job, s, k) + a * Lane(job) \in searched[s]
    /\ phase[s] = "spent" /\ job.layout \in {"lanes", "block"} =>
         /\ \A n \in searched[s] : n <= next[s]
         /\ SamePrefix(job, start, next[s])
    /\ phase[s] = "spent" => ended
    /\ phase[s] \in {"idle", "failed"} => searched[s] = {}
    /\ phase[s] = "failed" /\ job.layout = "block" => next[s] = 0

\* Position r is past nonce n, which was hashed.  lanes and block may report a
\* nonce they hashed when their range has ended, the others claim nothing then.
Past(n, r) ==
    job.layout # "seed" /\ (job.layout \in {"lanes", "block"} \/ ~ ended) =>
        \/ r # NoNonce /\ n <= r /\ (~ ended => n < r)
        \/ ended /\ n = 0

\* The kept position, and the one the job was sent with, are past everything
\* hashed before, and carry the pool's extranonce.
Resumable ==
    /\ \A n \in before : Past(n, resume) /\ Past(n, start)
    /\ \A s \in Searchers(job) : phase[s] = "away" => \A n \in searched[s] : Past(n, resume)
    /\ Tied(job) =>
          /\ SamePrefix(job, start, job.nonce)
          /\ resume # NoNonce => SamePrefix(job, resume, job.nonce)
    /\ rounds = 1 => start = job.nonce
    /\ start % job.unit = job.nonce % job.unit

\* A step reports no position, or one the job may be resumed from.
Reports ==
    \/ resume' = resume
    \/ \E m \in Nonces : resume' = Newer(m) /\ (Tied(job) => SamePrefix(job, m, job.nonce))

IInv ==
    /\ TypeOK /\ Plain(job)
    /\ \A s \in Searchers(job) : Progress(s)
    /\ Resumable

-----------------------------------------------------------------------------
(* Arithmetic.                                                             *)

\* Division with remainder is unique.
LEMMA Division ==
    ASSUME NEW n \in Nat \ {0}, NEW a \in Int, NEW b \in Int,
           NEW s \in 0 .. n - 1, NEW t \in 0 .. n - 1, n * a + s = n * b + t
    PROVE  a = b /\ s = t
  OBVIOUS

\* Products of what the strides are made of.
LEMMA Products ==
    ASSUME NEW m \in Nat, NEW n \in Nat
    PROVE  m * n \in Nat /\ (m # 0 /\ n # 0 => m * n >= m /\ m * n >= n /\ m * n # 0)
  OBVIOUS

\* Products keep the order of a factor.
LEMMA ProductOrder ==
    ASSUME NEW m \in Nat, NEW a \in Nat, NEW b \in Nat, a <= b
    PROVE  m * a <= m * b /\ a * m <= b * m
  OBVIOUS

\* A greater factor adds at least one more.
LEMMA ProductLess ==
    ASSUME NEW m \in Nat \ {0}, NEW a \in Nat, NEW b \in Nat, a < b
    PROVE  a * m + m <= b * m
  OBVIOUS

\* Prefixes grow with the nonce.
LEMMA PrefixOrder ==
    ASSUME NEW p \in Nat \ {0}, NEW a \in Nat, NEW b \in Nat, a <= b
    PROVE  a \div p <= b \div p /\ a \div p \in Nat
  OBVIOUS

\* A nonce between two of the same prefix has it, too.
LEMMA PrefixBetween ==
    ASSUME NEW j, j.span \in Nat \ {0}, NEW a \in Nat, NEW b \in Nat, NEW c \in Nat,
           a <= b, b <= c, SamePrefix(j, a, c)
    PROVE  SamePrefix(j, a, b) /\ SamePrefix(j, b, c)
  BY PrefixOrder DEF SamePrefix

\* A prefix as long as the width tells no nonces apart.
LEMMA OnePrefix ==
    ASSUME NEW j, j.span = Space, NEW a \in 0 .. Space - 1, NEW b \in 0 .. Space - 1
    PROVE  SamePrefix(j, a, b)
  BY SearchAssumption DEF SamePrefix

\* Quotient and remainder make up the number.
LEMMA DivMod ==
    ASSUME NEW n \in Nat \ {0}, NEW x \in Nat
    PROVE  x = n * (x \div n) + (x % n) /\ x % n \in 0 .. n - 1 /\ x \div n \in Nat
<1>1. x \div n \in Nat
  OBVIOUS
<1>2. x % n \in 0 .. n - 1
  OBVIOUS
<1>3. x = n * (x \div n) + (x % n)
  OBVIOUS
<1> QED
  BY <1>1, <1>2, <1>3

\* Multiples of the unit do not change the remainder.
LEMMA Remainder ==
    ASSUME NEW u \in Nat \ {0}, NEW a \in Nat, NEW q \in Nat
    PROVE  (a + q * u) % u = a % u
<1> DEFINE c == a + q * u
           x == a \div u
           r == a % u
           y == c \div u
           z == c % u
<1>1. c \in Nat
  BY Products
<1>2. a = u * x + r /\ r \in 0 .. u - 1 /\ x \in Nat
  BY DivMod
<1>3. c = u * y + z /\ z \in 0 .. u - 1 /\ y \in Nat
  <2> HIDE DEF c
  <2> QED
    BY <1>1, DivMod
<1> HIDE DEF x, r, y, z
<1>4. u * (x + q) + r = u * y + z
  BY <1>2, <1>3
<1>5. r = z
  <2>1. x + q \in Int /\ y \in Int
    BY <1>2, <1>3
  <2> QED
    BY <1>2, <1>3, <1>4, <2>1, Division
<1> QED
  BY <1>5 DEF r, z

\* Nonces with the same remainder are a multiple of the unit apart.
LEMMA SameRemainder ==
    ASSUME NEW u \in Nat \ {0}, NEW a \in Nat, NEW b \in Nat, a <= b, b % u = a % u
    PROVE  \E q \in Nat : b = a + q * u
<1> DEFINE x == a \div u
           y == b \div u
           r == a % u
<1>1. a = u * x + r /\ x \in Nat /\ r \in Nat
  <2>1. a = u * x + r /\ r \in 0 .. u - 1 /\ x \in Nat
    BY DivMod
  <2> QED
    BY <2>1
<1>2. b = u * y + r /\ y \in Nat
  BY DivMod
<1>3. x <= y
  BY PrefixOrder
<1> HIDE DEF x, y, r
<1>4. b = a + (y - x) * u /\ y - x \in Nat
  BY <1>1, <1>2, <1>3
<1> QED
  BY <1>4

\* What the layouts have in common.
LEMMA Numbers ==
    ASSUME NEW j \in Jobs
    PROVE  /\ j.layout \in {"lanes", "block", "counter", "seed", "rx"}
           /\ j.unit \in Nat \ {0} /\ j.span \in Nat \ {0} /\ j.nonce \in Nonces
           /\ j.xn \in BOOLEAN
           /\ N \in Nat \ {0} /\ B \in Nat \ {0} /\ Space \in Nat \ {0}
           /\ Plain(j) /\ j.layout # "seed" => j.unit = 1
           /\ Plain(j) /\ j.layout \in {"lanes", "rx", "seed"} => j.span = Space
           /\ Count(j) \in Nat \ {0} /\ Lane(j) \in Nat \ {0} /\ Stride(j) \in Nat \ {0}
           /\ Spread(j) \in Nat
           /\ \A s \in Searchers(j) : s \in Nat /\ Offset(j, s) \in Nat
<1>1. /\ j.layout \in {"lanes", "block", "counter", "seed", "rx"} /\ j.unit \in 1 .. Space
      /\ j.span \in 1 .. Space /\ j.nonce \in 0 .. Space - 1 /\ j.xn \in BOOLEAN
      /\ N \in Nat \ {0} /\ B \in Nat \ {0} /\ Space \in Nat \ {0}
      /\ j.unit > 1 => j.layout \in {"lanes", "rx", "seed"}
      /\ j.layout = "seed" => j.span = Space
  BY SearchAssumption DEF JobType
<1>2. /\ Plain(j) /\ j.layout # "seed" => j.unit = 1
      /\ Plain(j) /\ j.layout \in {"lanes", "rx", "seed"} => j.span = Space
  BY <1>1 DEF Plain
<1>3. N * j.unit \in Nat \ {0} /\ N * B \in Nat \ {0} /\ N * B * j.unit \in Nat \ {0}
  BY <1>1, Products
<1>4. Count(j) \in Nat \ {0} /\ Lane(j) \in Nat \ {0} /\ Stride(j) \in Nat \ {0}
  BY <1>1, <1>3 DEF Count, Lane, Stride
<1>5. Spread(j) \in Nat
  BY <1>4, Products DEF Spread
<1>6. ASSUME NEW s \in Searchers(j) PROVE s \in Nat /\ Offset(j, s) \in Nat
  BY <1>1, <1>3, Products DEF Searchers, Offset
<1> QED
  BY <1>1, <1>2, <1>4, <1>5, <1>6 DEF Nonces

\* The lanes of a batch lie within it, and before the next batch.
LEMMA Lanes ==
    ASSUME NEW j \in Jobs
    PROVE  /\ Spread(j) < Stride(j)
           /\ \A a \in 0 .. Count(j) - 1 : a * Lane(j) \in Nat /\ a * Lane(j) <= Spread(j)
<1>1. /\ Count(j) \in Nat \ {0} /\ Lane(j) \in Nat \ {0} /\ N \in Nat \ {0} /\ B \in Nat \ {0}
      /\ j.unit \in Nat \ {0} /\ Stride(j) \in Nat \ {0}
  BY Numbers
<1>2. ASSUME NEW a \in 0 .. Count(j) - 1 PROVE a * Lane(j) \in Nat /\ a * Lane(j) <= Spread(j)
  BY <1>1, <1>2, Products, ProductOrder DEF Spread
<1>3. ASSUME j.layout = "lanes" PROVE Spread(j) < Stride(j)
  <2>1. Count(j) = B /\ Lane(j) = N * j.unit /\ Stride(j) = N * B * j.unit
    BY <1>3 DEF Count, Lane, Stride
  <2>2. N * j.unit \in Nat \ {0} /\ N * B * j.unit = B * (N * j.unit)
    BY <1>1, Products
  <2>3. (B - 1) * (N * j.unit) + N * j.unit <= B * (N * j.unit)
    BY <1>1, <2>2, ProductLess
  <2>4. (B - 1) * (N * j.unit) \in Nat
    BY <1>1, <2>2, Products
  <2>5. Spread(j) = (B - 1) * (N * j.unit) /\ Stride(j) = B * (N * j.unit)
    BY <2>1, <2>2 DEF Spread
  <2> DEFINE x == (B - 1) * (N * j.unit)
             y == B * (N * j.unit)
             z == N * j.unit
  <2>6. x \in Nat /\ x + z <= y /\ z \in Nat \ {0} /\ Spread(j) = x /\ Stride(j) = y /\ y \in Int
    BY <1>1, <2>2, <2>3, <2>4, <2>5
  <2> HIDE DEF x, y, z
  <2> QED
    BY <2>6
<1>4. ASSUME j.layout = "block" PROVE Spread(j) < Stride(j)
  <2>1. Count(j) = B /\ Lane(j) = 1 /\ Stride(j) = N * B * j.unit
    BY <1>4 DEF Count, Lane, Stride
  <2>2. N * B \in Nat \ {0} /\ N * B >= B /\ N * B * j.unit >= N * B
    BY <1>1, Products
  <2> QED
    BY <1>1, <2>1, <2>2 DEF Spread
<1>5. ASSUME j.layout \notin {"lanes", "block"} PROVE Spread(j) < Stride(j)
  <2>1. Count(j) = 1
    BY <1>5 DEF Count
  <2>2. Spread(j) = 0
    BY <1>1, <2>1 DEF Spread
  <2> QED
    BY <1>1, <2>2
<1> QED
  BY <1>2, <1>3, <1>4, <1>5

\* No two searchers ever reach the same nonce.
LEMMA Apart ==
    ASSUME NEW j \in Jobs, Plain(j), NEW s \in Searchers(j), NEW t \in Searchers(j),
           NEW k \in Nat, NEW l \in Nat,
           NEW a \in 0 .. Count(j) - 1, NEW b \in 0 .. Count(j) - 1,
           Ahead(j, s, k) + a * Lane(j) = Ahead(j, t, l) + b * Lane(j)
    PROVE  s = t
<1>1. /\ N \in Nat \ {0} /\ B \in Nat \ {0} /\ N * B \in Nat \ {0}
      /\ j.unit \in Nat \ {0} /\ (j.layout # "seed" => j.unit = 1)
      /\ j.layout \in {"lanes", "block", "counter", "seed", "rx"}
  BY Numbers, Products
<1>2. CASE j.layout = "lanes"
  <2> DEFINE x == k * B + a
             y == l * B + b
  <2>1. /\ Ahead(j, s, k) + a * Lane(j) = N * x + s
        /\ Ahead(j, t, l) + b * Lane(j) = N * y + t
    BY <1>1, <1>2 DEF Ahead, Lane, Offset, Stride, Searchers, Count
  <2>2. /\ s \in 0 .. N - 1 /\ t \in 0 .. N - 1 /\ a \in Int /\ b \in Int
        /\ x \in Int /\ y \in Int
    BY <1>1, <1>2 DEF Searchers, Count
  <2> HIDE DEF x, y
  <2>3. N * x + s = N * y + t
    BY <2>1
  <2> QED
    BY <1>1, <2>2, <2>3, Division
<1>3. CASE j.layout = "block"
  <2>1. /\ Ahead(j, s, k) + a * Lane(j) = B * (k * N + s) + a
        /\ Ahead(j, t, l) + b * Lane(j) = B * (l * N + t) + b
    BY <1>1, <1>3 DEF Ahead, Lane, Offset, Stride, Searchers, Count
  <2>2. /\ s \in 0 .. N - 1 /\ t \in 0 .. N - 1 /\ a \in 0 .. B - 1 /\ b \in 0 .. B - 1
        /\ k * N + s \in Int /\ l * N + t \in Int
    BY <1>1, <1>3 DEF Searchers, Count
  <2>3. k * N + s = l * N + t
    BY <1>1, <2>1, <2>2, Division
  <2>4. N * k + s = N * l + t
    BY <1>1, <2>2, <2>3
  <2> QED
    BY <1>1, <2>2, <2>4, Division
<1>4. CASE j.layout \in {"counter", "seed"}
  <2>1. a = 0 /\ b = 0 /\ s \in 0 .. N - 1 /\ t \in 0 .. N - 1
    BY <1>1, <1>4 DEF Searchers, Count
  <2>2. /\ Ahead(j, s, k) + a * Lane(j) = j.unit * (N * k + s) + 0
        /\ Ahead(j, t, l) + b * Lane(j) = j.unit * (N * l + t) + 0
    BY <1>1, <1>4, <2>1 DEF Ahead, Lane, Offset, Stride
  <2>3. N * k + s \in Int /\ N * l + t \in Int /\ 0 \in 0 .. j.unit - 1
    BY <1>1, <2>1
  <2>4. N * k + s = N * l + t
    BY <1>1, <2>2, <2>3, Division
  <2> QED
    BY <1>1, <2>1, <2>4, Division
<1>5. CASE j.layout = "rx"
  <2>1. a = 0 /\ b = 0 /\ s \in 0 .. (N * B) - 1 /\ t \in 0 .. (N * B) - 1
    BY <1>1, <1>5 DEF Searchers, Count
  <2>2. /\ Ahead(j, s, k) + a * Lane(j) = (N * B) * k + s
        /\ Ahead(j, t, l) + b * Lane(j) = (N * B) * l + t
    BY <1>1, <1>5, <2>1 DEF Ahead, Lane, Offset, Stride
  <2> DEFINE m == N * B
  <2>3. m \in Nat \ {0} /\ s \in 0 .. m - 1 /\ t \in 0 .. m - 1 /\ m * k + s = m * l + t
    BY <1>1, <2>1, <2>2
  <2> HIDE DEF m
  <2> QED
    BY <2>3, Division
<1> QED
  BY <1>1, <1>2, <1>3, <1>4, <1>5

\* Every nonce of the job is a searcher's.
LEMMA Reached ==
    ASSUME NEW j \in Jobs, Plain(j), NEW q \in Nat
    PROVE  \E s \in Searchers(j), k \in Nat, a \in 0 .. Count(j) - 1 :
              q * j.unit = Ahead(j, s, k) + a * Lane(j)
<1>1. /\ N \in Nat \ {0} /\ B \in Nat \ {0} /\ N * B \in Nat \ {0}
      /\ j.unit \in Nat \ {0} /\ (j.layout # "seed" => j.unit = 1)
      /\ j.layout \in {"lanes", "block", "counter", "seed", "rx"}
  BY Numbers, Products
<1>2. CASE j.layout = "lanes"
  <2> DEFINE s == q % N
             m == q \div N
             k == m \div B
             a == m % B
  <2>1. q = N * m + s /\ s \in 0 .. N - 1 /\ m \in Nat
    BY DivMod, <1>1
  <2> HIDE DEF s, m
  <2>2. m = B * k + a /\ a \in 0 .. B - 1 /\ k \in Nat
    BY DivMod, <1>1, <2>1
  <2> HIDE DEF k, a
  <2>3. s \in Searchers(j) /\ a \in 0 .. Count(j) - 1
    BY <1>2, <2>1, <2>2 DEF Searchers, Count
  <2>4. q * j.unit = Ahead(j, s, k) + a * Lane(j)
    BY <1>1, <1>2, <2>1, <2>2 DEF Ahead, Lane, Offset, Stride
  <2> QED
    BY <2>2, <2>3, <2>4
<1>3. CASE j.layout = "block"
  <2> DEFINE a == q % B
             m == q \div B
             k == m \div N
             s == m % N
  <2>1. q = B * m + a /\ a \in 0 .. B - 1 /\ m \in Nat
    BY DivMod, <1>1
  <2> HIDE DEF a, m
  <2>2. m = N * k + s /\ s \in 0 .. N - 1 /\ k \in Nat
    BY DivMod, <1>1, <2>1
  <2> HIDE DEF k, s
  <2>3. s \in Searchers(j) /\ a \in 0 .. Count(j) - 1
    BY <1>3, <2>1, <2>2 DEF Searchers, Count
  <2>4. q * j.unit = Ahead(j, s, k) + a * Lane(j)
    BY <1>1, <1>3, <2>1, <2>2 DEF Ahead, Lane, Offset, Stride
  <2> QED
    BY <2>2, <2>3, <2>4
<1>4. CASE j.layout \in {"counter", "seed"}
  <2> DEFINE s == q % N
             k == q \div N
  <2>1. q = N * k + s /\ s \in 0 .. N - 1 /\ k \in Nat
    BY DivMod, <1>1
  <2> HIDE DEF s, k
  <2>2. s \in Searchers(j) /\ 0 \in 0 .. Count(j) - 1
    BY <1>4, <2>1 DEF Searchers, Count
  <2>3. q * j.unit = Ahead(j, s, k) + 0 * Lane(j)
    BY <1>1, <1>4, <2>1 DEF Ahead, Lane, Offset, Stride
  <2> QED
    BY <2>1, <2>2, <2>3
<1>5. CASE j.layout = "rx"
  <2> DEFINE s == q % (N * B)
             k == q \div (N * B)
  <2>1. q = (N * B) * k + s /\ s \in 0 .. (N * B) - 1 /\ k \in Nat
    BY DivMod, <1>1
  <2> HIDE DEF s, k
  <2>2. s \in Searchers(j) /\ 0 \in 0 .. Count(j) - 1
    BY <1>5, <2>1 DEF Searchers, Count
  <2>3. q * j.unit = Ahead(j, s, k) + 0 * Lane(j)
    BY <1>1, <1>5, <2>1 DEF Ahead, Lane, Offset, Stride
  <2> QED
    BY <2>1, <2>2, <2>3
<1> QED
  BY <1>1, <1>2, <1>3, <1>4, <1>5

-----------------------------------------------------------------------------
(* One searcher.                                                           *)

\* Batches follow each other, a stride apart.
LEMMA Batches ==
    ASSUME NEW j \in Jobs, NEW s \in Searchers(j), NEW k \in Nat
    PROVE  /\ Ahead(j, s, k) \in Nat
           /\ Ahead(j, s, k + 1) = Ahead(j, s, k) + Stride(j)
           /\ \A l \in Nat : l < k => Ahead(j, s, l) + Stride(j) <= Ahead(j, s, k)
<1>1. Offset(j, s) \in Nat /\ Stride(j) \in Nat \ {0}
  BY Numbers
<1>2. \A l \in Nat : l * Stride(j) \in Nat
  BY <1>1, Products
<1>3. (k + 1) * Stride(j) = k * Stride(j) + Stride(j)
  BY <1>1
<1>4. ASSUME NEW l \in Nat, l < k PROVE Ahead(j, s, l) + Stride(j) <= Ahead(j, s, k)
  <2>1. l * Stride(j) + Stride(j) <= k * Stride(j)
    BY <1>1, <1>4, ProductLess
  <2> QED
    BY <1>1, <1>2, <2>1 DEF Ahead
<1> QED
  BY <1>1, <1>2, <1>3, <1>4 DEF Ahead

\* The batch a searcher is about to hash lies in the range.
LEMMA PlacedIn ==
    ASSUME NEW j \in Jobs, NEW b \in Nonces, NEW s \in Searchers(j), NEW f, NEW n, NEW e,
           Placed(j, b, s, f, n, e)
    PROVE  /\ f \in Nonces /\ b <= f /\ f + Spread(j) \in Nonces
           /\ SamePrefix(j, b, f)
<1>1. PICK k \in Nat : f = b + Ahead(j, s, k)
  BY DEF Placed
<1>2. Ahead(j, s, k) \in Nat /\ Spread(j) \in Nat /\ Space \in Nat /\ j.span \in Nat \ {0}
  BY Batches, Numbers
<1>3. f \in Nat /\ b \in Nat /\ b <= f /\ f + Spread(j) < Space
  BY <1>1, <1>2 DEF Placed, Nonces
<1>4. SamePrefix(j, b, f)
  BY <1>2, <1>3, PrefixBetween DEF Placed
<1> QED
  BY <1>2, <1>3, <1>4 DEF Nonces

\* The nonces of a batch.
LEMMA BatchIn ==
    ASSUME NEW j \in Jobs, NEW f \in Nat
    PROVE  \A m \in Batch(j, f) : m \in Nat /\ f <= m /\ m <= f + Spread(j) /\ m < f + Stride(j)
<1>1. /\ Spread(j) < Stride(j) /\ Spread(j) \in Nat /\ Stride(j) \in Nat
      /\ \A a \in 0 .. Count(j) - 1 : a * Lane(j) \in Nat /\ a * Lane(j) <= Spread(j)
  BY Lanes, Numbers
<1>2. ASSUME NEW m \in Batch(j, f) PROVE m \in Nat /\ f <= m /\ m <= f + Spread(j)
  <2>1. PICK a \in 0 .. Count(j) - 1 : m = f + a * Lane(j)
    BY <1>2 DEF Batch
  <2> QED
    BY <1>1, <2>1
<1> QED
  BY <1>1, <1>2

\* What hashing a batch adds.
LEMMA HashAdds ==
    ASSUME NEW j \in Jobs, NEW b \in Nonces, NEW s \in Searchers(j), NEW f, NEW n, NEW e,
           Placed(j, b, s, f, n, e), NEW H, Owns(j, b, s, H), Covers(j, b, s, H, f)
    PROVE  /\ Owns(j, b, s, H \cup Batch(j, f))
           /\ Covers(j, b, s, H \cup Batch(j, f), f + Stride(j))
<1>1. PICK k \in Nat : f = b + Ahead(j, s, k)
  BY DEF Placed
<1>2. Ahead(j, s, k) \in Nat /\ Stride(j) \in Nat \ {0} /\ b \in Nat
  <2>1. Ahead(j, s, k) \in Nat
    BY Batches
  <2>2. Stride(j) \in Nat \ {0} /\ Space \in Nat
    BY Numbers
  <2> QED
    BY <2>1, <2>2 DEF Nonces
<1>3. Owns(j, b, s, Batch(j, f))
  BY <1>1 DEF Owns, Batch
<1>4. ASSUME NEW l \in Nat, NEW a \in 0 .. Count(j) - 1, b + Ahead(j, s, l) < f + Stride(j)
      PROVE  b + Ahead(j, s, l) + a * Lane(j) \in H \cup Batch(j, f)
  <2>1. Ahead(j, s, l) \in Nat
    BY Batches
  <2>2. CASE l < k
    <3>1. Ahead(j, s, l) + Stride(j) <= Ahead(j, s, k)
      BY <2>2, Batches
    <3>2. b + Ahead(j, s, l) < f
      BY <1>1, <1>2, <2>1, <3>1
    <3> QED
      BY <3>2 DEF Covers
  <2>3. CASE l = k
    BY <1>1, <2>3 DEF Batch
  <2>4. CASE l > k
    <3>1. Ahead(j, s, k) + Stride(j) <= Ahead(j, s, l)
      BY <2>4, Batches
    <3> QED
      BY <1>1, <1>2, <1>4, <2>1, <3>1
  <2> QED
    BY <2>2, <2>3, <2>4
<1> QED
  BY <1>3, <1>4 DEF Owns, Covers

\* There is a next batch exactly when the range has room for it.
LEMMA NextFits ==
    ASSUME NEW j \in Jobs, NEW b \in Nonces, NEW f \in Nat, b <= f, SamePrefix(j, b, f)
    PROVE  HasNextBatch(j, f) <=> /\ f + Stride(j) + Spread(j) < Space
                                  /\ SamePrefix(j, b, f + Stride(j) + Spread(j))
<1> DEFINE g == f + Stride(j)
           h == f + Stride(j) + Spread(j)
<1>1. /\ Stride(j) \in Nat /\ Spread(j) \in Nat /\ Space \in Nat /\ j.span \in Nat \ {0}
      /\ b \in Nat
  BY Numbers DEF Nonces
<1>2. g \in Nat /\ h \in Nat /\ b <= f /\ f <= g /\ g <= h /\ h = g + Spread(j)
  BY <1>1
<1>3. HasNextBatch(j, f) <=> /\ g < Space /\ SamePrefix(j, f, g)
                             /\ h < Space /\ SamePrefix(j, g, h)
  BY DEF HasNextBatch, Fits, Spread
<1> HIDE DEF g, h
<1>4. ASSUME HasNextBatch(j, f) PROVE h < Space /\ SamePrefix(j, b, h)
  BY <1>3, <1>4 DEF SamePrefix
<1>5. ASSUME h < Space, SamePrefix(j, b, h) PROVE HasNextBatch(j, f)
  <2>1. SamePrefix(j, f, h)
    BY <1>5 DEF SamePrefix
  <2>2. SamePrefix(j, f, g) /\ SamePrefix(j, g, h)
    BY <1>1, <1>2, <2>1, PrefixBetween
  <2> QED
    BY <1>1, <1>2, <1>3, <1>5, <2>2
<1> QED
  BY <1>4, <1>5 DEF h

\* The counter layouts check the same, in other words.
LEMMA NextCounts ==
    ASSUME NEW j \in Jobs, Plain(j), j.layout \notin {"lanes", "block"},
           NEW b \in Nonces, NEW f \in Nonces, b <= f, SamePrefix(j, b, f)
    PROVE  /\ Spread(j) = 0
           /\ Fits(j, f, Stride(j)) <=> /\ f + Stride(j) + Spread(j) < Space
                                        /\ SamePrefix(j, b, f + Stride(j) + Spread(j))
           /\ j.layout = "seed" => (Fits(j, f, Stride(j)) <=> f + Stride(j) < Space)
<1>1. /\ Stride(j) \in Nat /\ Lane(j) \in Nat /\ Space \in Nat /\ b \in Nat /\ f \in Nat
      /\ f < Space
  BY Numbers DEF Nonces
<1>2. Spread(j) = 0
  BY <1>1 DEF Spread, Count
<1>3. Fits(j, f, Stride(j)) <=> /\ f + Stride(j) + Spread(j) < Space
                                /\ SamePrefix(j, b, f + Stride(j) + Spread(j))
  BY <1>1, <1>2 DEF Fits, SamePrefix
<1>4. ASSUME j.layout = "seed", f + Stride(j) < Space PROVE SamePrefix(j, f, f + Stride(j))
  BY <1>1, <1>4, Numbers, OnePrefix
<1> QED
  BY <1>2, <1>3, <1>4 DEF Fits

\* The next batch is placed where the range has room for it.
LEMMA PlacedNext ==
    ASSUME NEW j \in Jobs, NEW b \in Nonces, NEW s \in Searchers(j), NEW f, NEW n, NEW e,
           Placed(j, b, s, f, n, e), f + Stride(j) + Spread(j) < Space,
           SamePrefix(j, b, f + Stride(j) + Spread(j)), NEW m, NEW g,
           IF j.layout \in {"lanes", "block"}
             THEN g = ~ HasNextBatch(j, f + Stride(j)) /\ m = AfterBatch(j, f + Stride(j))
             ELSE g = FALSE /\ m = f + Stride(j)
    PROVE  Placed(j, b, s, f + Stride(j), m, g)
<1>1. PICK k \in Nat : f = b + Ahead(j, s, k)
  BY DEF Placed
<1>2. Ahead(j, s, k) \in Nat /\ Ahead(j, s, k + 1) = Ahead(j, s, k) + Stride(j)
      /\ Stride(j) \in Nat /\ b \in Nat
  <2>1. Ahead(j, s, k) \in Nat /\ Ahead(j, s, k + 1) = Ahead(j, s, k) + Stride(j)
    BY Batches
  <2>2. Stride(j) \in Nat /\ Space \in Nat
    BY Numbers
  <2> QED
    BY <2>1, <2>2 DEF Nonces
<1>3. f + Stride(j) = b + Ahead(j, s, k + 1) /\ k + 1 \in Nat
  BY <1>1, <1>2
<1> QED
  BY <1>3 DEF Placed

\* Without room for the next batch, every batch the range has room for begins
\* before it.
LEMMA NoneAfter ==
    ASSUME NEW j \in Jobs, NEW b \in Nonces, NEW s \in Searchers(j), NEW f, NEW n, NEW e,
           Placed(j, b, s, f, n, e),
           ~ (f + Stride(j) + Spread(j) < Space /\ SamePrefix(j, b, f + Stride(j) + Spread(j))),
           NEW k \in Nat, Room(j, b, s, k)
    PROVE  b + Ahead(j, s, k) < f + Stride(j)
<1> SUFFICES ASSUME ~ (b + Ahead(j, s, k) < f + Stride(j)) PROVE FALSE
  OBVIOUS
<1> DEFINE h == f + Stride(j) + Spread(j)
           r == b + Ahead(j, s, k) + Spread(j)
<1>1. /\ Ahead(j, s, k) \in Nat /\ Stride(j) \in Nat /\ Spread(j) \in Nat /\ Space \in Nat
      /\ b \in Nat /\ j.span \in Nat \ {0} /\ f \in Nat /\ b <= f
  BY Batches, Numbers, PlacedIn DEF Nonces
<1>2. h \in Nat /\ r \in Nat /\ b <= h /\ h <= r
  BY <1>1
<1>3. r < Space /\ SamePrefix(j, b, r)
  BY DEF Room
<1> HIDE DEF h, r
<1>4. h < Space /\ SamePrefix(j, b, h)
  BY <1>1, <1>2, <1>3, PrefixBetween
<1> QED
  BY <1>4 DEF h

\* lanes and block: m_nonce_exhausted is set where the range has no room for
\* the next batch.
LEMMA CounterEnds ==
    ASSUME NEW j \in Jobs, NEW b \in Nonces, NEW s \in Searchers(j), NEW f, NEW n, NEW e,
           Placed(j, b, s, f, n, e), j.layout \in {"lanes", "block"}, e
    PROVE  /\ n = f + Spread(j)
           /\ ~ /\ f + Stride(j) + Spread(j) < Space
                /\ SamePrefix(j, b, f + Stride(j) + Spread(j))
<1>1. ~ HasNextBatch(j, f) /\ n = f + Spread(j)
  BY DEF Placed, AfterBatch, LastLane, Spread
<1>2. f \in Nonces /\ b <= f /\ SamePrefix(j, b, f)
  BY PlacedIn, Zenon
<1>3. f \in Nat
  BY <1>2, SearchAssumption DEF Nonces
<1> QED
  BY <1>1, <1>2, <1>3, NextFits

\* It is clear where the range has room.
LEMMA CounterGoesOn ==
    ASSUME NEW j \in Jobs, NEW b \in Nonces, NEW s \in Searchers(j), NEW f, NEW n, NEW e,
           Placed(j, b, s, f, n, e), j.layout \in {"lanes", "block"}, ~ e
    PROVE  /\ n = f + Stride(j)
           /\ f + Stride(j) + Spread(j) < Space
           /\ SamePrefix(j, b, f + Stride(j) + Spread(j))
<1>1. HasNextBatch(j, f) /\ n = f + Stride(j)
  BY DEF Placed, AfterBatch
<1>2. f \in Nonces /\ b <= f /\ SamePrefix(j, b, f)
  BY PlacedIn, Zenon
<1>3. f \in Nat
  BY <1>2, SearchAssumption DEF Nonces
<1> QED
  BY <1>1, <1>2, <1>3, NextFits

\* The counter is at the batch or past it, within the range.
LEMMA CounterAhead ==
    ASSUME NEW j \in Jobs, NEW b \in Nonces, NEW s \in Searchers(j), NEW f, NEW n, NEW e,
           Placed(j, b, s, f, n, e)
    PROVE  n \in Nonces /\ f <= n /\ SamePrefix(j, b, n) /\ e \in BOOLEAN
<1>1. /\ f \in Nonces /\ b <= f /\ f + Spread(j) \in Nonces /\ SamePrefix(j, b, f)
      /\ SamePrefix(j, b, f + Spread(j))
  <2>1. SamePrefix(j, b, f + Spread(j))
    BY DEF Placed
  <2> QED
    BY <2>1, PlacedIn
<1>2. /\ Stride(j) \in Nat /\ Spread(j) \in Nat /\ Space \in Nat /\ j.span \in Nat \ {0}
  BY Numbers
<1>3. f \in Nat /\ b \in Nat /\ f < Space
  BY <1>1, <1>2 DEF Nonces
<1>4. CASE j.layout \notin {"lanes", "block"}
  <2>1. n = f /\ e = FALSE
    BY <1>4 DEF Placed
  <2>2. f <= n
    BY <1>3, <2>1
  <2> QED
    BY <1>1, <2>1, <2>2
<1>5. CASE j.layout \in {"lanes", "block"}
  <2>1. e \in BOOLEAN
    BY <1>5 DEF Placed, HasNextBatch
  <2>2. CASE e
    <3>1. n = f + Spread(j)
      BY <1>5, <2>2, CounterEnds
    <3>2. f <= n
      BY <1>2, <1>3, <3>1
    <3> QED
      BY <1>1, <2>1, <3>1, <3>2
  <2>3. CASE ~ e
    <3> DEFINE h == f + Stride(j) + Spread(j)
    <3>1. n = f + Stride(j) /\ h < Space /\ SamePrefix(j, b, h)
      BY <1>5, <2>3, CounterGoesOn
    <3>2. n \in Nat /\ h \in Nat /\ b <= n /\ n <= h /\ f <= n
      BY <1>1, <1>2, <1>3, <3>1
    <3> HIDE DEF h
    <3>3. SamePrefix(j, b, n) /\ n \in Nonces
      BY <1>2, <1>3, <3>1, <3>2, PrefixBetween DEF Nonces
    <3> QED
      BY <2>1, <3>2, <3>3
  <2> QED
    BY <2>2, <2>3
<1> QED
  BY <1>4, <1>5

\* A searcher that passes the check begins in the range, at its own offset.
LEMMA BeginOK ==
    ASSUME TypeOK, Plain(job), NEW s \in Searchers(job), BeginFits(s)
    PROVE  /\ Begin(s) = start + Ahead(job, s, 0) /\ Begin(s) \in Nonces
           /\ SamePrefix(job, start, Begin(s))
<1>1. /\ job \in Jobs /\ start \in Nonces
      /\ job.layout \in {"lanes", "block", "counter", "seed", "rx"}
  BY Numbers DEF TypeOK
<1>2. /\ s \in Nat /\ Offset(job, s) \in Nat /\ Space \in Nat /\ B \in Nat \ {0}
      /\ Stride(job) \in Nat /\ (job.layout # "seed" => job.unit = 1)
      /\ (job.layout \in {"lanes", "rx", "seed"} => job.span = Space)
  BY <1>1, Numbers
<1>3. start \in Nat /\ start < Space
  BY <1>1, <1>2 DEF Nonces
<1>4. Begin(s) = start + Offset(job, s)
  BY DEF Begin, Restored, Plain
<1>5. Ahead(job, s, 0) = Offset(job, s)
  BY <1>2 DEF Ahead
<1>6. CASE job.layout \in {"block", "counter"}
  <2>1. Fits(job, start, Offset(job, s))
    BY <1>6 DEF BeginFits
  <2> QED
    BY <1>2, <1>3, <1>4, <1>5, <2>1 DEF Fits, Nonces
<1>7. CASE job.layout \in {"lanes", "seed", "rx"}
  <2>1. start + Offset(job, s) < Space
    <3>1. CASE job.layout = "rx"
      <4> DEFINE q == s \div B
                 r == s % B
      <4>1. s = B * q + r /\ r \in 0 .. B - 1 /\ q \in Nat
        BY <1>2, DivMod
      <4>2. start + (q * B + B - 1) < Space
        <5>1. start + Offset(job, (s \div B) * B + B - 1) < Space
          BY <3>1 DEF BeginFits
        <5>2. Offset(job, (s \div B) * B + B - 1) = (q * B + B - 1) * 1
          BY <1>2, <3>1 DEF Offset
        <5>3. q * B + B - 1 \in Int
          BY <1>2, <4>1
        <5> QED
          BY <5>1, <5>2, <5>3
      <4>3. Offset(job, s) = s
        BY <1>2, <3>1 DEF Offset
      <4> HIDE DEF q, r
      <4>4. q * B \in Nat /\ B * q = q * B
        BY <1>2, <4>1, Products
      <4> QED
        BY <1>2, <1>3, <4>1, <4>2, <4>3, <4>4
    <3>2. CASE job.layout # "rx"
      BY <1>7, <3>2 DEF BeginFits
    <3> QED
      BY <3>1, <3>2
  <2>2. start + Offset(job, s) \in Nonces
    BY <1>2, <1>3, <2>1 DEF Nonces
  <2>3. SamePrefix(job, start, start + Offset(job, s))
    BY <1>1, <1>2, <1>7, <2>2, OnePrefix DEF Nonces
  <2> QED
    BY <1>4, <1>5, <2>2, <2>3
<1> QED
  BY <1>1, <1>6, <1>7

\* Where set_job does not throw, the searcher is placed.
LEMMA SetJobPlaces ==
    ASSUME TypeOK, Plain(job), NEW s \in Searchers(job), BeginFits(s),
           Fits(job, Begin(s), (Count(job) - 1) * Lane(job)), NEW c,
           c = IF job.layout \in {"lanes", "block"} THEN Prepared(job, Begin(s))
               ELSE AtCounter(Begin(s))
    PROVE  Placed(job, start, s, c.first, c.next, c.full)
<1>1. /\ Begin(s) = start + Ahead(job, s, 0) /\ Begin(s) \in Nonces
      /\ SamePrefix(job, start, Begin(s))
  BY BeginOK
<1>2. Begin(s) + Spread(job) < Space /\ SamePrefix(job, start, Begin(s) + Spread(job))
  BY <1>1 DEF Fits, Spread, SamePrefix
<1>3. /\ c.first = Begin(s)
      /\ IF job.layout \in {"lanes", "block"}
         THEN c.full = ~ HasNextBatch(job, Begin(s)) /\ c.next = AfterBatch(job, Begin(s))
         ELSE c.full = FALSE /\ c.next = Begin(s)
  BY DEF Prepared, AtCounter
<1>4. 0 \in Nat
  OBVIOUS
<1> QED
  BY <1>1, <1>2, <1>3, <1>4 DEF Placed

-----------------------------------------------------------------------------
(* Steps.                                                                  *)

Phases == {"idle", "search", "spent", "failed", "away"}

\* Only searcher s adds to what it hashed.
Adds(s) ==
    /\ searched' \in [Searchers(job) -> SUBSET Nonces]
    /\ \A t \in Searchers(job) : t # s => searched'[t] = searched[t]

\* Only searcher s moves.
Moves(s) ==
    /\ phase' \in [Searchers(job) -> Phases]
    /\ first' \in [Searchers(job) -> Nonces]
    /\ next' \in [Searchers(job) -> Nonces]
    /\ full' \in [Searchers(job) -> BOOLEAN]
    /\ Adds(s)
    /\ \A t \in Searchers(job) : t # s =>
         /\ phase'[t] = phase[t] /\ first'[t] = first[t] /\ next'[t] = next[t]
         /\ full'[t] = full[t]

\* What Search does, seen from all searchers.
LEMMA SearchMoves ==
    ASSUME TypeOK, NEW s \in Searchers(job), NEW p \in Phases, NEW c, Search(s, p, c),
           c.first \in Nonces, c.next \in Nonces, c.full \in BOOLEAN,
           Adds(s)
    PROVE  /\ Moves(s)
           /\ phase'[s] = p /\ first'[s] = c.first /\ next'[s] = c.next /\ full'[s] = c.full
<1>1. /\ phase' \in [Searchers(job) -> Phases] /\ phase'[s] = p
      /\ \A t \in Searchers(job) : t # s => phase'[t] = phase[t]
  BY DEF TypeOK, Search, Phases
<1>2. /\ first' \in [Searchers(job) -> Nonces] /\ first'[s] = c.first
      /\ \A t \in Searchers(job) : t # s => first'[t] = first[t]
  BY DEF TypeOK, Search
<1>3. /\ next' \in [Searchers(job) -> Nonces] /\ next'[s] = c.next
      /\ \A t \in Searchers(job) : t # s => next'[t] = next[t]
  BY DEF TypeOK, Search
<1>4. /\ full' \in [Searchers(job) -> BOOLEAN] /\ full'[s] = c.full
      /\ \A t \in Searchers(job) : t # s => full'[t] = full[t]
  <2>1. full \in [Searchers(job) -> BOOLEAN] /\ full' = [full EXCEPT ![s] = c.full]
    BY DEF TypeOK, Search
  <2> QED
    BY <2>1, Zenon
<1> QED
  BY <1>1, <1>2, <1>3, <1>4 DEF Moves, Adds

\* The others are not disturbed.
LEMMA OtherProgress ==
    ASSUME NEW t, Progress(t), job' = job, start' = start, phase'[t] = phase[t],
           first'[t] = first[t], next'[t] = next[t], full'[t] = full[t],
           searched'[t] = searched[t], ended => ended'
    PROVE  Progress(t)'
<1>1. /\ Owns(job, start, t, searched[t])'
      /\ (\A n \in searched[t] : SamePrefix(job, start, n))'
  BY DEF Progress
<1>2. (phase[t] = "search" =>
         /\ Placed(job, start, t, first[t], next[t], full[t])
         /\ \A n \in searched[t] : n < first[t]
         /\ Covers(job, start, t, searched[t], first[t]))'
  BY DEF Progress
<1>3. (phase[t] = "spent" =>
         \A k \in Nat, a \in 0 .. Count(job) - 1 :
             Room(job, start, t, k) => start + Ahead(job, t, k) + a * Lane(job) \in searched[t])'
  BY DEF Progress
<1>4. (phase[t] = "spent" /\ job.layout \in {"lanes", "block"} =>
         /\ \A n \in searched[t] : n <= next[t]
         /\ SamePrefix(job, start, next[t]))'
  BY DEF Progress
<1>5. (/\ phase[t] = "spent" => ended
       /\ phase[t] \in {"idle", "failed"} => searched[t] = {}
       /\ phase[t] = "failed" /\ job.layout = "block" => next[t] = 0)'
  BY DEF Progress
<1> QED
  BY <1>1, <1>2, <1>3, <1>4, <1>5 DEF Progress

\* A position that is past n stays past n: the one kept never falls back.
LEMMA NewerKeeps ==
    ASSUME TypeOK, NEW m \in Nonces, resume' \in {resume, Newer(m)}, job' = job,
           ended => ended', ended' \in BOOLEAN
    PROVE  /\ resume' \in Nonces \cup {NoNonce}
           /\ \A n \in Nonces : Past(n, resume) => Past(n, resume)'
           /\ \A r \in Nonces, n \in Nonces : Past(n, r) => Past(n, r)'
<1>1. resume \in Nonces \cup {NoNonce} /\ ended \in BOOLEAN
  BY DEF TypeOK
<1>2. resume' = resume \/ (resume' = m /\ (resume = NoNonce \/ resume < m))
  BY DEF Newer
<1>3. resume' \in Nonces \cup {NoNonce}
  BY <1>1, <1>2
<1>4. ASSUME NEW n \in Nonces, Past(n, resume) PROVE Past(n, resume)'
  <2>1. Space \in Nat
    BY SearchAssumption
  <2> QED
    BY <1>1, <1>2, <1>4, <2>1 DEF Past, Nonces, NoNonce
<1>5. ASSUME NEW r \in Nonces, NEW n \in Nonces, Past(n, r) PROVE Past(n, r)'
  BY <1>5 DEF Past
<1> QED
  BY <1>3, <1>4, <1>5

\* The position of s that is reported is kept, unless a greater one is known.
LEMMA NewerReaches ==
    ASSUME TypeOK, NEW m \in Nonces, job.xn => SamePrefix(job, m, job.nonce)
    PROVE  Newer(m) \in Nonces /\ m <= Newer(m)
<1>1. resume \in Nonces \cup {NoNonce} /\ Space \in Nat
  BY SearchAssumption DEF TypeOK
<1> QED
  BY <1>1 DEF Newer, Nonces, NoNonce

\* Resumable after a step of searcher s that leaves `start' and `before' alone.
LEMMA KeepsResumable ==
    ASSUME IInv, NEW s \in Searchers(job), NEW m \in Nonces, resume' \in {resume, Newer(m)},
           Tied(job) => resume' = resume \/ SamePrefix(job, m, job.nonce),
           job' = job, start' = start, before' = before, rounds' = rounds,
           ended => ended', ended' \in BOOLEAN,
           \A t \in Searchers(job) : t # s => phase'[t] = phase[t] /\ searched'[t] = searched[t],
           phase'[s] = "away" => \A n \in searched'[s] : Past(n, resume)'
    PROVE  Resumable'
<1>1. /\ TypeOK /\ Resumable /\ start \in Nonces /\ before \subseteq Nonces
      /\ searched \in [Searchers(job) -> SUBSET Nonces]
  BY DEF IInv, TypeOK
<1>2. /\ \A n \in Nonces : Past(n, resume) => Past(n, resume)'
      /\ \A r \in Nonces, n \in Nonces : Past(n, r) => Past(n, r)'
  BY <1>1, NewerKeeps
<1>3. (\A n \in before : Past(n, resume) /\ Past(n, start))'
  <2> SUFFICES ASSUME NEW n \in before PROVE Past(n, resume)' /\ Past(n, start)'
    OBVIOUS
  <2>1. n \in Nonces /\ Past(n, resume) /\ Past(n, start)
    BY <1>1 DEF Resumable
  <2>2. Past(n, start)'
    BY <1>1, <1>2, <2>1
  <2> QED
    BY <1>2, <2>1, <2>2
<1>4. (\A t \in Searchers(job) : phase[t] = "away" => \A n \in searched[t] : Past(n, resume))'
  <2> SUFFICES ASSUME NEW t \in Searchers(job), phase'[t] = "away", NEW n \in searched'[t]
               PROVE  Past(n, resume)'
    OBVIOUS
  <2>1. CASE t = s
    BY <2>1
  <2>2. CASE t # s
    <3>1. n \in Nonces /\ Past(n, resume)
      BY <1>1, <2>2 DEF Resumable
    <3> QED
      BY <1>2, <3>1
  <2> QED
    BY <2>1, <2>2
<1>5. (/\ Tied(job) =>
             /\ SamePrefix(job, start, job.nonce)
             /\ resume # NoNonce => SamePrefix(job, resume, job.nonce)
       /\ rounds = 1 => start = job.nonce
       /\ start % job.unit = job.nonce % job.unit)'
  <2>1. resume' \in {resume, m}
    BY DEF Newer
  <2> QED
    BY <1>1, <2>1 DEF Resumable
<1> QED
  BY <1>3, <1>4, <1>5 DEF Resumable

\* Where the protected bits of a position matter, it carries those of the job.
LEMMA StaysHome ==
    ASSUME IInv, NEW n \in Nonces, SamePrefix(job, start, n), Tied(job)
    PROVE  SamePrefix(job, n, job.nonce)
<1>1. SamePrefix(job, start, job.nonce)
  BY DEF IInv, Resumable
<1> QED
  BY <1>1 DEF SamePrefix

\* Facts of a state the steps start from.
LEMMA Facts ==
    ASSUME IInv
    PROVE  /\ TypeOK /\ Plain(job) /\ Resumable /\ job \in Jobs /\ start \in Nonces
           /\ resume \in Nonces \cup {NoNonce} /\ ended \in BOOLEAN /\ crossed \in BOOLEAN
           /\ before \subseteq Nonces /\ rounds \in 1 .. MaxRounds
           /\ searched \in [Searchers(job) -> SUBSET Nonces]
           /\ first \in [Searchers(job) -> Nonces] /\ next \in [Searchers(job) -> Nonces]
           /\ 0 \in Nonces
           /\ \A s \in Searchers(job) : Progress(s)
<1>1. 0 \in Nonces
  BY SearchAssumption DEF Nonces
<1> QED
  BY <1>1 DEF IInv, TypeOK

\* The rest of a step of s, once Progress(s)' is known.
LEMMA OneMoves ==
    ASSUME IInv, NEW s \in Searchers(job), Moves(s),
           job' = job, start' = start, before' = before, rounds' = rounds,
           Reports,
           ended' \in BOOLEAN, ended => ended', crossed' \in BOOLEAN,
           Progress(s)', phase'[s] = "away" => \A n \in searched'[s] : Past(n, resume)'
    PROVE  IInv'
<1>1. TypeOK /\ 0 \in Nonces
  BY Facts
<1>2. PICK m \in Nonces :
        /\ resume' \in {resume, Newer(m)}
        /\ resume' = resume \/ (Tied(job) => SamePrefix(job, m, job.nonce))
  BY <1>1 DEF Reports
<1>9. Tied(job) => resume' = resume \/ SamePrefix(job, m, job.nonce)
  BY <1>2 DEF Newer
<1>3. /\ phase' \in [Searchers(job) -> Phases]
      /\ first' \in [Searchers(job) -> Nonces]
      /\ next' \in [Searchers(job) -> Nonces]
      /\ full' \in [Searchers(job) -> BOOLEAN]
      /\ searched' \in [Searchers(job) -> SUBSET Nonces]
      /\ \A t \in Searchers(job) : t # s =>
           /\ phase'[t] = phase[t] /\ first'[t] = first[t] /\ next'[t] = next[t]
           /\ full'[t] = full[t] /\ searched'[t] = searched[t]
  BY DEF Moves, Adds
<1>4. resume' \in Nonces \cup {NoNonce}
  BY <1>1, <1>2, NewerKeeps
<1>5. TypeOK'
  BY <1>3, <1>4, Facts DEF TypeOK, Phases, Nonces
<1>6. (\A t \in Searchers(job) : Progress(t))'
  <2> SUFFICES ASSUME NEW t \in Searchers(job), t # s PROVE Progress(t)'
    OBVIOUS
  <2>1. Progress(t)
    BY Facts
  <2> QED
    BY <1>3, <2>1, OtherProgress
<1>7. Resumable'
  BY <1>2, <1>3, <1>9, KeepsResumable
<1>8. Plain(job)'
  BY Facts
<1> QED
  BY <1>5, <1>6, <1>7, <1>8 DEF IInv

\* set_job places a searcher on its first batch, with nothing hashed.
LEMMA SetJobStep ==
    ASSUME IInv, NEW s \in Searchers(job), SetJob(s)
    PROVE  IInv'
<1> DEFINE c == IF job.layout \in {"lanes", "block"} THEN Prepared(job, Begin(s))
                ELSE AtCounter(Begin(s))
<1>1. /\ phase[s] = "idle" /\ BeginFits(s) /\ Search(s, "search", c)
      /\ Fits(job, Begin(s), (Count(job) - 1) * Lane(job))
      /\ crossed' = (crossed \/ Crosses(s))
      /\ UNCHANGED <<job, start, searched, before, resume, ended, rounds>>
  BY DEF SetJob
<1>2. Placed(job, start, s, c.first, c.next, c.full)
  BY <1>1, Facts, SetJobPlaces
<1> HIDE DEF c
<1>3. c.first \in Nonces /\ c.next \in Nonces /\ c.full \in BOOLEAN
  BY <1>2, Facts, PlacedIn, CounterAhead
<1>4. Adds(s) /\ searched'[s] = {}
  <2>1. searched[s] = {}
    BY <1>1, Facts DEF Progress
  <2> QED
    BY <1>1, <2>1, Facts DEF Adds
<1>5. /\ Moves(s) /\ phase'[s] = "search"
      /\ first'[s] = c.first /\ next'[s] = c.next /\ full'[s] = c.full
  <2>1. TypeOK /\ "search" \in Phases
    BY Facts DEF Phases
  <2> QED
    BY <1>1, <1>3, <1>4, <2>1, SearchMoves
<1>6. Progress(s)'
  <2>1. searched'[s] = {}
    BY <1>4
  <2>2. Covers(job, start, s, {}, c.first)
    <3> SUFFICES ASSUME NEW k \in Nat PROVE ~ (start + Ahead(job, s, k) < c.first)
      BY DEF Covers
    <3>1. c.first = start + Ahead(job, s, 0)
      BY <1>1, Facts, BeginOK DEF c, Prepared, AtCounter
    <3>2. Ahead(job, s, k) \in Nat /\ Ahead(job, s, 0) \in Nat
      BY Facts, Batches
    <3>3. Ahead(job, s, 0) <= Ahead(job, s, k)
      <4>1. CASE k = 0
        BY <3>2, <4>1
      <4>2. CASE k > 0
        <5>1. Ahead(job, s, 0) + Stride(job) <= Ahead(job, s, k)
          BY <4>2, Facts, Batches
        <5>2. Stride(job) \in Nat
          BY Facts, Numbers
        <5> QED
          BY <3>2, <5>1, <5>2
      <4> QED
        BY <4>1, <4>2
    <3>4. start \in Nat
      BY Facts, SearchAssumption DEF Nonces
    <3> QED
      BY <3>1, <3>2, <3>3, <3>4
  <2>3. Placed(job, start, s, first[s], next[s], full[s])'
    BY <1>1, <1>2, <1>5
  <2>4. Covers(job, start, s, searched[s], first[s])'
    BY <1>1, <1>5, <2>1, <2>2
  <2>5. Owns(job, start, s, searched[s])'
    BY <2>1 DEF Owns
  <2> QED
    BY <1>5, <2>1, <2>3, <2>4, <2>5 DEF Progress
<1>7. crossed' \in BOOLEAN
  BY <1>1, Facts DEF Crosses
<1>8. /\ job' = job /\ start' = start /\ before' = before /\ rounds' = rounds
      /\ Reports /\ ended' \in BOOLEAN /\ (ended => ended')
  BY <1>1, Facts DEF Reports
<1> QED
  BY <1>5, <1>6, <1>7, <1>8, OneMoves

\* A set_job that throws leaves a counter within the width and nothing hashed.
LEMMA SetJobThrowsStep ==
    ASSUME IInv, NEW s \in Searchers(job), SetJobThrows(s)
    PROVE  IInv'
<1> DEFINE c == CASE job.layout \in {"block", "seed", "rx"} -> Idle
                  [] job.layout = "lanes" /\ BeginFits(s) -> AtCounter(Begin(s))
                  [] OTHER -> AtCounter((start + Offset(job, s)) % Space)
<1>1. /\ phase[s] = "idle" /\ Search(s, "failed", c)
      /\ crossed' = (crossed \/ Crosses(s))
      /\ UNCHANGED <<job, start, searched, before, resume, ended, rounds>>
  BY DEF SetJobThrows
<1>2. c.first \in Nonces /\ c.next \in Nonces /\ c.full \in BOOLEAN
  <2>1. start + Offset(job, s) \in Nat /\ Space \in Nat \ {0}
    <3>1. Offset(job, s) \in Nat /\ Space \in Nat \ {0}
      BY Facts, Numbers
    <3> QED
      BY <3>1, Facts DEF Nonces
  <2>2. (start + Offset(job, s)) % Space \in Nonces
    BY <2>1, DivMod DEF Nonces
  <2>3. job.layout = "lanes" /\ BeginFits(s) => Begin(s) \in Nonces
    BY Facts, BeginOK
  <2>4. c \in {Idle, AtCounter((start + Offset(job, s)) % Space)}
          \/ (job.layout = "lanes" /\ BeginFits(s) /\ c = AtCounter(Begin(s)))
    OBVIOUS
  <2> HIDE DEF c
  <2>5. CASE c = Idle
    BY <2>5, Facts DEF Idle
  <2>6. CASE c = AtCounter((start + Offset(job, s)) % Space)
    BY <2>2, <2>6 DEF AtCounter
  <2>7. CASE job.layout = "lanes" /\ BeginFits(s) /\ c = AtCounter(Begin(s))
    BY <2>3, <2>7 DEF AtCounter
  <2> QED
    BY <2>4, <2>5, <2>6, <2>7
<1> HIDE DEF c
<1>3. Adds(s) /\ searched'[s] = {}
  <2>1. searched[s] = {}
    BY <1>1, Facts DEF Progress
  <2> QED
    BY <1>1, <2>1, Facts DEF Adds
<1>4. Moves(s) /\ phase'[s] = "failed" /\ next'[s] = c.next
  <2>1. TypeOK /\ "failed" \in Phases
    BY Facts DEF Phases
  <2> QED
    BY <1>1, <1>2, <1>3, <2>1, SearchMoves
<1>5. Progress(s)'
  <2>1. searched'[s] = {}
    BY <1>3
  <2>2. Owns(job, start, s, searched[s])'
    BY <2>1 DEF Owns
  <2>3. job.layout = "block" => c.next = 0
    BY DEF c, Idle
  <2> QED
    BY <1>1, <1>4, <2>1, <2>2, <2>3 DEF Progress
<1>6. crossed' \in BOOLEAN
  BY <1>1, Facts DEF Crosses
<1>7. /\ job' = job /\ start' = start /\ before' = before /\ rounds' = rounds
      /\ Reports /\ ended' \in BOOLEAN /\ (ended => ended')
  BY <1>1, Facts DEF Reports
<1> QED
  BY <1>4, <1>5, <1>6, <1>7, OneMoves

\* What a searcher that hashes a batch had hashed, and adds.
LEMMA Hashes ==
    ASSUME IInv, NEW s \in Searchers(job), Hash(s), NEW H, H = searched[s] \cup Batch(job, first[s])
    PROVE  /\ Adds(s) /\ searched'[s] = H /\ H \subseteq Nonces
           /\ Placed(job, start, s, first[s], next[s], full[s])
           /\ first[s] \in Nonces /\ start <= first[s] /\ SamePrefix(job, start, first[s])
           /\ Owns(job, start, s, H) /\ Covers(job, start, s, H, first[s] + Stride(job))
           /\ \A n \in H : /\ SamePrefix(job, start, n) /\ n < first[s] + Stride(job)
                           /\ n <= first[s] + Spread(job)
<1> DEFINE f == first[s]
<1>1. /\ searched' = [searched EXCEPT ![s] = H] /\ searched'[s] = H /\ searched[s] \subseteq Nonces
  BY Facts DEF Hash
<1>2. /\ Placed(job, start, s, f, next[s], full[s]) /\ Owns(job, start, s, searched[s])
      /\ Covers(job, start, s, searched[s], f)
      /\ \A n \in searched[s] : n < f /\ SamePrefix(job, start, n)
  BY Facts DEF Hash, Progress
<1>3. /\ f \in Nonces /\ start <= f /\ f + Spread(job) \in Nonces /\ SamePrefix(job, start, f)
      /\ SamePrefix(job, start, f + Spread(job))
  <2>1. SamePrefix(job, start, f + Spread(job))
    BY <1>2 DEF Placed
  <2> QED
    BY <1>2, <2>1, Facts, PlacedIn
<1>4. Owns(job, start, s, H) /\ Covers(job, start, s, H, f + Stride(job))
  BY <1>2, Facts, HashAdds
<1> HIDE DEF f
<1>5. /\ Spread(job) \in Nat /\ Stride(job) \in Nat /\ Space \in Nat /\ job.span \in Nat \ {0}
  BY Facts, Numbers
<1>6. f \in Nat /\ start \in Nat
  BY <1>3, <1>5, Facts DEF Nonces
<1>7. ASSUME NEW n \in H
      PROVE  /\ n \in Nonces /\ SamePrefix(job, start, n) /\ n < f + Stride(job)
             /\ n <= f + Spread(job)
  <2>1. CASE n \in searched[s]
    <3>1. n \in Nonces /\ n < f /\ SamePrefix(job, start, n)
      BY <1>1, <1>2, <2>1
    <3> QED
      BY <1>5, <1>6, <3>1 DEF Nonces
  <2>2. CASE n \in Batch(job, f)
    <3>1. n \in Nat /\ f <= n /\ n <= f + Spread(job) /\ n < f + Stride(job)
      BY <1>6, <2>2, Facts, BatchIn
    <3>2. n \in Nonces /\ start <= n
      BY <1>3, <1>5, <1>6, <3>1 DEF Nonces
    <3>3. f + Spread(job) \in Nat
      BY <1>5, <1>6
    <3>4. SamePrefix(job, start, n)
      BY <1>3, <1>5, <1>6, <3>1, <3>2, <3>3, PrefixBetween
    <3> QED
      BY <3>1, <3>2, <3>4
  <2> QED
    BY <2>1, <2>2 DEF f
<1>8. Adds(s) /\ H \subseteq Nonces
  <2>1. H \subseteq Nonces
    BY <1>7
  <2> QED
    BY <1>1, <2>1, Facts DEF Adds
<1> QED
  BY <1>1, <1>2, <1>3, <1>4, <1>7, <1>8 DEF f

\* The loop goes on exactly when the range has room for the next batch.
LEMMA DispatchTo ==
    ASSUME IInv, NEW s \in Searchers(job), Dispatch(s)
    PROVE  \E c : /\ Search(s, "search", c) /\ c.first = first[s] + Stride(job)
                  /\ Placed(job, start, s, c.first, c.next, c.full)
<1> DEFINE f == first[s]
           g == f + Stride(job)
           Rest == g + Spread(job) < Space /\ SamePrefix(job, start, g + Spread(job))
<1>1. /\ Placed(job, start, s, f, next[s], full[s]) /\ f \in Nonces /\ start <= f
      /\ SamePrefix(job, start, f)
  BY Hashes DEF Dispatch
<1>2. CASE job.layout \in {"lanes", "block"}
  <2>1. ~ full[s] /\ Search(s, "search", Prepared(job, next[s]))
    BY <1>2 DEF Dispatch
  <2>2. next[s] = g /\ Rest
    <3>1. job \in Jobs /\ start \in Nonces
      BY Facts
    <3> QED
      BY <1>1, <1>2, <2>1, <3>1, CounterGoesOn
  <2> DEFINE c == Prepared(job, next[s])
  <2>3. /\ c.first = g /\ c.full = ~ HasNextBatch(job, g) /\ c.next = AfterBatch(job, g)
    BY <2>2 DEF Prepared
  <2> HIDE DEF c
  <2>4. Placed(job, start, s, g, c.next, c.full)
    BY <1>1, <1>2, <2>2, <2>3, Facts, PlacedNext
  <2>5. Search(s, "search", c)
    BY <2>1 DEF c
  <2> QED
    BY <2>3, <2>4, <2>5
<1>3. CASE job.layout \notin {"lanes", "block"}
  <2> DEFINE c == AtCounter(g)
  <2>1. /\ Search(s, "search", c)
        /\ Fits(job, f, Stride(job)) \/ (job.layout = "seed" /\ g < Space)
    BY <1>3 DEF Dispatch
  <2>2. Rest
    BY <1>1, <1>3, <2>1, Facts, NextCounts
  <2>3. c.first = g /\ c.next = g /\ c.full = FALSE
    BY DEF AtCounter
  <2> HIDE DEF c
  <2>4. Placed(job, start, s, g, c.next, c.full)
    BY <1>1, <1>3, <2>2, <2>3, Facts, PlacedNext
  <2> QED
    BY <2>1, <2>3, <2>4
<1> QED
  BY <1>2, <1>3

\* It ends exactly when the range has none.
LEMMA DispatchEnds ==
    ASSUME IInv, NEW s \in Searchers(job), DispatchLast(s)
    PROVE  /\ ~ /\ first[s] + Stride(job) + Spread(job) < Space
                /\ SamePrefix(job, start, first[s] + Stride(job) + Spread(job))
           /\ \E c : /\ Search(s, "spent", c)
                     /\ c.first \in Nonces /\ c.next \in Nonces /\ c.full \in BOOLEAN
                     /\ job.layout \in {"lanes", "block"} =>
                           /\ c.next = first[s] + Spread(job)
                           /\ SamePrefix(job, start, c.next)
<1> DEFINE f == first[s]
           g == f + Stride(job)
           Rest == g + Spread(job) < Space /\ SamePrefix(job, start, g + Spread(job))
<1>1. /\ Placed(job, start, s, f, next[s], full[s]) /\ f \in Nonces /\ start <= f
      /\ SamePrefix(job, start, f)
  BY Hashes DEF DispatchLast
<1>2. CASE job.layout \in {"lanes", "block"}
  <2> DEFINE c == [first |-> f, next |-> next[s], full |-> TRUE]
  <2>1. full[s] /\ Search(s, "spent", c)
    BY <1>2 DEF DispatchLast
  <2>2. /\ next[s] = f + Spread(job) /\ ~ Rest /\ next[s] \in Nonces
        /\ SamePrefix(job, start, next[s])
    <3>1. job \in Jobs /\ start \in Nonces
      BY Facts
    <3>2. next[s] = f + Spread(job) /\ ~ Rest
      BY <1>1, <1>2, <2>1, <3>1, CounterEnds
    <3>3. next[s] \in Nonces /\ SamePrefix(job, start, next[s])
      BY <1>1, <3>1, CounterAhead, Zenon
    <3> QED
      BY <3>2, <3>3
  <2>3. c.first = f /\ c.next = next[s] /\ c.full = TRUE
    OBVIOUS
  <2> HIDE DEF c
  <2> QED
    BY <1>1, <2>1, <2>2, <2>3
<1>3. CASE job.layout \notin {"lanes", "block"}
  <2>1. Fits(job, f, Stride(job)) <=> Rest
    BY <1>1, <1>3, Facts, NextCounts
  <2>2. job.layout = "seed" => (Fits(job, f, Stride(job)) <=> g < Space)
    BY <1>1, <1>3, Facts, NextCounts
  <2>3. g \in Nat /\ Space \in Nat \ {0}
    <3>1. Stride(job) \in Nat /\ Space \in Nat \ {0}
      BY Facts, Numbers
    <3> QED
      BY <1>1, <3>1 DEF Nonces
  <2>4. g % Space \in Nonces
    <3> HIDE DEF g
    <3> QED
      BY <2>3, DivMod DEF Nonces
  <2>5. CASE job.layout = "counter"
    <3>1. ~ Fits(job, f, Stride(job)) /\ Search(s, "spent", AtCounter(g % Space))
      BY <2>5 DEF DispatchLast
    <3> QED
      BY <1>3, <2>1, <2>4, <3>1 DEF AtCounter
  <2>6. CASE job.layout = "rx"
    <3>1. ~ Fits(job, f, Stride(job)) /\ Search(s, "spent", Idle)
      BY <2>6 DEF DispatchLast
    <3> QED
      BY <1>3, <2>1, <3>1, Facts DEF Idle
  <2>7. CASE job.layout = "seed"
    <3>1. g >= Space /\ Search(s, "spent", AtCounter(f))
      BY <2>7 DEF DispatchLast
    <3>2. ~ (g < Space)
      BY <2>3, <3>1
    <3> QED
      BY <1>1, <1>3, <2>1, <2>2, <2>7, <3>1, <3>2 DEF AtCounter
  <2>8. job.layout \in {"counter", "rx", "seed"}
    BY <1>3, Facts, Numbers
  <2> QED
    BY <2>5, <2>6, <2>7, <2>8
<1> QED
  BY <1>2, <1>3

\* A dispatch hashes its batch and moves on to the next.
LEMMA DispatchStep ==
    ASSUME IInv, NEW s \in Searchers(job), Dispatch(s)
    PROVE  IInv'
<1> DEFINE H == searched[s] \cup Batch(job, first[s])
<1>1. PICK c : /\ Search(s, "search", c) /\ c.first = first[s] + Stride(job)
               /\ Placed(job, start, s, c.first, c.next, c.full)
  BY DispatchTo
<1>2. /\ Adds(s) /\ searched'[s] = H /\ H \subseteq Nonces
      /\ Owns(job, start, s, H) /\ Covers(job, start, s, H, first[s] + Stride(job))
      /\ \A n \in H : SamePrefix(job, start, n) /\ n < first[s] + Stride(job)
  BY Hashes DEF Dispatch
<1>3. /\ job' = job /\ start' = start /\ before' = before /\ rounds' = rounds
      /\ Reports /\ ended' \in BOOLEAN /\ (ended => ended')
      /\ crossed' \in BOOLEAN
  BY Facts DEF Dispatch, Hash, Reports
<1>4. c.first \in Nonces /\ c.next \in Nonces /\ c.full \in BOOLEAN
  BY <1>1, Facts, PlacedIn, CounterAhead
<1>5. "search" \in Phases /\ "search" \notin {"away", "spent", "idle", "failed"}
  BY DEF Phases
<1>6. /\ Moves(s) /\ phase'[s] = "search"
      /\ first'[s] = c.first /\ next'[s] = c.next /\ full'[s] = c.full
  <2>1. TypeOK
    BY Facts
  <2> QED
    BY <1>1, <1>2, <1>4, <1>5, <2>1, SearchMoves
<1> HIDE DEF H
<1>7. Progress(s)'
  <2>1. Placed(job, start, s, first[s], next[s], full[s])'
    BY <1>1, <1>3, <1>6
  <2>2. Covers(job, start, s, searched[s], first[s])' /\ Owns(job, start, s, searched[s])'
    BY <1>1, <1>2, <1>3, <1>6
  <2>3. (\A n \in searched[s] : n < first[s] /\ SamePrefix(job, start, n))'
    BY <1>1, <1>2, <1>3, <1>6
  <2> QED
    BY <1>5, <1>6, <2>1, <2>2, <2>3 DEF Progress
<1> QED
  BY <1>3, <1>5, <1>6, <1>7, OneMoves

\* The last dispatch leaves no batch out that the range has room for.
LEMMA DispatchLastStep ==
    ASSUME IInv, NEW s \in Searchers(job), DispatchLast(s)
    PROVE  IInv'
<1> DEFINE H == searched[s] \cup Batch(job, first[s])
<1>1. PICK c : /\ Search(s, "spent", c)
               /\ c.first \in Nonces /\ c.next \in Nonces /\ c.full \in BOOLEAN
               /\ job.layout \in {"lanes", "block"} =>
                     c.next = first[s] + Spread(job) /\ SamePrefix(job, start, c.next)
  BY DispatchEnds
<1>2. ~ /\ first[s] + Stride(job) + Spread(job) < Space
        /\ SamePrefix(job, start, first[s] + Stride(job) + Spread(job))
  BY DispatchEnds
<1>3. /\ Adds(s) /\ searched'[s] = H /\ H \subseteq Nonces
      /\ Placed(job, start, s, first[s], next[s], full[s])
      /\ Owns(job, start, s, H) /\ Covers(job, start, s, H, first[s] + Stride(job))
      /\ \A n \in H : SamePrefix(job, start, n) /\ n <= first[s] + Spread(job)
  BY Hashes DEF DispatchLast
<1>4. /\ job' = job /\ start' = start /\ before' = before /\ rounds' = rounds
      /\ ended' = TRUE
      /\ crossed' \in BOOLEAN
  BY Facts DEF DispatchLast, Hash, IInv
<1>5. "spent" \in Phases /\ "spent" \notin {"away", "search", "idle", "failed"}
  BY DEF Phases
<1>6. Moves(s) /\ phase'[s] = "spent" /\ next'[s] = c.next
  <2>1. TypeOK
    BY Facts
  <2> QED
    BY <1>1, <1>3, <1>5, <2>1, SearchMoves
<1>7. Reports
  <2>1. first[s] + Spread(job) \in Nonces /\ SamePrefix(job, start, first[s] + Spread(job))
    BY <1>3, Facts, PlacedIn DEF Placed
  <2>2. resume' \in {resume, Newer(LastLane(job, first[s]))}
    BY DEF DispatchLast
  <2>3. LastLane(job, first[s]) = first[s] + Spread(job)
    BY DEF LastLane, Spread
  <2>4. Tied(job) => SamePrefix(job, first[s] + Spread(job), job.nonce)
    BY <2>1, StaysHome
  <2> QED
    BY <2>1, <2>2, <2>3, <2>4 DEF Reports
<1> HIDE DEF H
<1>8. Progress(s)'
  <2>1. ASSUME NEW k \in Nat, NEW a \in 0 .. Count(job) - 1, Room(job, start, s, k)
        PROVE  start + Ahead(job, s, k) + a * Lane(job) \in H
    <3>1. start + Ahead(job, s, k) < first[s] + Stride(job)
      BY <1>2, <1>3, <2>1, Facts, NoneAfter
    <3> QED
      BY <1>3, <3>1 DEF Covers
  <2>2. (\A k \in Nat, a \in 0 .. Count(job) - 1 :
            Room(job, start, s, k) => start + Ahead(job, s, k) + a * Lane(job) \in searched[s])'
    BY <1>3, <1>4, <2>1
  <2>3. (job.layout \in {"lanes", "block"} =>
            /\ \A n \in searched[s] : n <= next[s]
            /\ SamePrefix(job, start, next[s]))'
    BY <1>1, <1>3, <1>4, <1>6
  <2>4. (Owns(job, start, s, searched[s]) /\ \A n \in searched[s] : SamePrefix(job, start, n))'
    BY <1>3, <1>4
  <2> QED
    BY <1>4, <1>5, <1>6, <2>2, <2>3, <2>4 DEF Progress
<1> QED
  BY <1>4, <1>5, <1>6, <1>7, <1>8, OneMoves

\* A searcher that leaves reports a position past all it hashed.
LEMMA LeavesPast ==
    ASSUME IInv, NEW s \in Searchers(job), Leave(s), NEW n \in searched[s]
    PROVE  Past(n, resume)'
<1>1. /\ phase[s] \in {"search", "spent", "failed"}
      /\ resume' = IF Silent(s) THEN resume ELSE Newer(next[s])
      /\ job' = job /\ ended' = ended
  BY DEF Leave
<1>2. /\ Progress(s) /\ TypeOK /\ job \in Jobs /\ start \in Nonces /\ next[s] \in Nonces
      /\ first[s] \in Nonces /\ n \in Nonces /\ ended \in BOOLEAN
      /\ job.xn => SamePrefix(job, start, job.nonce)
  BY Facts DEF Resumable, Tied
<1>3. Space \in Nat /\ \A m \in Nonces : m \in Nat
  BY SearchAssumption DEF Nonces
<1>4. ASSUME SamePrefix(job, start, next[s]), ~ Silent(s)
      PROVE  resume' \in Nonces /\ next[s] <= resume'
  <2>1. job.xn => SamePrefix(job, next[s], job.nonce)
    BY <1>2, <1>4 DEF SamePrefix
  <2> QED
    BY <1>1, <1>2, <1>4, <2>1, NewerReaches
<1>5. CASE phase[s] = "search"
  <2>1. Placed(job, start, s, first[s], next[s], full[s]) /\ n < first[s]
    BY <1>2, <1>5 DEF Progress
  <2>2. first[s] <= next[s] /\ SamePrefix(job, start, next[s])
    BY <1>2, <2>1, CounterAhead, Zenon
  <2>3. ~ Silent(s)
    BY <1>2, <1>3, <1>5, <2>1, <2>2 DEF Silent
  <2>4. resume' \in Nonces /\ n < resume'
    BY <1>2, <1>3, <1>4, <2>1, <2>2, <2>3
  <2>5. resume' # NoNonce /\ n <= resume'
    BY <1>2, <1>3, <2>4 DEF NoNonce
  <2> QED
    BY <2>4, <2>5 DEF Past
<1>6. CASE phase[s] = "spent"
  <2>1. ended
    BY <1>2, <1>6 DEF Progress
  <2>2. CASE job.layout \in {"lanes", "block"}
    <3>1. n <= next[s] /\ SamePrefix(job, start, next[s])
      BY <1>2, <1>6, <2>2 DEF Progress
    <3>2. CASE Silent(s)
      <4>1. next[s] = 0
        BY <2>2, <3>2 DEF Silent
      <4>2. n = 0
        BY <1>2, <1>3, <3>1, <4>1
      <4> QED
        BY <1>1, <2>1, <4>2 DEF Past
    <3>3. CASE ~ Silent(s)
      <4>1. resume' \in Nonces /\ n <= resume'
        BY <1>2, <1>3, <1>4, <3>1, <3>3
      <4>2. resume' # NoNonce
        BY <1>3, <4>1 DEF NoNonce
      <4> QED
        BY <1>1, <2>1, <4>1, <4>2 DEF Past
    <3> QED
      BY <3>2, <3>3
  <2>3. CASE job.layout \notin {"lanes", "block"}
    BY <1>1, <2>1, <2>3 DEF Past
  <2> QED
    BY <2>2, <2>3
<1>7. CASE phase[s] = "failed"
  BY <1>2, <1>7 DEF Progress
<1> QED
  BY <1>1, <1>5, <1>6, <1>7

\* What it reports carries the protected bits of the job, but for a counter that
\* had moved on.
LEMMA LeavesHome ==
    ASSUME IInv, NEW s \in Searchers(job), Leave(s)
    PROVE  Reports
<1>1. /\ phase[s] \in {"search", "spent", "failed"}
      /\ resume' = IF Silent(s) THEN resume ELSE Newer(next[s])
  BY DEF Leave
<1>2. /\ Progress(s) /\ job \in Jobs /\ start \in Nonces /\ next[s] \in Nonces
      /\ first[s] \in Nonces /\ Plain(job) /\ job.nonce \in Nonces
  BY Facts, Numbers
<1> SUFFICES ASSUME ~ Silent(s), Tied(job), job.xn => SamePrefix(job, next[s], job.nonce)
             PROVE  SamePrefix(job, next[s], job.nonce)
  BY <1>1, <1>2 DEF Newer, Reports
<1>3. CASE job.span = Space
  BY <1>2, <1>3, OnePrefix DEF Nonces
<1>4. CASE job.span # Space
  <2>1. job.layout \in {"block", "counter"}
    BY <1>2, <1>4, Numbers
  <2>2. CASE phase[s] = "search"
    <3>1. Placed(job, start, s, first[s], next[s], full[s])
      BY <1>2, <2>2 DEF Progress
    <3>2. SamePrefix(job, start, next[s])
      BY <1>2, <3>1, CounterAhead, Zenon
    <3> QED
      BY <1>2, <3>2, StaysHome
  <2>3. CASE job.layout = "block" /\ phase[s] = "spent"
    <3>1. SamePrefix(job, start, next[s])
      BY <1>2, <2>3 DEF Progress
    <3> QED
      BY <1>2, <3>1, StaysHome
  <2>4. CASE job.layout = "block" /\ phase[s] = "failed"
    BY <1>2, <2>4 DEF Progress, Silent
  <2>5. CASE job.layout = "counter" /\ phase[s] # "search"
    BY <2>5 DEF Tied
  <2> QED
    BY <1>1, <2>1, <2>2, <2>3, <2>4, <2>5
<1> QED
  BY <1>3, <1>4

\* Leaving keeps the greatest position reported.
LEMMA LeaveStep ==
    ASSUME IInv, NEW s \in Searchers(job), Leave(s)
    PROVE  IInv'
<1>1. /\ phase[s] \in {"search", "spent", "failed"} /\ Search(s, "away", Idle)
      /\ job' = job /\ start' = start /\ before' = before /\ rounds' = rounds
      /\ searched' = searched
      /\ crossed' \in BOOLEAN
      /\ ended' \in BOOLEAN /\ (ended => ended')
  BY Facts DEF Leave, IInv
<1>2. Idle.first \in Nonces /\ Idle.next \in Nonces /\ Idle.full \in BOOLEAN
  BY Facts DEF Idle
<1>3. "away" \in Phases /\ "away" \notin {"search", "spent", "idle", "failed"}
  BY DEF Phases
<1>4. Adds(s)
  BY <1>1, Facts DEF Adds
<1>5. Moves(s) /\ phase'[s] = "away"
  <2>1. TypeOK
    BY Facts
  <2> QED
    BY <1>1, <1>2, <1>3, <1>4, <2>1, SearchMoves
<1>6. Reports
  BY LeavesHome
<1>7. \A n \in searched[s] : Past(n, resume)'
  BY LeavesPast
<1>8. Progress(s)'
  <2>1. Owns(job, start, s, searched[s]) /\ \A n \in searched[s] : SamePrefix(job, start, n)
    BY Facts DEF Progress
  <2>2. (Owns(job, start, s, searched[s]) /\ \A n \in searched[s] : SamePrefix(job, start, n))'
    BY <1>1, <2>1
  <2> QED
    BY <1>3, <1>5, <2>2 DEF Progress
<1> QED
  BY <1>1, <1>5, <1>6, <1>7, <1>8, OneMoves

\* Where a job comes back from the background.
LEMMA ResumedAt ==
    ASSUME IInv, NEW r \in Resumed
    PROVE  /\ r \in Nonces /\ r % job.unit = job.nonce % job.unit
           /\ Tied(job) => SamePrefix(job, r, job.nonce)
           /\ job.layout # "seed" => r = IF resume = NoNonce THEN job.nonce ELSE resume
<1>1. /\ job.unit \in Nat \ {0} /\ job.nonce \in Nonces /\ Space \in Nat
      /\ job.layout # "seed" => job.unit = 1
      /\ job.layout = "seed" => job.span = Space
  BY Facts, Numbers
<1>2. resume \in Nonces \cup {NoNonce}
      /\ (Tied(job) /\ resume # NoNonce => SamePrefix(job, resume, job.nonce))
  BY Facts DEF Resumable
<1>3. CASE job.layout = "seed"
  <2>1. r \in Nonces /\ r % job.unit = job.nonce % job.unit
    <3>1. r \in {n \in 0 .. Space - 1 : /\ n % job.unit = job.nonce % job.unit
                                        /\ n + (N - 1) * job.unit < Space}
      BY <1>3 DEF Resumed
    <3> QED
      BY <3>1 DEF Nonces
  <2>2. SamePrefix(job, r, job.nonce)
    BY <1>1, <1>3, <2>1, OnePrefix DEF Nonces
  <2> QED
    BY <1>3, <2>1, <2>2
<1>4. CASE job.layout # "seed" /\ resume = NoNonce
  <2>1. r = job.nonce
    BY <1>4 DEF Resumed
  <2> QED
    BY <1>1, <1>4, <2>1 DEF SamePrefix
<1>5. CASE job.layout # "seed" /\ resume # NoNonce
  <2>1. r = ((resume \div 1) * 1) + (job.nonce % 1)
    BY <1>1, <1>5 DEF Resumed
  <2>2. resume \in Nonces
    BY <1>2, <1>5
  <2>3. resume \in Nat /\ job.nonce \in Nat
    BY <1>1, <2>2 DEF Nonces
  <2>4. r = resume /\ r % 1 = job.nonce % 1
    BY <2>1, <2>3
  <2> QED
    BY <1>1, <1>2, <1>5, <2>2, <2>4
<1> QED
  BY <1>3, <1>4, <1>5

\* A job that comes back starts past everything hashed before.
LEMMA ResumeStep ==
    ASSUME IInv, Resume
    PROVE  IInv'
<1>1. /\ start' \in Resumed /\ job' = job /\ resume' = resume /\ ended' = ended
      /\ crossed' = crossed /\ first' = first /\ next' = next /\ full' = full
      /\ phase' = [s \in Searchers(job) |-> "idle"]
      /\ searched' = [s \in Searchers(job) |-> {}]
      /\ before' = before \cup UNION {searched[s] : s \in Searchers(job)}
      /\ \A s \in Searchers(job) : phase[s] = "away"
      /\ rounds < MaxRounds /\ rounds' = rounds + 1
  BY DEF Resume
<1>2. /\ start' \in Nonces /\ start' % job.unit = job.nonce % job.unit
      /\ Tied(job) => SamePrefix(job, start', job.nonce)
      /\ job.layout # "seed" => start' = IF resume = NoNonce THEN job.nonce ELSE resume
  BY <1>1, ResumedAt
<1>3. before' \subseteq Nonces
  <2>1. \A s \in Searchers(job) : searched[s] \subseteq Nonces
    BY Facts
  <2>2. before \subseteq Nonces
    BY Facts
  <2> QED
    BY <1>1, <2>1, <2>2
<1>4. TypeOK'
  <2>1. rounds' \in 1 .. MaxRounds
    BY <1>1, SearchAssumption, Facts
  <2>2. /\ phase' \in [Searchers(job) -> {"idle", "search", "spent", "failed", "away"}]
        /\ searched' \in [Searchers(job) -> SUBSET Nonces]
    BY <1>1
  <2>3. full' \in [Searchers(job) -> BOOLEAN] /\ {ended', crossed'} \subseteq BOOLEAN
    BY <1>1 DEF IInv, TypeOK
  <2> QED
    BY <1>1, <1>2, <1>3, <2>1, <2>2, <2>3, Facts DEF TypeOK, Nonces
<1>5. ASSUME NEW s \in Searchers(job) PROVE Progress(s)'
  <2>1. phase'[s] = "idle" /\ searched'[s] = {}
    BY <1>1
  <2>2. Owns(job, start, s, searched[s])'
    BY <2>1 DEF Owns
  <2> QED
    BY <2>1, <2>2 DEF Progress
<1>6. ASSUME NEW n \in before' PROVE Past(n, resume)
  <2>1. CASE n \in before
    BY <2>1, Facts DEF Resumable
  <2>2. CASE n \notin before
    <3>1. PICK s \in Searchers(job) : n \in searched[s]
      BY <1>1, <1>6, <2>2
    <3> QED
      BY <1>1, <3>1, Facts DEF Resumable
  <2> QED
    BY <2>1, <2>2
<1>7. ASSUME NEW n \in before' PROVE Past(n, resume)' /\ Past(n, start)'
  <2>1. Past(n, resume)
    BY <1>6
  <2>2. Past(n, resume)'
    BY <1>1, <2>1 DEF Past
  <2>3. Past(n, start)'
    <3>1. CASE job.layout = "seed"
      BY <1>1, <3>1 DEF Past
    <3>2. CASE job.layout # "seed" /\ resume # NoNonce
      <4>1. start' = resume'
        BY <1>1, <1>2, <3>2
      <4> QED
        BY <2>2, <4>1 DEF Past
    <3>3. CASE job.layout # "seed" /\ resume = NoNonce
      BY <1>1, <2>1, <3>3 DEF Past
    <3> QED
      BY <3>1, <3>2, <3>3
  <2> QED
    BY <2>2, <2>3
<1>8. Resumable'
  <2>1. \A s \in Searchers(job) : phase'[s] # "away"
    BY <1>1
  <2>2. (\A s \in Searchers(job) :
            phase[s] = "away" => \A n \in searched[s] : Past(n, resume))'
    BY <1>1, <2>1
  <2>3. (/\ Tied(job) => /\ SamePrefix(job, start, job.nonce)
                         /\ resume # NoNonce => SamePrefix(job, resume, job.nonce)
         /\ rounds = 1 => start = job.nonce
         /\ start % job.unit = job.nonce % job.unit)'
    <3>1. rounds' # 1
      BY <1>1, Facts
    <3> QED
      BY <1>1, <1>2, <3>1, Facts DEF Resumable
  <2> QED
    BY <1>7, <2>2, <2>3 DEF Resumable
<1>9. Plain(job)'
  BY <1>1, Facts DEF IInv
<1> QED
  BY <1>1, <1>4, <1>5, <1>8, <1>9 DEF IInv

-----------------------------------------------------------------------------
(* Masked lanes and rx: wherever a searcher begins, from there on it moves *)
(* like searcher 0 of a job sent with that nonce.                          *)

\* What a searcher of any job has hashed, counted from where it begins.
Carries(s) ==
    /\ Owns(job, Begin(s), 0, searched[s])
    /\ \A n \in searched[s] : n \in Nonces /\ SamePrefix(job, Begin(s), n)
    /\ phase[s] = "search" => Placed(job, Begin(s), 0, first[s], next[s], full[s])
    /\ phase[s] = "idle" => searched[s] = {}
    /\ next[s] \in Nat

\* The position the job is resumed from carries its last byte and extranonce.
Returns ==
    /\ start \in Nat /\ start % job.unit = job.nonce % job.unit
    /\ resume \in Nat \cup {NoNonce}
    /\ rounds \in Nat \ {0} /\ (rounds = 1 => start = job.nonce)
    /\ job.xn /\ job.unit = 1 => /\ SamePrefix(job, start, job.nonce)
                                 /\ resume # NoNonce => SamePrefix(job, resume, job.nonce)

Tables ==
    /\ DOMAIN phase = Searchers(job) /\ DOMAIN first = Searchers(job)
    /\ DOMAIN next = Searchers(job) /\ DOMAIN full = Searchers(job)
    /\ DOMAIN searched = Searchers(job)

MaskedInv ==
    /\ job \in Jobs /\ ~ Plain(job)
    /\ Tables
    /\ Returns
    /\ \A s \in Searchers(job) : Carries(s)

\* BitOr counts, so it is a number.
LEMMA OrCounts ==
    ASSUME NEW m, NEW n
    PROVE  BitOr(m, n) \in Nat
<1>1. IsFiniteSet(1 .. Space - 1)
  BY SearchAssumption, FS_Interval
<1> QED
  BY <1>1, FS_Subset, FS_CardinalityType DEF BitOr

\* A masked job protects its leading bits or its last byte.
LEMMA MaskedNumbers ==
    ASSUME NEW j \in Jobs, ~ Plain(j)
    PROVE  /\ j.layout \in {"lanes", "rx"} /\ j.unit \in Nat \ {0} /\ j.span \in Nat \ {0}
           /\ j.span = Space \/ j.unit = 1
           /\ Stride(j) = (N * B) * j.unit /\ N * B \in Nat /\ Lane(j) = N * j.unit
           /\ N \in Nat /\ Space \in Nat \ {0} /\ j.nonce \in Nonces /\ j.nonce \in Nat
           /\ 0 \in Searchers(j) /\ Offset(j, 0) = 0 /\ Ahead(j, 0, 0) = 0
<1>1. /\ j.layout \in {"lanes", "rx"} /\ j.unit \in Nat \ {0} /\ j.span \in Nat \ {0}
      /\ N \in Nat \ {0} /\ B \in Nat \ {0} /\ Space \in Nat \ {0} /\ j.nonce \in Nonces
      /\ Stride(j) \in Nat
  BY Numbers DEF Plain
<1>2. j.span = Space \/ j.unit = 1
  BY <1>1, SearchAssumption
<1>3. N * B \in Nat \ {0}
  BY <1>1, Products
<1>4. 0 \in Searchers(j) /\ Offset(j, 0) = 0
  BY <1>1, <1>3 DEF Searchers, Offset
<1>5. Ahead(j, 0, 0) = 0
  BY <1>1, <1>4 DEF Ahead
<1> QED
  BY <1>1, <1>2, <1>3, <1>4, <1>5 DEF Stride, Lane, Nonces

\* Putting the blob's bits back gives a number whose leading bits depend on the
\* leading bits alone.
LEMMA RestoredBits ==
    ASSUME job \in Jobs, ~ Plain(job), NEW m \in Nat
    PROVE  /\ Restored(m) \in Nat
           /\ job.span = Space => Restored(m) = m
           /\ job.span # Space =>
                Restored(m) \div job.span = BitOr(m \div job.span, job.blob \div job.span)
<1>1. job.span \in Nat \ {0} /\ job.layout \in {"lanes", "rx"}
  BY MaskedNumbers
<1>2. CASE job.span = Space
  BY <1>2 DEF Restored
<1>3. CASE job.span # Space
  <2> DEFINE p == job.span
             q == BitOr(m \div job.span, job.blob \div job.span)
             r == m % job.span
             x == Restored(m)
             y == x \div p
             z == x % p
  <2>1. q \in Nat /\ p \in Nat \ {0}
    BY <1>1, OrCounts
  <2>2. r \in 0 .. p - 1
    BY <1>1, DivMod
  <2>3. x = q * p + r
    BY <1>1, <1>3 DEF Restored
  <2> HIDE DEF p, q, r, x
  <2>4. x \in Nat
    BY <2>1, <2>2, <2>3, Products
  <2>5. x = p * y + z /\ z \in 0 .. p - 1 /\ y \in Nat
    BY <2>1, <2>4, DivMod
  <2> HIDE DEF y, z
  <2>6. p * q + r = p * y + z
    BY <2>1, <2>2, <2>3, <2>5
  <2>7. q = y
    BY <2>1, <2>2, <2>5, <2>6, Division
  <2> QED
    BY <1>3, <2>4, <2>7 DEF p, q, x, y
<1> QED
  BY <1>2, <1>3

\* Nonces of one prefix are restored to one prefix.
LEMMA RestoredPrefix ==
    ASSUME job \in Jobs, ~ Plain(job), job.span # Space, NEW m \in Nat, NEW n \in Nat,
           SamePrefix(job, m, n)
    PROVE  SamePrefix(job, Restored(m), Restored(n))
  BY RestoredBits DEF SamePrefix

\* Where a searcher begins is a number, with the job's last byte.
LEMMA MaskedBegin ==
    ASSUME job \in Jobs, ~ Plain(job), Returns, NEW s \in Searchers(job)
    PROVE  Begin(s) \in Nat /\ Begin(s) % job.unit = job.nonce % job.unit
<1>1. /\ start \in Nat /\ job.unit \in Nat \ {0} /\ (job.span = Space \/ job.unit = 1)
      /\ job.layout \in {"lanes", "rx"} /\ start % job.unit = job.nonce % job.unit
      /\ job.nonce \in Nat
  BY MaskedNumbers DEF Returns
<1>2. s \in Nat /\ Offset(job, s) \in Nat
  BY Numbers
<1>3. Begin(s) \in Nat
  BY <1>1, <1>2, RestoredBits DEF Begin
<1>4. CASE job.span = Space
  <2>1. Begin(s) = start + s * job.unit
    BY <1>1, <1>2, <1>4, RestoredBits DEF Begin, Offset
  <2> QED
    BY <1>1, <1>2, <1>3, <2>1, Remainder
<1>5. CASE job.unit = 1
  BY <1>1, <1>3, <1>5
<1> QED
  BY <1>1, <1>3, <1>4, <1>5

\* A placed searcher began within the width.
LEMMA PlacedBegin ==
    ASSUME job \in Jobs, ~ Plain(job), NEW b \in Nat, NEW f, NEW n, NEW e,
           Placed(job, b, 0, f, n, e)
    PROVE  b \in Nonces
<1>1. PICK k \in Nat : f = b + Ahead(job, 0, k)
  BY DEF Placed
<1>2. Ahead(job, 0, k) \in Nat /\ Spread(job) \in Nat /\ Space \in Nat
  <2>1. 0 \in Searchers(job)
    BY MaskedNumbers
  <2> QED
    BY <2>1, Batches, Numbers
<1>3. f + Spread(job) < Space
  BY DEF Placed
<1> QED
  BY <1>1, <1>2, <1>3 DEF Nonces

\* What one searcher's step leaves alone.
Steps(s) ==
    /\ job' = job /\ start' = start /\ rounds' = rounds
    /\ \A t \in Searchers(job) : t # s =>
         /\ phase'[t] = phase[t] /\ first'[t] = first[t] /\ next'[t] = next[t]
         /\ full'[t] = full[t] /\ searched'[t] = searched[t]
    /\ Tables'
    /\ \/ resume' = resume
       \/ \E m \in Nat : resume' = m /\ (job.xn => SamePrefix(job, m, job.nonce))

\* Search moves one searcher.
LEMMA OneSearches ==
    ASSUME Tables, NEW s \in Searchers(job), NEW p, NEW c, Search(s, p, c), job' = job
    PROVE  /\ phase'[s] = p /\ first'[s] = c.first /\ next'[s] = c.next /\ full'[s] = c.full
           /\ \A t \in Searchers(job) : t # s =>
                /\ phase'[t] = phase[t] /\ first'[t] = first[t] /\ next'[t] = next[t]
                /\ full'[t] = full[t]
           /\ DOMAIN phase' = Searchers(job) /\ DOMAIN first' = Searchers(job)
           /\ DOMAIN next' = Searchers(job) /\ DOMAIN full' = Searchers(job)
  BY DEF Tables, Search

\* Hashing changes one searcher's nonces.
LEMMA OneHashes ==
    ASSUME Tables, NEW s \in Searchers(job), Hash(s)
    PROVE  /\ searched'[s] = searched[s] \cup Batch(job, first[s])
           /\ \A t \in Searchers(job) : t # s => searched'[t] = searched[t]
           /\ DOMAIN searched' = Searchers(job)
           /\ phase[s] = "search" /\ job' = job /\ start' = start /\ rounds' = rounds
  BY DEF Tables, Hash

\* The rest of the invariant follows from the one searcher's part.
LEMMA MaskedOne ==
    ASSUME MaskedInv, NEW s \in Searchers(job), Steps(s), Carries(s)'
    PROVE  MaskedInv'
<1>1. job' = job /\ start' = start /\ rounds' = rounds /\ Tables'
  BY DEF Steps
<1>2. (\A t \in Searchers(job) : Carries(t))'
  <2> SUFFICES ASSUME NEW t \in Searchers(job), t # s PROVE Carries(t)'
    BY <1>1
  <2>1. /\ phase'[t] = phase[t] /\ first'[t] = first[t] /\ next'[t] = next[t]
        /\ full'[t] = full[t] /\ searched'[t] = searched[t] /\ Carries(t)
    BY DEF Steps, MaskedInv
  <2>2. Begin(t)' = Begin(t)
    BY <1>1 DEF Begin, Restored
  <2> QED
    BY <1>1, <2>1, <2>2 DEF Carries, Nonces
<1>3. Returns'
  <2>1. resume' \in Nat \cup {NoNonce}
    BY DEF Steps, MaskedInv, Returns
  <2>2. job.xn /\ job.unit = 1 /\ resume' # NoNonce => SamePrefix(job, resume', job.nonce)
    BY DEF Steps, MaskedInv, Returns
  <2> QED
    BY <1>1, <2>1, <2>2 DEF MaskedInv, Returns, SamePrefix
<1> QED
  BY <1>1, <1>2, <1>3 DEF MaskedInv, Plain

\* A searcher that begins is placed.
LEMMA MaskedSetJob ==
    ASSUME MaskedInv, NEW s \in Searchers(job), SetJob(s)
    PROVE  MaskedInv'
<1> DEFINE b == Begin(s)
           c == IF job.layout \in {"lanes", "block"} THEN Prepared(job, b) ELSE AtCounter(b)
<1>1. /\ job \in Jobs /\ ~ Plain(job) /\ Tables /\ Returns /\ Carries(s)
      /\ phase[s] = "idle" /\ Search(s, "search", c) /\ job' = job /\ start' = start
      /\ rounds' = rounds /\ resume' = resume /\ searched' = searched
      /\ Fits(job, b, (Count(job) - 1) * Lane(job))
  BY DEF MaskedInv, SetJob
<1>2. b \in Nat /\ Spread(job) \in Nat
  BY <1>1, MaskedBegin, Numbers
<1>3. Begin(s)' = b
  BY <1>1 DEF Begin, Restored
<1>4. /\ phase'[s] = "search" /\ first'[s] = c.first /\ next'[s] = c.next
      /\ full'[s] = c.full
  BY <1>1, OneSearches
<1>5. Steps(s)
  BY <1>1, OneSearches DEF Steps, Tables
<1>6. c.first = b /\ (IF job.layout \in {"lanes", "block"}
                      THEN c.full = ~ HasNextBatch(job, b) /\ c.next = AfterBatch(job, b)
                      ELSE c.full = FALSE /\ c.next = b)
  BY DEF Prepared, AtCounter
<1> HIDE DEF b, c
<1>7. Placed(job, b, 0, c.first, c.next, c.full)
  <2>1. b = b + Ahead(job, 0, 0)
    BY <1>1, <1>2, MaskedNumbers
  <2>2. b + Spread(job) < Space /\ SamePrefix(job, b, b + Spread(job))
    BY <1>1 DEF Fits, Spread
  <2> QED
    BY <1>6, <2>1, <2>2 DEF Placed
<1>8. c.next \in Nat
  <2>1. b \in Nonces
    BY <1>1, <1>2, <1>7, PlacedBegin
  <2>2. c.next \in Nonces
    BY <1>1, <1>7, <2>1, CounterAhead, MaskedNumbers
  <2> QED
    BY <2>2, SearchAssumption DEF Nonces
<1>9. Carries(s)'
  <2>1. searched'[s] = {}
    BY <1>1 DEF Carries
  <2> QED
    BY <1>1, <1>3, <1>4, <1>7, <1>8, <2>1 DEF Carries, Owns
<1> QED
  BY <1>5, <1>9, MaskedOne

\* One that cannot begin has hashed nothing.
LEMMA MaskedThrows ==
    ASSUME MaskedInv, NEW s \in Searchers(job), SetJobThrows(s)
    PROVE  MaskedInv'
<1> DEFINE c == CASE job.layout \in {"block", "seed", "rx"} -> Idle
                  [] job.layout = "lanes" /\ BeginFits(s) -> AtCounter(Begin(s))
                  [] OTHER -> AtCounter((start + Offset(job, s)) % Space)
<1>1. /\ job \in Jobs /\ ~ Plain(job) /\ Tables /\ Returns /\ Carries(s)
      /\ phase[s] = "idle" /\ Search(s, "failed", c) /\ job' = job /\ start' = start
      /\ rounds' = rounds /\ resume' = resume /\ searched' = searched
  BY DEF MaskedInv, SetJobThrows
<1>2. c.next \in Nat
  <2>1. start \in Nat /\ Begin(s) \in Nat /\ Offset(job, s) \in Nat /\ Space \in Nat \ {0}
    BY <1>1, MaskedBegin, Numbers DEF Returns
  <2>2. (start + Offset(job, s)) % Space \in Nat
    BY <2>1
  <2>3. c.next \in {0, Begin(s), (start + Offset(job, s)) % Space}
    <3>1. job.layout \in {"lanes", "rx"}
      BY <1>1, MaskedNumbers
    <3>2. CASE job.layout = "rx"
      BY <3>2 DEF Idle
    <3>3. CASE job.layout = "lanes" /\ BeginFits(s)
      BY <3>3 DEF AtCounter
    <3>4. CASE job.layout = "lanes" /\ ~ BeginFits(s)
      BY <3>4 DEF AtCounter
    <3> QED
      BY <3>1, <3>2, <3>3, <3>4
  <2> QED
    BY <2>1, <2>2, <2>3
<1> HIDE DEF c
<1>3. Begin(s)' = Begin(s)
  BY <1>1 DEF Begin, Restored
<1>4. phase'[s] = "failed" /\ next'[s] = c.next
  BY <1>1, OneSearches
<1>5. Steps(s)
  BY <1>1, OneSearches DEF Steps, Tables
<1>6. Carries(s)'
  <2>1. searched'[s] = {}
    BY <1>1 DEF Carries
  <2> QED
    BY <1>1, <1>2, <1>3, <1>4, <2>1 DEF Carries, Owns
<1> QED
  BY <1>5, <1>6, MaskedOne

\* A batch hashed is in the range, whatever comes after it.
LEMMA MaskedHash ==
    ASSUME MaskedInv, NEW s \in Searchers(job), Hash(s)
    PROVE  /\ Owns(job, Begin(s), 0, searched'[s])
           /\ \A n \in searched'[s] : n \in Nonces /\ SamePrefix(job, Begin(s), n)
           /\ Placed(job, Begin(s), 0, first[s], next[s], full[s])
           /\ Begin(s) \in Nonces /\ first[s] \in Nonces /\ Begin(s) <= first[s]
           /\ SamePrefix(job, Begin(s), first[s])
<1> DEFINE b == Begin(s)
           f == first[s]
<1>1. /\ job \in Jobs /\ ~ Plain(job) /\ Tables /\ Returns /\ Carries(s)
  BY DEF MaskedInv
<1>2. /\ searched'[s] = searched[s] \cup Batch(job, f) /\ phase[s] = "search"
  BY <1>1, OneHashes
<1>3. Placed(job, b, 0, f, next[s], full[s])
  BY <1>1, <1>2 DEF Carries
<1>4. b \in Nat
  BY <1>1, MaskedBegin
<1>5. b \in Nonces
  <2> HIDE DEF b, f
  <2> QED
    BY <1>1, <1>3, <1>4, PlacedBegin
<1>6. /\ f \in Nonces /\ b <= f /\ f + Spread(job) \in Nonces /\ SamePrefix(job, b, f)
  <2> HIDE DEF b, f
  <2> QED
    BY <1>1, <1>3, <1>5, PlacedIn, MaskedNumbers
<1>7. Owns(job, b, 0, searched'[s])
  <2>1. PICK k \in Nat : f = b + Ahead(job, 0, k)
    BY <1>3 DEF Placed
  <2>2. Owns(job, b, 0, Batch(job, f))
    <3> HIDE DEF b, f
    <3> QED
      BY <2>1 DEF Owns, Batch
  <2>3. Owns(job, b, 0, searched[s])
    BY <1>1 DEF Carries
  <2> HIDE DEF b, f
  <2> QED
    BY <1>2, <2>2, <2>3 DEF Owns
<1>8. ASSUME NEW n \in searched'[s] PROVE n \in Nonces /\ SamePrefix(job, b, n)
  <2>1. CASE n \in searched[s]
    BY <1>1, <2>1 DEF Carries
  <2>2. CASE n \in Batch(job, f)
    <3> DEFINE h == f + Spread(job)
    <3>1. SamePrefix(job, b, h) /\ h \in Nonces
      BY <1>3, <1>6 DEF Placed
    <3>2. f \in Nat /\ b \in Nat /\ Space \in Nat /\ job.span \in Nat \ {0} /\ h \in Nat
      BY <1>1, <1>4, <1>6, MaskedNumbers DEF Nonces
    <3>3. n \in Nat /\ f <= n /\ n <= h
      <4> HIDE DEF f
      <4> QED
        BY <1>1, <2>2, <3>2, BatchIn
    <3> HIDE DEF h
    <3>4. b <= n
      <4> HIDE DEF b, f
      <4> QED
        BY <1>6, <3>2, <3>3
    <3>5. SamePrefix(job, b, n)
      <4> HIDE DEF b, f
      <4> QED
        BY <3>1, <3>2, <3>3, <3>4, PrefixBetween
    <3>6. n \in Nonces
      BY <3>1, <3>2, <3>3 DEF Nonces
    <3> QED
      BY <3>5, <3>6
  <2> QED
    BY <1>2, <1>8, <2>1, <2>2
<1> QED
  BY <1>3, <1>5, <1>6, <1>7, <1>8

\* A searcher that goes on is placed at its next batch.
LEMMA MaskedDispatch ==
    ASSUME MaskedInv, NEW s \in Searchers(job), Dispatch(s)
    PROVE  MaskedInv'
<1> DEFINE b == Begin(s)
           f == first[s]
           g == f + Stride(job)
           c == IF job.layout = "lanes" THEN Prepared(job, g) ELSE AtCounter(g)
<1>1. /\ job \in Jobs /\ ~ Plain(job) /\ Tables /\ Hash(s) /\ resume' = resume
      /\ job.layout \in {"lanes", "rx"} /\ 0 \in Searchers(job)
  BY MaskedNumbers DEF MaskedInv, Dispatch
<1>2. /\ Owns(job, b, 0, searched'[s])
      /\ \A n \in searched'[s] : n \in Nonces /\ SamePrefix(job, b, n)
      /\ Placed(job, b, 0, f, next[s], full[s])
      /\ b \in Nonces /\ f \in Nonces /\ SamePrefix(job, b, f)
  BY <1>1, MaskedHash
<1>3. job' = job /\ start' = start /\ rounds' = rounds
  BY <1>1, OneHashes
<1>4. Begin(s)' = b
  BY <1>3 DEF Begin, Restored
<1>5. /\ g + Spread(job) < Space /\ SamePrefix(job, b, g + Spread(job))
      /\ Search(s, "search", c)
  <2>1. CASE job.layout = "lanes"
    <3>1. ~ full[s] /\ Search(s, "search", Prepared(job, next[s]))
      BY <2>1 DEF Dispatch
    <3> HIDE DEF b, f
    <3>2. /\ next[s] = f + Stride(job) /\ f + Stride(job) + Spread(job) < Space
          /\ SamePrefix(job, b, f + Stride(job) + Spread(job))
      BY <1>1, <1>2, <2>1, <3>1, CounterGoesOn
    <3> QED
      BY <2>1, <3>1, <3>2
  <2>2. CASE job.layout = "rx"
    <3>1. Fits(job, f, Stride(job)) /\ Search(s, "search", AtCounter(g))
      BY <2>2 DEF Dispatch
    <3> HIDE DEF b, f
    <3>2. /\ Spread(job) = 0 /\ g \in Nat
      <4>1. Lane(job) \in Nat /\ Stride(job) \in Nat /\ Space \in Nat
        BY <1>1, Numbers
      <4> QED
        BY <1>2, <2>2, <4>1 DEF Spread, Count, Nonces
    <3>3. g < Space /\ SamePrefix(job, b, g)
      BY <1>2, <3>1 DEF Fits, SamePrefix
    <3> HIDE DEF g
    <3> QED
      BY <2>2, <3>1, <3>2, <3>3
  <2> QED
    BY <1>1, <2>1, <2>2
<1>6. c.first = g /\ (IF job.layout \in {"lanes", "block"}
                      THEN c.full = ~ HasNextBatch(job, g) /\ c.next = AfterBatch(job, g)
                      ELSE c.full = FALSE /\ c.next = g)
  BY <1>1 DEF Prepared, AtCounter
<1> HIDE DEF b, c
<1>7. Placed(job, b, 0, g, c.next, c.full)
  <2> HIDE DEF f
  <2> QED
    BY <1>1, <1>2, <1>5, <1>6, PlacedNext
<1> HIDE DEF f, g
<1>8. c.next \in Nat
  <2>1. c.next \in Nonces
    BY <1>1, <1>2, <1>7, CounterAhead
  <2> QED
    BY <2>1, SearchAssumption DEF Nonces
<1>9. /\ phase'[s] = "search" /\ first'[s] = c.first /\ next'[s] = c.next
      /\ full'[s] = c.full
  BY <1>1, <1>3, <1>5, OneSearches
<1>10. Steps(s)
  BY <1>1, <1>3, <1>5, OneSearches, OneHashes DEF Steps, Tables
<1>11. Carries(s)'
  BY <1>2, <1>3, <1>4, <1>6, <1>7, <1>8, <1>9 DEF Carries, Nonces
<1> QED
  BY <1>10, <1>11, MaskedOne

\* The last batch, after which lanes and rx report an error and no position.
LEMMA MaskedLast ==
    ASSUME MaskedInv, NEW s \in Searchers(job), DispatchLast(s)
    PROVE  MaskedInv'
<1> DEFINE b == Begin(s)
<1>1. /\ job \in Jobs /\ ~ Plain(job) /\ Tables /\ Hash(s) /\ Carries(s)
      /\ job.layout \in {"lanes", "rx"}
  BY MaskedNumbers DEF MaskedInv, DispatchLast
<1>2. /\ Owns(job, b, 0, searched'[s])
      /\ \A n \in searched'[s] : n \in Nonces /\ SamePrefix(job, b, n)
  BY <1>1, MaskedHash
<1>3. job' = job /\ start' = start /\ rounds' = rounds
  BY <1>1, OneHashes
<1>4. Begin(s)' = b
  BY <1>3 DEF Begin, Restored
<1>5. resume' = resume
  BY <1>1 DEF DispatchLast
<1>6. PICK c \in {[first |-> first[s], next |-> next[s], full |-> TRUE], Idle} :
        Search(s, "spent", c)
  BY <1>1 DEF DispatchLast
<1>7. c.next \in Nat
  BY <1>1, <1>6 DEF Idle, Carries
<1>8. phase'[s] = "spent" /\ next'[s] = c.next
  BY <1>1, <1>3, <1>6, OneSearches
<1>9. Steps(s)
  BY <1>1, <1>3, <1>5, <1>6, OneSearches, OneHashes DEF Steps, Tables
<1>10. Carries(s)'
  <2> HIDE DEF b
  <2> QED
    BY <1>2, <1>3, <1>4, <1>7, <1>8 DEF Carries, Nonces
<1> QED
  BY <1>9, <1>10, MaskedOne

\* A position reported is kept only with the pool's extranonce.
LEMMA MaskedLeave ==
    ASSUME MaskedInv, NEW s \in Searchers(job), Leave(s)
    PROVE  MaskedInv'
<1>1. /\ Tables /\ Carries(s) /\ Search(s, "away", Idle) /\ job' = job /\ start' = start
      /\ rounds' = rounds /\ searched' = searched /\ phase[s] # "idle"
      /\ resume' = resume \/ resume' = Newer(next[s])
  BY DEF MaskedInv, Leave
<1>2. phase'[s] = "away" /\ next'[s] = 0
  <2>1. phase'[s] = "away" /\ next'[s] = Idle.next
    BY <1>1, OneSearches
  <2> QED
    BY <2>1 DEF Idle
<1>3. \/ resume' = resume
      \/ \E m \in Nat : resume' = m /\ (job.xn => SamePrefix(job, m, job.nonce))
  BY <1>1 DEF Newer, Carries
<1>4. Steps(s)
  BY <1>1, <1>3, OneSearches DEF Steps, Tables
<1>5. Begin(s)' = Begin(s)
  BY <1>1 DEF Begin, Restored
<1>6. Carries(s)'
  BY <1>1, <1>2, <1>5 DEF Carries, Nonces
<1> QED
  BY <1>4, <1>6, MaskedOne

\* The job comes back with a position that carries its last byte.
LEMMA MaskedResume ==
    ASSUME MaskedInv, Resume
    PROVE  MaskedInv'
<1>1. /\ job \in Jobs /\ ~ Plain(job) /\ Tables /\ Returns
      /\ start' \in Resumed /\ job' = job /\ resume' = resume /\ rounds' = rounds + 1
      /\ first' = first /\ next' = next /\ full' = full
      /\ phase' = [s \in Searchers(job) |-> "idle"]
      /\ searched' = [s \in Searchers(job) |-> {}]
  BY DEF MaskedInv, Resume
<1>2. /\ job.layout \in {"lanes", "rx"} /\ job.unit \in Nat \ {0} /\ job.nonce \in Nat
      /\ resume \in Nat \cup {NoNonce} /\ rounds \in Nat \ {0}
  BY <1>1, MaskedNumbers DEF Returns
<1>3. start' \in Nat /\ start' % job.unit = job.nonce % job.unit
      /\ (job.unit = 1 => start' = IF resume = NoNonce THEN job.nonce ELSE resume)
  <2>1. CASE resume = NoNonce
    <3>1. start' = job.nonce
      BY <1>1, <1>2, <2>1 DEF Resumed
    <3> QED
      BY <1>2, <2>1, <3>1
  <2>2. CASE resume # NoNonce
    <3> DEFINE q == resume \div job.unit
               r == job.nonce % job.unit
    <3>1. start' = (q * job.unit) + r
      BY <1>1, <1>2, <2>2 DEF Resumed
    <3>2. q \in Nat /\ resume = job.unit * q + (resume % job.unit)
      BY <1>2, <2>2, DivMod
    <3>3. r \in 0 .. job.unit - 1
      BY <1>2, DivMod
    <3>4. job.unit = 1 => resume % job.unit = 0
      BY <1>2, <2>2
    <3> HIDE DEF q
    <3>5. r % job.unit = r
      <4> HIDE DEF r
      <4> QED
        BY <1>2, <3>3
    <3> HIDE DEF r
    <3>6. q * job.unit \in Nat /\ r \in Nat
      BY <1>2, <3>2, <3>3, Products
    <3>7. start' = r + q * job.unit /\ start' \in Nat
      BY <3>1, <3>6
    <3>8. start' % job.unit = r
      BY <1>2, <3>2, <3>5, <3>6, <3>7, Remainder
    <3>9. job.unit = 1 => start' = resume
      BY <1>2, <2>2, <3>2, <3>3, <3>4, <3>7
    <3> QED
      BY <2>2, <3>7, <3>8, <3>9 DEF r
  <2> QED
    BY <2>1, <2>2
<1>4. Returns'
  <2>1. job.xn /\ job.unit = 1 => SamePrefix(job, start', job.nonce)
    BY <1>1, <1>3 DEF Returns, SamePrefix
  <2>2. rounds' \in Nat \ {0} /\ rounds' # 1
    BY <1>1, <1>2
  <2> QED
    BY <1>1, <1>3, <2>1, <2>2 DEF Returns, SamePrefix
<1>5. Tables'
  BY <1>1 DEF Tables
<1>6. ASSUME NEW s \in Searchers(job) PROVE Carries(s)'
  <2>1. phase'[s] = "idle" /\ searched'[s] = {} /\ next'[s] \in Nat
    BY <1>1 DEF MaskedInv, Carries
  <2> QED
    BY <2>1 DEF Carries, Owns
<1> QED
  BY <1>1, <1>4, <1>5, <1>6 DEF MaskedInv, Plain

\* No step of a masked job breaks it.
LEMMA MaskedInductive ==
    ASSUME MaskedInv, [Next]_vars
    PROVE  MaskedInv'
<1>1. CASE UNCHANGED vars
  <2>1. /\ job' = job /\ start' = start /\ phase' = phase /\ first' = first /\ next' = next
        /\ full' = full /\ searched' = searched /\ resume' = resume /\ rounds' = rounds
    BY <1>1 DEF vars
  <2>2. Tables' /\ Returns'
    BY <2>1 DEF MaskedInv, Tables, Returns, SamePrefix
  <2>3. ASSUME NEW s \in Searchers(job) PROVE Carries(s)'
    <3>1. Begin(s)' = Begin(s) /\ Carries(s)
      BY <2>1 DEF Begin, Restored, MaskedInv
    <3> QED
      BY <2>1, <3>1 DEF Carries, Nonces
  <2> QED
    BY <2>1, <2>2, <2>3 DEF MaskedInv, Plain
<1>2. CASE Next
  BY <1>2, MaskedSetJob, MaskedThrows, MaskedDispatch, MaskedLast, MaskedLeave, MaskedResume
  DEF Next
<1> QED
  BY <1>1, <1>2

\* It holds before any worker has the job.
LEMMA MaskedInit ==
    ASSUME Init, ~ Plain(job)
    PROVE  MaskedInv
<1>1. /\ job \in Jobs /\ start = job.nonce /\ phase = [s \in Searchers(job) |-> "idle"]
      /\ first = [s \in Searchers(job) |-> 0] /\ next = [s \in Searchers(job) |-> 0]
      /\ full = [s \in Searchers(job) |-> FALSE] /\ searched = [s \in Searchers(job) |-> {}]
      /\ resume = NoNonce /\ rounds = 1
  BY DEF Init
<1>2. Tables
  BY <1>1 DEF Tables
<1>3. Returns
  <2>1. job.nonce \in Nat
    BY <1>1, MaskedNumbers
  <2> QED
    BY <1>1, <2>1 DEF Returns, SamePrefix
<1>4. ASSUME NEW s \in Searchers(job) PROVE Carries(s)
  BY <1>1 DEF Carries, Owns
<1> QED
  BY <1>1, <1>2, <1>3, <1>4 DEF MaskedInv

\* What it says of the bits the pool protects.
LEMMA MaskedPrefix ==
    ASSUME MaskedInv
    PROVE  PrefixKept
<1> SUFFICES ASSUME NEW s \in Searchers(job), NEW n \in searched[s]
             PROVE  /\ n % job.unit = job.nonce % job.unit
                    /\ SamePrefix(job, n, Begin(s))
                    /\ MayLeave(s) \/ SamePrefix(job, n, Home)
  BY DEF PrefixKept
<1>1. /\ job \in Jobs /\ ~ Plain(job) /\ Returns /\ n \in Nonces
      /\ SamePrefix(job, Begin(s), n) /\ Owns(job, Begin(s), 0, searched[s])
  BY DEF MaskedInv, Carries
<1>2. /\ job.layout \in {"lanes", "rx"} /\ job.unit \in Nat \ {0} /\ job.span \in Nat \ {0}
      /\ job.span = Space \/ job.unit = 1
      /\ Stride(job) = (N * B) * job.unit /\ N * B \in Nat /\ Lane(job) = N * job.unit
      /\ N \in Nat /\ Offset(job, 0) = 0 /\ job.nonce \in Nonces /\ job.nonce \in Nat
  BY <1>1, MaskedNumbers
<1>3. Begin(s) \in Nat /\ Begin(s) % job.unit = job.nonce % job.unit
  BY <1>1, MaskedBegin
<1>4. n % job.unit = job.nonce % job.unit
  <2> DEFINE b == Begin(s)
             u == job.unit
             m == N * B
  <2>1. PICK k \in Nat, a \in 0 .. Count(job) - 1 : n = b + Ahead(job, 0, k) + a * Lane(job)
    BY <1>1 DEF Owns
  <2>2. a \in Nat
    BY <1>1, Numbers
  <2>3. Ahead(job, 0, k) = 0 + k * (m * u) /\ a * Lane(job) = a * (N * u)
    BY <1>2 DEF Ahead
  <2>4. b \in Nat /\ u \in Nat \ {0} /\ m \in Nat /\ N \in Nat
    BY <1>2, <1>3
  <2> DEFINE q == k * m + a * N
  <2> HIDE DEF b, u, m
  <2>5. q \in Nat
    BY <2>2, <2>4, Products
  <2>6. n = b + q * u
    BY <2>1, <2>2, <2>3, <2>4
  <2> HIDE DEF q
  <2>7. n % u = b % u
    BY <2>4, <2>5, <2>6, Remainder
  <2> QED
    BY <1>3, <2>7 DEF b, u
<1>5. CASE job.span = Space
  <2>1. Home = job.nonce
    BY <1>1, <1>2, <1>5, RestoredBits DEF Home
  <2>2. SamePrefix(job, n, job.nonce)
    BY <1>1, <1>2, <1>5, OnePrefix DEF Nonces
  <2> QED
    BY <1>1, <1>4, <2>1, <2>2 DEF SamePrefix
<1>6. CASE job.span # Space /\ ~ MayLeave(s)
  <2> DEFINE x == start + Offset(job, s)
  <2>1. job.unit = 1 /\ SamePrefix(job, start, x) /\ (job.xn \/ ~ (rounds > 1))
    BY <1>2, <1>6 DEF MayLeave
  <2>2. start \in Nat /\ x \in Nat
    BY <1>1, Numbers DEF Returns
  <2>3. SamePrefix(job, start, job.nonce)
    <3>1. CASE job.xn
      BY <1>1, <2>1, <3>1 DEF Returns
    <3>2. CASE ~ (rounds > 1)
      <4>1. rounds = 1
        BY <1>1, <3>2 DEF Returns
      <4> QED
        BY <1>1, <4>1 DEF Returns, SamePrefix
    <3> QED
      BY <2>1, <3>1, <3>2
  <2>4. SamePrefix(job, x, job.nonce)
    BY <2>1, <2>3 DEF SamePrefix
  <2>5. Begin(s) = Restored(x)
    BY DEF Begin
  <2> HIDE DEF x
  <2>6. SamePrefix(job, Begin(s), Home)
    BY <1>1, <1>2, <1>6, <2>2, <2>4, <2>5, RestoredPrefix DEF Home
  <2> QED
    BY <1>1, <1>4, <2>6 DEF SamePrefix
<1>7. CASE MayLeave(s)
  BY <1>1, <1>4, <1>7 DEF SamePrefix
<1> QED
  BY <1>5, <1>6, <1>7

-----------------------------------------------------------------------------
(* The theorems.                                                           *)

\* The invariant holds before any worker has the job.
LEMMA Initially ==
    ASSUME Init, Plain(job)
    PROVE  IInv
<1>1. /\ job \in Jobs /\ start = job.nonce /\ phase = [s \in Searchers(job) |-> "idle"]
      /\ first = [s \in Searchers(job) |-> 0] /\ next = [s \in Searchers(job) |-> 0]
      /\ full = [s \in Searchers(job) |-> FALSE] /\ searched = [s \in Searchers(job) |-> {}]
      /\ before = {} /\ resume = NoNonce /\ ended = FALSE /\ crossed = FALSE /\ rounds = 1
  BY DEF Init
<1>2. start \in Nonces /\ 0 \in Nonces /\ 1 \in 1 .. MaxRounds
  BY <1>1, Numbers, SearchAssumption DEF Nonces
<1>3. full \in [Searchers(job) -> BOOLEAN] /\ {ended, crossed} \subseteq BOOLEAN
  BY <1>1
<1>4. TypeOK
  BY <1>1, <1>2, <1>3 DEF TypeOK
<1>5. ASSUME NEW s \in Searchers(job) PROVE Progress(s)
  <2>1. phase[s] = "idle" /\ searched[s] = {}
    BY <1>1
  <2> QED
    BY <2>1 DEF Progress, Owns
<1>6. Resumable
  BY <1>1 DEF Resumable, SamePrefix
<1> QED
  BY <1>1, <1>4, <1>5, <1>6 DEF IInv

\* Every step keeps it.
LEMMA Inductive ==
    ASSUME IInv, [Next]_vars
    PROVE  IInv'
<1>1. CASE UNCHANGED vars
  <2>1. TypeOK'
    BY <1>1 DEF IInv, TypeOK, vars, Nonces
  <2>2. ASSUME NEW s \in Searchers(job) PROVE Progress(s)'
    BY <1>1, Facts, OtherProgress DEF vars
  <2>3. Resumable' /\ Plain(job)'
    BY <1>1 DEF IInv, Resumable, Past, vars
  <2> QED
    BY <1>1, <2>1, <2>2, <2>3 DEF IInv, vars
<1>2. CASE Next
  BY <1>2, SetJobStep, SetJobThrowsStep, DispatchStep, DispatchLastStep, LeaveStep, ResumeStep
  DEF Next
<1> QED
  BY <1>1, <1>2

\* The inductive invariant holds of every job whose searchers begin at the nonce
\* they compute.
THEOREM Invariant == Spec /\ Plain(job) => []IInv
<1>1. Init /\ Plain(job) => IInv
  BY Initially
<1>2. IInv /\ [Next]_vars => IInv'
  BY Inductive
<1> QED
  BY <1>1, <1>2, PTL DEF Spec

\* set_job, next_nonce_batch and the dispatch loop keep every counter within
\* the width of the nonce.
THEOREM TypeCorrect == Spec /\ Plain(job) => []TypeOK
<1>1. IInv => TypeOK
  BY DEF IInv
<1> QED
  BY <1>1, Invariant, PTL

\* No nonce is hashed twice between two set_job calls, for any number of workers
\* and any batch.
THEOREM NeverTwice == Spec /\ Plain(job) => []NoNonceTwice
<1>1. ASSUME IInv PROVE NoNonceTwice
  <2>1. ASSUME NEW s \in Searchers(job), NEW t \in Searchers(job), s # t
        PROVE  searched[s] \cap searched[t] = {}
    <3> SUFFICES ASSUME NEW n \in searched[s], n \in searched[t] PROVE FALSE
      OBVIOUS
    <3>1. Owns(job, start, s, searched[s]) /\ Owns(job, start, t, searched[t])
      BY <1>1, Facts DEF Progress
    <3>2. PICK k \in Nat, a \in 0 .. Count(job) - 1 :
             n = start + Ahead(job, s, k) + a * Lane(job)
      BY <3>1 DEF Owns
    <3>3. PICK l \in Nat, b \in 0 .. Count(job) - 1 :
             n = start + Ahead(job, t, l) + b * Lane(job)
      BY <3>1 DEF Owns
    <3>4. /\ start \in Int /\ Ahead(job, s, k) \in Int /\ Ahead(job, t, l) \in Int
          /\ a * Lane(job) \in Int /\ b * Lane(job) \in Int
      <4>1. start \in Int
        BY <1>1, Facts, SearchAssumption DEF Nonces
      <4>2. Ahead(job, s, k) \in Int /\ Ahead(job, t, l) \in Int
        <5>1. Ahead(job, s, k) \in Nat /\ Ahead(job, t, l) \in Nat
          BY <1>1, Facts, Batches
        <5> QED
          BY <5>1
      <4>3. a * Lane(job) \in Int /\ b * Lane(job) \in Int
        BY <1>1, Facts, Lanes
      <4> QED
        BY <4>1, <4>2, <4>3
    <3>5. Ahead(job, s, k) + a * Lane(job) = Ahead(job, t, l) + b * Lane(job)
      BY <3>2, <3>3, <3>4
    <3> QED
      BY <1>1, <2>1, <3>5, Facts, Apart
  <2>2. ASSUME NEW s \in Searchers(job), phase[s] = "search"
        PROVE  \A n \in searched[s] : n < first[s]
    BY <1>1, <2>2, Facts DEF Progress
  <2> QED
    BY <2>1, <2>2 DEF NoNonceTwice
<1> QED
  BY <1>1, Invariant, PTL

\* What a searcher hashed lies from `start' on.
LEMMA FromStart ==
    ASSUME IInv, NEW n \in Hashed
    PROVE  /\ n \in Nonces /\ start <= n /\ SamePrefix(job, start, n)
           /\ n % job.unit = job.nonce % job.unit
<1>1. PICK s \in Searchers(job) : n \in searched[s]
  BY DEF Hashed
<1>2. /\ n \in Nonces /\ SamePrefix(job, start, n) /\ Owns(job, start, s, searched[s])
  BY <1>1, Facts DEF Progress
<1>3. PICK k \in Nat, a \in 0 .. Count(job) - 1 : n = start + Ahead(job, s, k) + a * Lane(job)
  BY <1>1, <1>2 DEF Owns
<1>4. Ahead(job, s, k) \in Nat
  BY Facts, Batches
<1>5. a * Lane(job) \in Nat
  BY Facts, Lanes
<1>6. start \in Nat /\ n \in Nat
  BY <1>2, Facts, SearchAssumption DEF Nonces
<1>7. start <= n
  BY <1>3, <1>4, <1>5, <1>6
<1>8. start % job.unit = job.nonce % job.unit
  BY Facts DEF Resumable
<1>9. n % job.unit = start % job.unit
  <2>1. /\ N \in Nat \ {0} /\ job.unit \in Nat \ {0} /\ (job.layout # "seed" => job.unit = 1)
        /\ s \in Nat
    BY Facts, Numbers
  <2>2. CASE job.layout = "seed"
    <3>1. a = 0
      BY <2>2 DEF Count
    <3>2. Ahead(job, s, k) = (s + k * N) * job.unit
      BY <2>1, <2>2 DEF Ahead, Offset, Stride
    <3>3. s + k * N \in Nat
      BY <2>1
    <3>4. n = start + (s + k * N) * job.unit
      <4>1. Lane(job) \in Nat
        BY Facts, Numbers
      <4>2. a * Lane(job) = 0
        BY <3>1, <4>1
      <4>3. n = start + Ahead(job, s, k)
        BY <1>3, <1>4, <1>6, <4>2
      <4> QED
        BY <3>2, <4>3
    <3> DEFINE q == s + k * N
    <3>5. n = start + q * job.unit /\ q \in Nat
      BY <3>3, <3>4
    <3> HIDE DEF q
    <3> QED
      BY <1>6, <2>1, <3>5, Remainder
  <2>3. CASE job.layout # "seed"
    <3>1. n % 1 = 0 /\ start % 1 = 0
      BY <1>6
    <3> QED
      BY <2>1, <2>3, <3>1
  <2> QED
    BY <2>2, <2>3
<1> QED
  BY <1>2, <1>7, <1>8, <1>9

\* A searcher hashes in the prefix it begins in.
LEMMA BeginsIn ==
    ASSUME IInv, NEW s \in Searchers(job), NEW n \in searched[s]
    PROVE  SamePrefix(job, n, start + Offset(job, s))
<1>1. /\ n \in Nonces /\ SamePrefix(job, start, n) /\ Owns(job, start, s, searched[s])
      /\ job \in Jobs /\ start \in Nonces
  BY Facts DEF Progress
<1>2. PICK k \in Nat, a \in 0 .. Count(job) - 1 : n = start + Ahead(job, s, k) + a * Lane(job)
  BY <1>1 DEF Owns
<1>3. /\ Offset(job, s) \in Nat /\ Stride(job) \in Nat /\ job.span \in Nat \ {0}
      /\ start \in Nat /\ n \in Nat
  BY <1>1, Numbers, SearchAssumption DEF Nonces
<1>4. k * Stride(job) \in Nat /\ a * Lane(job) \in Nat
  BY <1>1, <1>3, Lanes, Products
<1>5. n = start + (Offset(job, s) + k * Stride(job)) + a * Lane(job)
  BY <1>2 DEF Ahead
<1> DEFINE x == k * Stride(job)
           y == a * Lane(job)
           b == start + Offset(job, s)
<1>6. x \in Nat /\ y \in Nat /\ n = start + (Offset(job, s) + x) + y
  BY <1>4, <1>5
<1> HIDE DEF x, y
<1>7. b \in Nat /\ start <= b /\ b <= n
  BY <1>3, <1>6
<1> HIDE DEF b
<1>8. SamePrefix(job, b, n)
  BY <1>1, <1>3, <1>7, PrefixBetween
<1> QED
  BY <1>8 DEF b, SamePrefix

\* A job that returns from the background hashes nothing again while no range
\* had ended, and at most the nonce it is sent with otherwise: handleLastNonce
\* keeps the greatest position, and every worker reports one past all it hashed.
THEOREM ResumedFresh == Spec /\ Plain(job) => []ResumeIsFresh
<1>1. ASSUME IInv PROVE ResumeIsFresh
  <2>1. ASSUME NEW n \in Hashed \cap before
        PROVE  n \in Nat /\ start \in Nat /\ start <= n /\ Past(n, start)
    <3>1. n \in Nonces /\ start <= n
      BY <1>1, <2>1, FromStart
    <3>2. Past(n, start)
      BY <1>1, <2>1, Facts DEF Resumable
    <3> QED
      BY <1>1, <3>1, <3>2, Facts, SearchAssumption DEF Nonces
  <2>2. ASSUME ~ ended, job.layout # "seed" PROVE Hashed \cap before = {}
    <3> SUFFICES ASSUME NEW n \in Hashed \cap before PROVE FALSE
      OBVIOUS
    <3>1. n \in Nat /\ start \in Nat /\ start <= n /\ Past(n, start)
      BY <2>1
    <3>2. n < start
      BY <2>2, <3>1 DEF Past
    <3> QED
      BY <3>1, <3>2
  <2>3. ASSUME job.layout \in {"lanes", "block"} PROVE Hashed \cap before \subseteq {start}
    <3> SUFFICES ASSUME NEW n \in Hashed \cap before PROVE n = start
      OBVIOUS
    <3>1. n \in Nat /\ start \in Nat /\ start <= n /\ Past(n, start)
      BY <2>1
    <3>2. n <= start \/ n = 0
      BY <2>3, <3>1 DEF Past
    <3> QED
      BY <3>1, <3>2
  <2> QED
    BY <2>2, <2>3 DEF ResumeIsFresh
<1> QED
  BY <1>1, Invariant, PTL

\* Every nonce hashed carries the bits the pool protects, for every job of every
\* layout, mask and extranonce and in every round, whatever throws or ends, but for
\* the searchers that MayLeave names, and those hash one prefix only.
THEOREM PrefixHeld == Spec => []PrefixKept
<1>1. ASSUME IInv PROVE PrefixKept
  <2> SUFFICES ASSUME NEW s \in Searchers(job), NEW n \in searched[s]
               PROVE  /\ n % job.unit = job.nonce % job.unit
                      /\ SamePrefix(job, n, Begin(s))
                      /\ MayLeave(s) \/ SamePrefix(job, n, Home)
    BY DEF PrefixKept
  <2>1. /\ n \in Nonces /\ SamePrefix(job, start, n) /\ n % job.unit = job.nonce % job.unit
    BY <1>1, FromStart DEF Hashed
  <2>2. Home = job.nonce /\ Begin(s) = start + Offset(job, s)
    BY <1>1, Facts DEF Home, Begin, Restored, Plain
  <2>3. SamePrefix(job, n, Begin(s))
    BY <1>1, <2>2, BeginsIn
  <2>4. CASE Tied(job) \/ rounds = 1
    <3>1. SamePrefix(job, start, job.nonce)
      BY <1>1, <2>4, Facts DEF Resumable, SamePrefix
    <3> QED
      BY <2>1, <2>2, <2>3, <3>1 DEF SamePrefix
  <2>5. CASE ~ Tied(job) /\ rounds # 1
    <3>1. rounds > 1
      BY <1>1, <2>5, Facts, SearchAssumption
    <3> QED
      BY <2>1, <2>3, <2>5, <3>1 DEF MayLeave, Tied
  <2> QED
    BY <2>4, <2>5
<1>2. Spec /\ Plain(job) => []PrefixKept
  BY <1>1, Invariant, PTL
<1>3. Init /\ ~ Plain(job) => MaskedInv
  BY MaskedInit
<1>4. MaskedInv /\ [Next]_vars => MaskedInv'
  BY MaskedInductive
<1>5. MaskedInv => PrefixKept
  BY MaskedPrefix
<1>6. Spec /\ ~ Plain(job) => []PrefixKept
  BY <1>3, <1>4, <1>5, PTL DEF Spec
<1> QED
  BY <1>2, <1>6, PTL

\* Nothing of the range is skipped but at most one stride at its end: the
\* searchers' parts leave no gap between them.
THEOREM RangeSearched == Spec /\ Plain(job) => []WholeRangeSearched
<1>1. ASSUME IInv PROVE WholeRangeSearched
  <2> SUFFICES ASSUME \A s \in Searchers(job) : phase[s] = "spent",
                      NEW n \in start .. Space - 1,
                      n % job.unit = start % job.unit, SamePrefix(job, n, start),
                      Fits(job, n, Stride(job))
               PROVE  n \in Hashed
    <3>1. Restored(start) = start
      BY <1>1, Facts DEF Restored, Plain
    <3> QED
      BY <3>1 DEF WholeRangeSearched
  <2>1. /\ job \in Jobs /\ Plain(job) /\ start \in Nonces /\ job.unit \in Nat \ {0}
        /\ job.span \in Nat \ {0} /\ Space \in Nat
        /\ Stride(job) \in Nat \ {0} /\ Spread(job) \in Nat
    BY <1>1, Facts, Numbers
  <2>2. start \in Nat /\ n \in Nat /\ start <= n
    BY <2>1 DEF Nonces
  <2>3. PICK q \in Nat : n = start + q * job.unit
    BY <2>1, <2>2, SameRemainder
  <2>4. PICK s \in Searchers(job), k \in Nat, a \in 0 .. Count(job) - 1 :
           q * job.unit = Ahead(job, s, k) + a * Lane(job)
    BY <2>1, Reached
  <2>5. Ahead(job, s, k) \in Nat
    BY <2>1, Batches
  <2>6. a * Lane(job) \in Nat /\ Spread(job) < Stride(job)
    BY <2>1, Lanes
  <2>7. n = start + Ahead(job, s, k) + a * Lane(job)
    BY <2>2, <2>3, <2>4, <2>5, <2>6
  <2> DEFINE r == start + Ahead(job, s, k) + Spread(job)
             z == n + Stride(job)
  <2>8. r \in Nat /\ z \in Nat /\ start <= r /\ r <= z
    BY <2>1, <2>2, <2>5, <2>6, <2>7
  <2>9. z < Space /\ SamePrefix(job, start, z)
    BY DEF Fits, SamePrefix
  <2> HIDE DEF r, z
  <2>10. SamePrefix(job, start, r) /\ r < Space
    BY <2>1, <2>2, <2>8, <2>9, PrefixBetween
  <2>11. Room(job, start, s, k)
    BY <2>10 DEF Room, r
  <2>12. n \in searched[s]
    BY <1>1, <2>7, <2>11, Facts DEF Progress
  <2> QED
    BY <2>12 DEF Hashed
<1> QED
  BY <1>1, Invariant, PTL
=============================================================================
