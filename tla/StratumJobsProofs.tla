------------------------- MODULE StratumJobsProofs -------------------------
(***************************************************************************)
(* The job a session mines is the one its pool announced last              *)
(* (StratumSession's LatestJobHeld), for any set of jobs and any bounds,   *)
(* in every handshake that keeps its protocol.                             *)
(*                                                                         *)
(* An announcement overtakes nothing, but it may be read before, or after, *)
(* the decision of the login that the pool took before it sent the job.    *)
(* The invariant therefore relates three things: what the pool has decided,*)
(* what of it is still in the stream, and what the session has read.  An   *)
(* announcement that does not decode is ignored, but read before the       *)
(* decision it displaces the job that waits for it (Overtaken).            *)
(***************************************************************************)
EXTENDS StratumSessionProofs

-----------------------------------------------------------------------------
(* The inductive invariant.                                                *)

\* The pool's answer to x decides the login.
Decides(x) == x.what \in {"login", "authorize"}

\* At most one request of the given kinds is in flight.
Alone(rs, w, kinds) ==
    /\ \A r, s \in rs : r.what \in kinds /\ s.what \in kinds => r = s
    /\ \A i, j \in DOMAIN w : w[i].what \in kinds /\ w[j].what \in kinds => i = j
    /\ \A r \in rs : \A i \in DOMAIN w : ~(r.what \in kinds /\ w[i].what \in kinds)

\* The decision is in the stream, or still to be taken.
Coming(w) == \E i \in DOMAIN w : Decides(w[i])
Undecided(rs, w) == (\E r \in rs : Decides(r)) \/ Coming(w)

\* The handshakes whose session takes no job before it has read the decision.
LoginFirst(d) == d \notin {"subscribe", "pearlhash", "ironfish"}

\* What is pending names what is in flight: the answer to x will be routed.
Flagged(x, p, d) ==
    /\ x.what = "authorize" => "authorize" \in p.pending
    /\ x.what = "login" => d \notin {"subscribe", "pearlhash"}
    /\ x.what = "login" /\ d = "cortex" => "login" \in p.pending
    /\ x.what = "work" => "work" \in p.pending /\ p.logged_in

\* Announcements, work and the answer to an object login carry a job.
Carries(m) ==
    /\ m.job # NoJob => m.what \in {"notify", "work", "login"}
    /\ m.what = "notify" => m.job # NoJob
    /\ m.what = "work" => (m.ok <=> m.job # NoJob)

\* A message of the stream: it will be routed, and it tells the decision.
Routed(m, p, d, g) ==
    Flagged(m, p, d) /\ Carries(m) /\ (Decides(m) => ~p.logged_in /\ (m.ok <=> g))

\* One login is decided once, and the session knows as much as it has read.
Handshaken(p, w, d, g) ==
    /\ Alone(p.requests, w, {"login", "authorize"})
    /\ Alone(p.requests, w, {"work"})
    /\ \A r \in p.requests : Flagged(r, p, d) /\ (Decides(r) => ~g)
    /\ \A i \in DOMAIN w : Routed(w[i], p, d, g)
    /\ g /\ ~p.logged_in => Coming(w)
    /\ "subscribe" \in p.pending =>
          ~g /\ "authorize" \notin p.pending /\ ~Undecided(p.requests, w)

\* The message carries a job that decodes, or throws.
Real(m) == m.job \notin {NoJob, Undecoded}

\* No job is in the stream; the last one in it is l; one follows the decision.
Jobless(w) == \A i \in DOMAIN w : ~Real(w[i])
Ends(w, l) ==
    \A i \in DOMAIN w :
       Real(w[i]) /\ (\A k \in DOMAIN w : k > i => ~Real(w[k])) => w[i].job = l
Follows(w) ==
    \A i \in DOMAIN w : Decides(w[i]) => \E k \in DOMAIN w : k >= i /\ Real(w[k])

\* What does not decode and will be read before the decision, and so displaces
\* the job that waits for it, is displaced in turn.
Overtaken(p, w) ==
    ~p.logged_in =>
       \A i \in DOMAIN w :
          w[i].job = Undecoded /\ (\A k \in DOMAIN w : Decides(w[k]) => k > i)
             => \E k \in DOMAIN w : k > i /\ Real(w[k])

\* The session mines l, or keeps it for the decision.
Holding(p, l) ==
    IF p.logged_in THEN p.last_job.job = l
    ELSE p.pending_job # NoJob /\ p.pending_job.job = l

\* The last job in the stream is the latest, and without one the session has it.
Following(p, w, d, g, l) ==
    /\ "subscribe" \in p.pending \/ (LoginFirst(d) /\ ~g) => l = NoJob
    /\ LoginFirst(d) /\ l # NoJob => Follows(w)
    /\ (g \/ Undecided(p.requests, w)) /\ l # NoJob =>
          Ends(w, l) /\ Overtaken(p, w) /\ (Jobless(w) => Holding(p, l))

\* A closed session knows nothing; an open one follows its pool.
Tells(p, w, d, g, l) ==
    /\ ~p.socket => ~g /\ l = NoJob
    /\ Handshaken(p, w, d, g)
    /\ Following(p, w, d, g, l)

\* As long as the pool answers once and the session keeps its protocol.
JInv == Keeps(dialect) /\ repeats = 0 => Tells(pool, wire, dialect, granted, latest)

-----------------------------------------------------------------------------
(* The stream.                                                             *)

\* A message read leaves the others behind it.
LEMMA TailIs ==
    ASSUME NEW w \in Seq(Messages), w # <<>>
    PROVE  /\ Head(w) = w[1] /\ 1 \in DOMAIN w /\ Tail(w) \in Seq(Messages)
           /\ \A i \in DOMAIN w : i \in Nat /\ (i = 1 \/ i - 1 \in DOMAIN Tail(w))
           /\ \A i \in DOMAIN Tail(w) : /\ i \in Nat /\ i > 0 /\ i + 1 \in DOMAIN w
                                        /\ Tail(w)[i] = w[i + 1]
<1>1. Len(w) \in Nat /\ Len(w) > 0 /\ DOMAIN w = 1..Len(w) /\ Head(w) = w[1]
  OBVIOUS
<1>2. Tail(w) \in Seq(Messages) /\ Len(Tail(w)) = Len(w) - 1
      /\ DOMAIN Tail(w) = 1..(Len(w) - 1)
  OBVIOUS
<1>3. \A i \in 1..(Len(w) - 1) : Tail(w)[i] = w[i + 1]
  OBVIOUS
<1> QED
  BY <1>1, <1>2, <1>3

\* A message sent comes behind the others.
LEMMA AppendIs ==
    ASSUME NEW w \in Seq(Messages), NEW e \in Messages
    PROVE  /\ Append(w, e) \in Seq(Messages)
           /\ Len(w) + 1 \in DOMAIN Append(w, e) /\ Append(w, e)[Len(w) + 1] = e
           /\ \A i \in DOMAIN w : /\ i \in Nat /\ i < Len(w) + 1 /\ i \in DOMAIN Append(w, e)
                                  /\ Append(w, e)[i] = w[i]
           /\ \A i \in DOMAIN Append(w, e) : i \in DOMAIN w \/ i = Len(w) + 1
<1>1. Len(w) \in Nat /\ DOMAIN w = 1..Len(w)
  OBVIOUS
<1>2. Append(w, e) \in Seq(Messages) /\ DOMAIN Append(w, e) = 1..(Len(w) + 1)
  OBVIOUS
<1>3. Append(w, e)[Len(w) + 1] = e /\ \A i \in 1..Len(w) : Append(w, e)[i] = w[i]
  OBVIOUS
<1> QED
  BY <1>1, <1>2, <1>3

\* What is left of the stream, and of its jobs, when the head is read.
LEMMA JobsTail ==
    ASSUME NEW w \in Seq(Messages), w # <<>>
    PROVE  /\ Jobless(w) <=> ~Real(Head(w)) /\ Jobless(Tail(w))
           /\ Follows(w) => Follows(Tail(w))
           /\ Follows(w) /\ Coming(Tail(w)) => ~Jobless(Tail(w))
           /\ Follows(w) /\ Decides(Head(w)) /\ ~Real(Head(w)) => ~Jobless(Tail(w))
           /\ Coming(w) <=> Decides(Head(w)) \/ Coming(Tail(w))
<1> DEFINE t == Tail(w)
<1>1. /\ Head(w) = w[1] /\ 1 \in DOMAIN w
      /\ \A i \in DOMAIN w : i \in Nat /\ (i = 1 \/ i - 1 \in DOMAIN t)
      /\ \A i \in DOMAIN t : i \in Nat /\ i > 0 /\ i + 1 \in DOMAIN w /\ t[i] = w[i + 1]
  BY TailIs
<1>2. \A i \in DOMAIN w : i # 1 => i - 1 \in DOMAIN t /\ t[i - 1] = w[i]
  BY <1>1
<1> HIDE DEF t
<1>3. Jobless(w) <=> ~Real(Head(w)) /\ Jobless(t)
  BY <1>1, <1>2 DEF Jobless
<1>4. Coming(w) <=> Decides(Head(w)) \/ Coming(t)
  BY <1>1, <1>2 DEF Coming
<1>5. ASSUME Follows(w), NEW i \in DOMAIN w, Decides(w[i]), i # 1 \/ ~Real(w[1])
      PROVE  \E k \in DOMAIN t : k >= i - 1 /\ Real(t[k])
  <2>1. PICK k \in DOMAIN w : k >= i /\ Real(w[k])
    BY <1>5 DEF Follows
  <2>2. k # 1 /\ k \in Nat /\ i \in Nat
    BY <1>1, <1>5, <2>1
  <2>3. k - 1 \in DOMAIN t /\ t[k - 1] = w[k] /\ k - 1 >= i - 1
    BY <1>2, <2>1, <2>2
  <2> QED
    BY <2>1, <2>3
<1>6. Follows(w) => Follows(t)
  <2> SUFFICES ASSUME Follows(w), NEW i \in DOMAIN t, Decides(t[i])
               PROVE  \E k \in DOMAIN t : k >= i /\ Real(t[k])
    BY DEF Follows
  <2>1. i + 1 \in DOMAIN w /\ i + 1 # 1 /\ Decides(w[i + 1]) /\ (i + 1) - 1 = i
    BY <1>1
  <2> QED
    BY <1>5, <2>1
<1>7. Follows(w) /\ Coming(t) => ~Jobless(t)
  BY <1>6 DEF Follows, Coming, Jobless
<1>8. Follows(w) /\ Decides(Head(w)) /\ ~Real(Head(w)) => ~Jobless(t)
  BY <1>1, <1>5 DEF Jobless
<1> QED
  BY <1>3, <1>4, <1>6, <1>7, <1>8 DEF t

\* The last job stays the last until it is read.
LEMMA EndsTail ==
    ASSUME NEW w \in Seq(Messages), w # <<>>, NEW l, Ends(w, l)
    PROVE  /\ Ends(Tail(w), l)
           /\ Real(Head(w)) /\ Jobless(Tail(w)) => Head(w).job = l
<1> DEFINE t == Tail(w)
<1>1. /\ Head(w) = w[1] /\ 1 \in DOMAIN w
      /\ \A i \in DOMAIN w : i \in Nat /\ (i = 1 \/ i - 1 \in DOMAIN t)
      /\ \A i \in DOMAIN t : i \in Nat /\ i > 0 /\ i + 1 \in DOMAIN w /\ t[i] = w[i + 1]
  BY TailIs
<1>2. \A i \in DOMAIN w : i # 1 => i - 1 \in DOMAIN t /\ t[i - 1] = w[i]
  BY <1>1
<1> HIDE DEF t
<1>3. ASSUME NEW i \in DOMAIN t, Real(t[i]),
             \A k \in DOMAIN t : k > i => ~Real(t[k])
      PROVE  t[i].job = l
  <2>1. i \in Nat /\ i > 0 /\ i + 1 \in DOMAIN w /\ t[i] = w[i + 1]
    BY <1>1
  <2>2. ASSUME NEW k \in DOMAIN w, k > i + 1 PROVE ~Real(w[k])
    <3>1. k \in Nat /\ k # 1 /\ k - 1 > i
      BY <1>1, <2>1, <2>2
    <3> QED
      BY <1>2, <1>3, <3>1
  <2> QED
    BY <1>3, <2>1, <2>2 DEF Ends
<1>4. ASSUME Real(Head(w)), Jobless(t) PROVE Head(w).job = l
  <2>1. ASSUME NEW k \in DOMAIN w, k > 1 PROVE ~Real(w[k])
    <3>1. k # 1
      BY <2>1
    <3>2. k - 1 \in DOMAIN t /\ t[k - 1] = w[k]
      BY <1>2, <3>1
    <3> QED
      BY <1>4, <3>2 DEF Jobless
  <2> QED
    BY <1>1, <1>4, <2>1 DEF Ends
<1> QED
  BY <1>3, <1>4 DEF Ends, t

\* The jobs of the stream when the pool sends one message more.
LEMMA JobsAppend ==
    ASSUME NEW w \in Seq(Messages), NEW e \in Messages
    PROVE  /\ Jobless(Append(w, e)) <=> Jobless(w) /\ ~Real(e)
           /\ Real(e) => Ends(Append(w, e), e.job) /\ Follows(Append(w, e))
           /\ ~Real(e) /\ ~Decides(e) /\ Follows(w) => Follows(Append(w, e))
           /\ Coming(Append(w, e)) <=> Coming(w) \/ Decides(e)
<1> DEFINE a == Append(w, e)
           n == Len(w) + 1
<1>1. /\ n \in DOMAIN a /\ a[n] = e
      /\ \A i \in DOMAIN w : i \in Nat /\ i < n /\ i \in DOMAIN a /\ a[i] = w[i]
      /\ \A i \in DOMAIN a : i \in DOMAIN w \/ i = n
  BY AppendIs
<1>2. n \in Nat
  OBVIOUS
<1> HIDE DEF a, n
<1>3. Jobless(a) <=> Jobless(w) /\ ~Real(e)
  BY <1>1 DEF Jobless
<1>4. Coming(a) <=> Coming(w) \/ Decides(e)
  BY <1>1 DEF Coming
<1>5. ASSUME Real(e) PROVE Ends(a, e.job) /\ Follows(a)
  <2>1. \A i \in DOMAIN a : i # n => n > i
    BY <1>1, <1>2
  <2>2. \A i \in DOMAIN a : n >= i
    BY <1>1, <1>2
  <2> QED
    BY <1>1, <1>5, <2>1, <2>2 DEF Ends, Follows
<1>6. ~Real(e) /\ ~Decides(e) /\ Follows(w) => Follows(a)
  BY <1>1 DEF Follows
<1> QED
  BY <1>3, <1>4, <1>5, <1>6 DEF a

\* A message without a job leaves the last job the last.
LEMMA EndsAppend ==
    ASSUME NEW w \in Seq(Messages), NEW e \in Messages, NEW l, Ends(w, l), ~Real(e)
    PROVE  Ends(Append(w, e), l)
<1> DEFINE a == Append(w, e)
           n == Len(w) + 1
<1>1. /\ n \in DOMAIN a /\ a[n] = e
      /\ \A i \in DOMAIN w : i \in Nat /\ i < n /\ i \in DOMAIN a /\ a[i] = w[i]
      /\ \A i \in DOMAIN a : i \in DOMAIN w \/ i = n
  BY AppendIs
<1> HIDE DEF a, n
<1> QED
  BY <1>1 DEF Ends, a

\* Unless the head decides, what it leaves is overtaken as before; and the head
\* itself, if it displaces the job that waits.
LEMMA OvertakenTail ==
    ASSUME NEW w \in Seq(Messages), w # <<>>, NEW p, NEW q, Overtaken(p, w),
           ~Decides(Head(w)), q.logged_in = p.logged_in
    PROVE  /\ Overtaken(q, Tail(w))
           /\ ~p.logged_in /\ Head(w).job = Undecoded => ~Jobless(Tail(w))
<1> DEFINE t == Tail(w)
<1>1. /\ Head(w) = w[1] /\ 1 \in DOMAIN w
      /\ \A i \in DOMAIN w : i \in Nat /\ (i = 1 \/ i - 1 \in DOMAIN t)
      /\ \A i \in DOMAIN t : i \in Nat /\ i > 0 /\ i + 1 \in DOMAIN w /\ t[i] = w[i + 1]
  BY TailIs
<1>2. \A i \in DOMAIN w : i # 1 => i - 1 \in DOMAIN t /\ t[i - 1] = w[i]
  BY <1>1
<1> HIDE DEF t
<1>3. ASSUME ~p.logged_in, NEW i \in DOMAIN w, w[i].job = Undecoded,
             \A k \in DOMAIN t : Decides(t[k]) => k > i - 1
      PROVE  \E k \in DOMAIN t : k > i - 1 /\ Real(t[k])
  <2>1. ASSUME NEW k \in DOMAIN w, Decides(w[k]) PROVE k > i
    <3>1. k # 1
      BY <1>1, <2>1
    <3>2. k - 1 \in DOMAIN t /\ Decides(t[k - 1]) /\ k \in Nat /\ i \in Nat
      BY <1>1, <1>2, <2>1, <3>1
    <3>3. k - 1 > i - 1
      BY <1>3, <3>2
    <3> QED
      BY <3>2, <3>3
  <2>2. PICK k \in DOMAIN w : k > i /\ Real(w[k])
    BY <1>3, <2>1 DEF Overtaken
  <2>3. k # 1 /\ k \in Nat /\ i \in Nat
    BY <1>1, <2>2
  <2>4. k - 1 \in DOMAIN t /\ t[k - 1] = w[k] /\ k - 1 > i - 1
    BY <1>2, <2>2, <2>3
  <2> QED
    BY <2>2, <2>4
<1>4. Overtaken(q, t)
  <2> SUFFICES ASSUME ~q.logged_in, NEW i \in DOMAIN t, t[i].job = Undecoded,
                      \A k \in DOMAIN t : Decides(t[k]) => k > i
               PROVE  \E k \in DOMAIN t : k > i /\ Real(t[k])
    BY DEF Overtaken
  <2>1. i + 1 \in DOMAIN w /\ t[i] = w[i + 1] /\ (i + 1) - 1 = i
    BY <1>1
  <2> QED
    BY <1>3, <2>1
<1>5. ASSUME ~p.logged_in, Head(w).job = Undecoded PROVE ~Jobless(t)
  <2>1. \A k \in DOMAIN t : k > 1 - 1
    BY <1>1
  <2>2. \E k \in DOMAIN t : k > 1 - 1 /\ Real(t[k])
    BY <1>1, <1>3, <1>5, <2>1
  <2> QED
    BY <2>2 DEF Jobless
<1> QED
  BY <1>4, <1>5 DEF t

\* A message that decodes overtakes all, and one that carries no job, or comes
\* behind the decision, leaves them overtaken.
LEMMA OvertakenAppend ==
    ASSUME NEW w \in Seq(Messages), NEW e \in Messages, NEW p, NEW q,
           \/ Real(e)
           \/ /\ Overtaken(p, w) /\ q.logged_in = p.logged_in
              /\ \/ e.job # Undecoded /\ (Decides(e) => ~Coming(w))
                 \/ e.job = Undecoded /\ (p.logged_in \/ Coming(w)) /\ ~Decides(e)
    PROVE  Overtaken(q, Append(w, e))
<1> DEFINE a == Append(w, e)
           n == Len(w) + 1
<1>1. /\ n \in DOMAIN a /\ a[n] = e
      /\ \A i \in DOMAIN w : i \in Nat /\ i < n /\ i \in DOMAIN a /\ a[i] = w[i]
      /\ \A i \in DOMAIN a : i \in DOMAIN w \/ i = n
  BY AppendIs
<1>2. n \in Nat
  OBVIOUS
<1> HIDE DEF a, n
<1> SUFFICES ASSUME ~q.logged_in, NEW i \in DOMAIN a, a[i].job = Undecoded,
                    \A k \in DOMAIN a : Decides(a[k]) => k > i
             PROVE  \E k \in DOMAIN a : k > i /\ Real(a[k])
  BY DEF Overtaken, a
<1>3. CASE i = n
  <2>1. e.job = Undecoded /\ ~Real(e)
    BY <1>1, <1>3 DEF Real
  <2>2. Coming(w)
    BY <2>1
  <2>3. PICK k \in DOMAIN w : Decides(w[k])
    BY <2>2 DEF Coming
  <2>4. k > n /\ k < n /\ k \in Nat
    BY <1>1, <1>3, <2>3
  <2> QED
    BY <1>2, <2>4
<1>4. CASE i \in DOMAIN w /\ Real(e)
  BY <1>1, <1>2, <1>4
<1>5. CASE i \in DOMAIN w /\ ~Real(e)
  <2>1. \A k \in DOMAIN w : Decides(w[k]) => k > i
    BY <1>1
  <2>2. \E k \in DOMAIN w : k > i /\ Real(w[k])
    BY <1>1, <1>5, <2>1 DEF Overtaken
  <2> QED
    BY <1>1, <2>2
<1> QED
  BY <1>1, <1>3, <1>4, <1>5

\* Reading a message puts nothing in flight, and ends what was alone.
LEMMA AloneTail ==
    ASSUME NEW rs, NEW w \in Seq(Messages), w # <<>>, NEW kinds, Alone(rs, w, kinds)
    PROVE  /\ Alone(rs, Tail(w), kinds)
           /\ Head(w).what \in kinds => /\ \A r \in rs : r.what \notin kinds
                                        /\ \A i \in DOMAIN Tail(w) : Tail(w)[i].what \notin kinds
<1> DEFINE t == Tail(w)
<1>1. /\ Head(w) = w[1] /\ 1 \in DOMAIN w
      /\ \A i \in DOMAIN t : i \in Nat /\ i > 0 /\ i + 1 \in DOMAIN w /\ t[i] = w[i + 1]
  BY TailIs
<1> HIDE DEF t
<1>2. ASSUME NEW i \in DOMAIN t, NEW j \in DOMAIN t, t[i].what \in kinds, t[j].what \in kinds
      PROVE  i = j
  <2>1. i + 1 = j + 1
    BY <1>1, <1>2 DEF Alone
  <2> QED
    BY <1>1, <2>1
<1>3. ASSUME NEW i \in DOMAIN t, w[1].what \in kinds PROVE t[i].what \notin kinds
  <2>1. i + 1 # 1 /\ i + 1 \in DOMAIN w /\ t[i] = w[i + 1]
    BY <1>1
  <2> QED
    BY <1>1, <1>3, <2>1 DEF Alone
<1>4. Alone(rs, t, kinds)
  BY <1>1, <1>2 DEF Alone
<1>5. w[1].what \in kinds => \A r \in rs : r.what \notin kinds
  BY <1>1 DEF Alone
<1> QED
  BY <1>1, <1>3, <1>4, <1>5 DEF t

\* A request of a kind that is not in flight is alone of its kind.
LEMMA AloneWrite ==
    ASSUME NEW rs, NEW w, NEW kinds, NEW r, Alone(rs, w, kinds),
           \/ r.what \notin kinds
           \/ /\ \A s \in rs : s.what \notin kinds
              /\ \A i \in DOMAIN w : w[i].what \notin kinds
    PROVE  Alone(rs \cup {r}, w, kinds)
BY DEF Alone

\* The answer to a request takes its place.
LEMMA AloneAnswer ==
    ASSUME NEW rs, NEW w \in Seq(Messages), NEW kinds, NEW r \in rs, Alone(rs, w, kinds),
           NEW e \in Messages, e.what = r.what
    PROVE  Alone(rs \ {r}, Append(w, e), kinds)
<1> DEFINE a == Append(w, e)
           n == Len(w) + 1
<1>1. /\ n \in DOMAIN a /\ a[n] = e
      /\ \A i \in DOMAIN w : i \in Nat /\ i < n /\ i \in DOMAIN a /\ a[i] = w[i]
      /\ \A i \in DOMAIN a : i \in DOMAIN w \/ i = n
  BY AppendIs
<1> HIDE DEF a, n
<1> QED
  BY <1>1 DEF Alone, a

\* A message of another kind leaves it alone.
LEMMA AloneAppend ==
    ASSUME NEW rs, NEW w \in Seq(Messages), NEW kinds, Alone(rs, w, kinds),
           NEW e \in Messages, e.what \notin kinds
    PROVE  Alone(rs, Append(w, e), kinds)
<1> DEFINE a == Append(w, e)
           n == Len(w) + 1
<1>1. /\ n \in DOMAIN a /\ a[n] = e
      /\ \A i \in DOMAIN w : i \in Nat /\ i < n /\ i \in DOMAIN a /\ a[i] = w[i]
      /\ \A i \in DOMAIN a : i \in DOMAIN w \/ i = n
  BY AppendIs
<1> HIDE DEF a, n
<1> QED
  BY <1>1 DEF Alone, a

-----------------------------------------------------------------------------
(* What the session does with a message of each kind.                      *)

\* An open session and the message it reads.
Facing(p, m) ==
    /\ p \in PoolConfig /\ p.socket = TRUE /\ p.protocol = dialect
    /\ Standing(p, dialect, granted) /\ dialect \in Dialects
    /\ m \in Messages /\ Sent(m, dialect, granted)
    /\ m.mode = SubmitMode(dialect) /\ m.family = dialect
    /\ Routed(m, p, dialect, granted)

\* The session's part in the handshake and its jobs are as before.
Same(p, q) ==
    /\ q.socket = p.socket /\ q.logged_in = p.logged_in /\ q.pending = p.pending
    /\ q.pending_job = p.pending_job /\ q.last_job = p.last_job /\ q.requests = p.requests

\* The configuration chooses one of seven handshakes.
LEMMA DialectsAre ==
    ASSUME dialect \in Dialects
    PROVE  dialect \in {"login", "subscribe", "pearlhash", "cortex", "ironfish", "beam", "conflux"}
BY SessionAssumption

\* The answer to a share concerns its count and the totals only.
LEMMA ShareRead ==
    ASSUME NEW p, NEW m, Facing(p, m), m.what = "share"
    PROVE  Same(p, pool_message(p, m))
<1>1. p \in PoolConfig /\ m \in Messages /\ p.protocol = dialect /\ m.mode = SubmitMode(dialect)
  BY DEF Facing
<1>2. ASSUME NEW q \in PoolConfig, Same(p, q) PROVE Same(p, handleShareResponse(q, m))
  BY <1>2 DEF handleShareResponse, Same, PoolConfig
<1>3. pool_message(p, m) = handlePoolAnswer(p, m)
  BY DEF pool_message
<1>4. Same(p, p)
  BY DEF Same
<1>5. CASE dialect = "beam"
  <2>1. handlePoolAnswer(p, m) = handleShareResponse(p, m)
    BY <1>1, <1>5 DEF handlePoolAnswer, handleBeamResult, SubmitMode
  <2> QED
    BY <1>1, <1>2, <1>3, <1>4, <2>1
<1>6. CASE dialect = "ironfish"
  <2>1. handlePoolAnswer(p, m) = handleShareResponse(p, m)
    BY <1>1, <1>6 DEF handlePoolAnswer, handleIronfishMessage, SubmitMode
  <2> QED
    BY <1>1, <1>2, <1>3, <1>4, <2>1
<1>7. CASE dialect \notin {"beam", "ironfish"}
  <2>1. handlePoolAnswer(p, m) = poolResponseHandler(p, m)
    BY <1>1, <1>7 DEF handlePoolAnswer, handlePoolResponse, SubmitMode
  <2>2. CASE dialect = "cortex"
    <3>1. m.id \notin {CortexLoginId, WorkId}
      BY <1>1, <2>2 DEF Facing, Sent, Asked, ShareRequest, SubmitMode, Messages, CortexLoginId
    <3> DEFINE q == [p EXCEPT !.pending_cortex_submit_ids = @ \ {m.id}]
    <3>2. q \in PoolConfig /\ Same(p, q)
      BY <1>1 DEF PoolConfig, Same
    <3>3. poolResponseHandler(p, m) \in {p, handleShareResponse(q, m)}
      BY <1>1, <2>2, <3>1 DEF poolResponseHandler
    <3> HIDE DEF q
    <3> QED
      BY <1>2, <1>3, <1>4, <2>1, <3>2, <3>3
  <2>3. CASE dialect # "cortex"
    <3>1. m.id = 3
      BY <1>1, <1>7, <2>3 DEF Facing, Sent, Asked, ShareRequest, SubmitMode, SubmitId
    <3> DEFINE q == [p EXCEPT !.pending_submit_count = @ - 1]
    <3>2. q \in PoolConfig /\ Same(p, q)
      BY <1>1 DEF PoolConfig, Same
    <3>3. poolResponseHandler(p, m) \in {p, handleShareResponse(q, m)}
      BY <1>1, <1>7, <2>3, <3>1 DEF poolResponseHandler, SubmitId
    <3> HIDE DEF q
    <3> QED
      BY <1>2, <1>3, <1>4, <2>1, <3>2, <3>3
  <2> QED
    BY <2>2, <2>3
<1> QED
  BY <1>5, <1>6, <1>7

\* A decoded job becomes the session's, and nothing else changes.
Takes(p, job, q) ==
    /\ q.socket = p.socket /\ q.logged_in = p.logged_in /\ q.pending = p.pending
    /\ q.pending_job = p.pending_job /\ q.last_job.job = job /\ q.requests = p.requests

\* handlePoolJob stores a job or closes the connection.
LEMMA JobTaken ==
    ASSUME NEW p \in PoolConfig, NEW job, NEW mode
    PROVE  handlePoolJob(p, job, mode) = Cleared(p) \/ Takes(p, job, handlePoolJob(p, job, mode))
BY DEF handlePoolJob, Takes, PoolConfig

\* A message that carries a job is either one that decodes or not.
LEMMA JobIs ==
    ASSUME NEW p \in PoolConfig, NEW m, m.job # NoJob, NEW mode
    PROVE  LET q == takeJob(p, m.job, mode)
           IN  \/ q = Cleared(p)
               \/ Real(m) /\ Takes(p, m.job, q)
               \/ ~Real(m) /\ Same(p, q)
<1>1. CASE m.job = Undecoded
  <2>1. takeJob(p, m.job, mode) = p
    BY <1>1 DEF takeJob
  <2> QED
    BY <1>1, <2>1 DEF Real, Same
<1>2. CASE m.job # Undecoded
  <2>1. takeJob(p, m.job, mode) = handlePoolJob(p, m.job, mode)
    BY <1>2 DEF takeJob
  <2> QED
    BY <1>2, <2>1, JobTaken DEF Real
<1> QED
  BY <1>1, <1>2

\* An announcement is the job of a session that has its login, if it decodes, is
\* kept by one that waits for it, and is dropped by any other.
LEMMA NotifyRead ==
    ASSUME NEW p, NEW m, Facing(p, m), m.what = "notify"
    PROVE  LET q == pool_message(p, m)
               waits == "authorize" \in p.pending \/ dialect = "ironfish"
           IN  \/ q = Cleared(p)
               \/ p.logged_in /\ Real(m) /\ Takes(p, m.job, q)
               \/ p.logged_in /\ ~Real(m) /\ Same(p, q)
               \/ /\ ~p.logged_in /\ waits
                  /\ q.socket = p.socket /\ q.logged_in = p.logged_in /\ q.pending = p.pending
                  /\ q.pending_job = m /\ q.requests = p.requests
               \/ ~p.logged_in /\ ~waits /\ Same(p, q)
<1>1. /\ p \in PoolConfig /\ p.protocol = dialect /\ m.family = dialect
      /\ m.mode = SubmitMode(dialect)
  BY DEF Facing
<1>2. "authorize" \in p.pending => dialect \in {"subscribe", "pearlhash"}
  BY DEF Facing, Standing
<1>3. rememberPoolProtocol(p, m) = p
  BY <1>1 DEF rememberPoolProtocol, PoolConfig
<1>4. pool_message(p, m) = JobAnnouncement(p, m)
  BY <1>3 DEF pool_message
<1>5. CASE p.logged_in
  <2>1. m.mode \in {"id", p.protocol}
    BY <1>1 DEF SubmitMode
  <2>2. JobAnnouncement(p, m) = takeJob(p, m.job, m.mode)
    BY <1>5, <2>1 DEF JobAnnouncement
  <2>3. m.job # NoJob
    BY DEF Facing, Routed, Carries
  <2>4. LET q == takeJob(p, m.job, m.mode)
        IN  \/ q = Cleared(p)
            \/ Real(m) /\ Takes(p, m.job, q)
            \/ ~Real(m) /\ Same(p, q)
    BY <1>1, <2>3, JobIs
  <2> QED
    BY <1>4, <1>5, <2>2, <2>4
<1>6. CASE ~p.logged_in /\ ("authorize" \in p.pending \/ dialect = "ironfish")
  <2>1. m.mode # "cortex"
    BY <1>1, <1>2, <1>6 DEF SubmitMode
  <2>2. JobAnnouncement(p, m) = [p EXCEPT !.pending_job = m]
    BY <1>1, <1>6, <2>1 DEF JobAnnouncement
  <2> QED
    BY <1>1, <1>4, <1>6, <2>2 DEF PoolConfig
<1>7. CASE ~p.logged_in /\ ~("authorize" \in p.pending \/ dialect = "ironfish")
  <2>1. JobAnnouncement(p, m) = p
    BY <1>1, <1>7 DEF JobAnnouncement
  <2> QED
    BY <1>4, <1>7, <2>1 DEF Same
<1> QED
  BY <1>5, <1>6, <1>7

\* Work is taken if it is a job; either way it is no longer pending.
LEMMA WorkRead ==
    ASSUME NEW p, NEW m, Facing(p, m), m.what = "work"
    PROVE  LET q == pool_message(p, m)
           IN  \/ q = Cleared(p)
               \/ /\ q.socket = p.socket /\ q.logged_in = p.logged_in
                  /\ q.pending = p.pending \ {"work"} /\ q.requests = p.requests
                  /\ q.last_job.job = IF Real(m) THEN m.job ELSE p.last_job.job
<1> DEFINE q == [p EXCEPT !.pending = @ \ {"work"}]
<1>1. /\ p \in PoolConfig /\ p.protocol = dialect /\ dialect = "cortex" /\ m.mode = "cortex"
      /\ "work" \in p.pending /\ p.logged_in /\ m.id = WorkId /\ (m.ok <=> m.job # NoJob)
  BY DEF Facing, Sent, Asked, Routed, Flagged, Carries, SubmitMode
<1>2. /\ q \in PoolConfig /\ q.socket = p.socket /\ q.logged_in = p.logged_in
      /\ q.pending = p.pending \ {"work"} /\ q.requests = p.requests /\ q.last_job = p.last_job
      /\ Cleared(q) = Cleared(p)
  BY <1>1 DEF PoolConfig, Cleared
<1>r. Real(m) <=> m.ok /\ m.job # Undecoded
  BY <1>1 DEF Real
<1>3. CASE m.ok /\ m.job # Undecoded
  <2>1. pool_message(p, m) = handlePoolJob(q, m.job, "cortex")
    BY <1>1, <1>3 DEF pool_message
  <2> HIDE DEF q
  <2>2. \/ handlePoolJob(q, m.job, "cortex") = Cleared(q)
        \/ Takes(q, m.job, handlePoolJob(q, m.job, "cortex"))
    BY <1>2, JobTaken
  <2> QED
    BY <1>1, <1>2, <1>3, <1>r, <2>1, <2>2 DEF Takes
<1>4. CASE ~(m.ok /\ m.job # Undecoded)
  <2>1. WorkId # CortexLoginId
    BY SessionAssumption DEF CortexLoginId
  <2>2. pool_message(p, m) = poolResponseHandler(p, m)
    BY <1>1, <1>4 DEF pool_message, handlePoolAnswer, handlePoolResponse
  <2>3. poolResponseHandler(p, m) = q
    BY <1>1, <2>1 DEF poolResponseHandler
  <2> HIDE DEF q
  <2> QED
    BY <1>1, <1>2, <1>4, <1>r, <2>2, <2>3
<1> QED
  BY <1>3, <1>4

\* The answer to the subscription has the login authorized, if it is awaited.
LEMMA SubscribeRead ==
    ASSUME NEW p, NEW m, Facing(p, m), m.what = "subscribe",
           "subscribe" \in p.pending => ~p.logged_in
    PROVE  LET q == pool_message(p, m)
           IN  \/ Same(p, q)
               \/ /\ "subscribe" \in p.pending /\ m.ok
                  /\ q.socket = p.socket /\ q.logged_in = p.logged_in
                  /\ q.pending = (p.pending \ {"subscribe"}) \cup {"authorize"}
                  /\ q.requests = p.requests \cup {Request("authorize", 2)}
               \/ /\ "subscribe" \in p.pending
                  /\ q.socket = p.socket /\ q.logged_in = p.logged_in
                  /\ q.pending = p.pending \ {"subscribe"} /\ q.requests = p.requests
<1>1. /\ p \in PoolConfig /\ p.protocol = dialect /\ m \in Messages
      /\ dialect \in {"subscribe", "pearlhash"} /\ m.mode = "id" /\ m.id = 1
      /\ p.socket = TRUE
  BY DEF Facing, Sent, Asked, SubmitMode
<1>2. pool_message(p, m) = poolResponseHandler(p, m)
  BY <1>1 DEF pool_message, handlePoolAnswer, handlePoolResponse
<1>3. CASE "subscribe" \notin p.pending
  <2>1. poolResponseHandler(p, m) = p
    BY <1>1, <1>3 DEF poolResponseHandler, SubmitId
  <2> QED
    BY <1>2, <2>1 DEF Same
<1>4. CASE "subscribe" \in p.pending
  <2> DEFINE q == [p EXCEPT !.pending = @ \ {"subscribe"}]
             a == [q EXCEPT !.pending = @ \cup {"authorize"}]
             r == Request("authorize", 2)
  <2>1. poolResponseHandler(p, m) = handleSubscribeResponse(p, m)
    BY <1>1, <1>4 DEF poolResponseHandler, SubmitId
  <2>2. /\ q \in PoolConfig /\ q.socket = TRUE /\ q.logged_in = p.logged_in
        /\ q.pending = p.pending \ {"subscribe"} /\ q.requests = p.requests
    BY <1>1 DEF PoolConfig
  <2>3. handleSubscribeResponse(p, m) = IF m.ok THEN pool_write(a, r)
                                        ELSE [q EXCEPT !.pending_job = NoJob]
    BY <1>4, <2>2 DEF handleSubscribeResponse
  <2> HIDE DEF q
  <2>4. /\ a.socket = TRUE /\ a.logged_in = p.logged_in /\ a.requests = p.requests
        /\ a.pending = (p.pending \ {"subscribe"}) \cup {"authorize"}
        /\ a \in PoolConfig
    BY <2>2 DEF PoolConfig
  <2> HIDE DEF a
  <2>5. CASE m.ok
    <3>1. handleSubscribeResponse(p, m) =
             [a EXCEPT !.requests = @ \cup {r}, !.pending_submit_count = @]
      BY <2>3, <2>4, <2>5 DEF pool_write, Request
    <3>r. r = Request("authorize", 2)
      OBVIOUS
    <3> HIDE DEF r
    <3> DEFINE s == [a EXCEPT !.requests = @ \cup {r}, !.pending_submit_count = @]
    <3>2. /\ s.socket = a.socket /\ s.logged_in = a.logged_in
          /\ s.pending = a.pending /\ s.requests = a.requests \cup {r}
      BY <2>4 DEF PoolConfig
    <3>3. pool_message(p, m) = s
      BY <1>2, <2>1, <3>1
    <3> HIDE DEF s
    <3> QED
      BY <1>1, <1>4, <2>4, <2>5, <3>2, <3>3, <3>r
  <2>6. CASE ~m.ok
    BY <1>1, <1>2, <1>4, <2>1, <2>2, <2>3, <2>6 DEF PoolConfig
  <2> QED
    BY <2>5, <2>6
<1> QED
  BY <1>3, <1>4

\* The job that waited is the session's once the login is accepted.
Accepts(p, q) ==
    /\ q.socket = p.socket /\ q.logged_in /\ q.requests = p.requests
    /\ p.pending_job # NoJob /\ Real(p.pending_job) => q.last_job.job = p.pending_job.job

\* AcceptPending keeps the login's flags and takes the job that waited.
LEMMA PendingTaken ==
    ASSUME NEW p \in PoolConfig
    PROVE  LET q == AcceptPending(p)
           IN  q = Cleared(p) \/ (Accepts(p, q) /\ q.pending = p.pending)
<1> DEFINE j == p.pending_job
           a == [p EXCEPT !.logged_in = TRUE, !.pending_job = NoJob]
<1>1. /\ a \in PoolConfig /\ a.socket = p.socket /\ a.logged_in /\ a.pending = p.pending
      /\ a.requests = p.requests /\ Cleared(a) = Cleared(p)
  BY DEF PoolConfig, Cleared
<1>2. AcceptPending(p) = IF p.pending_job = NoJob THEN a
                         ELSE takeJob(a, j.job, j.mode)
  BY DEF AcceptPending
<1>j. j = p.pending_job
  OBVIOUS
<1> HIDE DEF a, j
<1>3. CASE p.pending_job = NoJob
  BY <1>1, <1>2, <1>3 DEF Accepts
<1>4. CASE p.pending_job # NoJob
  <2> DEFINE q == takeJob(a, j.job, j.mode)
  <2>1. CASE j.job = Undecoded
    <3>1. q = a /\ ~Real(j)
      BY <2>1 DEF takeJob, Real
    <3> QED
      BY <1>1, <1>2, <1>4, <1>j, <3>1 DEF Accepts
  <2>2. CASE j.job # Undecoded
    <3>1. q = handlePoolJob(a, j.job, j.mode)
      BY <2>2 DEF takeJob
    <3>2. q = Cleared(a) \/ Takes(a, j.job, q)
      BY <1>1, <3>1, JobTaken
    <3> HIDE DEF q
    <3> QED
      BY <1>1, <1>2, <1>4, <1>j, <3>2 DEF Takes, Accepts, q
  <2> QED
    BY <2>1, <2>2
<1> QED
  BY <1>3, <1>4

\* The session does not have its login, and asked for nothing more.
Refuses(p, q) ==
    q.socket = p.socket /\ ~q.logged_in /\ q.requests = p.requests /\ q.pending \subseteq p.pending

\* The authorization settles the login either way.
LEMMA AuthorizeRead ==
    ASSUME NEW p, NEW m, Facing(p, m), m.what = "authorize"
    PROVE  LET q == pool_message(p, m)
           IN  \/ q = Cleared(p)
               \/ m.ok /\ Accepts(p, q) /\ q.pending = p.pending \ {"authorize"}
               \/ ~m.ok /\ Refuses(p, q)
<1> DEFINE a == [p EXCEPT !.pending = @ \ {"authorize"}]
<1>1. /\ p \in PoolConfig /\ p.protocol = dialect /\ m \in Messages
      /\ dialect \in {"subscribe", "pearlhash"} /\ m.mode = "id" /\ m.id = 2
      /\ "authorize" \in p.pending
  BY DEF Facing, Sent, Asked, SubmitMode, Routed, Flagged
<1>2. pool_message(p, m) = poolResponseHandler(p, m)
  BY <1>1 DEF pool_message, handlePoolAnswer, handlePoolResponse
<1>3. poolResponseHandler(p, m) = handleAuthorizeResponse(p, m)
  BY <1>1 DEF poolResponseHandler, SubmitId
<1>4. handleAuthorizeResponse(p, m) = IF m.ok THEN AcceptPending(a) ELSE loginFailed(a)
  BY DEF handleAuthorizeResponse
<1>5. /\ a \in PoolConfig /\ a.socket = p.socket /\ a.pending = p.pending \ {"authorize"}
      /\ a.requests = p.requests /\ a.pending_job = p.pending_job /\ Cleared(a) = Cleared(p)
  BY <1>1 DEF PoolConfig, Cleared
<1> HIDE DEF a
<1>6. CASE m.ok
  <2>1. LET q == AcceptPending(a) IN q = Cleared(a) \/ (Accepts(a, q) /\ q.pending = a.pending)
    BY <1>5, PendingTaken
  <2> QED
    BY <1>2, <1>3, <1>4, <1>5, <1>6, <2>1 DEF Accepts
<1>7. CASE ~m.ok
  <2>1. Refuses(p, loginFailed(a))
    BY <1>5 DEF loginFailed, Refuses, PoolConfig
  <2> QED
    BY <1>2, <1>3, <1>4, <1>7, <2>1
<1> QED
  BY <1>6, <1>7

\* The session has its login and asks for work.
Works(p, q) ==
    /\ q.socket = p.socket /\ q.logged_in
    /\ q.pending = (p.pending \ {"login"}) \cup {"work"}
    /\ q.requests = p.requests \cup {Request("work", WorkId)}

\* The answer to a login without a job, where Cortex asks for work, Iron Fish
\* takes the job that waited, and the others wait for one.
LEMMA LoginRead ==
    ASSUME NEW p, NEW m, Facing(p, m), m.what = "login", m.job = NoJob
    PROVE  LET q == pool_message(p, m)
           IN  \/ q = Cleared(p)
               \/ ~m.ok /\ Refuses(p, q)
               \/ m.ok /\ dialect = "cortex" /\ Works(p, q)
               \/ /\ m.ok /\ dialect # "cortex" /\ q.pending \subseteq p.pending
                  /\ q.socket = p.socket /\ q.logged_in /\ q.requests = p.requests
                  /\ dialect = "ironfish" => Accepts(p, q)
<1>1. /\ p \in PoolConfig /\ p.protocol = dialect /\ m \in Messages /\ dialect \in Dialects
      /\ dialect \notin {"subscribe", "pearlhash"} /\ m.mode = SubmitMode(dialect)
      /\ m.id = (IF dialect = "cortex" THEN CortexLoginId ELSE 1)
      /\ dialect = "cortex" => "login" \in p.pending
      /\ p.socket = TRUE /\ m.family = dialect
  BY DEF Facing, Sent, Asked, Routed, Flagged
<1>2. pool_message(p, m) = handlePoolAnswer(p, m)
  BY DEF pool_message
<1>3. CASE dialect = "beam"
  <2>1. handlePoolAnswer(p, m) = [p EXCEPT !.logged_in = m.ok]
    BY <1>1, <1>3 DEF handlePoolAnswer, handleBeamResult, SubmitMode
  <2>2. m.ok \in BOOLEAN
    BY <1>1 DEF Messages
  <2> QED
    BY <1>1, <1>2, <1>3, <2>1, <2>2 DEF PoolConfig, Refuses
<1>4. CASE dialect = "ironfish"
  <2>1. handlePoolAnswer(p, m) = IF m.ok THEN AcceptPending(p) ELSE loginFailed(p)
    BY <1>1, <1>4 DEF handlePoolAnswer, handleIronfishMessage, SubmitMode
  <2>2. LET q == AcceptPending(p) IN q = Cleared(p) \/ (Accepts(p, q) /\ q.pending = p.pending)
    BY <1>1, PendingTaken
  <2>3. Refuses(p, loginFailed(p))
    BY <1>1 DEF loginFailed, Refuses, PoolConfig
  <2> QED
    BY <1>2, <1>4, <2>1, <2>2, <2>3 DEF Accepts
<1>5. CASE dialect \notin {"beam", "ironfish"}
  <2> DEFINE a == [p EXCEPT !.pending = @ \ {"login"}]
             b == [a EXCEPT !.logged_in = TRUE, !.pending = @ \cup {"work"}]
             r == Request("work", WorkId)
             h == handleLoginResponse(p, m)
  <2>1. handlePoolAnswer(p, m) = handlePoolResponse(p, m)
    BY <1>1, <1>5 DEF handlePoolAnswer, SubmitMode
  <2>2. poolResponseHandler(p, m) = h
    <3>1. dialect \in {"login", "conflux", "cortex"}
      BY <1>1, <1>5, DialectsAre
    <3>2. WorkId # CortexLoginId
      BY SessionAssumption DEF CortexLoginId
    <3>3. CASE dialect = "cortex"
      <4>1. m.id = CortexLoginId /\ "login" \in p.pending /\ p.protocol = "cortex"
        BY <1>1, <3>3
      <4> QED
        BY <3>2, <4>1 DEF poolResponseHandler
    <3>4. CASE dialect \in {"login", "conflux"}
      <4>1. m.id = 1 /\ p.protocol = dialect
        BY <1>1, <3>4
      <4>2. "subscribe" \notin p.pending
        BY <3>4 DEF Facing, Standing
      <4> QED
        BY <3>4, <4>1, <4>2 DEF poolResponseHandler, SubmitId
    <3> QED
      BY <3>1, <3>3, <3>4
  <2>3. handlePoolResponse(p, m) \in {h, [h EXCEPT !.protocol = dialect]}
    BY <1>1, <2>2 DEF handlePoolResponse
  <2>4. /\ a \in PoolConfig /\ a.socket = TRUE /\ a.pending = p.pending \ {"login"}
        /\ a.requests = p.requests
    BY <1>1 DEF PoolConfig
  <2>5. h = CASE ~m.ok -> loginFailed(a)
              [] m.ok /\ dialect = "cortex" -> pool_write(b, r)
              [] OTHER -> [a EXCEPT !.logged_in = TRUE]
    BY <1>1 DEF handleLoginResponse
  <2> HIDE DEF a
  <2>6. /\ b \in PoolConfig /\ b.socket = TRUE /\ b.logged_in /\ b.requests = p.requests
        /\ b.pending = (p.pending \ {"login"}) \cup {"work"}
    BY <2>4 DEF PoolConfig
  <2> HIDE DEF b, h
  <2>7. CASE ~m.ok
    <3>1. h = loginFailed(a)
      BY <2>5, <2>7
    <3>2. Refuses(p, h) /\ h \in PoolConfig
      BY <1>1, <2>4, <3>1 DEF loginFailed, Refuses, PoolConfig
    <3>3. Refuses(p, [h EXCEPT !.protocol = dialect])
      BY <3>2 DEF Refuses, PoolConfig
    <3> QED
      BY <1>2, <2>1, <2>3, <2>7, <3>2, <3>3
  <2>8. CASE m.ok /\ dialect = "cortex"
    <3>1. h = [b EXCEPT !.requests = @ \cup {r}, !.pending_submit_count = @]
      BY <2>5, <2>6, <2>8 DEF pool_write, Request
    <3>2. r \in Requests
      BY SessionAssumption DEF Request, Requests, SubmitMode, Modes
    <3>r. r = Request("work", WorkId)
      OBVIOUS
    <3> HIDE DEF r
    <3>h. h \in PoolConfig
      BY <2>6, <3>1, <3>2 DEF PoolConfig
    <3>3. /\ h.socket = b.socket /\ h.logged_in = b.logged_in /\ h.pending = b.pending
          /\ h.requests = b.requests \cup {r}
      BY <2>6, <3>1 DEF PoolConfig
    <3>4. Works(p, h)
      BY <1>1, <2>6, <3>3, <3>r DEF Works
    <3>5. Works(p, [h EXCEPT !.protocol = dialect])
      BY <3>h, <3>4 DEF Works, PoolConfig
    <3> QED
      BY <1>2, <2>1, <2>3, <2>8, <3>4, <3>5
  <2>9. CASE m.ok /\ dialect # "cortex"
    <3>1. h = [a EXCEPT !.logged_in = TRUE]
      BY <2>5, <2>9
    <3>2. /\ h.socket = p.socket /\ h.logged_in /\ h.pending \subseteq p.pending
          /\ h.requests = p.requests /\ h \in PoolConfig
      BY <1>1, <2>4, <3>1 DEF PoolConfig
    <3> DEFINE k == [h EXCEPT !.protocol = dialect]
    <3>3. k.socket = h.socket /\ k.logged_in = h.logged_in /\ k.pending = h.pending
          /\ k.requests = h.requests
      BY <3>2 DEF PoolConfig
    <3> HIDE DEF k
    <3>4. pool_message(p, m) \in {h, k}
      BY <1>2, <2>1, <2>3 DEF k
    <3> QED
      BY <1>5, <2>9, <3>2, <3>3, <3>4
  <2> QED
    BY <2>7, <2>8, <2>9
<1> QED
  BY <1>3, <1>4, <1>5

\* An object login answered with a job is accepted with it.
LEMMA JobLoginRead ==
    ASSUME NEW p, NEW m, Facing(p, m), m.what = "login", m.job # NoJob
    PROVE  LET q == pool_message(p, m)
           IN  \/ q = Cleared(p)
               \/ /\ q.socket = p.socket /\ q.logged_in /\ q.requests = p.requests
                  /\ q.pending = p.pending /\ q.last_job.job = m.job
<1> DEFINE a == [p EXCEPT !.logged_in = TRUE, !.protocol = m.family]
<1>1. p \in PoolConfig /\ m \in Messages
  BY DEF Facing
<1>2. pool_message(p, m) = handlePoolJob(a, m.job, "id")
  BY DEF pool_message
<1>3. /\ a \in PoolConfig /\ a.socket = p.socket /\ a.logged_in /\ a.requests = p.requests
      /\ a.pending = p.pending /\ Cleared(a) = Cleared(p)
  BY <1>1 DEF PoolConfig, Cleared, Messages
<1> HIDE DEF a
<1>4. LET q == handlePoolJob(a, m.job, "id") IN q = Cleared(a) \/ Takes(a, m.job, q)
  BY <1>3, JobTaken
<1> QED
  BY <1>2, <1>3, <1>4 DEF Takes

-----------------------------------------------------------------------------
(* Reading.                                                                *)

\* A message that decides nothing leaves what is in flight as it is.
LEMMA HandshakenRead ==
    ASSUME NEW p, NEW w \in Seq(Messages), w # <<>>, NEW q, NEW d, NEW g,
           Handshaken(p, w, d, g), ~Decides(Head(w)),
           q.requests = p.requests, q.logged_in = p.logged_in,
           q.pending \subseteq p.pending,
           p.pending \subseteq q.pending \cup {"subscribe"}
                  \cup (IF Head(w).what = "work" THEN {"work"} ELSE {})
    PROVE  Handshaken(q, Tail(w), d, g)
<1> DEFINE t == Tail(w)
<1>1. /\ Alone(p.requests, t, {"login", "authorize"})
      /\ Alone(p.requests, t, {"work"})
      /\ Head(w).what = "work" => /\ \A r \in p.requests : r.what # "work"
                                  /\ \A i \in DOMAIN t : t[i].what # "work"
  <2>1. Alone(p.requests, w, {"login", "authorize"}) /\ Alone(p.requests, w, {"work"})
    BY DEF Handshaken
  <2>2. Alone(p.requests, t, {"login", "authorize"})
    BY <2>1, AloneTail
  <2>3. /\ Alone(p.requests, t, {"work"})
        /\ Head(w).what \in {"work"} => /\ \A r \in p.requests : r.what \notin {"work"}
                                       /\ \A i \in DOMAIN t : t[i].what \notin {"work"}
    BY <2>1, AloneTail
  <2> QED
    BY <2>2, <2>3
<1>2. Coming(w) <=> Coming(t)
  BY JobsTail
<1>3. \A i \in DOMAIN t : i + 1 \in DOMAIN w /\ t[i] = w[i + 1]
  BY TailIs
<1> HIDE DEF t
<1>4. \A i \in DOMAIN t : Routed(t[i], p, d, g)
  BY <1>3 DEF Handshaken
<1>5. ASSUME NEW x, Flagged(x, p, d), Head(w).what = "work" => x.what # "work"
      PROVE  Flagged(x, q, d)
  BY <1>5 DEF Flagged
<1>6. \A r \in q.requests : Flagged(r, q, d) /\ (Decides(r) => ~g)
  BY <1>1, <1>5 DEF Handshaken
<1>7. \A i \in DOMAIN t : Routed(t[i], q, d, g)
  BY <1>1, <1>4, <1>5 DEF Routed
<1>8. g /\ ~q.logged_in => Coming(t)
  BY <1>2 DEF Handshaken
<1>9. "subscribe" \in q.pending =>
         ~g /\ "authorize" \notin q.pending /\ ~Undecided(q.requests, t)
  BY <1>2 DEF Handshaken, Undecided
<1> QED
  BY <1>1, <1>6, <1>7, <1>8, <1>9 DEF Handshaken, t

\* Nor does it change which job is the latest: only that the session has it,
\* when no other follows, is to be shown.
LEMMA FollowingRead ==
    ASSUME NEW p, NEW w \in Seq(Messages), w # <<>>, NEW q, NEW d, NEW g, NEW l,
           Following(p, w, d, g, l), ~Decides(Head(w)), q.logged_in = p.logged_in,
           q.requests = p.requests, q.pending \subseteq p.pending,
           (g \/ Undecided(p.requests, w)) /\ l # NoJob /\ Jobless(Tail(w)) => Holding(q, l)
    PROVE  Following(q, Tail(w), d, g, l)
<1>1. Coming(w) <=> Coming(Tail(w))
  BY JobsTail
<1>2. Undecided(q.requests, Tail(w)) <=> Undecided(p.requests, w)
  BY <1>1 DEF Undecided
<1>3. Follows(w) => Follows(Tail(w))
  BY JobsTail
<1>4. Ends(w, l) => Ends(Tail(w), l)
  BY EndsTail
<1>5. Overtaken(p, w) => Overtaken(q, Tail(w))
  BY OvertakenTail
<1> QED
  BY <1>2, <1>3, <1>4, <1>5 DEF Following

\* A session that is to have a login and does not keep an announcement has
\* another one to come after the decision.
LEMMA NothingDropped ==
    ASSUME NEW p, NEW w \in Seq(Messages), w # <<>>, NEW d, NEW g, NEW l,
           Handshaken(p, w, d, g), Following(p, w, d, g, l), ~Decides(Head(w)),
           ~p.logged_in, "authorize" \notin p.pending, d # "ironfish",
           g \/ Undecided(p.requests, w), l # NoJob
    PROVE  ~Jobless(Tail(w))
<1>1. Undecided(p.requests, w)
  BY DEF Handshaken, Undecided
<1>2. PICK x : Decides(x) /\ Flagged(x, p, d)
  BY <1>1 DEF Handshaken, Undecided, Coming, Routed
<1>3. LoginFirst(d)
  BY <1>2 DEF Decides, Flagged, LoginFirst
<1>4. g
  BY <1>3 DEF Following
<1>5. Coming(w)
  BY <1>4 DEF Handshaken
<1>6. Follows(w)
  BY <1>3 DEF Following
<1> QED
  BY <1>5, <1>6, JobsTail

\* The flags and the latest job stay as they are when a message that decides
\* nothing is read.
LEMMA UndecidedRead ==
    ASSUME NEW p, NEW w \in Seq(Messages), w # <<>>, NEW l, Facing(p, Head(w)),
           Handshaken(p, w, dialect, granted), Following(p, w, dialect, granted, l), l # Undecoded,
           Head(w).what \in {"share", "notify", "work"},
           pool_message(p, Head(w)) # Cleared(p)
    PROVE  /\ Handshaken(pool_message(p, Head(w)), Tail(w), dialect, granted)
           /\ Following(pool_message(p, Head(w)), Tail(w), dialect, granted, l)
<1> DEFINE m == Head(w)
           q == pool_message(p, m)
<1>1. ~Decides(m) /\ Carries(m) /\ m \in Messages
  BY DEF Decides, Facing, Routed
<1>2. Jobless(w) <=> ~Real(m) /\ Jobless(Tail(w))
  BY JobsTail
<1>3. (granted \/ Undecided(p.requests, w)) /\ l # NoJob =>
         /\ Jobless(w) => Holding(p, l)
         /\ Real(m) /\ Jobless(Tail(w)) => m.job = l
         /\ ~p.logged_in /\ m.job = Undecoded => ~Jobless(Tail(w))
  BY <1>1, EndsTail, OvertakenTail DEF Following
<1>4. CASE m.what = "share"
  <2>1. Same(p, q)
    BY <1>4, ShareRead
  <2>2. ~Real(m)
    BY <1>1, <1>4 DEF Carries, Real
  <2>3. Holding(p, l) => Holding(q, l)
    BY <2>1 DEF Same, Holding
  <2> HIDE DEF q
  <2>4. Handshaken(q, Tail(w), dialect, granted)
    BY <1>1, <2>1, HandshakenRead DEF Same
  <2>5. Following(q, Tail(w), dialect, granted, l)
    BY <1>1, <1>2, <1>3, <2>1, <2>2, <2>3, FollowingRead DEF Same
  <2> QED
    BY <2>4, <2>5 DEF q
<1>5. CASE m.what = "notify"
  <2> DEFINE waits == "authorize" \in p.pending \/ dialect = "ironfish"
  <2>1. \/ p.logged_in /\ Real(m) /\ Takes(p, m.job, q)
        \/ p.logged_in /\ ~Real(m) /\ Same(p, q)
        \/ /\ ~p.logged_in /\ waits
           /\ q.socket = p.socket /\ q.logged_in = p.logged_in /\ q.pending = p.pending
           /\ q.pending_job = m /\ q.requests = p.requests
        \/ ~p.logged_in /\ ~waits /\ Same(p, q)
    BY <1>5, NotifyRead
  <2>2. m.job # NoJob /\ m # NoJob
    BY <1>1, <1>5, NoJobAssumption DEF Carries
  <2> HIDE DEF q
  <2>3. q.requests = p.requests /\ q.pending = p.pending
    BY <2>1 DEF Takes, Same
  <2>4. q.logged_in = p.logged_in
    BY <2>1 DEF Takes, Same
  <2>5. Handshaken(q, Tail(w), dialect, granted)
    BY <1>1, <2>3, <2>4, HandshakenRead
  <2>6. ASSUME granted \/ Undecided(p.requests, w), l # NoJob, Jobless(Tail(w))
        PROVE  Holding(q, l)
    <3>1. Real(m) => m.job = l
      BY <1>3, <2>6
    <3>2. waits \/ p.logged_in
      BY <1>1, <2>6, NothingDropped
    <3>3. CASE p.logged_in /\ Real(m) /\ Takes(p, m.job, q)
      BY <2>4, <3>1, <3>3 DEF Takes, Holding
    <3>4. CASE p.logged_in /\ ~Real(m) /\ Same(p, q)
      <4>1. Holding(p, l)
        BY <1>2, <1>3, <2>6, <3>4
      <4> QED
        BY <3>4, <4>1 DEF Same, Holding
    <3>5. CASE ~p.logged_in /\ q.logged_in = p.logged_in /\ q.pending_job = m
      <4>1. Real(m)
        BY <1>3, <2>2, <2>6, <3>5 DEF Real
      <4> QED
        BY <2>2, <3>1, <3>5, <4>1 DEF Holding
    <3> QED
      BY <2>1, <3>2, <3>3, <3>4, <3>5
  <2>7. Following(q, Tail(w), dialect, granted, l)
    BY <1>1, <2>3, <2>4, <2>6, FollowingRead
  <2> QED
    BY <2>5, <2>7 DEF q
<1>6. CASE m.what = "work"
  <2>1. /\ q.socket = p.socket /\ q.logged_in = p.logged_in
        /\ q.pending = p.pending \ {"work"} /\ q.requests = p.requests
        /\ q.last_job.job = IF Real(m) THEN m.job ELSE p.last_job.job
    BY <1>6, WorkRead
  <2>2. p.logged_in
    BY <1>6 DEF Facing, Routed, Flagged
  <2> HIDE DEF q
  <2>3. Handshaken(q, Tail(w), dialect, granted)
    BY <1>1, <1>6, <2>1, HandshakenRead
  <2>4. ASSUME granted \/ Undecided(p.requests, w), l # NoJob, Jobless(Tail(w))
        PROVE  Holding(q, l)
    BY <1>2, <1>3, <2>1, <2>2, <2>4 DEF Holding
  <2>5. Following(q, Tail(w), dialect, granted, l)
    BY <1>1, <2>1, <2>4, FollowingRead
  <2> QED
    BY <2>3, <2>5 DEF q
<1> QED
  BY <1>4, <1>5, <1>6

\* The answer to the subscription: while it is awaited there is no decision
\* and no job, and if it has the login authorized, the only one.
LEMMA SubscriptionRead ==
    ASSUME NEW p, NEW w \in Seq(Messages), w # <<>>, NEW l, Facing(p, Head(w)),
           Handshaken(p, w, dialect, granted), Following(p, w, dialect, granted, l),
           Head(w).what = "subscribe"
    PROVE  /\ Handshaken(pool_message(p, Head(w)), Tail(w), dialect, granted)
           /\ Following(pool_message(p, Head(w)), Tail(w), dialect, granted, l)
<1> DEFINE m == Head(w)
           t == Tail(w)
           q == pool_message(p, m)
           r == Request("authorize", 2)
<1>1. ~Decides(m) /\ ~Real(m) /\ dialect \in {"subscribe", "pearlhash"}
  BY DEF Decides, Facing, Routed, Carries, Real, Sent, Asked
<1>2. Jobless(w) <=> Jobless(t)
  BY <1>1, JobsTail
<1>3. (granted \/ Undecided(p.requests, w)) /\ l # NoJob => (Jobless(w) => Holding(p, l))
  BY DEF Following
<1>4. "subscribe" \in p.pending =>
         /\ ~granted /\ "authorize" \notin p.pending /\ ~Undecided(p.requests, w)
         /\ l = NoJob /\ ~p.logged_in
  BY DEF Handshaken, Following, Facing, Standing
<1>5. \/ Same(p, q)
      \/ /\ "subscribe" \in p.pending /\ m.ok
         /\ q.socket = p.socket /\ q.logged_in = p.logged_in
         /\ q.pending = (p.pending \ {"subscribe"}) \cup {"authorize"}
         /\ q.requests = p.requests \cup {r}
      \/ /\ "subscribe" \in p.pending
         /\ q.socket = p.socket /\ q.logged_in = p.logged_in
         /\ q.pending = p.pending \ {"subscribe"} /\ q.requests = p.requests
  BY <1>4, SubscribeRead
<1> HIDE DEF q
<1>6. CASE Same(p, q)
  <2>1. Handshaken(q, t, dialect, granted)
    BY <1>1, <1>6, HandshakenRead DEF Same
  <2>2. Holding(p, l) => Holding(q, l)
    BY <1>6 DEF Same, Holding
  <2>3. Following(q, t, dialect, granted, l)
    BY <1>1, <1>2, <1>3, <1>6, <2>2, FollowingRead DEF Same
  <2> QED
    BY <2>1, <2>3 DEF q
<1>7. CASE /\ "subscribe" \in p.pending
           /\ q.socket = p.socket /\ q.logged_in = p.logged_in
           /\ q.pending = p.pending \ {"subscribe"} /\ q.requests = p.requests
  <2>1. Handshaken(q, t, dialect, granted)
    BY <1>1, <1>7, HandshakenRead
  <2>2. Following(q, t, dialect, granted, l)
    BY <1>1, <1>4, <1>7, FollowingRead
  <2> QED
    BY <2>1, <2>2 DEF q
<1>8. CASE /\ "subscribe" \in p.pending /\ m.ok
           /\ q.socket = p.socket /\ q.logged_in = p.logged_in
           /\ q.pending = (p.pending \ {"subscribe"}) \cup {"authorize"}
           /\ q.requests = p.requests \cup {r}
  <2>1. r.what = "authorize"
    BY DEF Request
  <2>2. \A i \in DOMAIN t : i + 1 \in DOMAIN w /\ t[i] = w[i + 1]
    BY TailIs
  <2>3. /\ \A s \in p.requests : ~Decides(s) /\ Flagged(s, p, dialect)
        /\ \A i \in DOMAIN t : ~Decides(t[i]) /\ Routed(t[i], p, dialect, granted)
    BY <1>4, <1>8, <2>2 DEF Handshaken, Undecided, Coming
  <2>4. /\ Alone(p.requests, t, {"login", "authorize"})
        /\ Alone(p.requests, t, {"work"})
    BY AloneTail DEF Handshaken
  <2> HIDE DEF r, t
  <2>5. Alone(q.requests, t, {"login", "authorize"})
    <3>1. /\ \A s \in p.requests : s.what \notin {"login", "authorize"}
          /\ \A i \in DOMAIN t : t[i].what \notin {"login", "authorize"}
      BY <2>3 DEF Decides
    <3>2. Alone(p.requests \cup {r}, t, {"login", "authorize"})
      BY <2>4, <3>1, AloneWrite
    <3> QED
      BY <1>8, <3>2
  <2>6. Alone(q.requests, t, {"work"})
    <3>1. r.what \notin {"work"}
      BY <2>1
    <3>2. Alone(p.requests \cup {r}, t, {"work"})
      BY <2>4, <3>1, AloneWrite
    <3> QED
      BY <1>8, <3>2
  <2>7. ASSUME NEW x, Flagged(x, p, dialect), ~Decides(x) PROVE Flagged(x, q, dialect)
    BY <1>8, <2>7 DEF Flagged, Decides
  <2>8. Flagged(r, q, dialect)
    BY <1>8, <2>1 DEF Flagged
  <2>9. \A s \in q.requests : Flagged(s, q, dialect) /\ (Decides(s) => ~granted)
    BY <1>4, <1>8, <2>3, <2>7, <2>8
  <2>10. \A i \in DOMAIN t : Routed(t[i], q, dialect, granted)
    BY <2>3, <2>7 DEF Routed
  <2>11. Handshaken(q, t, dialect, granted)
    BY <1>4, <1>8, <2>5, <2>6, <2>9, <2>10 DEF Handshaken
  <2>12. Following(q, t, dialect, granted, l)
    BY <1>4, <1>8 DEF Following
  <2> QED
    BY <2>11, <2>12 DEF q, t
<1> QED
  BY <1>5, <1>6, <1>7, <1>8

\* After the decision nothing of the handshake is in flight but the work that
\* the session asks for.
LEMMA HandshakenDecided ==
    ASSUME NEW p, NEW w \in Seq(Messages), w # <<>>, NEW q, NEW d, NEW g,
           Handshaken(p, w, d, g), Decides(Head(w)),
           q.logged_in <=> g, q.pending \subseteq p.pending \cup {"work"},
           \/ q.requests = p.requests
           \/ /\ q.requests = p.requests \cup {Request("work", WorkId)}
              /\ "work" \in q.pending /\ q.logged_in
    PROVE  /\ Handshaken(q, Tail(w), d, g) /\ ~Undecided(q.requests, Tail(w))
           /\ "subscribe" \notin q.pending
<1> DEFINE t == Tail(w)
           r == Request("work", WorkId)
<1>1. Head(w) = w[1] /\ 1 \in DOMAIN w
      /\ \A i \in DOMAIN t : i + 1 \in DOMAIN w /\ t[i] = w[i + 1]
  BY TailIs
<1>2. ~p.logged_in /\ "subscribe" \notin p.pending
  BY <1>1 DEF Handshaken, Routed, Undecided, Coming
<1>3. r.what = "work"
  BY DEF Request
<1>4. /\ Alone(p.requests, t, {"login", "authorize"})
      /\ \A s \in p.requests : s.what \notin {"login", "authorize"}
      /\ \A i \in DOMAIN t : t[i].what \notin {"login", "authorize"}
  <2>1. Alone(p.requests, w, {"login", "authorize"}) /\ Head(w).what \in {"login", "authorize"}
    BY DEF Handshaken, Decides
  <2> QED
    BY <2>1, AloneTail
<1>5. Alone(p.requests, t, {"work"})
  BY AloneTail DEF Handshaken
<1> HIDE DEF t, r
<1>6. /\ \A s \in p.requests : s.what \notin {"work"}
      /\ \A i \in DOMAIN t : t[i].what \notin {"work"} /\ Carries(t[i])
  BY <1>1, <1>2 DEF Handshaken, Routed, Flagged
<1>7. /\ Alone(q.requests, t, {"login", "authorize"}) /\ Alone(q.requests, t, {"work"})
  <2>1. CASE q.requests = p.requests
    BY <1>4, <1>5, <2>1
  <2>2. CASE q.requests = p.requests \cup {r}
    <3>1. Alone(p.requests \cup {r}, t, {"login", "authorize"})
      BY <1>4, AloneWrite
    <3>2. Alone(p.requests \cup {r}, t, {"work"})
      BY <1>5, <1>6, AloneWrite
    <3> QED
      BY <2>2, <3>1, <3>2
  <2> QED
    BY <2>1, <2>2 DEF r
<1>8. \A s \in q.requests : ~Decides(s) /\ Flagged(s, q, d)
  BY <1>3, <1>4, <1>6 DEF Decides, Flagged, r
<1>9. \A i \in DOMAIN t : ~Decides(t[i]) /\ Routed(t[i], q, d, g)
  BY <1>4, <1>6 DEF Decides, Flagged, Routed
<1>10. ~Undecided(q.requests, t) /\ "subscribe" \notin q.pending
  BY <1>2, <1>8, <1>9 DEF Undecided, Coming
<1> QED
  BY <1>7, <1>8, <1>9, <1>10 DEF Handshaken, t

\* An accepted session has the latest job, or has it still to read.
LEMMA FollowingDecided ==
    ASSUME NEW p, NEW w \in Seq(Messages), w # <<>>, NEW q, NEW d, NEW g, NEW l,
           Following(p, w, d, g, l), Decides(Head(w)),
           ~Undecided(q.requests, Tail(w)), "subscribe" \notin q.pending,
           q.logged_in <=> g, g /\ l # NoJob /\ Jobless(Tail(w)) => Holding(q, l)
    PROVE  Following(q, Tail(w), d, g, l)
<1>1. Coming(w)
  BY JobsTail
<1>2. Undecided(p.requests, w)
  BY <1>1 DEF Undecided
<1>3. Follows(w) => Follows(Tail(w))
  BY JobsTail
<1>4. Ends(w, l) => Ends(Tail(w), l)
  BY EndsTail
<1>5. g => Overtaken(q, Tail(w))
  BY DEF Overtaken
<1> QED
  BY <1>2, <1>3, <1>4, <1>5 DEF Following

\* The decision is read.
LEMMA DecisionRead ==
    ASSUME NEW p, NEW w \in Seq(Messages), w # <<>>, NEW l, Facing(p, Head(w)),
           Handshaken(p, w, dialect, granted), Following(p, w, dialect, granted, l), l # Undecoded,
           Decides(Head(w)), pool_message(p, Head(w)) # Cleared(p)
    PROVE  /\ Handshaken(pool_message(p, Head(w)), Tail(w), dialect, granted)
           /\ Following(pool_message(p, Head(w)), Tail(w), dialect, granted, l)
<1> DEFINE m == Head(w)
           t == Tail(w)
           q == pool_message(p, m)
           r == Request("work", WorkId)
<1> SUFFICES Handshaken(q, t, dialect, granted) /\ Following(q, t, dialect, granted, l)
  OBVIOUS
<1>1. /\ ~p.logged_in /\ (m.ok <=> granted) /\ Carries(m) /\ Flagged(m, p, dialect)
  BY DEF Facing, Routed
<1>2. Jobless(w) <=> ~Real(m) /\ Jobless(t)
  BY JobsTail
<1>3. Undecided(p.requests, w)
  <2>1. Coming(w)
    BY JobsTail
  <2> QED
    BY <2>1 DEF Undecided
<1>4. l # NoJob => /\ Jobless(w) => p.pending_job # NoJob /\ p.pending_job.job = l
                   /\ Real(m) /\ Jobless(t) => m.job = l
  BY <1>1, <1>3, EndsTail DEF Following, Holding
<1>r. Real(m) <=> m.job # NoJob
  BY <1>1 DEF Real, Decides, Carries, Facing, Sent
<1>5. LoginFirst(dialect) /\ l # NoJob /\ ~Real(m) => ~Jobless(t)
  BY JobsTail DEF Following
<1>6. m.what \in {"login", "authorize"}
  BY DEF Decides
<1>7. ASSUME q.logged_in <=> granted, q.pending \subseteq p.pending \cup {"work"},
             \/ q.requests = p.requests
             \/ q.requests = p.requests \cup {r} /\ "work" \in q.pending /\ q.logged_in,
             granted /\ l # NoJob /\ Jobless(t) => q.last_job.job = l
      PROVE  Handshaken(q, t, dialect, granted) /\ Following(q, t, dialect, granted, l)
  <2> HIDE DEF q
  <2>1. /\ Handshaken(q, t, dialect, granted) /\ ~Undecided(q.requests, t)
        /\ "subscribe" \notin q.pending
    BY <1>7, HandshakenDecided
  <2>2. granted /\ l # NoJob /\ Jobless(t) => Holding(q, l)
    BY <1>7 DEF Holding
  <2> QED
    BY <1>7, <2>1, <2>2, FollowingDecided
<1>8. CASE m.what = "authorize"
  <2>1. \/ m.ok /\ Accepts(p, q) /\ q.pending = p.pending \ {"authorize"}
        \/ ~m.ok /\ Refuses(p, q)
    BY <1>8, AuthorizeRead
  <2>2. m.job = NoJob
    BY <1>1, <1>8 DEF Carries
  <2> HIDE DEF q
  <2> QED
    BY <1>1, <1>2, <1>4, <1>7, <1>r, <2>1, <2>2 DEF Accepts, Refuses, Real
<1>9. CASE m.what = "login" /\ m.job # NoJob
  <2>1. /\ q.socket = p.socket /\ q.logged_in /\ q.requests = p.requests
        /\ q.pending = p.pending /\ q.last_job.job = m.job
    BY <1>9, JobLoginRead
  <2>2. m.ok
    BY <1>9 DEF Facing, Sent
  <2> HIDE DEF q
  <2> QED
    BY <1>1, <1>4, <1>7, <1>9, <1>r, <2>1, <2>2
<1>10. CASE m.what = "login" /\ m.job = NoJob
  <2>1. \/ ~m.ok /\ Refuses(p, q)
        \/ m.ok /\ dialect = "cortex" /\ Works(p, q)
        \/ /\ m.ok /\ dialect # "cortex" /\ q.pending \subseteq p.pending
           /\ q.socket = p.socket /\ q.logged_in /\ q.requests = p.requests
           /\ dialect = "ironfish" => Accepts(p, q)
    BY <1>10, LoginRead
  <2>2. LoginFirst(dialect) \/ dialect = "ironfish"
    BY <1>1, <1>10 DEF LoginFirst, Flagged
  <2> HIDE DEF q
  <2>3. granted /\ l # NoJob /\ Jobless(t) => q.last_job.job = l
    <3>1. CASE LoginFirst(dialect)
      BY <1>5, <1>10, <1>r, <3>1
    <3>2. CASE dialect = "ironfish"
      BY <1>1, <1>2, <1>4, <1>10, <1>r, <2>1, <3>2 DEF Accepts, Refuses, Real
    <3> QED
      BY <2>2, <3>1, <3>2
  <2>4. CASE ~m.ok /\ Refuses(p, q)
    BY <1>1, <1>7, <2>3, <2>4 DEF Refuses
  <2>5. CASE m.ok /\ dialect = "cortex" /\ Works(p, q)
    BY <1>1, <1>7, <2>3, <2>5 DEF Works
  <2>6. CASE /\ m.ok /\ q.pending \subseteq p.pending
             /\ q.logged_in /\ q.requests = p.requests
    BY <1>1, <1>7, <2>3, <2>6
  <2> QED
    BY <2>1, <2>4, <2>5, <2>6
<1> QED
  BY <1>6, <1>8, <1>9, <1>10

-----------------------------------------------------------------------------
(* The steps.                                                              *)

\* A session that begins, or was given up, has nothing in flight.
LEMMA NothingTold ==
    ASSUME NEW p, NEW d, p.requests = {}, p.pending = {}
    PROVE  Tells(p, <<>>, d, FALSE, NoJob)
<1>1. DOMAIN <<>> = {}
  OBVIOUS
<1>2. Handshaken(p, <<>>, d, FALSE)
  BY <1>1 DEF Handshaken, Alone
<1>3. Following(p, <<>>, d, FALSE, NoJob)
  BY DEF Following
<1> QED
  BY <1>2, <1>3 DEF Tells

\* Before the first connection nothing is in flight.
LEMMA InitTells == Init => JInv
<1> SUFFICES ASSUME Init PROVE Tells(pool, wire, dialect, granted, latest)
  BY DEF JInv
<1>1. pool.requests = {} /\ pool.pending = {}
  BY DEF Init, Cleared
<1> QED
  BY <1>1, NothingTold DEF Init

\* A request of the handshake is written.
LEMMA WriteIs ==
    ASSUME NEW a \in PoolConfig, a.socket = TRUE, NEW r \in Requests, r.what # "share"
    PROVE  /\ pool_write(a, r) \in PoolConfig /\ pool_write(a, r).socket = TRUE
           /\ pool_write(a, r).pending = a.pending
           /\ pool_write(a, r).requests = a.requests \cup {r}
<1> DEFINE q == pool_write(a, r)
<1>1. q = [a EXCEPT !.requests = @ \cup {r}, !.pending_submit_count = @]
  BY DEF pool_write
<1> HIDE DEF q
<1>2. /\ q.socket = TRUE /\ q.pending = a.pending /\ q.requests = a.requests \cup {r}
  BY <1>1 DEF PoolConfig
<1>3. q \in PoolConfig
  BY <1>1 DEF PoolConfig
<1> QED
  BY <1>2, <1>3 DEF q

\* A request of the handshake is a request, of its kind.
LEMMA RequestIs ==
    ASSUME NEW what \in {"login", "subscribe", "authorize", "work"}, NEW id \in Nat
    PROVE  Request(what, id) \in Requests /\ Request(what, id).what = what
BY DEF Request, Requests, SubmitMode, Modes

\* What the handshake puts in flight, and the flag it sets for it.
LEMMA HandshakeIs ==
    ASSUME NEW p \in PoolConfig, p.socket = TRUE, p.requests = {}, p.pending = {}
    PROVE  LET q == Handshake(p)
           IN  /\ q.socket = TRUE
               /\ \/ /\ dialect = "cortex" /\ q.pending = {"login"}
                     /\ q.requests = {Request("login", CortexLoginId)}
                  \/ /\ dialect = "subscribe" /\ q.pending = {"subscribe"}
                     /\ q.requests = {Request("subscribe", 1)}
                  \/ /\ dialect = "pearlhash" /\ q.pending = {"authorize"}
                     /\ q.requests = {Request("subscribe", 1), Request("authorize", 2)}
                  \/ /\ dialect \notin {"cortex", "subscribe", "pearlhash"} /\ q.pending = {}
                     /\ q.requests = {Request("login", 1)}
<1>2. CASE dialect = "cortex"
  <2> DEFINE a == [p EXCEPT !.pending = {"login"}]
             r == Request("login", CortexLoginId)
  <2>1. r \in Requests /\ r.what = "login"
    BY RequestIs DEF CortexLoginId
  <2>2. Handshake(p) = pool_write(a, r)
    BY <1>2 DEF Handshake
  <2>r. r = Request("login", CortexLoginId)
    OBVIOUS
  <2>f. /\ a \in PoolConfig /\ a.socket = TRUE /\ a.pending = {"login"} /\ a.requests = {}
    BY DEF PoolConfig
  <2> HIDE DEF r, a
  <2>3. /\ pool_write(a, r).socket = TRUE
        /\ pool_write(a, r).pending = {"login"}
        /\ pool_write(a, r).requests = {} \cup {r}
    <3>1. /\ pool_write(a, r).socket = TRUE
          /\ pool_write(a, r).pending = a.pending
          /\ pool_write(a, r).requests = a.requests \cup {r}
      BY <2>f, <2>1, WriteIs
    <3> QED
      BY <2>f, <3>1
  <2> QED
    BY <1>2, <2>2, <2>3, <2>r
<1>3. CASE dialect = "subscribe"
  <2> DEFINE a == [p EXCEPT !.pending = {"subscribe"}]
             r == Request("subscribe", 1)
  <2>1. r \in Requests /\ r.what = "subscribe"
    BY RequestIs
  <2>2. Handshake(p) = pool_write(a, r)
    BY <1>3 DEF Handshake
  <2>r. r = Request("subscribe", 1)
    OBVIOUS
  <2>f. /\ a \in PoolConfig /\ a.socket = TRUE /\ a.pending = {"subscribe"} /\ a.requests = {}
    BY DEF PoolConfig
  <2> HIDE DEF r, a
  <2>3. /\ pool_write(a, r).socket = TRUE
        /\ pool_write(a, r).pending = {"subscribe"}
        /\ pool_write(a, r).requests = {} \cup {r}
    <3>1. /\ pool_write(a, r).socket = TRUE
          /\ pool_write(a, r).pending = a.pending
          /\ pool_write(a, r).requests = a.requests \cup {r}
      BY <2>f, <2>1, WriteIs
    <3> QED
      BY <2>f, <3>1
  <2> QED
    BY <1>3, <2>2, <2>3, <2>r
<1>4. CASE dialect = "pearlhash"
  <2> DEFINE a == [p EXCEPT !.pending = {"authorize"}]
             r == Request("subscribe", 1)
             s == Request("authorize", 2)
             b == pool_write(a, r)
  <2>1. r \in Requests /\ r.what = "subscribe" /\ s \in Requests /\ s.what = "authorize"
    BY RequestIs
  <2>2. Handshake(p) = pool_write(b, s)
    BY <1>4 DEF Handshake
  <2>r. r = Request("subscribe", 1) /\ s = Request("authorize", 2)
    OBVIOUS
  <2>f. /\ a \in PoolConfig /\ a.socket = TRUE /\ a.pending = {"authorize"} /\ a.requests = {}
    BY DEF PoolConfig
  <2> HIDE DEF r, s, a
  <2>3. /\ b \in PoolConfig /\ b.socket = TRUE
        /\ b.pending = {"authorize"} /\ b.requests = {} \cup {r}
    <3>1. /\ b \in PoolConfig /\ b.socket = TRUE
          /\ b.pending = a.pending /\ b.requests = a.requests \cup {r}
      BY <2>f, <2>1, WriteIs
    <3> QED
      BY <2>f, <3>1
  <2> HIDE DEF b
  <2>4. /\ pool_write(b, s).socket = TRUE /\ pool_write(b, s).pending = {"authorize"}
        /\ pool_write(b, s).requests = b.requests \cup {s}
    BY <2>1, <2>3, WriteIs
  <2>5. b.requests \cup {s} = {r, s}
    BY <2>3
  <2> QED
    BY <1>4, <2>2, <2>4, <2>5, <2>r
<1>5. CASE dialect \notin {"cortex", "subscribe", "pearlhash"}
  <2> DEFINE r == Request("login", 1)
  <2>1. r \in Requests /\ r.what = "login"
    BY RequestIs
  <2>2. Handshake(p) = pool_write(p, r)
    BY <1>5 DEF Handshake
  <2>r. r = Request("login", 1)
    OBVIOUS
  <2> HIDE DEF r
  <2>3. /\ pool_write(p, r).socket = TRUE /\ pool_write(p, r).pending = {}
        /\ pool_write(p, r).requests = {} \cup {r}
    BY <2>1, WriteIs
  <2> QED
    BY <1>5, <2>2, <2>3, <2>r
<1> QED
  BY <1>2, <1>3, <1>4, <1>5

\* A connection begins with its handshake in flight and nothing decided.
LEMMA ConnectTells ==
    ASSUME IInv, JInv, handlePoolConnect
    PROVE  JInv'
<1> SUFFICES ASSUME Keeps(dialect), repeats = 0
             PROVE  Tells(pool', wire', dialect', granted', latest')
  BY DEF JInv, handlePoolConnect, poolSide
<1>1. /\ wire = <<>> /\ granted = FALSE /\ latest = NoJob /\ ~pool.socket
      /\ pool = Cleared(pool) /\ pool \in PoolConfig
  BY DEF JInv, Tells, handlePoolConnect, IInv, TypeOK
<1> DEFINE p == [pool EXCEPT !.socket = TRUE]
<1>2. p \in PoolConfig /\ p.socket = TRUE /\ p.requests = {} /\ p.pending = {}
  <2>1. pool.requests = {} /\ pool.pending = {}
    BY <1>1 DEF Cleared
  <2> QED
    BY <1>1, <2>1 DEF PoolConfig
<1>3. pool' = Handshake(p) /\ UNCHANGED <<dialect, wire, granted, latest>>
  BY DEF handlePoolConnect, poolSide
<1> HIDE DEF p
<1>4. /\ pool'.socket = TRUE
      /\ \/ /\ dialect = "cortex" /\ pool'.pending = {"login"}
            /\ pool'.requests = {Request("login", CortexLoginId)}
         \/ /\ dialect = "subscribe" /\ pool'.pending = {"subscribe"}
            /\ pool'.requests = {Request("subscribe", 1)}
         \/ /\ dialect = "pearlhash" /\ pool'.pending = {"authorize"}
            /\ pool'.requests = {Request("subscribe", 1), Request("authorize", 2)}
         \/ /\ dialect \notin {"cortex", "subscribe", "pearlhash"} /\ pool'.pending = {}
            /\ pool'.requests = {Request("login", 1)}
  BY <1>2, <1>3, HandshakeIs
<1>5. DOMAIN wire = {}
  BY <1>1
<1>6. \A what, id : Request(what, id).what = what
  BY DEF Request
<1>7. /\ \A r \in pool'.requests : Flagged(r, pool', dialect)
      /\ "subscribe" \in pool'.pending =>
            "authorize" \notin pool'.pending /\ ~Undecided(pool'.requests, wire)
  BY <1>4, <1>5, <1>6 DEF Flagged, Undecided, Coming, Decides
<1>8. /\ Alone(pool'.requests, wire, {"login", "authorize"})
      /\ Alone(pool'.requests, wire, {"work"})
  BY <1>4, <1>5, <1>6 DEF Alone
<1>9. Handshaken(pool', wire, dialect, granted)
  BY <1>1, <1>5, <1>7, <1>8 DEF Handshaken
<1>10. Following(pool', wire, dialect, granted, latest)
  BY <1>1 DEF Following
<1> QED
  BY <1>1, <1>3, <1>9, <1>10 DEF Tells

\* A share in flight decides nothing.
LEMMA ShareTells ==
    ASSUME NEW p, NEW q, NEW r, NEW w, NEW d, NEW g, NEW l, Tells(p, w, d, g, l),
           q.socket = p.socket, q.logged_in = p.logged_in, q.pending = p.pending,
           q.pending_job = p.pending_job, q.last_job = p.last_job,
           q.requests \in {p.requests, p.requests \cup {r}}, r.what = "share"
    PROVE  Tells(q, w, d, g, l)
<1>1. /\ Alone(q.requests, w, {"login", "authorize"}) /\ Alone(q.requests, w, {"work"})
  <2>1. Alone(p.requests \cup {r}, w, {"login", "authorize"})
    BY AloneWrite DEF Tells, Handshaken
  <2>2. Alone(p.requests \cup {r}, w, {"work"})
    BY AloneWrite DEF Tells, Handshaken
  <2> QED
    BY <2>1, <2>2 DEF Tells, Handshaken
<1>2. \A x : Flagged(x, q, d) <=> Flagged(x, p, d)
  BY DEF Flagged
<1>3. ~Decides(r) /\ Flagged(r, p, d)
  BY DEF Decides, Flagged
<1>4. Undecided(q.requests, w) <=> Undecided(p.requests, w)
  BY <1>3 DEF Undecided
<1>5. Handshaken(q, w, d, g)
  BY <1>1, <1>2, <1>3, <1>4 DEF Tells, Handshaken, Routed
<1>6. Holding(p, l) => Holding(q, l)
  BY DEF Holding
<1>7. Following(q, w, d, g, l)
  BY <1>4, <1>6 DEF Tells, Following, Overtaken
<1> QED
  BY <1>5, <1>7 DEF Tells

\* A share changes neither the handshake nor the jobs.
LEMMA ResultTells ==
    ASSUME IInv, JInv, handleResult
    PROVE  JInv'
<1> SUFFICES ASSUME Keeps(dialect), repeats = 0
             PROVE  Tells(pool', wire', dialect', granted', latest')
  BY DEF JInv, handleResult, poolSide
<1>1. UNCHANGED <<dialect, wire, granted, latest>>
  BY DEF handleResult, poolSide
<1>2. PICK ids, r : /\ pool' = pool_write([pool EXCEPT !.pending_cortex_submit_ids = ids], r)
                    /\ r.what = "share"
  <2>1. CASE pool.last_job.mode = "cortex"
    <3>1. pool' = pool_write([pool EXCEPT !.pending_cortex_submit_ids =
                                    pool.pending_cortex_submit_ids \cup {cortexId'}],
                             ShareRequest("cortex", cortexId'))
      BY <2>1 DEF handleResult
    <3>2. ShareRequest("cortex", cortexId').what = "share"
      BY DEF ShareRequest
    <3> QED
      BY <3>1, <3>2
  <2>2. CASE pool.last_job.mode # "cortex"
    <3>1. [pool EXCEPT !.pending_cortex_submit_ids = pool.pending_cortex_submit_ids] = pool
      BY DEF IInv, TypeOK, PoolConfig
    <3>2. pool' = pool_write(pool, ShareRequest(pool.last_job.mode, shares + 1))
      BY <2>2 DEF handleResult
    <3>3. ShareRequest(pool.last_job.mode, shares + 1).what = "share"
      BY DEF ShareRequest
    <3> QED
      BY <3>1, <3>2, <3>3
  <2> QED
    BY <2>1, <2>2
<1>3. /\ pool'.socket = pool.socket /\ pool'.logged_in = pool.logged_in
      /\ pool'.pending = pool.pending /\ pool'.pending_job = pool.pending_job
      /\ pool'.last_job = pool.last_job
      /\ pool'.requests \in {pool.requests, pool.requests \cup {r}}
  BY <1>2 DEF pool_write, IInv, TypeOK, PoolConfig
<1>4. Tells(pool, wire, dialect, granted, latest)
  BY DEF JInv
<1> QED
  BY <1>1, <1>2, <1>3, <1>4, ShareTells

\* Something of the handshake is undecided only with a flag that shows it, or
\* in a handshake that takes no job before its login.
LEMMA FlagShows ==
    ASSUME NEW p, NEW w, NEW d, NEW g, Handshaken(p, w, d, g), Undecided(p.requests, w)
    PROVE  "authorize" \in p.pending \/ d = "ironfish" \/ LoginFirst(d)
<1>1. PICK x : Decides(x) /\ Flagged(x, p, d)
  BY DEF Handshaken, Undecided, Coming, Routed
<1> QED
  BY <1>1 DEF Decides, Flagged, LoginFirst

\* An announcement counts where the session keeps or takes it: it makes n of the
\* latest job l.
Counts(p, d, g, l, e, n) ==
    LET waits == "authorize" \in p.pending \/ d = "ironfish"
    IN  n = CASE (g \/ waits) /\ Real(e) -> e.job
              [] ~g /\ waits /\ ~Real(e) -> NoJob
              [] OTHER -> l

\* The pool announces a job.
LEMMA NotifySent ==
    ASSUME NEW p, NEW w \in Seq(Messages), NEW d, NEW g, NEW l, NEW e \in Messages, NEW n,
           Tells(p, w, d, g, l), Standing(p, d, g), p.socket,
           e.what = "notify", e.job # NoJob, Counts(p, d, g, l, e, n)
    PROVE  Tells(p, Append(w, e), d, g, n)
<1> DEFINE a == Append(w, e)
<1>1. ~Decides(e) /\ Routed(e, p, d, g)
  BY DEF Decides, Routed, Flagged, Carries
<1>2. Coming(a) <=> Coming(w)
  BY <1>1, JobsAppend
<1>3. /\ Alone(p.requests, a, {"login", "authorize"}) /\ Alone(p.requests, a, {"work"})
  <2>1. Alone(p.requests, a, {"login", "authorize"})
    BY AloneAppend DEF Tells, Handshaken
  <2>2. Alone(p.requests, a, {"work"})
    BY AloneAppend DEF Tells, Handshaken
  <2> QED
    BY <2>1, <2>2
<1>4. \A i \in DOMAIN a : Routed(a[i], p, d, g)
  BY <1>1, AppendIs DEF Tells, Handshaken
<1>5. /\ Real(e) => ~Jobless(a) /\ Ends(a, e.job) /\ Follows(a)
      /\ ~Real(e) /\ Follows(w) => Follows(a)
      /\ ~Real(e) => (Jobless(a) <=> Jobless(w))
  BY <1>1, JobsAppend
<1>e. ~Real(e) /\ Ends(w, l) => Ends(a, l)
  BY EndsAppend
<1>o. /\ Real(e) => Overtaken(p, a)
      /\ ~Real(e) /\ Overtaken(p, w) /\ g => Overtaken(p, a)
  <2>1. CASE Real(e)
    BY <2>1, OvertakenAppend
  <2>2. ASSUME ~Real(e), Overtaken(p, w), g PROVE Overtaken(p, a)
    <3>1. e.job = Undecoded /\ (p.logged_in \/ Coming(w)) /\ ~Decides(e)
      BY <1>1, <2>2 DEF Real, Tells, Handshaken
    <3> QED
      BY <2>2, <3>1, OvertakenAppend
  <2> QED
    BY <2>1, <2>2
<1> HIDE DEF a
<1>6. Undecided(p.requests, a) <=> Undecided(p.requests, w)
  BY <1>2 DEF Undecided
<1>7. Handshaken(p, a, d, g)
  BY <1>2, <1>3, <1>4, <1>6 DEF Tells, Handshaken
<1>8. "subscribe" \in p.pending \/ (LoginFirst(d) /\ ~g) => n = NoJob
  <2>1. "authorize" \in p.pending => ~LoginFirst(d)
    BY DEF Standing, LoginFirst
  <2>2. "subscribe" \in p.pending => d # "ironfish" /\ ~g /\ "authorize" \notin p.pending
    BY DEF Standing, Tells, Handshaken
  <2>3. LoginFirst(d) => d # "ironfish"
    BY DEF LoginFirst
  <2>4. "subscribe" \in p.pending \/ (LoginFirst(d) /\ ~g) => l = NoJob
    BY DEF Tells, Following
  <2> QED
    BY <2>1, <2>2, <2>3, <2>4 DEF Counts
<1>9. (g \/ Undecided(p.requests, a)) /\ n # NoJob
         => (Real(e) /\ n = e.job) \/ (~Real(e) /\ g /\ n = l)
  <2>1. Undecided(p.requests, w) => "authorize" \in p.pending \/ d = "ironfish" \/ LoginFirst(d)
    BY FlagShows DEF Tells
  <2> QED
    BY <1>6, <1>8, <2>1 DEF Counts
<1>f. LoginFirst(d) /\ n # NoJob => Follows(a)
  <2> SUFFICES ASSUME LoginFirst(d), n # NoJob PROVE Follows(a)
    OBVIOUS
  <2>1. g
    BY <1>8
  <2> QED
    BY <1>5, <1>9, <2>1 DEF Tells, Following
<1>10. ASSUME g \/ Undecided(p.requests, a), n # NoJob
       PROVE  Ends(a, n) /\ Overtaken(p, a) /\ (Jobless(a) => Holding(p, n))
  <2>1. CASE Real(e)
    BY <1>5, <1>9, <1>10, <1>o, <2>1
  <2>2. CASE ~Real(e)
    <3>1. g /\ n = l
      BY <1>9, <1>10, <2>2
    <3>2. Ends(w, l) /\ Overtaken(p, w) /\ (Jobless(w) => Holding(p, l))
      BY <1>10, <3>1 DEF Tells, Following
    <3> QED
      BY <1>5, <1>e, <1>o, <2>2, <3>1, <3>2
  <2> QED
    BY <2>1, <2>2
<1>11. Following(p, a, d, g, n)
  BY <1>8, <1>f, <1>10 DEF Following
<1>12. ~p.socket => ~g /\ n = NoJob
  OBVIOUS
<1> QED
  BY <1>7, <1>11, <1>12 DEF Tells, a

\* What the pool announces keeps the invariant.
LEMMA AnnounceTells ==
    ASSUME IInv, JInv, NEW job \in Announced, NEW family \in Families \cup {dialect},
           NEW generic \in BOOLEAN, Announce(job, family, generic)
    PROVE  JInv'
<1> DEFINE e == [what |-> "notify", id |-> 0, n |-> 0, ok |-> TRUE,
                 mode |-> IF generic THEN "id" ELSE SubmitMode(family),
                 job |-> job, family |-> family]
<1> SUFFICES ASSUME Keeps(dialect), repeats = 0
             PROVE  Tells(pool', wire', dialect', granted', latest')
  BY DEF JInv, Announce
<1>1. /\ pool.socket /\ wire' = Append(wire, e) /\ UNCHANGED <<dialect, pool, granted>>
  BY DEF Announce
<1>2. e \in Messages
  BY DEF IInv, TypeOK, Messages, Protocols, Modes, SubmitMode
<1>3. e.what = "notify" /\ e.job = job /\ job # NoJob
  BY SessionAssumption DEF Announced
<1>c. Counts(pool, dialect, granted, latest, e, latest')
  <2>1. Real(e) <=> job # Undecoded
    BY <1>3 DEF Real
  <2>2. \/ (granted \/ "authorize" \in pool.pending \/ dialect = "ironfish") /\ job # Undecoded
           /\ latest' = job
        \/ ~granted /\ ("authorize" \in pool.pending \/ dialect = "ironfish")
           /\ job = Undecoded /\ latest' = NoJob
        \/ ~((granted \/ "authorize" \in pool.pending \/ dialect = "ironfish") /\ job # Undecoded)
           /\ ~(~granted /\ ("authorize" \in pool.pending \/ dialect = "ironfish") /\ job = Undecoded)
           /\ latest' = latest
    BY DEF Announce
  <2> HIDE DEF e
  <2> QED
    BY <1>3, <2>1, <2>2 DEF Counts
<1> HIDE DEF e
<1>4. wire \in Seq(Messages) /\ Standing(pool, dialect, granted)
  BY DEF IInv, TypeOK
<1>5. Tells(pool, wire, dialect, granted, latest)
  BY DEF JInv
<1>6. Tells(pool, Append(wire, e), dialect, granted, latest')
  BY <1>1, <1>2, <1>3, <1>4, <1>5, <1>c, NotifySent
<1> QED
  BY <1>1, <1>6

\* The request r is no longer the session's to be answered.
Answered(p, q, r) ==
    /\ q.socket = p.socket /\ q.logged_in = p.logged_in /\ q.pending = p.pending
    /\ q.pending_job = p.pending_job /\ q.last_job = p.last_job
    /\ q.requests = p.requests \ {r}

\* The pool answers r with e, and its decision, if it is one, is known to it.
LEMMA AnswerSent ==
    ASSUME NEW p, NEW q, NEW w \in Seq(Messages), NEW d, NEW g \in BOOLEAN, NEW l,
           NEW r \in p.requests, NEW e \in Messages,
           Tells(p, w, d, g, l), Standing(p, d, g), p.socket, Answered(p, q, r),
           e.what = r.what, Carries(e), e.ok \in BOOLEAN, e.job # NoJob => e.ok,
           r.what # "notify", e.job = Undecoded => r.what = "work"
    PROVE  Tells(q, Append(w, e), d, g \/ (e.ok /\ Decides(r)),
                 IF Real(e) THEN e.job ELSE l)
<1> DEFINE h == g \/ (e.ok /\ Decides(r))
           n == IF Real(e) THEN e.job ELSE l
<1>h. h \in BOOLEAN /\ (h <=> g \/ (e.ok /\ Decides(r)))
  BY DEF Decides
<1>n. n = IF Real(e) THEN e.job ELSE l
  OBVIOUS
<1>q. /\ q.socket = p.socket /\ q.logged_in = p.logged_in /\ q.pending = p.pending
      /\ q.pending_job = p.pending_job /\ q.last_job = p.last_job
      /\ q.requests = p.requests \ {r}
  BY DEF Answered
<1> USE <1>h, <1>n, <1>q
<1> HIDE DEF h, n
<1> DEFINE a == Append(w, e)
<1>1. Handshaken(p, w, d, g) /\ Following(p, w, d, g, l)
  BY DEF Tells
<1>2. /\ Decides(e) <=> Decides(r)
      /\ Flagged(r, p, d) /\ (Decides(r) => ~g)
      /\ p.logged_in => g
  BY <1>1 DEF Handshaken, Decides, Standing
<1>3. \A x : Flagged(x, q, d) <=> Flagged(x, p, d)
  BY DEF Flagged
<1>4. Flagged(e, q, d)
  BY <1>2, <1>3 DEF Flagged
<1>5. Routed(e, q, d, h)
  BY <1>2, <1>4 DEF Routed
<1>6. ASSUME Decides(r)
      PROVE  /\ \A s \in q.requests : ~Decides(s)
             /\ \A i \in DOMAIN w : ~Decides(w[i])
  BY <1>1, <1>6 DEF Handshaken, Alone, Decides
<1>7. ~Decides(r) => h = g
  OBVIOUS
<1>8. \A i \in DOMAIN w : Routed(w[i], q, d, h)
  BY <1>1, <1>3, <1>6, <1>7 DEF Handshaken, Routed
<1>9. \A i \in DOMAIN a : Routed(a[i], q, d, h)
  BY <1>5, <1>8, AppendIs
<1>10. \A s \in q.requests : Flagged(s, q, d) /\ (Decides(s) => ~h)
  BY <1>1, <1>3, <1>6, <1>7 DEF Handshaken
<1>11. Coming(a) <=> Coming(w) \/ Decides(r)
  BY <1>2, JobsAppend
<1>12. /\ Alone(q.requests, a, {"login", "authorize"}) /\ Alone(q.requests, a, {"work"})
  <2>1. Alone(p.requests \ {r}, a, {"login", "authorize"})
    BY <1>1, AloneAnswer DEF Handshaken
  <2>2. Alone(p.requests \ {r}, a, {"work"})
    BY <1>1, AloneAnswer DEF Handshaken
  <2> QED
    BY <2>1, <2>2
<1>13. /\ Jobless(a) <=> Jobless(w) /\ ~Real(e)
       /\ Real(e) => Ends(a, e.job) /\ Follows(a)
       /\ ~Real(e) /\ ~Decides(e) /\ Follows(w) => Follows(a)
  BY JobsAppend
<1>14. ~Real(e) => (Ends(w, l) => Ends(a, l))
  BY EndsAppend
<1>o. Real(e) \/ Overtaken(p, w) => Overtaken(q, a)
  <2>1. CASE Real(e)
    BY <2>1, OvertakenAppend
  <2>2. ASSUME Overtaken(p, w), e.job # Undecoded PROVE Overtaken(q, a)
    <3>1. Decides(e) => ~Coming(w)
      BY <1>2, <1>6 DEF Coming
    <3> QED
      BY <2>2, <3>1, OvertakenAppend
  <2>3. ASSUME Overtaken(p, w), e.job = Undecoded PROVE Overtaken(q, a)
    <3>1. r.what = "work" /\ ~Decides(e) /\ p.logged_in
      BY <1>2, <2>3 DEF Decides, Flagged
    <3> QED
      BY <2>3, <3>1, OvertakenAppend
  <2> QED
    BY <2>1, <2>2, <2>3
<1> HIDE DEF a
<1>15. Undecided(q.requests, a) <=> Undecided(p.requests, w)
  <2>1. Undecided(q.requests, a) => Undecided(p.requests, w)
    BY <1>11 DEF Undecided
  <2>2. Undecided(p.requests, w) => Undecided(q.requests, a)
    BY <1>11 DEF Undecided
  <2> QED
    BY <2>1, <2>2
<1>16. Decides(r) => Undecided(p.requests, w)
  BY DEF Undecided
<1>17. h /\ ~q.logged_in => Coming(a)
  BY <1>1, <1>7, <1>11 DEF Handshaken
<1>18. "subscribe" \in q.pending =>
          ~h /\ "authorize" \notin q.pending /\ ~Undecided(q.requests, a)
  BY <1>1, <1>7, <1>15, <1>16 DEF Handshaken
<1>19. Handshaken(q, a, d, h)
  BY <1>9, <1>10, <1>12, <1>17, <1>18 DEF Handshaken
<1>20. Real(e) => h
  <2>1. Real(e) => r.what \in {"work", "login"} /\ e.ok
    BY DEF Carries, Real
  <2>2. r.what = "work" => g
    BY <1>2 DEF Flagged
  <2>3. r.what = "login" => Decides(r)
    BY DEF Decides
  <2> QED
    BY <2>1, <2>2, <2>3
<1>21. "subscribe" \in q.pending \/ (LoginFirst(d) /\ ~h) => n = NoJob
  BY <1>1, <1>18, <1>20 DEF Following
<1>22. LoginFirst(d) /\ n # NoJob => Follows(a)
  BY <1>1, <1>2, <1>13 DEF Following
<1>23. Holding(p, l) => Holding(q, l)
  BY DEF Holding
<1>24. (h \/ Undecided(q.requests, a)) => (g \/ Undecided(p.requests, w))
  BY <1>15, <1>16
<1>25. (h \/ Undecided(q.requests, a)) /\ n # NoJob =>
          Ends(a, n) /\ Overtaken(q, a) /\ (Jobless(a) => Holding(q, n))
  <2>1. CASE Real(e)
    BY <1>13, <1>o, <2>1
  <2>2. CASE ~Real(e)
    BY <1>1, <1>13, <1>14, <1>o, <1>23, <1>24, <2>2 DEF Following
  <2> QED
    BY <2>1, <2>2
<1>26. Following(q, a, d, h, n)
  BY <1>21, <1>22, <1>25 DEF Following
<1> QED
  BY <1>19, <1>26 DEF Tells, a, h, n

\* What the pool answers keeps the invariant, as long as it answers once.
LEMMA AnswerTells ==
    ASSUME IInv, JInv, NEW r \in pool.requests, NEW ok \in BOOLEAN,
           NEW job \in Announced \cup {NoJob}, NEW family \in Families \cup {dialect},
           NEW again \in BOOLEAN, Answer(r, ok, job, family, again)
    PROVE  JInv'
<1> DEFINE e == [what |-> r.what, mode |-> r.mode, id |-> r.id, n |-> r.n,
                 ok |-> ok, job |-> job, family |-> family]
<1> SUFFICES ASSUME Keeps(dialect'), repeats' = 0
             PROVE  Tells(pool', wire', dialect', granted', latest')
  BY DEF JInv
<1>1. /\ pool \in PoolConfig /\ pool.socket = TRUE /\ r \in Requests /\ wire \in Seq(Messages)
      /\ dialect \in Dialects /\ repeats \in Nat /\ granted \in BOOLEAN
  BY DEF IInv, TypeOK, PoolConfig, Answer
<1>2. repeats' = repeats + (IF again THEN 1 ELSE 0) /\ dialect' = dialect
  BY DEF Answer
<1>3. ~again /\ repeats = 0 /\ Keeps(dialect)
  BY <1>1, <1>2
<1>4. /\ pool' = [pool EXCEPT !.requests = @ \ {r}]
      /\ wire' = Append(wire, e)
      /\ granted' = (granted \/ (ok /\ r.what \in {"login", "authorize"}))
      /\ latest' = (IF job \in {NoJob, Undecoded} THEN latest ELSE job)
      /\ job # NoJob => ok /\ (r.what = "work" \/ (r.what = "login" /\ dialect = "login"))
      /\ r.what = "work" /\ ok => job # NoJob
      /\ job = Undecoded => r.what = "work"
  BY <1>3 DEF Answer
<1>5. e \in Messages /\ e.what = r.what /\ e.ok = ok /\ e.job = job
  BY <1>1 DEF Messages, Requests, Protocols
<1> HIDE DEF e
<1>6. Answered(pool, pool', r)
  BY <1>1, <1>4 DEF PoolConfig, Answered
<1>7. Carries(e) /\ r.what # "notify"
  BY <1>1, <1>4, <1>5 DEF Carries, Requests
<1>8. Tells(pool, wire, dialect, granted, latest) /\ Standing(pool, dialect, granted)
  BY <1>3 DEF JInv, IInv
<1>9. /\ granted' = (granted \/ (e.ok /\ Decides(r)))
      /\ latest' = (IF Real(e) THEN e.job ELSE latest)
      /\ e.job = Undecoded => r.what = "work"
      /\ e.ok \in BOOLEAN /\ (e.job # NoJob => e.ok) /\ e \in Messages /\ e.what = r.what
  BY <1>4, <1>5 DEF Decides, Real
<1>10. Tells(pool', Append(wire, e), dialect, granted \/ (e.ok /\ Decides(r)),
             IF Real(e) THEN e.job ELSE latest)
  <2>1. wire \in Seq(Messages) /\ granted \in BOOLEAN /\ pool.socket
    BY <1>1
  <2> QED
    BY <1>6, <1>7, <1>8, <1>9, <2>1, AnswerSent
<1> QED
  BY <1>2, <1>4, <1>9, <1>10

\* A session that is closed begins again with nothing.
LEMMA ClosedTells ==
    ASSUME pool' = Cleared(pool), wire' = <<>>, granted' = FALSE, latest' = NoJob
    PROVE  JInv'
<1>1. pool'.requests = {} /\ pool'.pending = {}
  BY DEF Cleared
<1>2. Tells(pool', <<>>, dialect', FALSE, NoJob)
  BY <1>1, NothingTold
<1> QED
  BY <1>2 DEF JInv

\* What the session reads keeps the invariant, whether or not it closes.
LEMMA ReadTells ==
    ASSUME IInv, JInv, Read
    PROVE  JInv'
<1> DEFINE m == Head(wire)
<1> SUFFICES ASSUME Keeps(dialect'), repeats' = 0
             PROVE  JInv'
  BY DEF JInv
<1>1. /\ wire # << >> /\ wire \in Seq(Messages) /\ dialect \in Dialects
      /\ pool \in PoolConfig /\ pool.socket = TRUE /\ granted \in BOOLEAN
  BY DEF IInv, TypeOK, Read, PoolConfig
<1>2. /\ pool' = pool_message(pool, m) /\ dialect' = dialect /\ repeats' = repeats
      /\ wire' = (IF pool'.socket THEN Tail(wire) ELSE <<>>)
      /\ granted' = (granted /\ pool'.socket)
      /\ latest' = (IF pool'.socket THEN latest ELSE NoJob)
  BY DEF Read
<1>3. Tells(pool, wire, dialect, granted, latest) /\ Keeps(dialect)
  BY <1>2 DEF JInv
<1>4. m \in Messages /\ m \in Range(wire) /\ m = wire[1] /\ 1 \in DOMAIN wire
  <2>1. Range(wire) = Range(Tail(wire)) \cup {m} /\ m \in Messages
    BY <1>1, TailRange
  <2> QED
    BY <1>1, <2>1, TailIs
<1>5. Sent(m, dialect, granted) /\ Standing(pool, dialect, granted)
  BY <1>4 DEF IInv, Framed
<1>6. Facing(pool, m)
  <2>1. Routed(m, pool, dialect, granted)
    BY <1>3, <1>4 DEF Tells, Handshaken
  <2>2. pool.protocol = dialect /\ m.family = dialect
    BY <1>3, <1>5 DEF Standing, Sent, Keeps
  <2>3. m.mode = SubmitMode(dialect)
    BY <1>3, <1>5 DEF Sent, Asked
  <2> QED
    BY <1>1, <1>4, <1>5, <2>1, <2>2, <2>3 DEF Facing
<1>7. CASE ~pool'.socket
  <2>1. IInv'
    BY ReadStep
  <2>2. pool' = Cleared(pool)'
    BY <1>7, <2>1 DEF IInv, TypeOK
  <2>3. pool'.requests = {} /\ pool'.pending = {}
    BY <2>2 DEF Cleared
  <2>4. Tells(pool', <<>>, dialect', FALSE, NoJob)
    BY <2>3, NothingTold
  <2> QED
    BY <1>2, <1>7, <2>4 DEF JInv
<1>8. CASE pool'.socket
  <2>1. pool_message(pool, m) # Cleared(pool)
    BY <1>2, <1>8 DEF Cleared
  <2>2. Handshaken(pool, wire, dialect, granted) /\ Following(pool, wire, dialect, granted, latest)
    BY <1>3 DEF Tells
  <2>l. latest # Undecoded
    BY SessionAssumption DEF IInv, TypeOK
  <2>3. m.what \in {"login", "subscribe", "authorize", "work", "share", "notify"}
    BY <1>4 DEF Messages
  <2>4. /\ Handshaken(pool_message(pool, m), Tail(wire), dialect, granted)
        /\ Following(pool_message(pool, m), Tail(wire), dialect, granted, latest)
    <3>1. CASE m.what \in {"share", "notify", "work"}
      BY <1>1, <1>6, <2>1, <2>2, <2>l, <3>1, UndecidedRead
    <3>2. CASE m.what = "subscribe"
      BY <1>1, <1>6, <2>2, <3>2, SubscriptionRead
    <3>3. CASE m.what \in {"login", "authorize"}
      <4>1. Decides(m)
        BY <3>3 DEF Decides
      <4> QED
        BY <1>1, <1>6, <2>1, <2>2, <2>l, <4>1, DecisionRead
    <3> QED
      BY <2>3, <3>1, <3>2, <3>3
  <2>5. granted' = granted /\ latest' = latest /\ wire' = Tail(wire)
    BY <1>1, <1>2, <1>8
  <2>6. Tells(pool', wire', dialect', granted', latest')
    BY <1>2, <1>8, <2>4, <2>5 DEF Tells
  <2> QED
    BY <2>6 DEF JInv
<1> QED
  BY <1>7, <1>8

\* Every step keeps the invariant.
LEMMA JobsInductive == IInv /\ JInv /\ [Next]_vars => JInv'
<1> SUFFICES ASSUME IInv, JInv, [Next]_vars PROVE JInv'
  OBVIOUS
<1>1. CASE PoolStep
  <2>1. CASE \E r \in pool.requests, ok \in BOOLEAN, job \in Announced \cup {NoJob},
                family \in Families \cup {dialect}, again \in BOOLEAN :
                   Answer(r, ok, job, family, again)
    BY <2>1, AnswerTells
  <2>2. CASE \E job \in Announced, family \in Families \cup {dialect},
                generic \in BOOLEAN : Announce(job, family, generic)
    BY <2>2, AnnounceTells
  <2> QED
    BY <1>1, <2>1, <2>2 DEF PoolStep
<1>2. CASE Disconnect
  <2>1. pool' = Cleared(pool) /\ wire' = <<>> /\ granted' = FALSE /\ latest' = NoJob
    BY <1>2 DEF Disconnect
  <2> QED
    BY <2>1, ClosedTells
<1>3. CASE BeginDrain \/ waitForPendingShares \/ DrainDeadline \/ UNCHANGED vars
  <2>1. UNCHANGED <<dialect, pool, wire, repeats, granted, latest>>
    BY <1>3 DEF BeginDrain, waitForPendingShares, DrainDeadline, vars, poolSide
  <2> QED
    BY <2>1 DEF JInv
<1> QED
  BY <1>1, <1>2, <1>3, ConnectTells, ResultTells, ReadTells DEF Next

-----------------------------------------------------------------------------
(* The theorems.                                                           *)

\* What the pool has decided and announced, what of it is in the stream and
\* what the session has read agree in every reachable state.
THEOREM JobsInvariance == Spec => [](IInv /\ JInv)
<1>1. Init => JInv
  BY InitTells
<1>2. IInv /\ JInv /\ [Next]_vars => JInv'
  BY JobsInductive
<1> QED
  BY <1>1, <1>2, Invariance, PTL DEF Spec

\* A session that keeps the protocol of its handshake mines the job its pool
\* announced last, once its login is accepted and no job is left to read: no
\* dialect loses a job that JobAnnouncement keeps while authorizing, that comes
\* with the answer to an object login, that waits behind the decision or that
\* answers ctxc_getWork, in whatever order the pool answers and announces, and
\* with any announcements and getWork answers that do not decode in between.
THEOREM LatestJobIsHeld == Spec /\ Keeps(dialect) => []LatestJobHeld
<1>1. IInv /\ JInv /\ Keeps(dialect) => LatestJobHeld
  <2> SUFFICES ASSUME IInv, JInv, Keeps(dialect), repeats = 0, pool.logged_in,
                      latest # NoJob, \A i \in DOMAIN wire : wire[i].job \in {NoJob, Undecoded}
               PROVE  pool.last_job.job = latest
    BY DEF LatestJobHeld
  <2>1. granted
    BY DEF IInv, Standing
  <2>2. Jobless(wire) => Holding(pool, latest)
    BY <2>1 DEF JInv, Tells, Following
  <2> QED
    BY <2>2 DEF Jobless, Holding, Real
<1> QED
  BY <1>1, JobsInvariance, KeepsStays, PTL DEF Spec
=============================================================================
